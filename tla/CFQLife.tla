------------------------------ MODULE CFQLife ------------------------------
(***************************************************************************)
(* The life of an OcemProtocolScheduleCFQ.  start waits ten seconds for    *)
(* the thread to set run; the thread copies the map under mutex_slaves and *)
(* walks its copy without; unRegisterSlave of the last slave calls stop    *)
(* with the mutex held.                                                    *)
(***************************************************************************)
EXTENDS SchedulerLife

VARIABLES
  list,        \* per worker: its copy of the map
  started      \* start returned 0, and nothing has stopped it since

cfq == <<list, started>>

CFQTypeOK == list \in [Workers -> SUBSET Slaves] /\ started \in BOOLEAN
CFQInit   == run = FALSE /\ list = [w \in Workers |-> {}] /\ started = FALSE

Called == pc = "idle" /\ initialized

RegisterSlave(s) ==
  /\ Called /\ ~locked
  /\ registered' = registered \cup {s}
  /\ UNCHANGED <<run, rpid, initialized, locked, control, worker, lost, overtaken, cfq>>

(* Mutants of Start: without the test of run, and without the wait. *)
StartUntested ==
  /\ Called
  /\ Create /\ Enter("starting", "start")
  /\ UNCHANGED <<run, initialized, registered, locked, arg, todo, cur, dangling, lost,
                 overtaken, cfq>>

StartUnwaited ==
  /\ Called
  /\ IF run THEN UNCHANGED <<at, rpid>> ELSE Create
  /\ started' = TRUE
  /\ UNCHANGED <<run, initialized, registered, locked, control, todo, cur, dangling, lost,
                 overtaken, list>>

Start ==
  /\ Called
  /\ IF run THEN started' = TRUE /\ UNCHANGED <<at, rpid, pc, op>>
            ELSE Create /\ Enter("starting", "start") /\ UNCHANGED started
  /\ UNCHANGED <<run, initialized, registered, locked, arg, todo, cur, dangling, lost,
                 overtaken, list>>

StartSucceeds ==
  /\ pc = "starting" /\ run
  /\ started' = TRUE /\ Return
  /\ UNCHANGED <<object, worker, lost, overtaken, list>>

(* start returns -1, but the thread it created will run one day. *)
StartGivesUp ==
  /\ pc = "starting"
  /\ lost' = lost \cup (Alive \cap {rpid})
  /\ Return
  /\ UNCHANGED <<object, worker, overtaken, cfq>>

(* Mutant of StopThen: the thread is not told. *)
StopThenUntold(l, m, o) ==
  /\ IF run THEN Enter(l, o) ELSE Enter(m, IF m = "idle" THEN "none" ELSE o)
  /\ started' = FALSE
  /\ UNCHANGED run

(* stop: it waits at l for a thread that runs, and goes on at m. *)
StopThen(l, m, o) ==
  /\ IF run THEN run' = FALSE /\ Enter(l, o)
            ELSE UNCHANGED run /\ Enter(m, IF m = "idle" THEN "none" ELSE o)
  /\ started' = FALSE

Stop ==
  /\ Called
  /\ StopThen("join", "idle", "stop")
  /\ UNCHANGED <<rpid, initialized, registered, locked, arg, worker, lost, overtaken, list>>

Joined ==
  /\ Joining /\ JoinEnds
  /\ overtaken' = FALSE
  /\ IF pc = "joinLocked" THEN Enter("unlock", op) /\ UNCHANGED arg
     ELSE IF op = "deinit" THEN Enter("all", op) /\ UNCHANGED arg ELSE Return
  /\ UNCHANGED <<object, worker, lost, cfq>>

(* Mutant of UnRegisterSlave: of a slave it cannot find it keeps the lock. *)
UnRegisterSlaveKeepsLock(s, o, back) ==
  /\ ~locked /\ s \notin registered
  /\ locked' = TRUE
  /\ UNCHANGED <<run, rpid, initialized, registered, control, worker, lost, overtaken, cfq>>

(* unRegisterSlave, called as such or (from "all", "more") by unRegisterAll.*)
UnRegisterSlave(s, o, back) ==
  /\ ~locked
  /\ IF s \notin registered
     THEN UNCHANGED <<object, pc, op, dangling, started>>
     ELSE /\ Delete(s, {w \in Workers : s \in list[w]}, o)
          /\ IF registered' = {}
             THEN StopThen("joinLocked", back, o) /\ locked' = (pc' = "joinLocked")
             ELSE Enter(back, IF back = "idle" THEN "none" ELSE o)
                  /\ UNCHANGED <<run, locked, started>>
          /\ UNCHANGED <<rpid, initialized>>
  /\ UNCHANGED <<arg, at, todo, cur, lost, overtaken, list>>

Unregister(s) == Called /\ UnRegisterSlave(s, "unregister", "idle")

(* Mutant of Deinit: unRegisterAll comes first, and stops the thread.      *)
DeinitUnregistersFirst ==
  /\ Called
  /\ Enter("all", "deinit")
  /\ UNCHANGED <<object, arg, worker, lost, overtaken, cfq>>

(* deinit does nothing unless there was an init. *)
Deinit ==
  /\ Called
  /\ StopThen("join", "all", "deinit")
  /\ UNCHANGED <<rpid, initialized, registered, locked, arg, worker, lost, overtaken, list>>

UnRegisterAll ==
  /\ pc \in {"all", "more"}
  /\ \E s \in registered : UnRegisterSlave(s, "deinit", "more")

-----------------------------------------------------------------------------
(* The thread unlocks mutex_slaves when it ends, although it does not hold *)
(* it: it takes it from whoever does.                                      *)
TopOfLoop(w) ==
  /\ at[w] = "top"
  /\ IF run THEN Goto(w, "lock") /\ UNCHANGED <<locked, lost>>
            ELSE Ends(w) /\ locked' = FALSE
  /\ UNCHANGED <<run, rpid, initialized, registered, control, todo, cur, dangling,
                 overtaken, cfq>>

CopyMap(w) ==
  /\ at[w] = "lock" /\ ~locked
  /\ Goto(w, "write")
  /\ list' = [list EXCEPT ![w] = registered] /\ todo' = [todo EXCEPT ![w] = registered]
  /\ UNCHANGED <<object, control, cur, dangling, lost, overtaken, started>>

Visit(w, s) ==
  /\ at[w] \in {"write", "read"} /\ run /\ s \in todo[w]
  /\ PassesOver(w, s) \/ TalksTo(w, s)
  /\ UNCHANGED <<object, control, dangling, lost, overtaken, cfq>>

(* The sort before the second pass looks at every queue again. *)
StartReads(w) ==
  /\ at[w] = "write" /\ (todo[w] = {} \/ ~run)
  /\ Goto(w, "read") /\ todo' = [todo EXCEPT ![w] = list[w]]
  /\ UNCHANGED <<object, control, cur, dangling, lost, overtaken, cfq>>

CycleOver(w) ==
  /\ at[w] = "read" /\ (todo[w] = {} \/ ~run)
  /\ Goto(w, "top")
  /\ todo' = [todo EXCEPT ![w] = {}] /\ list' = [list EXCEPT ![w] = {}]
  /\ dangling' = [dangling EXCEPT ![w] = {}]
  /\ UNCHANGED <<object, control, cur, lost, overtaken, started>>

-----------------------------------------------------------------------------
CFQCalls ==
  \/ InitObject /\ UNCHANGED cfq
  \/ \E s \in Slaves : RegisterSlave(s) \/ Unregister(s)
  \/ Start \/ Stop \/ Deinit

CFQReturns ==
  \/ StartSucceeds \/ StartGivesUp \/ Joined \/ UnRegisterAll
  \/ (Unlock \/ Deinited) /\ UNCHANGED cfq

CFQWorker(w) ==
  \/ (Begins(w) \/ TransactionOver(w)) /\ UNCHANGED cfq
  \/ TopOfLoop(w) \/ CopyMap(w) \/ StartReads(w) \/ CycleOver(w)
  \/ \E s \in Slaves : Visit(w, s)

CFQStep == CFQCalls \/ CFQReturns \/ \E w \in Workers : CFQWorker(w)
=============================================================================
