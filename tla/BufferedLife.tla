--------------------------- MODULE BufferedLife ----------------------------
(***************************************************************************)
(* The life of an OcemProtocolBuffered.  start sleeps 10 ms and looks at   *)
(* nothing; stop always joins; the thread walks the map itself, so         *)
(* unRegisterSlave stops the thread before it deletes and starts another   *)
(* if slaves are left.                                                     *)
(***************************************************************************)
EXTENDS SchedulerLife

(* The constructor leaves run as the memory was. *)
BufferedInit == run \in BOOLEAN

Called == pc = "idle" /\ initialized

Walking == {"write", "select", "endless", "read", "poll"}

(* A new slave comes before or after where a thread is in its pass. *)
RegisterSlave(s) ==
  /\ Called /\ ~locked
  /\ registered' = registered \cup {s}
  /\ \E ahead \in SUBSET {w \in Workers : at[w] \in Walking} :
       todo' = [w \in Workers |-> IF w \in ahead /\ s \notin registered
                                  THEN todo[w] \cup {s} ELSE todo[w]]
  /\ UNCHANGED <<run, rpid, initialized, locked, control, at, cur, dangling, lost, overtaken>>

(* A start while a thread runs makes two, of which stop will know one.     *)
Start ==
  /\ Called
  /\ Create /\ Enter("starting", "start")
  /\ lost' = lost \cup Alive
  /\ UNCHANGED <<run, initialized, registered, locked, arg, todo, cur, dangling, overtaken>>

Started ==
  /\ pc = "starting"
  /\ IF op = "start" THEN Return ELSE Enter("unlock", op) /\ UNCHANGED arg
  /\ UNCHANGED <<object, worker, lost, overtaken>>

Stop ==
  /\ Called
  /\ run' = FALSE /\ Enter("join", "stop")
  /\ UNCHANGED <<rpid, initialized, registered, locked, arg, worker, lost, overtaken>>

Joined ==
  /\ Joining /\ JoinEnds
  /\ overtaken' = FALSE
  /\ IF pc = "joinLocked" THEN Enter("delete", op) /\ UNCHANGED arg
     ELSE IF op = "deinit" THEN Enter("all", op) /\ UNCHANGED arg ELSE Return
  /\ UNCHANGED <<object, worker, lost>>

(* unRegisterSlave, called as such or by unRegisterAll: first it stops. *)
UnRegisterSlave(s, o) ==
  /\ ~locked /\ s \in registered
  /\ locked' = TRUE /\ run' = FALSE
  /\ Enter("joinLocked", o) /\ arg' = s
  /\ UNCHANGED <<rpid, initialized, registered, worker, lost, overtaken>>

Holders(s) == {w \in Workers : s \in todo[w]}

DeleteQueues ==
  /\ pc = "delete"
  /\ Delete(arg, Holders(arg), op)
  /\ IF registered' # {} THEN Create /\ Enter("starting", op)
                         ELSE UNCHANGED <<at, rpid>> /\ Enter("unlock", op)
  /\ UNCHANGED <<run, initialized, locked, arg, todo, cur, lost, overtaken>>

Unregister(s) == Called /\ UnRegisterSlave(s, "unregister")

(* deinit does not look whether there was an init. *)
Deinit ==
  /\ pc = "idle"
  /\ run' = FALSE /\ Enter("join", "deinit")
  /\ UNCHANGED <<rpid, initialized, registered, locked, arg, worker, lost, overtaken>>

UnRegisterAll ==
  /\ pc \in {"all", "more"}
  /\ \E s \in registered : UnRegisterSlave(s, "deinit")

-----------------------------------------------------------------------------
TopOfLoop(w) ==
  /\ at[w] = "top"
  /\ IF run THEN Goto(w, "write") /\ todo' = [todo EXCEPT ![w] = registered] /\ UNCHANGED lost
            ELSE Ends(w) /\ UNCHANGED todo
  /\ UNCHANGED <<object, control, cur, dangling, overtaken>>

(* The thread passes on the timeout of the client's command: with 0 it     *)
(* waits for the slave's answer for as long as it takes.                   *)
Waits(w, s) ==
  /\ at[w] = "write" /\ Goto(w, "endless")
  /\ cur' = [cur EXCEPT ![w] = s] /\ UNCHANGED todo

(* Every slave is polled; those with a command are sent it before. *)
Visit(w, s) ==
  /\ at[w] \in {"write", "read"} /\ s \in todo[w]
  /\ (at[w] = "write" /\ PassesOver(w, s)) \/ TalksTo(w, s) \/ Waits(w, s)
  /\ UNCHANGED <<object, control, dangling, lost, overtaken>>

StartReads(w) ==
  /\ at[w] = "write" /\ todo[w] = {}
  /\ Goto(w, "read") /\ todo' = [todo EXCEPT ![w] = registered]
  /\ dangling' = [dangling EXCEPT ![w] = {}]
  /\ UNCHANGED <<object, control, cur, lost, overtaken>>

CycleOver(w) ==
  /\ at[w] = "read" /\ todo[w] = {}
  /\ Goto(w, "top") /\ dangling' = [dangling EXCEPT ![w] = {}]
  /\ UNCHANGED <<object, control, todo, cur, lost, overtaken>>

-----------------------------------------------------------------------------
BufferedCalls ==
  \/ InitObject
  \/ \E s \in Slaves : RegisterSlave(s) \/ Unregister(s)
  \/ Start \/ Stop \/ Deinit

BufferedReturns == Started \/ Joined \/ UnRegisterAll \/ DeleteQueues \/ Unlock \/ Deinited

BufferedWorker(w) ==
  \/ Begins(w) \/ TransactionOver(w) \/ TopOfLoop(w) \/ StartReads(w) \/ CycleOver(w)
  \/ \E s \in Slaves : Visit(w, s)

BufferedStep == BufferedCalls \/ BufferedReturns \/ \E w \in Workers : BufferedWorker(w)
=============================================================================
