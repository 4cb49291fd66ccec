--------------------------- MODULE SchedulerLife ---------------------------
(***************************************************************************)
(* What the lives of OcemProtocolScheduleCFQ and OcemProtocolBuffered have *)
(* in common.  One task of the program controls the object: it calls init, *)
(* registerSlave, unRegisterSlave, start, stop and deinit one at a time,   *)
(* in any order.  start creates a schedule thread, a worker, which runs    *)
(* while run is set; stop clears run and joins.  The map of queues changes *)
(* under a mutex.  What the queues hold is the matter of ScheduleCFQ, and  *)
(* OcemProtocol's own init and deinit that of SharedChannel.               *)
(***************************************************************************)
EXTENDS FiniteSets

CONSTANTS
  Slaves,      \* the slaves that may be registered
  Workers,     \* bound: as many schedule threads live at a time
  NoWorker     \* what rpid is before the first pthread_create

(* The locals of a call that is over and of an idle worker name a slave.   *)
ASSUME LifeAssumption == NoWorker \notin Workers /\ Slaves # {}

VARIABLES
  run, rpid, initialized,
  registered,  \* the keys of slave_queue
  locked,      \* the controlling task holds the mutex from one step to the next
  pc, op, arg, \* where it is, in which call, for which slave
  at,          \* per worker: where it is in runSchedule
  todo, cur,   \* per worker: the slaves left in its pass, the one it talks to
  dangling,    \* per worker: the calls that deleted queues it still holds
  lost,        \* the workers whose start gave up on them, or that a start overtook
  overtaken    \* a worker has set run since the present join began

object  == <<run, rpid, initialized, registered, locked>>
control == <<pc, op, arg>>
worker  == <<at, todo, cur, dangling>>
life    == <<object, control, worker, lost, overtaken>>

SomeSlave == CHOOSE s \in Slaves : TRUE
Alive     == {w \in Workers : at[w] # "none"}
Joining   == pc \in {"join", "joinLocked"}

(* Places of runSchedule: "endless" is a select whose command may wait for *)
(* the slave for ever, "select" one that has a timeout.                    *)
Place == {"none", "created", "top", "lock", "write", "select", "endless", "read", "poll"}

(* Types; and the mutex is held only inside unRegisterSlave.               *)
LifeTypeOK ==
  /\ run \in BOOLEAN /\ rpid \in Workers \cup {NoWorker} /\ initialized \in BOOLEAN
  /\ registered \subseteq Slaves /\ locked \in BOOLEAN
  /\ pc \in {"idle", "starting", "join", "joinLocked", "delete", "unlock", "all", "more"}
  /\ op \in {"none", "start", "stop", "unregister", "deinit"} /\ arg \in Slaves
  /\ at \in [Workers -> Place]
  /\ todo \in [Workers -> SUBSET Slaves] /\ cur \in [Workers -> Slaves]
  /\ dangling \in [Workers -> SUBSET {"unregister", "deinit"}]
  /\ lost \subseteq Alive /\ overtaken \in BOOLEAN
  /\ locked => pc \in {"joinLocked", "delete", "starting", "unlock"}

LifeInit ==
  /\ rpid = NoWorker /\ initialized = FALSE /\ registered = {} /\ locked = FALSE
  /\ pc = "idle" /\ op = "none" /\ arg = SomeSlave
  /\ at = [w \in Workers |-> "none"] /\ todo = [w \in Workers |-> {}]
  /\ cur = [w \in Workers |-> SomeSlave] /\ dangling = [w \in Workers |-> {}]
  /\ lost = {} /\ overtaken = FALSE

-----------------------------------------------------------------------------
(* The controlling task. *)

Enter(l, o) == pc' = l /\ op' = o
Return == pc' = "idle" /\ op' = "none" /\ arg' = SomeSlave

(* init; what OcemProtocol::init returned makes no difference to it. *)
InitObject ==
  /\ pc = "idle" /\ ~initialized
  /\ initialized' = TRUE
  /\ UNCHANGED <<run, rpid, registered, locked, control, worker, lost, overtaken>>

(* pthread_create, whose failure is not noticed: it is a positive number.  *)
Create ==
  \/ /\ Alive # Workers
     /\ rpid' = CHOOSE w \in Workers : w \notin Alive
     /\ at' = [at EXCEPT ![rpid'] = "created"]
  \/ UNCHANGED <<at, rpid>>

(* pthread_join returns when the thread is over, and at once when it has   *)
(* been joined before; of an rpid never set anything may be expected.      *)
JoinEnds == rpid = NoWorker \/ rpid \notin Alive

(* The call o deletes two queues, under whoever holds pointers to them.    *)
Delete(s, holders, o) ==
  /\ registered' = registered \ {s}
  /\ dangling' = [w \in Workers |-> IF w \in holders THEN dangling[w] \cup {o}
                                                     ELSE dangling[w]]

(* unRegisterSlave is over. *)
Unlock ==
  /\ pc = "unlock"
  /\ locked' = FALSE
  /\ IF op = "deinit" THEN Enter("more", op) /\ arg' = SomeSlave ELSE Return
  /\ UNCHANGED <<run, rpid, initialized, registered, worker, lost, overtaken>>

(* unRegisterAll is over, and deinit with it.  After the first slave its   *)
(* iterator stands on an erased element and may miss the others.           *)
Deinited ==
  /\ pc = "more" \/ (pc = "all" /\ registered = {})
  /\ initialized' = FALSE
  /\ Return
  /\ UNCHANGED <<run, rpid, registered, locked, worker, lost, overtaken>>

-----------------------------------------------------------------------------
(* The workers. *)

Goto(w, l) == at' = [at EXCEPT ![w] = l]

(* The thread sets run itself, whatever was decided since it was created.  *)
Begins(w) ==
  /\ at[w] = "created"
  /\ run' = TRUE /\ Goto(w, "top")
  /\ overtaken' = (overtaken \/ Joining)
  /\ UNCHANGED <<rpid, initialized, registered, locked, control, todo, cur, dangling, lost>>

Ends(w) == Goto(w, "none") /\ lost' = lost \ {w}

(* OcemProtocol::select or poll returned: the queue gets its result. *)
TransactionOver(w) ==
  /\ at[w] \in {"select", "endless", "poll"}
  /\ Goto(w, IF at[w] = "poll" THEN "read" ELSE "write")
  /\ todo' = [todo EXCEPT ![w] = @ \ {cur[w]}] /\ cur' = [cur EXCEPT ![w] = SomeSlave]
  /\ UNCHANGED <<object, control, dangling, lost, overtaken>>

(* The queue of s has nothing to do, or a transaction with s begins. *)
PassesOver(w, s) ==
  todo' = [todo EXCEPT ![w] = @ \ {s}] /\ UNCHANGED <<at, cur>>

TalksTo(w, s) ==
  /\ Goto(w, IF at[w] = "write" THEN "select" ELSE "poll")
  /\ cur' = [cur EXCEPT ![w] = s] /\ UNCHANGED todo
=============================================================================
