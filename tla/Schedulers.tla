----------------------------- MODULE Schedulers -----------------------------
(***************************************************************************)
(* The life of a scheduler, of the class the program chose.                *)
(***************************************************************************)
EXTENDS SchedulerLife

VARIABLES class, list, started

C == INSTANCE CFQLife
B == INSTANCE BufferedLife

vars == <<class, life, list, started>>

TypeOK == class \in {"cfq", "buffered"} /\ LifeTypeOK /\ C!CFQTypeOK

Init ==
  /\ LifeInit /\ class \in {"cfq", "buffered"}
  /\ IF class = "cfq" THEN C!CFQInit
     ELSE B!BufferedInit /\ list = [w \in Workers |-> {}] /\ started = FALSE

CFQ(A)      == class = "cfq" /\ A /\ UNCHANGED class
Buffered(A) == class = "buffered" /\ A /\ UNCHANGED <<class, list, started>>

Next == CFQ(C!CFQStep) \/ Buffered(B!BufferedStep)

Spec == Init /\ [][Next]_vars

(* The kernel schedules the workers and a call under way; the sleeps of    *)
(* start end, and so do transactions with a timeout: all of the CFQ thread *)
(* and the polls and most selects of the Buffered one.  Nothing is assumed *)
(* of a select that waits for a silent slave without a timeout, nor of the *)
(* join of a thread that was never created.                                *)
Fairness ==
  /\ \A w \in Workers :
       /\ WF_vars(CFQ(C!CFQWorker(w)))
       /\ WF_vars(at[w] # "endless" /\ Buffered(B!BufferedWorker(w)))
  /\ WF_vars(rpid # NoWorker /\ CFQ(C!CFQReturns))
  /\ WF_vars(rpid # NoWorker /\ Buffered(B!BufferedReturns))

FairSpec == Spec /\ Fairness

-----------------------------------------------------------------------------
(* A schedule thread is the one stop would join, and there is none once    *)
(* deinit is over: so no two of them carry out transactions on one line.   *)
(* Excepted are a thread whose start gave up on it and one that was there  *)
(* when another start came (Buffered); and when deinit missed slaves, the  *)
(* thread that unRegisterSlave had started again for them.                 *)
OneThread ==
  /\ Alive \ lost \subseteq {rpid}
  /\ (pc = "idle" /\ ~initialized /\ (class = "cfq" \/ registered = {})) => Alive \subseteq lost

(* When start of the CFQ scheduler has returned 0 the clients' calls go to *)
(* the queues until somebody stops it.                                     *)
StartedRuns == started => run

(* A thread walks over deleted queues only in the CFQ scheduler, and only  *)
(* after an unRegisterSlave: never deleted by deinit, which stops first.   *)
QueuesOutlive ==
  \A w \in Workers \ lost :
    dangling[w] \subseteq IF class = "cfq" THEN {"unregister"} ELSE {}

(* stop, and whoever calls it, returns, unless a thread created before has *)
(* set run only now, or the thread sends a command without a timeout to a  *)
(* slave that may be silent (Buffered), or unRegisterSlave calls stop with *)
(* the mutex held that the thread wants (CFQ).                             *)
StopReturns ==
  Joining ~> \/ ~Joining \/ overtaken \/ rpid = NoWorker
             \/ at[rpid] = "endless"
             \/ pc = "joinLocked" /\ at[rpid] = "lock"
=============================================================================
