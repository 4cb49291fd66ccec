----------------------------- MODULE Schedules ------------------------------
(***************************************************************************)
(* A scheduler of either class at work.  Of the CFQ class only the way of  *)
(* the answers, which both share: its commands are checked with            *)
(* ScheduleCFQ.                                                            *)
(***************************************************************************)
EXTENDS ScheduleBuffered

CONSTANT MaxCFQAnswers   \* bound: MaxAnswers in the CFQ class

VARIABLE class

CFQ == INSTANCE ScheduleCFQ WITH
  Selectors <- {}, MaxCommands <- 0, MaxAnswers <- MaxCFQAnswers

schedulesVars == <<bufferedVars, class>>

SchedulesInit == BufferedInit /\ class \in {"cfq", "buffered"}

SchedulesNext ==
  \/ class = "cfq" /\ CFQ!Next /\ UNCHANGED <<class, sending>>
  \/ class = "buffered" /\ BufferedNext /\ UNCHANGED class

SchedulesSpec == SchedulesInit /\ [][SchedulesNext]_schedulesVars

-----------------------------------------------------------------------------
(* The Buffered class keeps the promise of CommandQueue with one try: a    *)
(* command is carried out once at most, in its turn, and never after a     *)
(* later one, although it leaves its queue before it is sent.              *)
KeepsPromise == Promised!CommandQueueSpec
=============================================================================
