---------------------------- MODULE CommandQueue ----------------------------
(***************************************************************************)
(* What a scheduler promises of the commands for each slave: they queue in *)
(* the order of the selects that sent them and only the first is tried;    *)
(* when it succeeds it leaves, when it fails it may stay for another try,  *)
(* Tries in all.  A slave may have obeyed a try that failed.               *)
(***************************************************************************)
EXTENDS Naturals, Sequences

CONSTANTS Slaves, Tries

VARIABLES
  queue,     \* per slave: the commands, by number, that are not settled
  tries,     \* per slave: how often the first of them has failed
  accepted,  \* per slave: how many commands there have been
  done,      \* per slave: the commands as the slave carried them out
  givenUp    \* per slave: those that left without success

promise == <<queue, tries, accepted, done, givenUp>>

CommandQueueInit ==
  /\ queue = [s \in Slaves |-> << >>] /\ tries = [s \in Slaves |-> 0]
  /\ accepted = [s \in Slaves |-> 0] /\ done = [s \in Slaves |-> << >>]
  /\ givenUp = [s \in Slaves |-> {}]

Accept(s) ==
  /\ accepted' = [accepted EXCEPT ![s] = @ + 1]
  /\ queue' = [queue EXCEPT ![s] = Append(@, accepted'[s])]
  /\ UNCHANGED <<tries, done, givenUp>>

Obey(s) == done' = [done EXCEPT ![s] = Append(@, Head(queue[s]))]

LeaveQueue(s) ==
  queue' = [queue EXCEPT ![s] = Tail(@)] /\ tries' = [tries EXCEPT ![s] = 0]

Succeed(s) == queue[s] # << >> /\ Obey(s) /\ LeaveQueue(s) /\ UNCHANGED <<accepted, givenUp>>

Fail(s) ==
  /\ queue[s] # << >>
  /\ Obey(s) \/ UNCHANGED done
  /\ \/ /\ tries[s] + 1 < Tries
        /\ tries' = [tries EXCEPT ![s] = @ + 1] /\ UNCHANGED <<queue, givenUp>>
     \/ LeaveQueue(s) /\ givenUp' = [givenUp EXCEPT ![s] = @ \cup {Head(queue[s])}]
  /\ UNCHANGED accepted

CommandQueueSpec ==
  CommandQueueInit /\ [][\E s \in Slaves : Accept(s) \/ Succeed(s) \/ Fail(s)]_promise
=============================================================================
