-------------------------- MODULE ScheduleBuffered --------------------------
(***************************************************************************)
(* OcemProtocolBuffered while its schedule thread runs and its slaves stay *)
(* registered.  The clients' select and poll are those of                  *)
(* OcemProtocolScheduleCFQ, line by line, except that front and back copy  *)
(* what they find and leave the copy empty in an empty queue.  The thread  *)
(* takes a command off its queue before it sends it, and pauses for        *)
(* nothing.                                                                *)
(***************************************************************************)
EXTENDS ScheduleCFQ

VARIABLE sending   \* the command the thread has taken off a queue, if any

bufferedVars == <<vars, sending>>

BufferedInit == Init /\ sending = << >>

-----------------------------------------------------------------------------
(* The copy of the last command stays empty in a queue that was emptied    *)
(* since its size was read, and is not the new one.                        *)
SelectComparesLast(c) ==
  LET s == scall[c].slave
  IN  /\ spc[c] = "back"
      /\ IF wq[s] # << >> /\ wq[s][Len(wq[s])].cmd = scall[c].cmd
         THEN SelectReturnsNow(c)
         ELSE /\ spc' = [spc EXCEPT ![c] = IF scall[c].size >= MAX_WRITE_QUEUE THEN "full"
                                                                              ELSE "push"]
              /\ UNCHANGED scall
      /\ UNCHANGED <<queues, scheduler, pollers, history, sending>>

(* An empty copy makes poll return 0, after the pop. *)
PollCopiesFront(p) ==
  LET s == pcall[p].slave
  IN  /\ ppc[p] = "front"
      /\ pcall' = [pcall EXCEPT ![p].ans = IF rq[s] = << >> THEN Garbage ELSE Head(rq[s])]
      /\ ppc' = [ppc EXCEPT ![p] = "pop"]
      /\ UNCHANGED <<queues, scheduler, selectors, crossed, history, sending>>

-----------------------------------------------------------------------------
(* The thread. *)

(* Mutant of TakeCommand: the command is sent from the queue and left in   *)
(* it, as if it were popped on success only.                               *)
TakeCommandKept(s) ==
  /\ phase = "write" /\ s \in todo /\ cur' = s
  /\ IF wq[s] = << >> THEN phase' = "signal" /\ UNCHANGED sending
     ELSE phase' = "selecting" /\ sending' = <<Head(wq[s])>>
  /\ UNCHANGED <<queues, todo, selectors, pollers, history>>

(* front and pop: nobody else takes from the queue. *)
TakeCommand(s) ==
  /\ phase = "write" /\ s \in todo /\ cur' = s
  /\ IF wq[s] = << >> THEN phase' = "signal" /\ UNCHANGED <<wq, sending>>
     ELSE /\ phase' = "selecting"
          /\ sending' = <<Head(wq[s])>> /\ wq' = [wq EXCEPT ![s] = Tail(@)]
  /\ UNCHANGED <<rq, wpause, rpause, todo, selectors, pollers, history>>

Sent(obeyed) ==
  /\ phase = "selecting" /\ phase' = "signal" /\ sending' = << >>
  /\ executed' = IF obeyed THEN [executed EXCEPT ![cur] = Append(@, sending[1].id)]
                           ELSE executed
  /\ UNCHANGED <<queues, todo, cur, selectors, pollers, pushed, received, taken>>

SendSucceeds == Sent(TRUE) /\ UNCHANGED dropped

(* A command that failed is gone, obeyed or not. *)
SendFails ==
  /\ \E obeyed \in BOOLEAN : Sent(obeyed)
  /\ dropped' = [dropped EXCEPT ![cur] = @ \cup {sending[1].id}]

PollSlave(s) ==
  /\ phase = "read" /\ s \in todo
  /\ phase' = "polling" /\ cur' = s
  /\ UNCHANGED <<queues, todo, selectors, pollers, history, sending>>

(* No traffic and an error are the same to it. *)
PollGetsNothing ==
  /\ phase = "polling"
  /\ VisitOver
  /\ UNCHANGED <<queues, pollers, history, sending>>

-----------------------------------------------------------------------------
(* select: the rest of it is that of ScheduleCFQ. *)
SelectSteps(c) ==
  \/ SelectComparesLast(c)
  \/ (StartSelect(c) \/ SelectWaits(c) \/ SelectPushes(c)) /\ UNCHANGED sending

(* poll, likewise. *)
PollSteps(p) ==
  \/ PollCopiesFront(p)
  \/ /\ StartPoll(p) \/ PollWaits(p) \/ PollTimesOut(p) \/ PollLooksAgain(p) \/ PollPop(p)
     /\ UNCHANGED sending

(* So is what the thread does when there is room or an answer. *)
QueueSteps ==
  /\ SignalWriter \/ StartReads \/ PollAnswered \/ PollCrcFailed \/ NextCycle
  /\ UNCHANGED sending

BufferedNext ==
  \/ \E c \in Selectors : SelectSteps(c)
  \/ \E p \in Pollers : PollSteps(p)
  \/ \E s \in Slaves : TakeCommand(s) \/ PollSlave(s)
  \/ SendSucceeds \/ SendFails \/ PollGetsNothing \/ QueueSteps

BufferedSpec == BufferedInit /\ [][BufferedNext]_bufferedVars

-----------------------------------------------------------------------------
(* What is out of the queue but on its way counts as its first. *)
Unsettled(s) ==
  LET ids == [i \in DOMAIN wq[s] |-> wq[s][i].id]
  IN  IF sending # << >> /\ cur = s THEN <<sending[1].id>> \o ids ELSE ids

Promised == INSTANCE CommandQueue WITH
  Tries <- 1, queue <- [s \in Slaves |-> Unsettled(s)], tries <- [s \in Slaves |-> 0],
  accepted <- pushed, done <- executed, givenUp <- dropped
=============================================================================
