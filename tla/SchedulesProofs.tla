--------------------------- MODULE SchedulesProofs ---------------------------
(* Proofs about what the two schedulers have in common, the way of the     *)
(* answers, and about the commands of the Buffered one, for every number   *)
(* of slaves, clients, commands and answers.                               *)
EXTENDS Schedules, ScheduleCFQProofs

-----------------------------------------------------------------------------
(* What a step can do to the answers. *)

PollerPCs == {"idle", "empty", "wait", "again", "front", "pop"}

AnswerTyped ==
  /\ rq \in [Slaves -> Seq(Answer)] /\ received \in [Slaves -> Nat] /\ cur \in Slaves
  /\ taken \in [Slaves -> [Pollers -> Seq(Answer)]]
  /\ ppc \in [Pollers -> PollerPCs] /\ pcall \in [Pollers -> PollCall]
  /\ crossed \in [Slaves -> BOOLEAN]

Quiet == UNCHANGED <<rq, received, taken, ppc, pcall, crossed>>

Queues(z, good) ==
  /\ rq' = [rq EXCEPT ![z] = Append(rq[z], [n |-> received[z] + 1, good |-> good])]
  /\ received' = [received EXCEPT ![z] = received[z] + 1]
  /\ UNCHANGED ppc \/ \E p \in Pollers : ppc' = [ppc EXCEPT ![p] = "again"]
  /\ UNCHANGED <<taken, pcall, crossed>>

Moves(p) ==
  /\ \E r \in PollCall : pcall' = [pcall EXCEPT ![p] = r]
  /\ \E l \in {"idle", "empty", "wait", "again"} : ppc' = [ppc EXCEPT ![p] = l]
  /\ UNCHANGED <<rq, received, taken, crossed>>

Finds(p) ==
  /\ rq[pcall[p].slave] # << >>
  /\ ppc' = [ppc EXCEPT ![p] = "front"]
  /\ crossed' = [crossed EXCEPT ![pcall[p].slave] = @ \/ Taking(p, {"front", "pop"}) # {}]
  /\ UNCHANGED <<rq, received, taken, pcall>>

Copies(p) ==
  LET q == rq[pcall[p].slave]
  IN  /\ ppc[p] = "front" /\ ppc' = [ppc EXCEPT ![p] = "pop"]
      /\ \E a \in Answer :
           /\ pcall' = [pcall EXCEPT ![p] = [pcall[p] EXCEPT !.ans = a]]
           /\ \/ q # << >> /\ a = Head(q)
              \/ a = Garbage /\ (q = << >> \/ Taking(p, {"pop"}) # {})
      /\ UNCHANGED <<rq, received, taken, crossed>>

Pops(p) ==
  LET s == pcall[p].slave
  IN  /\ ppc[p] = "pop"
      /\ rq' = [rq EXCEPT ![s] = IF rq[s] = << >> THEN rq[s] ELSE Tail(rq[s])]
      /\ taken' = [taken EXCEPT ![s] = [taken[s] EXCEPT ![p] = Append(taken[s][p], pcall[p].ans)]]
      /\ ppc' = [ppc EXCEPT ![p] = "idle"] /\ pcall' = [pcall EXCEPT ![p] = NoPoll]
      /\ UNCHANGED <<received, crossed>>

AnswerNext ==
  \/ Quiet
  \/ \E z \in Slaves, good \in BOOLEAN : Queues(z, good)
  \/ \E p \in Pollers : Moves(p) \/ Finds(p) \/ Copies(p) \/ Pops(p)

(* The types hold at the start. *)
LEMMA AnswerInitTyped == Init => AnswerTyped
  BY TypedInit DEF Typed, TypeOK, AnswerTyped, PollCall, PollerPCs

(* A step of poll is one of AnswerNext, about the answers only. *)
LEMMA PollerAnswers ==
  ASSUME AnswerTyped, NEW p \in Pollers, PollerStep(p)
  PROVE  AnswerNext /\ cur' = cur
  <1>0. /\ pcall \in [Pollers -> PollCall] /\ pcall[p] \in PollCall /\ NoPoll \in PollCall
        /\ Garbage \in Answer
    BY LocalsTyped DEF AnswerTyped, Garbage, Answer
  <1>1. pcall[p].slave \in Slaves /\ rq[pcall[p].slave] \in Seq(Answer)
    BY <1>0 DEF AnswerTyped, PollCall
  <1>2. CASE StartPoll(p)
    <2>1. PICK s \in Slaves, timed \in BOOLEAN :
            /\ pcall' = [pcall EXCEPT ![p] = [slave |-> s, timed |-> timed, ans |-> Garbage]]
            /\ ppc' = [ppc EXCEPT ![p] = IF rq[s] = << >> THEN "empty" ELSE "again"]
      BY <1>2 DEF StartPoll
    <2>2. [slave |-> s, timed |-> timed, ans |-> Garbage] \in PollCall
      BY <1>0 DEF PollCall
    <2>3. \E l \in {"idle", "empty", "wait", "again"} : ppc' = [ppc EXCEPT ![p] = l]
      BY <2>1
    <2>4. UNCHANGED <<rq, received, taken, cur, crossed>>
      BY <1>2 DEF StartPoll, queues, history, scheduler
    <2> QED BY <2>1, <2>2, <2>3, <2>4 DEF AnswerNext, Moves
  <1>3. CASE PollWaits(p)
    <2>1. pcall' = [pcall EXCEPT ![p] = pcall[p]]
      BY <1>0, <1>3 DEF PollWaits
    <2>2. ppc' = [ppc EXCEPT ![p] = "wait"] /\ UNCHANGED <<rq, received, taken, cur, crossed>>
      BY <1>3 DEF PollWaits, queues, history, scheduler
    <2> QED BY <1>0, <2>1, <2>2 DEF AnswerNext, Moves
  <1>4. ASSUME PollReturnsNow(p), UNCHANGED <<rq, received, taken>> PROVE AnswerNext
    BY <1>0, <1>4 DEF PollReturnsNow, AnswerNext, Moves
  <1>5. CASE PollTimesOut(p)
    BY <1>4, <1>5 DEF PollTimesOut, queues, history, scheduler
  <1>6. CASE PollLooksAgain(p)
    <2>1. UNCHANGED <<rq, received, taken, cur>>
      BY <1>6 DEF PollLooksAgain, queues, history, scheduler
    <2>2. PollReturnsNow(p) \/ Finds(p)
      BY <1>6, <2>1 DEF PollLooksAgain, Finds
    <2> QED BY <1>4, <2>1, <2>2 DEF AnswerNext
  <1>7. CASE PollFront(p)
    <2> DEFINE q == rq[pcall[p].slave]
    <2>1. /\ ppc[p] = "front" /\ ppc' = [ppc EXCEPT ![p] = "pop"]
          /\ UNCHANGED <<rq, received, taken, cur, crossed>>
      BY <1>7 DEF PollFront, queues, history, scheduler
    <2>2. PICK a : /\ pcall' = [pcall EXCEPT ![p] = [pcall[p] EXCEPT !.ans = a]]
                   /\ \/ q # << >> /\ a = Head(q)
                      \/ a = Garbage /\ (q = << >> \/ Taking(p, {"pop"}) # {})
      BY <1>7 DEF PollFront
    <2>3. a \in Answer
      BY <1>0, <1>1, <2>2, HeadTailProperties
    <2> QED BY <2>1, <2>2, <2>3 DEF AnswerNext, Copies
  <1>8. CASE PollPop(p)
    <2>1. Pops(p) /\ cur' = cur
      BY <1>8 DEF PollPop, Pops, PollReturnsNow, scheduler
    <2> QED BY <2>1 DEF AnswerNext
  <1> QED BY <1>2, <1>3, <1>5, <1>6, <1>7, <1>8 DEF PollerStep

(* An answer that is queued is a step of AnswerNext. *)
LEMMA QueueAnswers ==
  ASSUME AnswerTyped, NEW good \in BOOLEAN, Queue(good),
         UNCHANGED ppc \/ \E p \in Pollers : ppc' = [ppc EXCEPT ![p] = "again"]
  PROVE  AnswerNext
  <1>1. cur \in Slaves
    BY DEF AnswerTyped
  <1>2. Queues(cur, good)
    BY DEF Queue, Queues
  <1> QED BY <1>1, <1>2 DEF AnswerNext

(* So is one that arrives, good or damaged. *)
LEMMA ArrivalAnswers ==
  ASSUME AnswerTyped, PollAnswered \/ PollCrcFailed
  PROVE  AnswerNext /\ cur' = cur
  <1>1. cur' = cur
    BY DEF PollAnswered, PollCrcFailed, VisitOver
  <1>2. \E good \in BOOLEAN : Queue(good)
    BY DEF PollAnswered, PollCrcFailed
  <1>3. UNCHANGED ppc \/ \E p \in Pollers : ppc' = [ppc EXCEPT ![p] = "again"]
    BY DEF PollAnswered, PollCrcFailed
  <1> QED BY <1>1, <1>2, <1>3, QueueAnswers

(* All steps of the CFQ scheduler are, or leave the answers alone. *)
LEMMA CFQAnswers ==
  ASSUME AnswerTyped, [Next]_vars
  PROVE  AnswerNext /\ cur' \in Slaves
  <1>0. cur \in Slaves
    BY DEF AnswerTyped
  <1>1. ASSUME NEW c \in Selectors, SelectorStep(c) PROVE Quiet /\ cur' = cur
    BY <1>1 DEF SelectorStep, StartSelect, SelectLooksBack, SelectWaits, SelectPushes,
                queues, history, scheduler, pollers, Quiet
  <1>2. ASSUME NEW s \in Slaves, VisitWrite(s) \/ VisitRead(s) PROVE Quiet /\ cur' \in Slaves
    BY <1>0, <1>2 DEF VisitWrite, VisitRead, queues, history, pollers, Quiet
  <1>3. CASE SelectAcked \/ SelectFailed \/ SignalWriter \/ StartReads \/ PollFailed \/ NextCycle
    <2>1. Quiet /\ cur' = cur
      BY <1>3 DEF SelectAcked, SelectFailed, SignalWriter, StartReads, PollFailed, NextCycle,
                  VisitOver, queues, history, pollers, Quiet
    <2> QED BY <1>0, <2>1 DEF AnswerNext
  <1>4. ASSUME NEW s \in Slaves, WritePauseEnds(s) \/ ReadPauseEnds(s) PROVE Quiet /\ cur' = cur
    BY <1>4 DEF WritePauseEnds, ReadPauseEnds, history, scheduler, pollers, Quiet
  <1>5. UNCHANGED vars => Quiet /\ cur' = cur
    BY DEF vars, queues, history, scheduler, pollers, Quiet
  <1>6. Quiet => AnswerNext
    BY DEF AnswerNext
  <1> QED BY <1>0, <1>1, <1>2, <1>3, <1>4, <1>5, <1>6, PollerAnswers, ArrivalAnswers
          DEF Next, SchedulerStep

(* All steps of the Buffered scheduler are, or leave the answers alone. *)
LEMMA BufferedAnswers ==
  ASSUME AnswerTyped, BufferedNext
  PROVE  AnswerNext /\ cur' \in Slaves
  <1>0. cur \in Slaves
    BY DEF AnswerTyped
  <1>1. ASSUME NEW c \in Selectors, SelectSteps(c) PROVE Quiet /\ cur' = cur
    BY <1>1 DEF SelectSteps, SelectComparesLast, StartSelect, SelectWaits, SelectPushes,
                queues, history, scheduler, pollers, Quiet
  <1>2. ASSUME NEW p \in Pollers, PollSteps(p) PROVE AnswerNext /\ cur' = cur
    <2>1. CASE PollCopiesFront(p)
      <3> DEFINE q == rq[pcall[p].slave]
                 a == IF q = << >> THEN Garbage ELSE Head(q)
      <3>1. /\ ppc[p] = "front" /\ ppc' = [ppc EXCEPT ![p] = "pop"]
            /\ pcall' = [pcall EXCEPT ![p] = [pcall[p] EXCEPT !.ans = a]]
            /\ UNCHANGED <<rq, received, taken, cur, crossed>>
        BY <2>1 DEF PollCopiesFront, queues, history, scheduler
      <3>2. q \in Seq(Answer)
        BY DEF AnswerTyped, PollCall
      <3>3. a \in Answer
        BY <3>2, HeadTailProperties DEF Garbage, Answer
      <3>4. Copies(p)
        BY <3>1, <3>3 DEF Copies
      <3> QED BY <3>1, <3>4 DEF AnswerNext
    <2>2. CASE ~PollCopiesFront(p)
      BY <1>2, <2>2, PollerAnswers DEF PollSteps, PollerStep
    <2> QED BY <2>1, <2>2
  <1>3. ASSUME NEW s \in Slaves, TakeCommand(s) \/ PollSlave(s) PROVE Quiet /\ cur' \in Slaves
    BY <1>3 DEF TakeCommand, PollSlave, queues, history, pollers, Quiet
  <1>4. CASE SendSucceeds \/ SendFails \/ PollGetsNothing
    <2>1. Quiet /\ cur' = cur
      BY <1>4 DEF SendSucceeds, SendFails, Sent, PollGetsNothing, VisitOver, queues, history,
                  pollers, Quiet
    <2> QED BY <1>0, <2>1 DEF AnswerNext
  <1>5. CASE SignalWriter \/ StartReads \/ NextCycle
    <2>1. Quiet /\ cur' = cur
      BY <1>5 DEF SignalWriter, StartReads, NextCycle, queues, history, pollers, Quiet
    <2> QED BY <1>0, <2>1 DEF AnswerNext
  <1>6. Quiet => AnswerNext
    BY DEF AnswerNext
  <1> QED BY <1>0, <1>1, <1>2, <1>3, <1>4, <1>5, <1>6, ArrivalAnswers
          DEF BufferedNext, QueueSteps

(* The class that Schedules runs as CFQ has no clients of select.          *)
LEMMA EitherAnswers ==
  ASSUME AnswerTyped, [SchedulesNext]_schedulesVars
  PROVE  AnswerNext /\ cur' \in Slaves
  <1>0. cur \in Slaves
    BY DEF AnswerTyped
  <1>1. ASSUME CFQ!Next PROVE AnswerNext /\ cur' \in Slaves
    <2>1. ASSUME NEW p \in Pollers, CFQ!PollerStep(p) PROVE PollerStep(p)
      BY <2>1 DEF CFQ!PollerStep, CFQ!StartPoll, CFQ!PollWaits, CFQ!PollTimesOut,
           CFQ!PollLooksAgain, CFQ!PollFront, CFQ!PollPop, CFQ!PollReturnsNow, CFQ!NoPoll,
           CFQ!Garbage, CFQ!SomeSlave, CFQ!Taking, CFQ!queues, CFQ!scheduler, CFQ!selectors, CFQ!history,
           PollerStep, StartPoll, PollWaits, PollTimesOut, PollLooksAgain, PollFront, PollPop,
           PollReturnsNow, NoPoll, Garbage, SomeSlave, Taking, queues, scheduler, selectors,
           history
    <2>2. ASSUME CFQ!PollAnswered \/ CFQ!PollCrcFailed PROVE AnswerNext /\ cur' = cur
      <3>1. PICK good \in BOOLEAN : CFQ!Queue(good)
        BY <2>2 DEF CFQ!PollAnswered, CFQ!PollCrcFailed
      <3>2. /\ cur' = cur
            /\ UNCHANGED ppc \/ \E p \in Pollers : ppc' = [ppc EXCEPT ![p] = "again"]
        BY <2>2 DEF CFQ!PollAnswered, CFQ!PollCrcFailed, CFQ!VisitOver
      <3>3. Queues(cur, good)
        BY <3>1, <3>2 DEF CFQ!Queue, Queues
      <3> QED BY <1>0, <3>2, <3>3 DEF AnswerNext
    <2>3. ASSUME NEW s \in Slaves, CFQ!VisitWrite(s) \/ CFQ!VisitRead(s)
          PROVE  Quiet /\ cur' \in Slaves
      BY <1>0, <2>3 DEF CFQ!VisitWrite, CFQ!VisitRead, CFQ!queues, CFQ!history, CFQ!pollers, Quiet
    <2>4. CASE \/ CFQ!SelectAcked \/ CFQ!SelectFailed \/ CFQ!SignalWriter
               \/ CFQ!StartReads \/ CFQ!PollFailed \/ CFQ!NextCycle
      <3>1. Quiet /\ cur' = cur
        BY <2>4 DEF CFQ!SelectAcked, CFQ!SelectFailed, CFQ!SignalWriter, CFQ!StartReads,
             CFQ!PollFailed, CFQ!NextCycle, CFQ!VisitOver, CFQ!queues, CFQ!history,
             CFQ!pollers, Quiet
      <3> QED BY <1>0, <3>1 DEF AnswerNext
    <2>5. ASSUME NEW s \in Slaves, CFQ!WritePauseEnds(s) \/ CFQ!ReadPauseEnds(s)
          PROVE  Quiet /\ cur' = cur
      BY <2>5 DEF CFQ!WritePauseEnds, CFQ!ReadPauseEnds, CFQ!history, CFQ!scheduler,
                  CFQ!pollers, Quiet
    <2>6. Quiet => AnswerNext
      BY DEF AnswerNext
    <2> QED BY <1>0, <1>1, <2>1, <2>2, <2>3, <2>4, <2>5, <2>6, PollerAnswers
            DEF CFQ!Next, CFQ!SchedulerStep
  <1>2. ASSUME UNCHANGED schedulesVars PROVE Quiet /\ cur' = cur
    BY <1>2 DEF schedulesVars, bufferedVars, vars, queues, history, scheduler, pollers, Quiet
  <1>3. Quiet => AnswerNext
    BY DEF AnswerNext
  <1> QED BY <1>0, <1>1, <1>2, <1>3, BufferedAnswers DEF SchedulesNext

-----------------------------------------------------------------------------
(* The answers themselves.                                                 *)

(* t, the answers handed to poller p, none later than n.                   *)
InSequence(t, n, p) ==
  \A i \in 1..Len(t) :
    /\ t[i].n = 0 => Pollers # {p}
    /\ t[i].n <= n
    /\ \A j \in 1..(i - 1) : t[i].n # 0 => t[j].n < t[i].n

LeftInOrder(s) == Popped(s) \in Nat /\ \A i \in 1..Len(rq[s]) : rq[s][i].n = Popped(s) + i
HandedInOrder(s) == \A p \in Pollers : InSequence(taken[s][p], Popped(s), p)

(* What a poller holds and has not been handed yet: the answer that is the *)
(* first of the queue or was, later than all it was handed.  A lone poller *)
(* finds the answer it has seen still there.                               *)
HoldsNext(p, s, a) ==
  /\ a.n = 0 => Pollers # {p}
  /\ a.n <= received[s] /\ a.n <= Popped(s) + 1
  /\ \A j \in 1..Len(taken[s][p]) : a.n # 0 => taken[s][p][j].n < a.n

Copied(p) ==
  /\ ppc[p] = "front" /\ Pollers = {p} => rq[pcall[p].slave] # << >>
  /\ ppc[p] = "pop" => HoldsNext(p, pcall[p].slave, pcall[p].ans)

AnswerInv ==
  /\ \A s \in Slaves : LeftInOrder(s) /\ HandedInOrder(s)
  /\ \A p \in Pollers : Copied(p)

(* There are no answers at the start. *)
LEMMA AnswerInit == Init => AnswerInv
  <1> SUFFICES ASSUME Init PROVE AnswerInv
    OBVIOUS
  <1>1. \A s \in Slaves : rq[s] = << >> /\ received[s] = 0 /\ Len(rq[s]) = 0
    BY EmptySeq DEF Init
  <1>2. \A s \in Slaves : Popped(s) = 0
    <2>1. 0 - 0 = 0
      OBVIOUS
    <2> QED BY <1>1, <2>1 DEF Popped
  <1>3. \A s \in Slaves, p \in Pollers : Len(taken[s][p]) = 0
    BY EmptySeq DEF Init
  <1>4. \A s \in Slaves : LeftInOrder(s) /\ HandedInOrder(s)
    BY <1>1, <1>2, <1>3 DEF LeftInOrder, HandedInOrder, InSequence
  <1>5. \A p \in Pollers : Copied(p)
    BY DEF Init, Copied
  <1> QED BY <1>4, <1>5 DEF AnswerInv

(* Nothing but the locals of one poller changes.                           *)
LEMMA LocalsStep ==
  ASSUME AnswerTyped, AnswerInv, NEW p \in Pollers, Moves(p) \/ Finds(p) \/ Copies(p)
  PROVE  AnswerInv'
  <1>0. UNCHANGED <<rq, received, taken>> /\ \A s \in Slaves : Popped(s)' = Popped(s)
    BY DEF Moves, Finds, Copies, Popped
  <1>1. \A s \in Slaves : LeftInOrder(s)' /\ HandedInOrder(s)'
    BY <1>0 DEF AnswerInv, LeftInOrder, HandedInOrder
  <1>2. /\ ppc \in [Pollers -> PollerPCs] /\ pcall \in [Pollers -> PollCall]
        /\ \A o \in Pollers : pcall[o].slave \in Slaves
    BY DEF AnswerTyped, PollCall
  <1>3. ASSUME NEW o \in Pollers, o # p PROVE Copied(o)'
    <2>1. ppc'[o] = ppc[o] /\ pcall'[o] = pcall[o]
      BY <1>2, <1>3 DEF Moves, Finds, Copies
    <2>2. PICK s \in Slaves : s = pcall[o].slave
      BY <1>2
    <2>3. Copied(o) /\ Popped(s)' = Popped(s)
      BY <1>0 DEF AnswerInv
    <2> QED BY <1>0, <2>1, <2>2, <2>3 DEF Copied, HoldsNext
  <1>4. CASE Moves(p)
    <2>1. ppc'[p] \notin {"front", "pop"}
      BY <1>2, <1>4 DEF Moves
    <2>2. Copied(p)'
      BY <2>1 DEF Copied
    <2> QED BY <1>1, <1>3, <2>2 DEF AnswerInv
  <1>5. CASE Finds(p)
    <2>1. ppc'[p] = "front" /\ pcall' = pcall /\ rq[pcall[p].slave] # << >>
      BY <1>2, <1>5 DEF Finds
    <2>2. Copied(p)'
      BY <1>0, <2>1 DEF Copied
    <2> QED BY <1>1, <1>3, <2>2 DEF AnswerInv
  <1>6. CASE Copies(p)
    <2>0. PICK s \in Slaves : s = pcall[p].slave
      BY <1>2
    <2> DEFINE q == rq[s]
    <2>1. PICK a \in Answer :
            /\ pcall' = [pcall EXCEPT ![p] = [pcall[p] EXCEPT !.ans = a]]
            /\ \/ q # << >> /\ a = Head(q)
               \/ a = Garbage /\ (q = << >> \/ Pollers # {p})
      BY <1>6, <2>0 DEF Copies, Taking
    <2>2. ppc[p] = "front" /\ ppc'[p] = "pop"
      BY <1>2, <1>6 DEF Copies
    <2>3. pcall'[p].slave = s /\ pcall'[p].ans = a
      BY <1>2, <2>0, <2>1 DEF PollCall
    <2>4. /\ q \in Seq(Answer) /\ LeftInOrder(s) /\ HandedInOrder(s)
          /\ received[s] \in Nat /\ Popped(s)' = Popped(s)
          /\ taken[s][p] \in Seq(Answer)
      BY <1>0, <1>2 DEF AnswerTyped, AnswerInv
    <2>5. Pollers = {p} => q # << >>
      BY <2>0, <2>2 DEF AnswerInv, Copied
    <2> HIDE DEF q
    <2>6. HoldsNext(p, s, a)
      <3>1. CASE q # << >> /\ a = Head(q)
        <4>1. a = q[1] /\ 1 \in 1..Len(q) /\ Len(q) \in Nat
          BY <2>4, <3>1, EmptySeq
        <4>2. a.n = Popped(s) + 1 /\ Popped(s) \in Nat
          BY <2>4, <4>1 DEF LeftInOrder, q
        <4>3. a.n <= received[s]
          BY <2>4, <4>1, <4>2 DEF Popped, q
        <4>4. \A j \in 1..Len(taken[s][p]) : taken[s][p][j].n <= Popped(s)
          BY <2>4 DEF HandedInOrder, InSequence
        <4>5. \A j \in 1..Len(taken[s][p]) : taken[s][p][j].n \in Nat
          <5>1. \A j \in 1..Len(taken[s][p]) : taken[s][p][j] \in Answer
            BY <2>4, ElementOfSeq
          <5> QED BY <5>1 DEF Answer
        <4>6. \A j \in 1..Len(taken[s][p]) : taken[s][p][j].n < a.n
          BY <4>2, <4>4, <4>5
        <4> QED BY <4>2, <4>3, <4>6 DEF HoldsNext
      <3>2. CASE a = Garbage /\ (q = << >> \/ Pollers # {p})
        <4>1. a.n = 0 /\ Pollers # {p} /\ Popped(s) \in Nat
          BY <2>4, <2>5, <3>2 DEF Garbage, LeftInOrder
        <4> QED BY <2>4, <4>1 DEF HoldsNext
      <3> QED BY <2>1, <3>1, <3>2 DEF q
    <2>7. Copied(p)'
      BY <1>0, <2>2, <2>3, <2>4, <2>6 DEF Copied, HoldsNext
    <2> QED BY <1>1, <1>3, <2>7 DEF AnswerInv
  <1> QED BY <1>4, <1>5, <1>6

(* An answer arrives: it gets the next number.                             *)
LEMMA QueuesStep ==
  ASSUME AnswerTyped, AnswerInv, NEW z \in Slaves, NEW good \in BOOLEAN, Queues(z, good)
  PROVE  AnswerInv'
  <1> DEFINE a == [n |-> received[z] + 1, good |-> good]
  <1>1. /\ rq' = [rq EXCEPT ![z] = Append(rq[z], a)]
        /\ received' = [received EXCEPT ![z] = received[z] + 1]
        /\ UNCHANGED <<taken, pcall>>
    BY DEF Queues
  <1>2. /\ rq[z] \in Seq(Answer) /\ received[z] \in Nat /\ LeftInOrder(z)
        /\ rq \in [Slaves -> Seq(Answer)] /\ received \in [Slaves -> Nat]
        /\ ppc \in [Pollers -> PollerPCs]
    BY DEF AnswerTyped, AnswerInv
  <1>3. a \in Answer /\ a.n = received[z] + 1
    BY <1>2 DEF Answer
  <1> HIDE DEF a
  <1>4. /\ Len(Append(rq[z], a)) = Len(rq[z]) + 1 /\ Len(rq[z]) \in Nat
        /\ \A i \in 1..Len(rq[z]) : Append(rq[z], a)[i] = rq[z][i]
        /\ Append(rq[z], a)[Len(rq[z]) + 1] = a
        /\ Append(rq[z], a) # << >>
    BY <1>2, <1>3, AppendProperties, LenProperties
  <1>5. rq'[z] = Append(rq[z], a) /\ received'[z] = received[z] + 1
    BY <1>1, <1>2
  <1>6. \A s \in Slaves \ {z} : rq'[s] = rq[s] /\ received'[s] = received[s]
    BY <1>1, <1>2
  <1>7. Popped(z)' = Popped(z)
    BY <1>2, <1>4, <1>5 DEF Popped
  <1>8. \A s \in Slaves : Popped(s)' = Popped(s)
    BY <1>6, <1>7 DEF Popped
  <1>9. ASSUME NEW i \in 1..Len(rq'[z]) PROVE rq'[z][i].n = Popped(z) + i
    <2>1. CASE i \in 1..Len(rq[z])
      BY <1>2, <1>4, <1>5, <2>1 DEF LeftInOrder
    <2>2. CASE i = Len(rq[z]) + 1
      BY <1>2, <1>3, <1>4, <1>5, <2>2 DEF Popped
    <2> QED BY <1>4, <1>5, <2>1, <2>2
  <1>10. \A s \in Slaves : LeftInOrder(s)' /\ HandedInOrder(s)'
    <2>1. \A s \in Slaves : HandedInOrder(s)'
      BY <1>1, <1>8 DEF AnswerInv, HandedInOrder
    <2>2. LeftInOrder(z)'
      BY <1>2, <1>7, <1>9 DEF LeftInOrder
    <2>3. ASSUME NEW s \in Slaves, s # z PROVE LeftInOrder(s)'
      BY <1>6, <1>8, <2>3 DEF AnswerInv, LeftInOrder
    <2> QED BY <2>1, <2>2, <2>3
  <1>11. ASSUME NEW p \in Pollers PROVE Copied(p)'
    <2>1. PICK s \in Slaves : s = pcall[p].slave /\ s = pcall'[p].slave
      BY <1>1 DEF AnswerTyped, PollCall
    <2>2. Copied(p) /\ Popped(s)' = Popped(s) /\ pcall' = pcall /\ taken' = taken
      BY <1>1, <1>8 DEF AnswerInv
    <2>3. rq[s] # << >> => rq'[s] # << >>
      BY <1>4, <1>5, <1>6
    <2>4. received[s] \in Nat /\ received'[s] \in Nat /\ received[s] <= received'[s]
      BY <1>2, <1>5, <1>6
    <2>5. ppc'[p] = ppc[p] \/ ppc'[p] = "again"
      BY <1>2 DEF Queues
    <2>6. pcall[p].ans.n \in Nat
      BY DEF AnswerTyped, PollCall, Answer
    <2>7. CASE ppc'[p] = "front" /\ Pollers = {p}
      BY <2>1, <2>2, <2>3, <2>5, <2>7 DEF Copied
    <2>8. CASE ppc'[p] = "pop"
      <3>1. HoldsNext(p, s, pcall[p].ans)
        BY <2>1, <2>2, <2>5, <2>8 DEF Copied
      <3>2. HoldsNext(p, s, pcall[p].ans)'
        BY <2>2, <2>4, <2>6, <3>1 DEF HoldsNext
      <3> QED BY <2>1, <2>2, <2>8, <3>2 DEF Copied
    <2> QED BY <2>7, <2>8 DEF Copied
  <1> QED BY <1>10, <1>11 DEF AnswerInv

(* A poller takes what it holds and the queue loses its first answer, if   *)
(* it still has one.                                                       *)
LEMMA PopsStep ==
  ASSUME AnswerTyped, AnswerInv, NEW p \in Pollers, Pops(p)
  PROVE  AnswerInv'
  <1>1. PICK z \in Slaves, a \in Answer : z = pcall[p].slave /\ a = pcall[p].ans
    BY DEF AnswerTyped, PollCall
  <1> DEFINE q == rq[z]
             t == taken[z][p]
  <1>2. /\ ppc[p] = "pop"
        /\ rq' = [rq EXCEPT ![z] = IF q = << >> THEN q ELSE Tail(q)]
        /\ taken' = [taken EXCEPT ![z] = [taken[z] EXCEPT ![p] = Append(t, a)]]
        /\ ppc' = [ppc EXCEPT ![p] = "idle"] /\ pcall' = [pcall EXCEPT ![p] = NoPoll]
        /\ received' = received
    BY <1>1 DEF Pops
  <1>3. /\ rq \in [Slaves -> Seq(Answer)] /\ taken \in [Slaves -> [Pollers -> Seq(Answer)]]
        /\ ppc \in [Pollers -> PollerPCs] /\ pcall \in [Pollers -> PollCall]
        /\ q \in Seq(Answer) /\ t \in Seq(Answer) /\ received[z] \in Nat
    BY DEF AnswerTyped
  <1>4. LeftInOrder(z) /\ HandedInOrder(z) /\ HoldsNext(p, z, a)
    BY <1>1, <1>2 DEF AnswerInv, Copied
  <1>5. /\ rq'[z] = (IF q = << >> THEN q ELSE Tail(q))
        /\ taken'[z] = [taken[z] EXCEPT ![p] = Append(t, a)]
        /\ \A s \in Slaves \ {z} : rq'[s] = rq[s] /\ taken'[s] = taken[s]
    BY <1>2, <1>3
  <1>6. taken'[z][p] = Append(t, a) /\ \A o \in Pollers \ {p} : taken'[z][o] = taken[z][o]
    BY <1>3, <1>5
  <1>7. \A s \in Slaves \ {z} : Popped(s)' = Popped(s)
    BY <1>2, <1>5 DEF Popped
  <1>8. /\ Popped(z)' \in Nat /\ Popped(z) <= Popped(z)' /\ Popped(z) \in Nat
        /\ q # << >> => Popped(z)' = Popped(z) + 1
        /\ q = << >> => Popped(z)' = received[z]
        /\ LeftInOrder(z)'
    <2>1. CASE q = << >>
      <3>1. Len(q) = 0 /\ rq'[z] = rq[z]
        BY <1>5, <2>1, EmptySeq
      <3>2. Popped(z)' = Popped(z) /\ Popped(z) = received[z]
        BY <1>2, <1>3, <3>1 DEF Popped
      <3> QED BY <1>2, <1>4, <2>1, <3>1, <3>2 DEF LeftInOrder
    <2>2. CASE q # << >>
      <3>1. /\ rq'[z] = Tail(q) /\ Len(Tail(q)) = Len(q) - 1 /\ Len(q) \in Nat \ {0}
            /\ \A i \in 1..Len(Tail(q)) : Tail(q)[i] = q[i + 1]
        BY <1>3, <1>5, <2>2, HeadTailProperties, EmptySeq
      <3>2. Popped(z) \in Nat /\ \A i \in 1..Len(q) : q[i].n = Popped(z) + i
        BY <1>4 DEF LeftInOrder
      <3> HIDE DEF q
      <3>3. Popped(z)' = Popped(z) + 1
        BY <1>2, <1>3, <3>1 DEF Popped, q
      <3>4. \A i \in 1..Len(Tail(q)) : i + 1 \in 1..Len(q) /\ (Popped(z) + 1) + i = Popped(z) + (i + 1)
        BY <3>1, <3>2
      <3>5. \A i \in 1..Len(Tail(q)) : Tail(q)[i].n = (Popped(z) + 1) + i
        BY <3>1, <3>2, <3>4
      <3>6. LeftInOrder(z)'
        BY <3>1, <3>2, <3>3, <3>5 DEF LeftInOrder
      <3> QED BY <2>2, <3>2, <3>3, <3>6
    <2> QED BY <2>1, <2>2
  <1>9. a.n \in Nat /\ a.n <= Popped(z)'
    <2>1. a.n \in Nat
      BY DEF Answer
    <2> QED BY <1>4, <1>8, <2>1 DEF HoldsNext
  <1> HIDE DEF q, t
  <1>10. ASSUME NEW o \in Pollers PROVE InSequence(taken'[z][o], Popped(z)', o)
    <2>1. InSequence(taken[z][o], Popped(z), o) /\ taken[z][o] \in Seq(Answer)
      BY <1>3, <1>4 DEF HandedInOrder
    <2>2. \A i \in 1..Len(taken[z][o]) : taken[z][o][i].n \in Nat
      <3>1. \A i \in 1..Len(taken[z][o]) : taken[z][o][i] \in Answer
        BY <2>1, ElementOfSeq
      <3> QED BY <3>1 DEF Answer
    <2>3. InSequence(taken[z][o], Popped(z)', o)
      <3>1. \A i \in 1..Len(taken[z][o]) : taken[z][o][i].n <= Popped(z)'
        BY <1>8, <2>1, <2>2 DEF InSequence
      <3> QED BY <2>1, <3>1 DEF InSequence
    <2>4. CASE o # p
      BY <1>6, <2>3, <2>4
    <2>5. CASE o = p
      <3>1. /\ Len(Append(t, a)) = Len(t) + 1 /\ Len(t) \in Nat
            /\ \A i \in 1..Len(t) : Append(t, a)[i] = t[i]
            /\ Append(t, a)[Len(t) + 1] = a
        BY <1>3, AppendProperties, LenProperties
      <3>2. InSequence(t, Popped(z)', p)
        BY <2>3, <2>5 DEF t
      <3>3. /\ a.n = 0 => Pollers # {p}
            /\ \A j \in 1..Len(t) : a.n # 0 => t[j].n < a.n
        BY <1>4 DEF HoldsNext, t
      <3> DEFINE u == Append(t, a)
      <3> HIDE DEF u
      <3>4. ASSUME NEW i \in 1..Len(u)
            PROVE  /\ u[i].n = 0 => Pollers # {p}
                   /\ u[i].n <= Popped(z)'
                   /\ \A j \in 1..(i - 1) : u[i].n # 0 => u[j].n < u[i].n
        <4>1. \A j \in 1..(i - 1) : j \in 1..Len(t) /\ u[j] = t[j]
          BY <3>1 DEF u
        <4>2. CASE i \in 1..Len(t)
          <5>1. u[i] = t[i]
            BY <3>1, <4>2 DEF u
          <5> QED BY <3>2, <4>1, <4>2, <5>1 DEF InSequence
        <4>3. CASE i = Len(t) + 1
          <5>1. u[i] = a
            BY <3>1, <4>3 DEF u
          <5> QED BY <1>9, <3>3, <4>1, <5>1
        <4> QED BY <3>1, <4>2, <4>3 DEF u
      <3>5. InSequence(u, Popped(z)', p)
        BY <3>4 DEF InSequence
      <3> QED BY <1>6, <2>5, <3>5 DEF u
    <2> QED BY <2>4, <2>5
  <1>11. \A s \in Slaves : LeftInOrder(s)' /\ HandedInOrder(s)'
    <2>1. HandedInOrder(z)'
      BY <1>10 DEF HandedInOrder
    <2>2. ASSUME NEW s \in Slaves, s # z PROVE LeftInOrder(s)' /\ HandedInOrder(s)'
      <3>1. Popped(s)' = Popped(s) /\ rq'[s] = rq[s] /\ taken'[s] = taken[s]
        BY <1>5, <1>7, <2>2
      <3> QED BY <3>1 DEF AnswerInv, LeftInOrder, HandedInOrder
    <2> QED BY <1>8, <2>1, <2>2
  <1>12. ASSUME NEW o \in Pollers PROVE Copied(o)'
    <2>1. CASE o = p
      BY <1>2, <1>3, <2>1 DEF Copied
    <2>2. CASE o # p
      <3>1. PICK s \in Slaves, b \in Answer : s = pcall[o].slave /\ b = pcall[o].ans
        BY <1>3 DEF PollCall
      <3>2. ppc'[o] = ppc[o] /\ pcall'[o] = pcall[o] /\ Pollers # {o}
        BY <1>2, <1>3, <2>2
      <3>3. CASE ppc[o] = "pop"
        <4>1. HoldsNext(o, s, b)
          BY <3>1, <3>3 DEF AnswerInv, Copied
        <4>2. taken'[s][o] = taken[s][o] /\ received' = received
          BY <1>2, <1>5, <1>6, <2>2
        <4>3. Popped(s) \in Nat /\ Popped(s)' \in Nat /\ Popped(s) <= Popped(s)'
          <5>1. CASE s = z
            BY <1>8, <5>1
          <5>2. CASE s # z
            BY <1>7, <5>2 DEF AnswerInv, LeftInOrder
          <5> QED BY <5>1, <5>2
        <4>4. b.n \in Nat
          BY DEF Answer
        <4>5. HoldsNext(o, s, b)'
          BY <4>1, <4>2, <4>3, <4>4 DEF HoldsNext
        <4> QED BY <3>1, <3>2, <3>3, <4>5 DEF Copied
      <3> QED BY <3>2, <3>3 DEF Copied
    <2> QED BY <2>1, <2>2
  <1> QED BY <1>11, <1>12 DEF AnswerInv

(* Every step of either scheduler keeps the types of the answers. *)
LEMMA AnswerTypedStep ==
  ASSUME AnswerTyped, AnswerNext, cur' \in Slaves
  PROVE  AnswerTyped'
  <1>0. /\ rq \in [Slaves -> Seq(Answer)] /\ received \in [Slaves -> Nat]
        /\ taken \in [Slaves -> [Pollers -> Seq(Answer)]]
        /\ ppc \in [Pollers -> PollerPCs] /\ pcall \in [Pollers -> PollCall]
        /\ crossed \in [Slaves -> BOOLEAN]
    BY DEF AnswerTyped
  <1>1. CASE Quiet
    BY <1>0, <1>1 DEF Quiet, AnswerTyped
  <1>2. ASSUME NEW z \in Slaves, NEW good \in BOOLEAN, Queues(z, good) PROVE AnswerTyped'
    <2> DEFINE a == [n |-> received[z] + 1, good |-> good]
    <2>1. a \in Answer /\ rq[z] \in Seq(Answer) /\ received[z] + 1 \in Nat
      BY <1>0 DEF Answer
    <2>2. rq' = [rq EXCEPT ![z] = Append(rq[z], a)]
      BY <1>2 DEF Queues
    <2> HIDE DEF a
    <2>3. Append(rq[z], a) \in Seq(Answer)
      BY <2>1, AppendProperties
    <2>4. rq' \in [Slaves -> Seq(Answer)]
      BY <1>0, <2>2, <2>3
    <2>5. received' \in [Slaves -> Nat]
      BY <1>0, <1>2, <2>1 DEF Queues
    <2>6. ppc' \in [Pollers -> PollerPCs]
      BY <1>0, <1>2 DEF Queues, PollerPCs
    <2> QED BY <1>0, <1>2, <2>4, <2>5, <2>6 DEF Queues, AnswerTyped
  <1>3. ASSUME NEW p \in Pollers, Moves(p) \/ Finds(p) PROVE AnswerTyped'
    <2>1. ppc' \in [Pollers -> PollerPCs]
      BY <1>0, <1>3 DEF Moves, Finds, PollerPCs
    <2>2. pcall' \in [Pollers -> PollCall]
      BY <1>0, <1>3 DEF Moves, Finds
    <2>3. crossed' \in [Slaves -> BOOLEAN]
      BY <1>0, <1>3 DEF Moves, Finds
    <2> QED BY <1>0, <1>3, <2>1, <2>2, <2>3 DEF Moves, Finds, AnswerTyped
  <1>4. ASSUME NEW p \in Pollers, Copies(p) PROVE AnswerTyped'
    <2>1. ppc' \in [Pollers -> PollerPCs] /\ UNCHANGED <<rq, received, taken, crossed>>
      BY <1>0, <1>4 DEF Copies, PollerPCs
    <2>2. PICK a \in Answer : pcall' = [pcall EXCEPT ![p] = [pcall[p] EXCEPT !.ans = a]]
      BY <1>4 DEF Copies
    <2>3. [pcall[p] EXCEPT !.ans = a] \in PollCall
      BY <1>0 DEF PollCall
    <2> QED BY <1>0, <2>1, <2>2, <2>3 DEF AnswerTyped
  <1>5. ASSUME NEW p \in Pollers, Pops(p) PROVE AnswerTyped'
    <2>1. PICK z \in Slaves, a \in Answer : z = pcall[p].slave /\ a = pcall[p].ans
      BY <1>0 DEF PollCall
    <2>2. /\ rq' = [rq EXCEPT ![z] = IF rq[z] = << >> THEN rq[z] ELSE Tail(rq[z])]
          /\ taken' = [taken EXCEPT ![z] = [taken[z] EXCEPT ![p] = Append(taken[z][p], a)]]
          /\ ppc' = [ppc EXCEPT ![p] = "idle"] /\ pcall' = [pcall EXCEPT ![p] = NoPoll]
          /\ received' = received /\ crossed' = crossed
      BY <1>5, <2>1 DEF Pops
    <2>3. Append(taken[z][p], a) \in Seq(Answer)
      BY <1>0, AppendProperties
    <2>4. taken' \in [Slaves -> [Pollers -> Seq(Answer)]]
      BY <1>0, <2>2, <2>3
    <2>5. rq' \in [Slaves -> Seq(Answer)]
      BY <1>0, <2>2, HeadTailProperties
    <2>6. ppc' \in [Pollers -> PollerPCs] /\ pcall' \in [Pollers -> PollCall]
      BY <1>0, <2>2, LocalsTyped DEF PollerPCs
    <2> QED BY <1>0, <2>2, <2>4, <2>5, <2>6 DEF AnswerTyped
  <1> QED BY <1>1, <1>2, <1>3, <1>4, <1>5 DEF AnswerNext

(* AnswerNext keeps the answers typed and in order. *)
LEMMA AnswerStep ==
  ASSUME AnswerTyped, AnswerInv, AnswerNext, cur' \in Slaves
  PROVE  AnswerTyped' /\ AnswerInv'
  <1>1. CASE Quiet
    <2>1. \A s \in Slaves : Popped(s)' = Popped(s)
      BY <1>1 DEF Quiet, Popped
    <2>2. \A s \in Slaves : LeftInOrder(s)' /\ HandedInOrder(s)'
      BY <1>1, <2>1 DEF Quiet, AnswerInv, LeftInOrder, HandedInOrder
    <2>3. ASSUME NEW p \in Pollers PROVE Copied(p)'
      <3>1. PICK s \in Slaves : s = pcall[p].slave
        BY DEF AnswerTyped, PollCall
      <3> QED BY <1>1, <2>1, <3>1 DEF Quiet, AnswerInv, Copied, HoldsNext
    <2> QED BY <2>2, <2>3, AnswerTypedStep DEF AnswerInv
  <1> QED BY <1>1, AnswerTypedStep, LocalsStep, QueuesStep, PopsStep DEF AnswerNext

(* That is what AnswersInOrder says of them. *)
LEMMA AnswersKept ==
  ASSUME AnswerTyped, AnswerInv
  PROVE  AnswersInOrder
  <1>1. ASSUME NEW s \in Slaves, NEW p \in Pollers, NEW ns,
               ns = [i \in DOMAIN taken[s][p] |-> taken[s][p][i].n]
        PROVE  \A i \in DOMAIN ns :
                 /\ ns[i] = 0 => Pollers # {p}
                 /\ ns[i] <= Popped(s)
                 /\ \A j \in 1..(i - 1) : ns[i] # 0 => ns[j] < ns[i]
    <2>1. DOMAIN taken[s][p] = 1..Len(taken[s][p]) /\ Len(taken[s][p]) \in Nat
      BY LenProperties DEF AnswerTyped
    <2>2. InSequence(taken[s][p], Popped(s), p)
      BY DEF AnswerInv, HandedInOrder
    <2> QED BY <1>1, <2>1, <2>2 DEF InSequence
  <1>2. \A s \in Slaves : DOMAIN rq[s] = 1..Len(rq[s])
    BY LenProperties DEF AnswerTyped
  <1>3. \A s \in Slaves : \A i \in DOMAIN rq[s] : rq[s][i].n = Popped(s) + i
    BY <1>2 DEF AnswerInv, LeftInOrder
  <1> QED BY <1>1, <1>3 DEF AnswersInOrder

(* Answers of either scheduler reach each client in the order they         *)
(* arrived, none twice and none that is still queued, and a lone client    *)
(* is handed no garbage, however the clients' looks, copies and pops       *)
(* interleave with the schedule thread.                                    *)
THEOREM AnswersOrdered == SchedulesSpec => []AnswersInOrder
  <1>1. SchedulesInit => AnswerTyped /\ AnswerInv
    BY AnswerInitTyped, AnswerInit DEF SchedulesInit, BufferedInit
  <1>2. AnswerTyped /\ AnswerInv /\ [SchedulesNext]_schedulesVars => (AnswerTyped /\ AnswerInv)'
    BY EitherAnswers, AnswerStep
  <1>3. AnswerTyped /\ AnswerInv => AnswersInOrder
    BY AnswersKept
  <1> QED BY <1>1, <1>2, <1>3, PTL DEF SchedulesSpec

(* The same of the CFQ scheduler while clients select as well.             *)
THEOREM CFQAnswersOrdered == Spec => []AnswersInOrder
  <1>1. Init => AnswerTyped /\ AnswerInv
    BY AnswerInitTyped, AnswerInit
  <1>2. AnswerTyped /\ AnswerInv /\ [Next]_vars => (AnswerTyped /\ AnswerInv)'
    BY CFQAnswers, AnswerStep
  <1>3. AnswerTyped /\ AnswerInv => AnswersInOrder
    BY AnswersKept
  <1> QED BY <1>1, <1>2, <1>3, PTL DEF Spec

-----------------------------------------------------------------------------
(* No answer is lost until two polls of its slave cross.                   *)

(* p takes what it has seen in the queue of s for its own. *)
Past(p, s) == ppc[p] \in {"front", "pop"} /\ pcall[p].slave = s

(* Until polls cross there is one such at most, and what it has seen stays *)
(* the first of the queue until it pops it.                                *)
Undisturbed(s) ==
  /\ \A p, o \in Pollers : Past(p, s) /\ Past(o, s) => p = o
  /\ \A p \in Pollers : Past(p, s) =>
       rq[s] # << >> /\ (ppc[p] = "pop" => pcall[p].ans = Head(rq[s]))

InOneHand(s) ==
  /\ \A n \in 1..Popped(s) : \E h \in Handed(s) : Places(s, n) = {h}
  /\ Places(s, 0) = {}

KeptInv == \A s \in Slaves : ~crossed[s] => Undisturbed(s) /\ InOneHand(s)

(* None was popped at the start. *)
LEMMA KeptInit == Init => KeptInv
  <1> SUFFICES ASSUME Init, NEW s \in Slaves PROVE Undisturbed(s) /\ InOneHand(s)
    BY DEF KeptInv
  <1>1. Len(rq[s]) = 0 /\ received[s] = 0
    BY EmptySeq DEF Init
  <1>2. \A p \in Pollers : DOMAIN taken[s][p] = {} /\ ~Past(p, s)
    BY DEF Init, Past
  <1>3. Handed(s) = {}
    BY <1>2 DEF Handed
  <1>4. Popped(s) = 0
    <2>1. 0 - 0 = 0
      OBVIOUS
    <2> QED BY <1>1, <2>1 DEF Popped
  <1>5. Places(s, 0) = {} /\ 1..Popped(s) = {}
    BY <1>3, <1>4 DEF Places
  <1> QED BY <1>2, <1>5 DEF Undisturbed, InOneHand

(* A pop adds one to what was handed out. *)
LEMMA HandedGrows ==
  ASSUME AnswerTyped, NEW p \in Pollers, NEW z \in Slaves, NEW a \in Answer,
         taken' = [taken EXCEPT ![z] = [taken[z] EXCEPT ![p] = Append(taken[z][p], a)]]
  PROVE  /\ Handed(z)' = Handed(z) \cup {<<p, Len(taken[z][p]) + 1>>}
         /\ <<p, Len(taken[z][p]) + 1>> \notin Handed(z)
         /\ \A s \in Slaves \ {z} : Handed(s)' = Handed(s)
  <1>0. taken \in [Slaves -> [Pollers -> Seq(Answer)]]
    BY DEF AnswerTyped
  <1>1. PICK t \in Seq(Answer) : t = taken[z][p]
    BY <1>0
  <1>2. /\ taken'[z][p] = Append(t, a)
        /\ \A o \in Pollers \ {p} : taken'[z][o] = taken[z][o]
        /\ \A s \in Slaves \ {z} : taken'[s] = taken[s]
    BY <1>0, <1>1
  <1>3. Append(t, a) \in Seq(Answer) /\ Len(Append(t, a)) = Len(t) + 1 /\ Len(t) \in Nat
    BY AppendProperties, LenProperties
  <1>4. DOMAIN Append(t, a) = 1..(Len(t) + 1) /\ DOMAIN t = 1..Len(t)
    BY <1>3, LenProperties
  <1>5. DOMAIN Append(t, a) = DOMAIN t \cup {Len(t) + 1} /\ Len(t) + 1 \notin DOMAIN t
    BY <1>3, <1>4
  <1>6. Handed(z)' = UNION {{o} \X DOMAIN taken'[z][o] : o \in Pollers}
    BY DEF Handed
  <1>7. \A h : h \in Handed(z)' <=> \E o \in Pollers : h \in {o} \X DOMAIN taken'[z][o]
    BY <1>6, Zenon
  <1>8. \A h : h \in Handed(z) <=> \E o \in Pollers : h \in {o} \X DOMAIN taken[z][o]
    BY Zenon DEF Handed
  <1>9. <<p, Len(t) + 1>> \notin Handed(z)
    BY <1>1, <1>5, <1>8
  <1>10. ASSUME NEW h PROVE h \in Handed(z)' <=> h \in Handed(z) \cup {<<p, Len(t) + 1>>}
    <2>1. h \in {p} \X DOMAIN taken'[z][p] <=>
            h \in {p} \X DOMAIN taken[z][p] \/ h = <<p, Len(t) + 1>>
      BY <1>1, <1>2, <1>5
    <2>2. \A o \in Pollers \ {p} : {o} \X DOMAIN taken'[z][o] = {o} \X DOMAIN taken[z][o]
      BY <1>2
    <2> QED BY <1>7, <1>8, <2>1, <2>2, Zenon
  <1>11. \A s \in Slaves \ {z} : Handed(s)' = Handed(s)
    BY <1>2 DEF Handed
  <1> QED BY <1>1, <1>9, <1>10, <1>11

(* What is handed out and what left the queue stay as they are.            *)
LEMMA HandsKept ==
  ASSUME NEW s \in Slaves, InOneHand(s), taken'[s] = taken[s], Popped(s)' = Popped(s)
  PROVE  InOneHand(s)'
  <1>1. Handed(s)' = Handed(s)
    BY DEF Handed
  <1>2. \A n : Places(s, n)' = Places(s, n)
    BY <1>1 DEF Places
  <1> QED BY <1>1, <1>2 DEF InOneHand

(* Nothing but the locals of one poller changes. *)
LEMMA LocalsKeep ==
  ASSUME AnswerTyped, KeptInv, NEW p \in Pollers, Moves(p) \/ Finds(p) \/ Copies(p)
  PROVE  KeptInv'
  <1>0. /\ ppc \in [Pollers -> PollerPCs] /\ pcall \in [Pollers -> PollCall]
        /\ crossed \in [Slaves -> BOOLEAN] /\ pcall[p].slave \in Slaves
        /\ UNCHANGED <<rq, received, taken>>
    BY DEF AnswerTyped, PollCall, Moves, Finds, Copies
  <1> SUFFICES ASSUME NEW s \in Slaves, ~crossed'[s] PROVE (Undisturbed(s) /\ InOneHand(s))'
    BY DEF KeptInv
  <1>1. ~crossed[s]
    BY <1>0 DEF Moves, Finds, Copies
  <1>2. Undisturbed(s) /\ InOneHand(s) /\ Popped(s)' = Popped(s)
    BY <1>0, <1>1 DEF KeptInv, Popped
  <1>3. InOneHand(s)'
    BY <1>0, <1>2, HandsKept
  <1>4. \A o \in Pollers \ {p} :
          ppc'[o] = ppc[o] /\ pcall'[o] = pcall[o] /\ (Past(o, s)' <=> Past(o, s))
    BY <1>0 DEF Moves, Finds, Copies, Past
  <1>5. CASE ~Past(p, s)'
    BY <1>0, <1>2, <1>3, <1>4, <1>5 DEF Undisturbed
  <1>6. ASSUME Past(p, s)', \A o \in Pollers \ {p} : ~Past(o, s),
               rq[s] # << >>, ppc'[p] = "pop" => pcall'[p].ans = Head(rq[s])
        PROVE  Undisturbed(s)'
    BY <1>0, <1>4, <1>6 DEF Undisturbed
  <1>7. CASE Past(p, s)'
    <2>1. ~Moves(p)
      BY <1>0, <1>7 DEF Moves, Past
    <2>2. CASE Finds(p)
      <3>1. ppc'[p] = "front" /\ pcall' = pcall /\ pcall[p].slave = s /\ rq[s] # << >>
        BY <1>0, <1>7, <2>2 DEF Finds, Past
      <3>2. Taking(p, {"front", "pop"}) = {}
        BY <1>0, <2>2, <3>1 DEF Finds
      <3>3. \A o \in Pollers \ {p} : ~Past(o, s)
        BY <3>1, <3>2 DEF Taking, Past
      <3> QED BY <1>3, <1>6, <1>7, <3>1, <3>3
    <2>3. CASE Copies(p)
      <3>1. PICK a \in Answer :
              /\ pcall' = [pcall EXCEPT ![p] = [pcall[p] EXCEPT !.ans = a]]
              /\ \/ a = Head(rq[pcall[p].slave])
                 \/ rq[pcall[p].slave] = << >> \/ Taking(p, {"pop"}) # {}
        BY <2>3 DEF Copies
      <3>2. pcall'[p].slave = pcall[p].slave /\ pcall'[p].ans = a
        BY <1>0, <3>1 DEF PollCall
      <3>3. pcall[p].slave = s /\ Past(p, s)
        BY <1>7, <2>3, <3>2 DEF Copies, Past
      <3>4. rq[s] # << >> /\ \A o \in Pollers \ {p} : ~Past(o, s)
        BY <1>2, <3>3 DEF Undisturbed
      <3>5. Taking(p, {"pop"}) = {}
        BY <3>3, <3>4 DEF Taking, Past
      <3>6. a = Head(rq[s])
        BY <3>1, <3>3, <3>4, <3>5
      <3> QED BY <1>3, <1>6, <1>7, <3>2, <3>4, <3>6
    <2> QED BY <2>1, <2>2, <2>3
  <1> QED BY <1>5, <1>7

(* An answer that arrives goes behind what a poller has seen.              *)
LEMMA QueuesKeep ==
  ASSUME AnswerTyped, KeptInv, NEW z \in Slaves, NEW good \in BOOLEAN, Queues(z, good)
  PROVE  KeptInv'
  <1>0. /\ rq \in [Slaves -> Seq(Answer)] /\ received \in [Slaves -> Nat]
        /\ ppc \in [Pollers -> PollerPCs] /\ rq[z] \in Seq(Answer)
        /\ UNCHANGED <<taken, pcall, crossed>>
    BY DEF AnswerTyped, Queues
  <1>1. PICK a \in Answer : rq' = [rq EXCEPT ![z] = Append(rq[z], a)]
    <2>1. [n |-> received[z] + 1, good |-> good] \in Answer
      BY <1>0 DEF Answer
    <2> QED BY <2>1 DEF Queues
  <1>2. /\ rq'[z] = Append(rq[z], a) /\ Len(rq'[z]) = Len(rq[z]) + 1 /\ Len(rq[z]) \in Nat
        /\ \A i \in 1..Len(rq[z]) : rq'[z][i] = rq[z][i]
        /\ rq'[z] \in Seq(Answer) /\ rq'[z] # << >>
    BY <1>0, <1>1, AppendProperties, LenProperties
  <1>3. received'[z] = received[z] + 1
    BY <1>0 DEF Queues
  <1>4. \A s \in Slaves \ {z} : rq'[s] = rq[s] /\ received'[s] = received[s]
    BY <1>0, <1>1 DEF Queues
  <1>5. Popped(z)' = Popped(z)
    BY <1>0, <1>2, <1>3 DEF Popped
  <1>6. \A s \in Slaves : Popped(s)' = Popped(s)
    BY <1>4, <1>5 DEF Popped
  <1>7. ASSUME NEW s \in Slaves, rq[s] # << >>
        PROVE  rq'[s] # << >> /\ Head(rq'[s]) = Head(rq[s])
    <2>1. CASE s # z
      BY <1>4, <1>7, <2>1
    <2>2. CASE s = z
      <3>1. 1 \in 1..Len(rq[z]) /\ Head(rq[z]) = rq[z][1]
        BY <1>0, <1>2, <1>7, <2>2, HeadTailProperties, EmptySeq
      <3>2. Head(rq'[z]) = rq'[z][1]
        BY <1>2, HeadTailProperties
      <3> QED BY <1>2, <2>2, <3>1, <3>2
    <2> QED BY <2>1, <2>2
  <1>8. ASSUME NEW p \in Pollers, NEW s \in Slaves, Past(p, s)'
        PROVE  Past(p, s) /\ ppc'[p] = ppc[p] /\ pcall'[p] = pcall[p]
    BY <1>0, <1>8 DEF Queues, Past
  <1> SUFFICES ASSUME NEW s \in Slaves, ~crossed'[s] PROVE (Undisturbed(s) /\ InOneHand(s))'
    BY DEF KeptInv
  <1>9. Undisturbed(s) /\ InOneHand(s)
    BY <1>0 DEF KeptInv
  <1>10. Undisturbed(s)'
    BY <1>7, <1>8, <1>9 DEF Undisturbed
  <1> QED BY <1>0, <1>6, <1>9, <1>10, HandsKept

(* Until polls cross, what a pop takes off the queue it hands out. *)
LEMMA PopsKeep ==
  ASSUME AnswerTyped, AnswerInv, KeptInv, NEW p \in Pollers, Pops(p)
  PROVE  KeptInv'
  <1>1. PICK z \in Slaves, a \in Answer : z = pcall[p].slave /\ a = pcall[p].ans
    BY DEF AnswerTyped, PollCall
  <1>2. /\ ppc[p] = "pop"
        /\ rq' = [rq EXCEPT ![z] = IF rq[z] = << >> THEN rq[z] ELSE Tail(rq[z])]
        /\ taken' = [taken EXCEPT ![z] = [taken[z] EXCEPT ![p] = Append(taken[z][p], a)]]
        /\ ppc' = [ppc EXCEPT ![p] = "idle"] /\ pcall' = [pcall EXCEPT ![p] = NoPoll]
        /\ received' = received /\ crossed' = crossed
    BY <1>1 DEF Pops
  <1>3. /\ rq \in [Slaves -> Seq(Answer)] /\ taken \in [Slaves -> [Pollers -> Seq(Answer)]]
        /\ ppc \in [Pollers -> PollerPCs] /\ pcall \in [Pollers -> PollCall]
        /\ rq[z] \in Seq(Answer) /\ received[z] \in Nat
        /\ \A o \in Pollers : taken[z][o] \in Seq(Answer)
    BY DEF AnswerTyped
  <1>4. /\ rq'[z] = (IF rq[z] = << >> THEN rq[z] ELSE Tail(rq[z]))
        /\ \A s \in Slaves \ {z} : rq'[s] = rq[s] /\ taken'[s] = taken[s]
        /\ taken'[z][p] = Append(taken[z][p], a)
        /\ \A o \in Pollers \ {p} : taken'[z][o] = taken[z][o]
    BY <1>2, <1>3
  <1>5. /\ ~Past(p, z)' /\ Past(p, z) /\ \A s \in Slaves : ~Past(p, s)'
        /\ \A s \in Slaves, o \in Pollers \ {p} :
             ppc'[o] = ppc[o] /\ pcall'[o] = pcall[o] /\ (Past(o, s)' <=> Past(o, s))
    BY <1>1, <1>2, <1>3 DEF Past
  <1>6. ASSUME NEW s \in Slaves, s # z, ~crossed'[s] PROVE Undisturbed(s)' /\ InOneHand(s)'
    <2>1. Undisturbed(s) /\ InOneHand(s)
      BY <1>2, <1>6 DEF KeptInv
    <2>2. Popped(s)' = Popped(s) /\ rq'[s] = rq[s] /\ taken'[s] = taken[s]
      BY <1>2, <1>4, <1>6 DEF Popped
    <2>3. Undisturbed(s)'
      BY <1>5, <2>1, <2>2 DEF Undisturbed
    <2> QED BY <2>1, <2>2, <2>3, HandsKept
  <1>7. ASSUME ~crossed'[z] PROVE Undisturbed(z)' /\ InOneHand(z)'
    <2>1. Undisturbed(z) /\ InOneHand(z)
      BY <1>2, <1>7 DEF KeptInv
    <2>2. rq[z] # << >> /\ a = Head(rq[z]) /\ \A o \in Pollers \ {p} : ~Past(o, z)
      BY <1>1, <1>2, <1>5, <2>1 DEF Undisturbed
    <2>3. Undisturbed(z)'
      BY <1>5, <2>2 DEF Undisturbed
    <2>4. /\ Len(rq'[z]) = Len(rq[z]) - 1 /\ Len(rq[z]) \in Nat \ {0}
          /\ Head(rq[z]) = rq[z][1] /\ 1 \in 1..Len(rq[z])
      BY <1>3, <1>4, <2>2, HeadTailProperties, EmptySeq
    <2>5. /\ Popped(z) \in Nat /\ a.n = Popped(z) + 1
      BY <2>2, <2>4 DEF AnswerInv, LeftInOrder
    <2>6. Popped(z)' = Popped(z) + 1
      BY <1>2, <1>3, <2>4 DEF Popped
    <2> DEFINE new == <<p, Len(taken[z][p]) + 1>>
    <2>7. Handed(z)' = Handed(z) \cup {new} /\ new \notin Handed(z)
      BY <1>2, HandedGrows
    <2>8. taken'[z][new[1]][new[2]] = a
      BY <1>3, <1>4, AppendProperties
    <2>9. ASSUME NEW h \in Handed(z)
          PROVE  /\ taken'[z][h[1]][h[2]] = taken[z][h[1]][h[2]]
                 /\ taken[z][h[1]][h[2]].n # a.n
      <3>0. PICK o \in Pollers : h \in {o} \X DOMAIN taken[z][o]
        BY Zenon DEF Handed
      <3>1. PICK i \in DOMAIN taken[z][o] : h = <<o, i>>
        BY <3>0
      <3>2. DOMAIN taken[z][o] = 1..Len(taken[z][o]) /\ Len(taken[z][o]) \in Nat
        BY <1>3, LenProperties
      <3>3. taken'[z][o][i] = taken[z][o][i]
        <4>1. CASE o = p
          <5>1. \A j \in 1..Len(taken[z][p]) : Append(taken[z][p], a)[j] = taken[z][p][j]
            BY <1>3, AppendProperties
          <5> QED BY <1>4, <3>2, <4>1, <5>1
        <4>2. CASE o # p
          BY <1>4, <4>2
        <4> QED BY <4>1, <4>2
      <3>4. taken[z][o][i].n <= Popped(z)
        BY <3>2 DEF AnswerInv, HandedInOrder, InSequence
      <3>5. taken[z][o][i].n \in Nat
        <4>1. taken[z][o][i] \in Answer
          BY <1>3, <3>2, ElementOfSeq
        <4> QED BY <4>1 DEF Answer
      <3>6. taken[z][o][i].n # a.n
        BY <2>5, <3>4, <3>5
      <3> QED BY <3>1, <3>3, <3>6
    <2> HIDE DEF new
    <2>10. Places(z, a.n)' = {new}
      BY <2>7, <2>8, <2>9 DEF Places
    <2>11. \A n : n # a.n => Places(z, n)' = Places(z, n)
      BY <2>7, <2>8, <2>9 DEF Places
    <2>12. Places(z, 0)' = {}
      BY <2>1, <2>5, <2>11 DEF InOneHand
    <2>13. ASSUME NEW n \in 1..(Popped(z) + 1) PROVE \E h \in Handed(z)' : Places(z, n)' = {h}
      <3>1. CASE n = Popped(z) + 1
        BY <2>5, <2>7, <2>10, <3>1
      <3>2. CASE n # Popped(z) + 1
        <4>1. n \in 1..Popped(z) /\ n # a.n
          BY <2>5, <3>2
        <4> QED BY <2>1, <2>7, <2>11, <4>1 DEF InOneHand
      <3> QED BY <3>1, <3>2
    <2>14. InOneHand(z)'
      BY <2>6, <2>12, <2>13 DEF InOneHand
    <2> QED BY <2>3, <2>14
  <1> QED BY <1>6, <1>7 DEF KeptInv

(* Every step of either scheduler keeps the answers. *)
LEMMA KeptStep ==
  ASSUME AnswerTyped, AnswerInv, KeptInv, AnswerNext
  PROVE  KeptInv'
  <1>1. CASE Quiet
    <2> SUFFICES ASSUME NEW s \in Slaves, ~crossed'[s] PROVE Undisturbed(s)' /\ InOneHand(s)'
      BY DEF KeptInv
    <2>1. Undisturbed(s) /\ InOneHand(s)
      BY <1>1 DEF Quiet, KeptInv
    <2>2. Undisturbed(s)'
      BY <1>1, <2>1 DEF Quiet, Undisturbed, Past
    <2>3. taken'[s] = taken[s] /\ Popped(s)' = Popped(s)
      BY <1>1 DEF Quiet, Popped
    <2> QED BY <2>1, <2>2, <2>3, HandsKept
  <1> QED BY <1>1, LocalsKeep, QueuesKeep, PopsKeep DEF AnswerNext

(* Under either scheduler, until two polls of one slave cross, every       *)
(* answer that left its queue is in the hands of one client, once, and     *)
(* nobody holds garbage, whatever the thread queues meanwhile.             *)
THEOREM AnswersNotLost == SchedulesSpec => []KeptUnlessCrossed
  <1> DEFINE IInv == AnswerTyped /\ AnswerInv /\ KeptInv
  <1>1. SchedulesInit => IInv
    BY AnswerInitTyped, AnswerInit, KeptInit DEF SchedulesInit, BufferedInit
  <1>2. IInv /\ [SchedulesNext]_schedulesVars => IInv'
    BY EitherAnswers, AnswerStep, KeptStep
  <1>3. IInv => KeptUnlessCrossed
    BY DEF KeptInv, InOneHand, KeptUnlessCrossed
  <1> QED BY <1>1, <1>2, <1>3, PTL DEF SchedulesSpec

(* And under the CFQ scheduler while clients select as well.               *)
THEOREM CFQAnswersNotLost == Spec => []KeptUnlessCrossed
  <1> DEFINE IInv == AnswerTyped /\ AnswerInv /\ KeptInv
  <1>1. Init => IInv
    BY AnswerInitTyped, AnswerInit, KeptInit
  <1>2. IInv /\ [Next]_vars => IInv'
    BY CFQAnswers, AnswerStep, KeptStep
  <1>3. IInv => KeptUnlessCrossed
    BY DEF KeptInv, InOneHand, KeptUnlessCrossed
  <1> QED BY <1>1, <1>2, <1>3, PTL DEF Spec

-----------------------------------------------------------------------------
(* The commands of the Buffered scheduler.  A command on its way counts as *)
(* the first of its queue.                                                 *)

QueueTyped ==
  /\ wq \in [Slaves -> Seq(Request)] /\ pushed \in [Slaves -> Nat] /\ cur \in Slaves
  /\ scall \in [Selectors -> SelectCall]

(* There is one exactly while the thread sends.                            *)
SendInv == IF phase = "selecting" THEN \E r \in Request : sending = <<r>> ELSE sending = << >>

(* Where Schedules runs the CFQ class nobody sends commands.               *)
NoneSent == class = "cfq" => phase # "selecting" /\ \A s \in Slaves : wq[s] = << >>

SendTyped == QueueTyped /\ SendInv /\ NoneSent

UnsettledBar == [s \in Slaves |-> Unsettled(s)]

(* The commands that are queued, or being sent. *)
LEMMA UnsettledIs ==
  ASSUME NEW s \in Slaves
  PROVE  /\ sending = << >> => Unsettled(s) = Ids(wq[s])
         /\ cur # s => Unsettled(s) = Ids(wq[s])
         /\ \A r \in Request : sending = <<r>> /\ cur = s => Unsettled(s) = <<r.id>> \o Ids(wq[s])
  <1>1. \A r \in Request : <<r>> # << >> /\ <<r>>[1] = r
    OBVIOUS
  <1> QED BY <1>1 DEF Unsettled, Ids

(* What is in front of the queued commands. *)
LEMMA PrefixRules ==
  ASSUME NEW x \in Nat, NEW q \in Seq(Nat)
  PROVE  /\ <<x>> \o q # << >> /\ Head(<<x>> \o q) = x /\ Tail(<<x>> \o q) = q
         /\ \A e \in Nat : <<x>> \o Append(q, e) = Append(<<x>> \o q, e)
         /\ q # << >> => <<Head(q)>> \o Tail(q) = q
  <1> DEFINE p == <<x>> \o q
  <1>1. /\ <<x>> \in Seq(Nat) /\ Len(<<x>>) = 1 /\ <<x>>[1] = x /\ Len(q) \in Nat
    OBVIOUS
  <1>2. /\ p \in Seq(Nat) /\ Len(p) = 1 + Len(q)
        /\ \A i \in 1..(1 + Len(q)) : p[i] = IF i <= 1 THEN <<x>>[i] ELSE q[i - 1]
    BY <1>1, ConcatProperties
  <1> HIDE DEF p
  <1>3. p # << >> /\ p[1] = x /\ Head(p) = p[1]
    <2>1. 1 \in 1..(1 + Len(q)) /\ Len(p) # 0
      BY <1>1, <1>2
    <2> QED BY <1>1, <1>2, <2>1, EmptySeq
  <1>4. Tail(p) = q
    <2>1. /\ Tail(p) \in Seq(Nat) /\ Len(Tail(p)) = Len(p) - 1
          /\ \A i \in 1..Len(Tail(p)) : Tail(p)[i] = p[i + 1]
      BY <1>2, <1>3, HeadTailProperties
    <2>2. ASSUME NEW i \in 1..Len(q) PROVE p[i + 1] = q[i]
      <3>1. i + 1 \in 1..(1 + Len(q)) /\ ~(i + 1 <= 1) /\ (i + 1) - 1 = i
        BY <1>1
      <3>2. p[i + 1] = IF i + 1 <= 1 THEN <<x>>[i + 1] ELSE q[(i + 1) - 1]
        BY <1>2, <3>1, Zenon
      <3> QED BY <3>1, <3>2
    <2>3. Len(Tail(p)) = Len(q)
      BY <1>1, <1>2, <2>1
    <2>4. \A i \in 1..Len(q) : Tail(p)[i] = q[i]
      BY <2>1, <2>2, <2>3
    <2> QED BY <2>1, <2>3, <2>4, SeqEqual
  <1>5. ASSUME NEW e \in Nat PROVE <<x>> \o Append(q, e) = Append(p, e)
    <2>1. <<e>> \in Seq(Nat)
      OBVIOUS
    <2>2. Append(q, e) = q \o <<e>> /\ Append(p, e) = p \o <<e>>
      BY <1>2, AppendIsConcat
    <2>3. p \o <<e>> = <<x>> \o (q \o <<e>>)
      BY <1>1, <2>1, ConcatAssociative DEF p
    <2> QED BY <2>2, <2>3
  <1>6. ASSUME q # << >> PROVE <<Head(q)>> \o Tail(q) = q
    <2>1. Head(q) = q[1] /\ Len(q) \in Nat \ {0} /\ q[1] \in Nat
      BY <1>6, EmptySeq
    <2>2. /\ Tail(q) \in Seq(Nat) /\ Len(Tail(q)) = Len(q) - 1
          /\ \A i \in 1..Len(Tail(q)) : Tail(q)[i] = q[i + 1]
      BY <1>6, HeadTailProperties
    <2> DEFINE t == <<q[1]>> \o Tail(q)
    <2>3. <<q[1]>> \in Seq(Nat) /\ Len(<<q[1]>>) = 1 /\ <<q[1]>>[1] = q[1]
      BY <2>1
    <2>4. /\ t \in Seq(Nat) /\ Len(t) = 1 + Len(Tail(q))
          /\ \A i \in 1..(1 + Len(Tail(q))) :
               t[i] = IF i <= 1 THEN <<q[1]>>[i] ELSE Tail(q)[i - 1]
      BY <2>2, <2>3, ConcatProperties
    <2> HIDE DEF t
    <2>5. Len(t) = Len(q)
      BY <2>1, <2>2, <2>4
    <2>6. ASSUME NEW i \in 1..Len(q) PROVE t[i] = q[i]
      <3>1. CASE i = 1
        BY <2>1, <2>2, <2>3, <2>4, <3>1
      <3>2. CASE i > 1
        <4>1. i - 1 \in 1..Len(Tail(q)) /\ (i - 1) + 1 = i /\ ~(i <= 1)
              /\ i \in 1..(1 + Len(Tail(q)))
          BY <2>1, <2>2, <3>2
        <4> QED BY <2>2, <2>4, <4>1
      <3> QED BY <2>1, <3>1, <3>2
    <2> QED BY <2>1, <2>4, <2>5, <2>6, SeqEqual DEF t
  <1> QED BY <1>3, <1>4, <1>5, <1>6 DEF p

(* A step that touches no command.                                         *)
Calm ==
  /\ UNCHANGED <<wq, pushed, executed, dropped, sending>>
  /\ cur' \in Slaves /\ scall' \in [Selectors -> SelectCall]
  /\ phase' = "selecting" <=> phase = "selecting"
  /\ phase = "selecting" => cur' = cur

SendUnchanged == UNCHANGED <<UnsettledBar, pushed, executed, dropped>>

(* A step that touches no command maps to no step of the command queue. *)
LEMMA CalmMaps ==
  ASSUME SendTyped, Calm, UNCHANGED class
  PROVE  SendTyped' /\ SendUnchanged
  <1>1. SendTyped'
    BY DEF SendTyped, QueueTyped, SendInv, NoneSent, Calm
  <1>2. ASSUME NEW s \in Slaves PROVE Unsettled(s)' = Unsettled(s)
    <2>1. CASE phase = "selecting"
      <3>1. cur' = cur /\ wq' = wq /\ sending' = sending
        BY <2>1 DEF Calm
      <3> QED BY <3>1 DEF Unsettled
    <2>2. CASE phase # "selecting"
      <3>1. sending = << >> /\ sending' = << >> /\ wq' = wq
        BY <2>2 DEF Calm, SendTyped, SendInv
      <3> QED BY <3>1 DEF Unsettled
    <2> QED BY <2>1, <2>2
  <1>3. UnsettledBar' = UnsettledBar
    BY <1>2 DEF UnsettledBar
  <1> QED BY <1>1, <1>3 DEF Calm, SendUnchanged

(* With no selectors the CFQ scheduler carries out nothing. *)
LEMMA CFQSendsNothing ==
  ASSUME SendTyped, class = "cfq", CFQ!Next, UNCHANGED sending
  PROVE  Calm
  <1>0. /\ phase # "selecting" /\ (\A s \in Slaves : wq[s] = << >>) /\ cur \in Slaves
        /\ scall \in [Selectors -> SelectCall]
    BY DEF SendTyped, NoneSent, QueueTyped
  <1>1. ASSUME NEW p \in Pollers, CFQ!PollerStep(p) PROVE Calm
    <2>1. UNCHANGED <<wq, pushed, executed, dropped, scall, cur, phase>>
      BY <1>1 DEF CFQ!PollerStep, CFQ!StartPoll, CFQ!PollWaits, CFQ!PollTimesOut,
           CFQ!PollLooksAgain, CFQ!PollFront, CFQ!PollPop,
           CFQ!queues, CFQ!scheduler, CFQ!selectors, CFQ!history
    <2> QED BY <1>0, <2>1 DEF Calm
  <1>2. ASSUME NEW s \in Slaves, CFQ!VisitWrite(s) \/ CFQ!VisitRead(s) PROVE Calm
    <2>1. /\ UNCHANGED <<wq, pushed, executed, dropped, scall>>
          /\ phase' # "selecting" /\ cur' \in Slaves
      BY <1>0, <1>2 DEF CFQ!VisitWrite, CFQ!VisitRead, CFQ!queues, CFQ!history, CFQ!selectors
    <2> QED BY <1>0, <2>1 DEF Calm
  <1>3. CASE \/ CFQ!SignalWriter \/ CFQ!StartReads \/ CFQ!NextCycle
             \/ CFQ!PollAnswered \/ CFQ!PollCrcFailed \/ CFQ!PollFailed
    <2>1. UNCHANGED <<wq, pushed, executed, dropped, scall, cur>> /\ phase' # "selecting"
      BY <1>3 DEF CFQ!SignalWriter, CFQ!StartReads, CFQ!PollFailed, CFQ!NextCycle,
           CFQ!PollAnswered, CFQ!PollCrcFailed, CFQ!Queue, CFQ!VisitOver, CFQ!queues,
           CFQ!selectors, CFQ!history
    <2> QED BY <1>0, <2>1 DEF Calm
  <1>4. ~CFQ!SelectAcked /\ ~CFQ!SelectFailed
    BY <1>0 DEF CFQ!SelectAcked, CFQ!SelectFailed
  <1>5. ASSUME NEW s \in Slaves, CFQ!WritePauseEnds(s) \/ CFQ!ReadPauseEnds(s) PROVE Calm
    <2>1. UNCHANGED <<wq, pushed, executed, dropped, scall, cur, phase>>
      BY <1>5 DEF CFQ!WritePauseEnds, CFQ!ReadPauseEnds, CFQ!history, CFQ!scheduler,
                  CFQ!selectors
    <2> QED BY <1>0, <2>1 DEF Calm
  <1> QED BY <1>1, <1>2, <1>3, <1>4, <1>5 DEF CFQ!Next, CFQ!SchedulerStep

(* The Buffered steps that touch no command are calm. *)
LEMMA BufferedCalm ==
  ASSUME SendTyped, BufferedNext, ~SendSucceeds, ~SendFails,
         ~(\E c \in Selectors : SelectPushes(c)), ~(\E s \in Slaves : TakeCommand(s))
  PROVE  Calm
  <1>0. cur \in Slaves /\ scall \in [Selectors -> SelectCall] /\ wq \in [Slaves -> Seq(Request)]
    BY DEF SendTyped, QueueTyped
  <1>1. ASSUME NEW c \in Selectors, SelectSteps(c) PROVE Calm
    <2>1. UNCHANGED <<wq, pushed, executed, dropped, sending, phase, cur>>
      BY <1>1 DEF SelectSteps, SelectComparesLast, StartSelect, SelectWaits, queues, history,
                  scheduler
    <2>2. \E r \in SelectCall : scall' = [scall EXCEPT ![c] = r]
      <3>1. CASE StartSelect(c)
        <4>1. PICK s \in Slaves, x \in Commands :
                scall' = [scall EXCEPT ![c] = [slave |-> s, cmd |-> x, size |-> Len(wq[s])]]
          BY <3>1 DEF StartSelect
        <4>2. [slave |-> s, cmd |-> x, size |-> Len(wq[s])] \in SelectCall
          BY <1>0 DEF SelectCall
        <4> QED BY <4>1, <4>2
      <3>2. CASE ~StartSelect(c)
        <4>1. SelectReturnsNow(c) \/ UNCHANGED scall
          BY <1>1, <3>2 DEF SelectSteps, SelectComparesLast, SelectWaits
        <4>2. scall[c] \in SelectCall /\ scall = [scall EXCEPT ![c] = scall[c]]
          BY <1>0
        <4> QED BY <4>1, <4>2, LocalsTyped DEF SelectReturnsNow
      <3> QED BY <3>1, <3>2
    <2> QED BY <1>0, <2>1, <2>2 DEF Calm
  <1>2. ASSUME NEW p \in Pollers, PollSteps(p) PROVE Calm
    <2>1. UNCHANGED <<wq, pushed, executed, dropped, sending, phase, cur, scall>>
      BY <1>2 DEF PollSteps, PollCopiesFront, StartPoll, PollWaits, PollTimesOut, PollLooksAgain,
                  PollPop, queues, history, scheduler, selectors
    <2> QED BY <1>0, <2>1 DEF Calm
  <1>3. ASSUME NEW s \in Slaves, PollSlave(s) PROVE Calm
    <2>1. /\ UNCHANGED <<wq, pushed, executed, dropped, sending, scall>>
          /\ phase = "read" /\ phase' = "polling" /\ cur' = s
      BY <1>3 DEF PollSlave, queues, history, selectors
    <2> QED BY <1>0, <2>1 DEF Calm
  <1>4. CASE PollGetsNothing \/ QueueSteps
    <2>1. /\ UNCHANGED <<wq, pushed, executed, dropped, sending, scall, cur>>
          /\ phase # "selecting" /\ phase' # "selecting"
      BY <1>4 DEF PollGetsNothing, QueueSteps, SignalWriter, StartReads, PollAnswered,
                  PollCrcFailed, NextCycle, Queue, VisitOver, queues, history, selectors
    <2> QED BY <1>0, <2>1 DEF Calm
  <1> QED BY <1>1, <1>2, <1>3, <1>4 DEF BufferedNext

(* A push of the Buffered scheduler maps to a command that is accepted. *)
LEMMA PushSends ==
  ASSUME SendTyped, class = "buffered", UNCHANGED <<class, sending>>,
         NEW c \in Selectors, SelectPushes(c)
  PROVE  SendTyped' /\ \E s \in Slaves : Promised!Accept(s)
  <1>0. /\ wq \in [Slaves -> Seq(Request)] /\ pushed \in [Slaves -> Nat] /\ cur \in Slaves
        /\ scall \in [Selectors -> SelectCall]
    BY DEF SendTyped, QueueTyped
  <1>1. PICK s \in Slaves, x \in Commands : s = scall[c].slave /\ x = scall[c].cmd
    BY <1>0 DEF SelectCall
  <1> DEFINE r == [id |-> pushed[s] + 1, cmd |-> x, retry |-> 0]
             a == Append(wq[s], r)
  <1>2. /\ wq' = [wq EXCEPT ![s] = a] /\ pushed' = [pushed EXCEPT ![s] = pushed[s] + 1]
        /\ scall' = [scall EXCEPT ![c] = NoSelect]
        /\ UNCHANGED <<cur, phase, executed, dropped>>
    BY <1>1 DEF SelectPushes, SelectReturnsNow, scheduler
  <1>3. pushed[s] + 1 \in Nat /\ wq[s] \in Seq(Request)
    BY <1>0
  <1>4. r \in Request /\ r.id = pushed[s] + 1
    <2>1. 0 \in 0..2
      OBVIOUS
    <2> QED BY <1>3, <2>1 DEF Request
  <1> HIDE DEF r
  <1>5. a \in Seq(Request) /\ Ids(a) = Append(Ids(wq[s]), pushed[s] + 1)
    BY <1>3, <1>4, AppendProperties, IdsAppend
  <1> HIDE DEF a
  <1>6. wq' \in [Slaves -> Seq(Request)] /\ wq'[s] = a
    BY <1>0, <1>2, <1>5
  <1>7. pushed' \in [Slaves -> Nat] /\ pushed'[s] = pushed[s] + 1
    BY <1>0, <1>2, <1>3
  <1>8. scall' \in [Selectors -> SelectCall]
    BY <1>0, <1>2, LocalsTyped
  <1>9. SendTyped'
    BY <1>0, <1>2, <1>6, <1>7, <1>8 DEF SendTyped, QueueTyped, SendInv, NoneSent
  <1>10. Unsettled(s)' = Append(Unsettled(s), pushed[s] + 1)
    <2>1. CASE sending # << >> /\ cur = s
      <3>1. PICK q \in Request : sending = <<q>>
        BY <2>1 DEF SendTyped, SendInv
      <3>2. Unsettled(s) = <<q.id>> \o Ids(wq[s]) /\ q.id \in Nat
        BY <2>1, <3>1, UnsettledIs DEF Request
      <3>3. Unsettled(s)' = <<q.id>> \o Ids(a)
        <4>1. sending' # << >> /\ cur' = s /\ sending'[1].id = q.id
          BY <1>2, <2>1, <3>1
        <4>2. Ids(wq'[s]) = Ids(a)
          BY <1>6
        <4> QED BY <4>1, <4>2 DEF Unsettled, Ids
      <3>4. Ids(wq[s]) \in Seq(Nat)
        BY <1>3, IdsRules
      <3>5. <<q.id>> \o Append(Ids(wq[s]), pushed[s] + 1)
              = Append(<<q.id>> \o Ids(wq[s]), pushed[s] + 1)
        BY <1>3, <3>2, <3>4, PrefixRules
      <3> QED BY <1>5, <3>2, <3>3, <3>5
    <2>2. CASE ~(sending # << >> /\ cur = s)
      <3>1. Unsettled(s) = Ids(wq[s])
        BY <2>2, UnsettledIs
      <3>2. ~(sending' # << >> /\ cur' = s) /\ Ids(wq'[s]) = Ids(a)
        BY <1>2, <1>6, <2>2
      <3>3. Unsettled(s)' = Ids(a)
        BY <3>2 DEF Unsettled, Ids
      <3> QED BY <1>5, <3>1, <3>3
    <2> QED BY <2>1, <2>2
  <1>11. ASSUME NEW z \in Slaves, z # s PROVE Unsettled(z)' = Unsettled(z)
    <2>1. wq'[z] = wq[z] /\ cur' = cur /\ sending' = sending
      BY <1>0, <1>2, <1>11
    <2> QED BY <2>1 DEF Unsettled
  <1>12. UnsettledBar' = [UnsettledBar EXCEPT ![s] = Append(UnsettledBar[s], pushed'[s])]
    BY <1>7, <1>10, <1>11 DEF UnsettledBar
  <1>13. Promised!Accept(s)
    BY <1>2, <1>12 DEF Promised!Accept, UnsettledBar
  <1> QED BY <1>9, <1>13

(* The thread takes a command: it stays the first of the unsettled.        *)
LEMMA TakeSends ==
  ASSUME SendTyped, class = "buffered", UNCHANGED class, NEW s \in Slaves, TakeCommand(s)
  PROVE  SendTyped' /\ SendUnchanged
  <1>0. /\ wq \in [Slaves -> Seq(Request)] /\ pushed \in [Slaves -> Nat] /\ wq[s] \in Seq(Request)
        /\ scall \in [Selectors -> SelectCall] /\ sending = << >>
    BY DEF SendTyped, QueueTyped, SendInv, TakeCommand
  <1>1. cur' = s /\ UNCHANGED <<pushed, executed, dropped, scall>>
    BY DEF TakeCommand, selectors, history
  <1>2. CASE wq[s] = << >>
    <2>1. phase' = "signal" /\ wq' = wq /\ sending' = << >>
      BY <1>0, <1>2 DEF TakeCommand
    <2>2. SendTyped'
      BY <1>0, <1>1, <2>1 DEF SendTyped, QueueTyped, SendInv, NoneSent
    <2>3. UnsettledBar' = UnsettledBar
      BY <1>0, <2>1 DEF UnsettledBar, Unsettled
    <2> QED BY <1>1, <2>2, <2>3 DEF SendUnchanged
  <1>3. CASE wq[s] # << >>
    <2>1. PICK h \in Request, t \in Seq(Request) : h = Head(wq[s]) /\ t = Tail(wq[s])
      BY <1>0, <1>3, HeadTailProperties
    <2>2. phase' = "selecting" /\ sending' = <<h>> /\ wq' = [wq EXCEPT ![s] = t]
      BY <1>3, <2>1 DEF TakeCommand
    <2>3. wq' \in [Slaves -> Seq(Request)] /\ wq'[s] = t
      BY <1>0, <2>2
    <2>4. SendTyped'
      BY <1>0, <1>1, <2>2, <2>3 DEF SendTyped, QueueTyped, SendInv, NoneSent
    <2>5. Unsettled(s)' = Unsettled(s)
      <3>1. Unsettled(s) = Ids(wq[s])
        BY <1>0, UnsettledIs
      <3>2. Unsettled(s)' = <<h.id>> \o Ids(t)
        <4>1. sending' # << >> /\ cur' = s /\ sending'[1].id = h.id
          BY <1>1, <2>2
        <4>2. Ids(wq'[s]) = Ids(t)
          BY <2>3
        <4> QED BY <4>1, <4>2 DEF Unsettled, Ids
      <3>3. /\ Ids(wq[s]) \in Seq(Nat) /\ Ids(wq[s]) # << >> /\ h.id \in Nat
            /\ h.id = Head(Ids(wq[s])) /\ Ids(t) = Tail(Ids(wq[s]))
        BY <1>0, <1>3, <2>1, IdsRules, IdsTail DEF Request
      <3> QED BY <3>1, <3>2, <3>3, PrefixRules
    <2>6. ASSUME NEW z \in Slaves, z # s PROVE Unsettled(z)' = Unsettled(z)
      <3>1. wq'[z] = wq[z] /\ ~(sending # << >> /\ cur = z) /\ ~(sending' # << >> /\ cur' = z)
        BY <1>0, <1>1, <2>2, <2>6
      <3> QED BY <3>1 DEF Unsettled
    <2>7. UnsettledBar' = UnsettledBar
      BY <2>5, <2>6 DEF UnsettledBar
    <2> QED BY <1>1, <2>4, <2>7 DEF SendUnchanged
  <1> QED BY <1>2, <1>3

(* The transaction ends, and with it the one try.                          *)
LEMMA SentSettles ==
  ASSUME SendTyped, class = "buffered", UNCHANGED class, SendSucceeds \/ SendFails
  PROVE  SendTyped' /\ \E s \in Slaves : Promised!Succeed(s) \/ Promised!Fail(s)
  <1>0. /\ wq \in [Slaves -> Seq(Request)] /\ pushed \in [Slaves -> Nat] /\ cur \in Slaves
        /\ scall \in [Selectors -> SelectCall] /\ phase = "selecting"
    BY DEF SendTyped, QueueTyped, SendSucceeds, SendFails, Sent
  <1>1. PICK s \in Slaves, r \in Request : s = cur /\ sending = <<r>>
    BY <1>0 DEF SendTyped, SendInv
  <1>2. /\ phase' = "signal" /\ sending' = << >>
        /\ UNCHANGED <<wq, cur, scall, pushed>>
    BY DEF SendSucceeds, SendFails, Sent, queues, selectors
  <1>3. SendTyped'
    BY <1>0, <1>2 DEF SendTyped, QueueTyped, SendInv, NoneSent
  <1>4. /\ wq[s] \in Seq(Request) /\ Ids(wq[s]) \in Seq(Nat) /\ r.id \in Nat
        /\ Unsettled(s) = <<r.id>> \o Ids(wq[s])
    BY <1>0, <1>1, IdsRules, UnsettledIs DEF Request
  <1>5. /\ Unsettled(s) # << >> /\ Head(Unsettled(s)) = r.id
        /\ Tail(Unsettled(s)) = Ids(wq[s])
    BY <1>4, PrefixRules
  <1>6. Unsettled(s)' = Ids(wq[s])
    <2>1. sending' = << >> /\ wq'[s] = wq[s]
      BY <1>2
    <2> QED BY <2>1 DEF Unsettled, Ids
  <1>7. ASSUME NEW z \in Slaves, z # s PROVE Unsettled(z)' = Unsettled(z)
    <2>1. wq'[z] = wq[z] /\ ~(sending # << >> /\ cur = z) /\ ~(sending' # << >> /\ cur' = z)
      BY <1>1, <1>2, <1>7
    <2> QED BY <2>1 DEF Unsettled
  <1>8. /\ UnsettledBar' = [UnsettledBar EXCEPT ![s] = Tail(UnsettledBar[s])]
        /\ UnsettledBar[s] # << >> /\ Head(UnsettledBar[s]) = r.id
    BY <1>5, <1>6, <1>7 DEF UnsettledBar
  <1>9. [z \in Slaves |-> 0] = [[z \in Slaves |-> 0] EXCEPT ![s] = 0]
    OBVIOUS
  <1>10. CASE SendSucceeds
    <2>1. executed' = [executed EXCEPT ![s] = Append(executed[s], r.id)] /\ UNCHANGED dropped
      BY <1>1, <1>10 DEF SendSucceeds, Sent
    <2>2. Promised!Succeed(s)
      BY <1>2, <1>8, <1>9, <2>1
         DEF Promised!Succeed, Promised!Obey, Promised!LeaveQueue, UnsettledBar
    <2> QED BY <1>3, <2>2
  <1>11. CASE SendFails
    <2>1. /\ dropped' = [dropped EXCEPT ![s] = dropped[s] \cup {r.id}]
          /\ \/ executed' = [executed EXCEPT ![s] = Append(executed[s], r.id)]
             \/ UNCHANGED executed
      BY <1>1, <1>11 DEF SendFails, Sent
    <2>2. Promised!Fail(s)
      BY <1>2, <1>8, <1>9, <2>1
         DEF Promised!Fail, Promised!Obey, Promised!LeaveQueue, UnsettledBar
    <2> QED BY <1>3, <2>2
  <1> QED BY <1>10, <1>11

(* Under the Buffered scheduler a command is carried out once at most, in  *)
(* its turn, and never after a later one, although it leaves its queue     *)
(* before it is sent: the command queue with one try.                      *)
THEOREM BufferedKeepsCommandQueue == SchedulesSpec => KeepsPromise
  <1>1. SchedulesInit => SendTyped /\ Promised!CommandQueueInit
    <2> SUFFICES ASSUME SchedulesInit PROVE SendTyped /\ Promised!CommandQueueInit
      OBVIOUS
    <2>1. Init /\ sending = << >>
      BY DEF SchedulesInit, BufferedInit
    <2>2. SendTyped
      BY <2>1, TypedInit
         DEF Typed, TypeOK, Init, SendTyped, QueueTyped, SendInv, NoneSent, SelectCall
    <2>3. Ids(<< >>) = << >>
      BY EmptySeq, IdsRules
    <2>4. UnsettledBar = [s \in Slaves |-> << >>]
      BY <2>1, <2>3, UnsettledIs DEF Init, UnsettledBar
    <2>5. Promised!CommandQueueInit
      BY <2>1, <2>4 DEF Init, Promised!CommandQueueInit, UnsettledBar
    <2> QED BY <2>2, <2>5
  <1>2. SendTyped /\ [SchedulesNext]_schedulesVars =>
          /\ SendTyped'
          /\ [\E s \in Slaves : Promised!Accept(s) \/ Promised!Succeed(s)
                                \/ Promised!Fail(s)]_(Promised!promise)
    <2> SUFFICES ASSUME SendTyped, [SchedulesNext]_schedulesVars
                 PROVE  /\ SendTyped'
                        /\ \/ \E s \in Slaves : Promised!Accept(s) \/ Promised!Succeed(s)
                                                \/ Promised!Fail(s)
                           \/ UNCHANGED Promised!promise
      OBVIOUS
    <2>1. SendUnchanged => UNCHANGED Promised!promise
      BY DEF SendUnchanged, Promised!promise, UnsettledBar
    <2>2. CASE class = "cfq" /\ CFQ!Next /\ UNCHANGED <<class, sending>>
      BY <2>1, <2>2, CFQSendsNothing, CalmMaps
    <2>3. ASSUME class = "buffered", BufferedNext, UNCHANGED class
          PROVE  /\ SendTyped'
                 /\ \/ \E s \in Slaves : Promised!Accept(s) \/ Promised!Succeed(s)
                                         \/ Promised!Fail(s)
                    \/ UNCHANGED Promised!promise
      <3>1. ASSUME NEW c \in Selectors, SelectPushes(c) PROVE UNCHANGED sending
        <4>1. spc[c] = "push" /\ pushed' # pushed
          <5>1. PICK s \in Slaves : s = scall[c].slave
            BY DEF SendTyped, QueueTyped, SelectCall
          <5>2. pushed[s] \in Nat /\ pushed' = [pushed EXCEPT ![s] = pushed[s] + 1]
                /\ pushed \in [Slaves -> Nat] /\ spc[c] = "push"
            BY <3>1, <5>1 DEF SelectPushes, SendTyped, QueueTyped
          <5> QED BY <5>2
        <4>2. ~(\E s \in Slaves : TakeCommand(s) \/ PollSlave(s))
          BY <4>1 DEF TakeCommand, PollSlave, history
        <4>3. ~SendSucceeds /\ ~SendFails /\ ~PollGetsNothing
          BY <4>1 DEF SendSucceeds, SendFails, Sent, PollGetsNothing, history
        <4>4. QueueSteps => UNCHANGED sending
          BY DEF QueueSteps
        <4>5. \A d \in Selectors : SelectSteps(d) => UNCHANGED sending
          BY DEF SelectSteps, SelectComparesLast
        <4>6. \A p \in Pollers : PollSteps(p) => UNCHANGED sending
          BY DEF PollSteps, PollCopiesFront
        <4> QED BY <2>3, <4>2, <4>3, <4>4, <4>5, <4>6 DEF BufferedNext
      <3>2. CASE \E c \in Selectors : SelectPushes(c)
        BY <2>3, <3>1, <3>2, PushSends
      <3>3. CASE \E s \in Slaves : TakeCommand(s)
        BY <2>1, <2>3, <3>3, TakeSends
      <3>4. CASE SendSucceeds \/ SendFails
        BY <2>3, <3>4, SentSettles
      <3>5. CASE Calm
        BY <2>1, <2>3, <3>5, CalmMaps
      <3> QED BY <2>3, <3>2, <3>3, <3>4, <3>5, BufferedCalm
    <2>4. CASE UNCHANGED schedulesVars
      <3>1. Calm /\ UNCHANGED class
        BY <2>4 DEF schedulesVars, bufferedVars, vars, queues, scheduler, selectors, history,
                    Calm, SendTyped, QueueTyped
      <3> QED BY <2>1, <3>1, CalmMaps
    <2> QED BY <2>2, <2>3, <2>4 DEF SchedulesNext
  <1> QED BY <1>1, <1>2, PTL
          DEF SchedulesSpec, KeepsPromise, Promised!CommandQueueSpec
=============================================================================
