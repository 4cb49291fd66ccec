------------------------- MODULE ScheduleCFQProofs -------------------------
(* Proofs about ScheduleCFQ, for every number of slaves, clients and       *)
(* commands and every size of the write queues.                            *)
EXTENDS ScheduleCFQ, SequenceTheorems, FiniteSetTheorems, TLAPS

(* A command is under way only while it is the first of its queue: the     *)
(* schedule thread alone takes commands out.                               *)
BusyInv == phase = "selecting" => wq[cur] # << >>

Typed == TypeOK /\ BusyInv

SelectCall == [slave: Slaves, cmd: Commands, size: Nat]
PollCall   == [slave: Slaves, timed: BOOLEAN, ans: Answer]

-----------------------------------------------------------------------------
(* Types. *)

(* The values of locals that are forgotten are typed. *)
LEMMA LocalsTyped == SomeSlave \in Slaves /\ NoSelect \in SelectCall /\ NoPoll \in PollCall
  <1>1. SomeSlave \in Slaves /\ (CHOOSE x \in Commands : TRUE) \in Commands
    BY ConstantsAssumption DEF SomeSlave
  <1>2. Garbage \in Answer
    BY DEF Garbage, Answer
  <1> QED BY <1>1, <1>2 DEF NoSelect, NoPoll, SelectCall, PollCall

(* The types hold at the start. *)
LEMMA TypedInit == Init => Typed
  <1> SUFFICES ASSUME Init PROVE Typed
    OBVIOUS
  <1>1. scall \in [Selectors -> SelectCall] /\ pcall \in [Pollers -> PollCall] /\ cur \in Slaves
    BY LocalsTyped DEF Init
  <1>2. wq \in [Slaves -> Seq(Request)] /\ rq \in [Slaves -> Seq(Answer)]
    BY DEF Init
  <1>3. /\ executed \in [Slaves -> Seq(Nat)] /\ dropped \in [Slaves -> SUBSET Nat]
        /\ taken \in [Slaves -> [Pollers -> Seq(Answer)]]
    BY DEF Init
  <1> QED BY <1>1, <1>2, <1>3 DEF Init, Typed, TypeOK, BusyInv, SelectCall, PollCall

(* select keeps the types. *)
LEMMA SelectorTyped ==
  ASSUME Typed, NEW c \in Selectors, SelectorStep(c)
  PROVE  Typed'
  <1>0. /\ TypeOK /\ spc \in [Selectors -> {"idle", "back", "full", "wait", "push"}]
        /\ scall \in [Selectors -> SelectCall]
    BY DEF Typed, TypeOK, SelectCall
  <1>1. ASSUME UNCHANGED <<queues, scheduler, pollers, history>>,
               NEW r \in SelectCall, scall' = [scall EXCEPT ![c] = r],
               NEW p \in {"idle", "back", "full", "wait", "push"}, spc' = [spc EXCEPT ![c] = p]
        PROVE  Typed'
    BY <1>0, <1>1 DEF Typed, TypeOK, BusyInv, queues, scheduler, pollers, history, SelectCall
  <1>2. CASE StartSelect(c)
    <2>1. PICK s \in Slaves, x \in Commands :
            scall' = [scall EXCEPT ![c] = [slave |-> s, cmd |-> x, size |-> Len(wq[s])]]
            /\ spc' = [spc EXCEPT ![c] = IF wq[s] # << >> THEN "back" ELSE "push"]
      BY <1>2 DEF StartSelect
    <2>2. [slave |-> s, cmd |-> x, size |-> Len(wq[s])] \in SelectCall
      BY <1>0 DEF TypeOK, SelectCall
    <2>3. \E p \in {"back", "push"} : spc' = [spc EXCEPT ![c] = p]
      BY <2>1
    <2> QED BY <1>1, <1>2, <2>1, <2>2, <2>3 DEF StartSelect
  <1>3. CASE SelectLooksBack(c)
    <2>1. \E r \in SelectCall : scall' = [scall EXCEPT ![c] = r]
      <3>1. SelectReturnsNow(c) \/ UNCHANGED scall
        BY <1>3 DEF SelectLooksBack
      <3>2. scall[c] \in SelectCall /\ scall = [scall EXCEPT ![c] = scall[c]]
        BY <1>0
      <3> QED BY <3>1, <3>2, LocalsTyped DEF SelectReturnsNow
    <2>2. \E p \in {"idle", "full", "push"} : spc' = [spc EXCEPT ![c] = p]
      BY <1>3 DEF SelectLooksBack, SelectReturnsNow
    <2> QED BY <1>1, <1>3, <2>1, <2>2 DEF SelectLooksBack
  <1>4. CASE SelectWaits(c)
    <2>1. scall' = [scall EXCEPT ![c] = scall[c]]
      BY <1>0, <1>4 DEF SelectWaits
    <2> QED BY <1>0, <1>1, <1>4, <2>1 DEF SelectWaits
  <1>5. CASE SelectPushes(c)
    <2> DEFINE s == scall[c].slave
               r == [id |-> pushed[s] + 1, cmd |-> scall[c].cmd, retry |-> 0]
    <2>1. s \in Slaves /\ pushed[s] \in Nat /\ r \in Request /\ wq[s] \in Seq(Request)
      <3>1. s \in Slaves /\ scall[c].cmd \in Commands
        BY <1>0 DEF SelectCall
      <3> HIDE DEF s
      <3>2. pushed[s] \in Nat /\ wq[s] \in Seq(Request)
        BY <1>0, <3>1 DEF TypeOK
      <3>3. pushed[s] + 1 \in Nat /\ 0 \in 0..2
        BY <3>2
      <3>4. r \in Request
        BY <3>1, <3>3 DEF Request
      <3> QED BY <3>1, <3>2, <3>4
    <2>2. /\ wq' = [wq EXCEPT ![s] = Append(wq[s], r)]
          /\ pushed' = [pushed EXCEPT ![s] = pushed[s] + 1]
      BY <1>5 DEF SelectPushes
    <2>3. /\ scall' = [scall EXCEPT ![c] = NoSelect] /\ spc' = [spc EXCEPT ![c] = "idle"]
          /\ UNCHANGED <<rq, wpause, rpause, scheduler, pollers, executed, dropped, received, taken>>
      BY <1>5 DEF SelectPushes, SelectReturnsNow
    <2> HIDE DEF s, r
    <2>4. Append(wq[s], r) \in Seq(Request) /\ Append(wq[s], r) # << >>
      BY <2>1, AppendProperties
    <2>5. wq' \in [Slaves -> Seq(Request)] /\ pushed' \in [Slaves -> Nat]
      <3> DEFINE q == Append(wq[s], r)
                 n == pushed[s] + 1
      <3>1. /\ wq \in [Slaves -> Seq(Request)] /\ pushed \in [Slaves -> Nat]
        BY <1>0 DEF TypeOK
      <3>3. n \in Nat /\ q \in Seq(Request) /\ s \in Slaves
        BY <2>1, <2>4
      <3> HIDE DEF q, n
      <3>2. wq' = [wq EXCEPT ![s] = q] /\ pushed' = [pushed EXCEPT ![s] = n]
        BY <2>2 DEF q, n
      <3> QED BY <3>1, <3>2, <3>3
    <2>6. BusyInv'
      BY <1>0, <2>1, <2>2, <2>3, <2>4 DEF Typed, BusyInv, TypeOK, scheduler
    <2>7. scall' \in [Selectors -> SelectCall]
      BY <1>0, <2>3, LocalsTyped
    <2> QED BY <1>0, <2>3, <2>5, <2>6, <2>7 DEF Typed, TypeOK, scheduler, pollers, SelectCall
  <1> QED BY <1>2, <1>3, <1>4, <1>5 DEF SelectorStep

(* poll keeps the types. *)
LEMMA PollerTyped ==
  ASSUME Typed, NEW p \in Pollers, PollerStep(p)
  PROVE  Typed'
  <1> DEFINE PCs == {"idle", "empty", "wait", "again", "front", "pop"}
  <1>0. /\ TypeOK /\ ppc \in [Pollers -> PCs] /\ pcall \in [Pollers -> PollCall]
        /\ crossed \in [Slaves -> BOOLEAN]
    BY DEF Typed, TypeOK, PollCall
  <1>1. ASSUME UNCHANGED <<queues, scheduler, selectors, history>>,
               crossed' \in [Slaves -> BOOLEAN],
               NEW r \in PollCall, pcall' = [pcall EXCEPT ![p] = r],
               NEW q \in PCs, ppc' = [ppc EXCEPT ![p] = q]
        PROVE  Typed'
    BY <1>0, <1>1 DEF Typed, TypeOK, BusyInv, queues, scheduler, selectors, history, PollCall
  <1>2. Garbage \in Answer
    BY DEF Garbage, Answer
  <1>3. CASE StartPoll(p)
    <2>1. PICK s \in Slaves, timed \in BOOLEAN :
            /\ pcall' = [pcall EXCEPT ![p] = [slave |-> s, timed |-> timed, ans |-> Garbage]]
            /\ ppc' = [ppc EXCEPT ![p] = IF rq[s] = << >> THEN "empty" ELSE "again"]
      BY <1>3 DEF StartPoll
    <2>2. [slave |-> s, timed |-> timed, ans |-> Garbage] \in PollCall
      BY <1>2 DEF PollCall
    <2> QED BY <1>0, <1>1, <1>3, <2>1, <2>2 DEF StartPoll
  <1>4. CASE PollWaits(p)
    <2>1. pcall' = [pcall EXCEPT ![p] = pcall[p]]
      BY <1>0, <1>4 DEF PollWaits
    <2> QED BY <1>0, <1>1, <1>4, <2>1 DEF PollWaits
  <1>5. CASE PollTimesOut(p)
    BY <1>0, <1>1, <1>5, LocalsTyped DEF PollTimesOut, PollReturnsNow
  <1>6. CASE PollLooksAgain(p)
    <2>1. \/ PollReturnsNow(p)
          \/ ppc' = [ppc EXCEPT ![p] = "front"] /\ pcall' = [pcall EXCEPT ![p] = pcall[p]]
      BY <1>0, <1>6 DEF PollLooksAgain
    <2>2. crossed' \in [Slaves -> BOOLEAN]
      <3>1. pcall[p].slave \in Slaves
        BY <1>0 DEF PollCall
      <3> QED BY <1>0, <1>6, <3>1 DEF PollLooksAgain, PollReturnsNow
    <2> QED BY <1>0, <1>1, <1>6, <2>1, <2>2, LocalsTyped DEF PollLooksAgain, PollReturnsNow
  <1>7. CASE PollFront(p)
    <2> DEFINE s == pcall[p].slave
    <2>1. s \in Slaves /\ rq[s] \in Seq(Answer)
      BY <1>0 DEF PollCall, TypeOK
    <2>2. PICK a \in Answer : pcall' = [pcall EXCEPT ![p].ans = a]
      BY <1>2, <1>7, <2>1, HeadTailProperties DEF PollFront
    <2>3. [pcall[p] EXCEPT !.ans = a] \in PollCall
      BY <1>0 DEF PollCall
    <2> QED BY <1>0, <1>1, <1>7, <2>2, <2>3 DEF PollFront
  <1>8. CASE PollPop(p)
    <2> DEFINE s == pcall[p].slave
               a == pcall[p].ans
    <2>1. s \in Slaves /\ a \in Answer /\ rq[s] \in Seq(Answer) /\ taken[s][p] \in Seq(Answer)
      BY <1>0 DEF PollCall, TypeOK
    <2>2. /\ rq' = [rq EXCEPT ![s] = IF rq[s] = << >> THEN rq[s] ELSE Tail(rq[s])]
          /\ taken' = [taken EXCEPT ![s][p] = Append(taken[s][p], a)]
          /\ ppc' = [ppc EXCEPT ![p] = "idle"] /\ pcall' = [pcall EXCEPT ![p] = NoPoll]
          /\ UNCHANGED crossed
      BY <1>8 DEF PollPop, PollReturnsNow
    <2> HIDE DEF s, a
    <2>3. Append(taken[s][p], a) \in Seq(Answer)
      BY <2>1, AppendProperties
    <2>4. taken' \in [Slaves -> [Pollers -> Seq(Answer)]]
      BY <1>0, <2>1, <2>2, <2>3 DEF TypeOK
    <2>5. rq' \in [Slaves -> Seq(Answer)]
      BY <1>0, <2>1, <2>2, HeadTailProperties DEF TypeOK
    <2>6. ppc' \in [Pollers -> PCs] /\ pcall' \in [Pollers -> PollCall]
      BY <1>0, <2>2, LocalsTyped
    <2> QED BY <1>0, <1>8, <2>4, <2>5, <2>6
            DEF PollPop, PollReturnsNow, Typed, TypeOK, BusyInv, scheduler, selectors, PollCall
  <1> QED BY <1>3, <1>4, <1>5, <1>6, <1>7, <1>8 DEF PollerStep

(* runSchedule keeps the types. *)
LEMMA SchedulerTyped == Typed /\ SchedulerStep => Typed'
  <1> SUFFICES ASSUME Typed, SchedulerStep PROVE Typed'
    OBVIOUS
  <1>0. /\ TypeOK /\ wq[cur] \in Seq(Request) /\ rq[cur] \in Seq(Answer) /\ cur \in Slaves
        /\ executed[cur] \in Seq(Nat) /\ received[cur] \in Nat
    BY DEF Typed, TypeOK
  <1>1. ASSUME NEW s \in Slaves, VisitWrite(s) PROVE Typed'
    <2>1. /\ phase' \in {"write", "selecting", "signal"} /\ todo' \subseteq Slaves /\ cur' \in Slaves
          /\ phase' = "selecting" => wq[cur'] # << >>
      BY <1>0, <1>1 DEF VisitWrite, TypeOK
    <2> QED BY <1>0, <1>1, <2>1
            DEF VisitWrite, Typed, TypeOK, BusyInv, queues, selectors, pollers, history
  <1>2. ASSUME NEW s \in Slaves, VisitRead(s) PROVE Typed'
    <2>1. /\ phase' \in {"read", "polling"} /\ todo' \subseteq Slaves /\ cur' \in Slaves
      BY <1>0, <1>2 DEF VisitRead, TypeOK
    <2> QED BY <1>0, <1>2, <2>1
            DEF VisitRead, Typed, TypeOK, BusyInv, queues, selectors, pollers, history
  <1>3. ASSUME phase = "selecting", phase' = "signal",
               wq' \in [Slaves -> Seq(Request)], wpause' \in [Slaves -> BOOLEAN],
               executed' \in [Slaves -> Seq(Nat)], dropped' \in [Slaves -> SUBSET Nat],
               UNCHANGED <<rq, rpause, todo, cur, selectors, pollers, pushed, received, taken>>
        PROVE  Typed'
    BY <1>0, <1>3 DEF Typed, TypeOK, BusyInv, selectors, pollers
  <1>4. ASSUME phase = "selecting"
        PROVE  /\ Head(wq[cur]) \in Request /\ Tail(wq[cur]) \in Seq(Request)
               /\ Head(wq[cur]) = wq[cur][1] /\ 1 \in 1..Len(wq[cur])
               /\ Append(executed[cur], Head(wq[cur]).id) \in Seq(Nat)
               /\ [wpause EXCEPT ![cur] = TRUE] \in [Slaves -> BOOLEAN]
    <2>1. wq[cur] # << >>
      BY <1>4 DEF Typed, BusyInv
    <2>2. /\ Head(wq[cur]) \in Request /\ Tail(wq[cur]) \in Seq(Request)
          /\ Head(wq[cur]) = wq[cur][1] /\ 1 \in 1..Len(wq[cur])
      BY <1>0, <2>1, HeadTailProperties, EmptySeq
    <2>3. Head(wq[cur]).id \in Nat
      BY <2>2 DEF Request
    <2>4. Append(executed[cur], Head(wq[cur]).id) \in Seq(Nat)
      BY <1>0, <2>3, AppendProperties
    <2> QED BY <1>0, <2>2, <2>4 DEF TypeOK
  <1>5. CASE SelectAcked
    <2>1. wq' \in [Slaves -> Seq(Request)] /\ executed' \in [Slaves -> Seq(Nat)]
      BY <1>0, <1>4, <1>5 DEF SelectAcked, TypeOK
    <2> QED BY <1>0, <1>3, <1>4, <1>5, <2>1 DEF SelectAcked, TypeOK
  <1>6. CASE SelectFailed
    <2> DEFINE r == Head(wq[cur])
    <2>1. /\ phase = "selecting" /\ phase' = "signal" /\ wpause' = [wpause EXCEPT ![cur] = TRUE]
          /\ UNCHANGED <<rq, rpause, todo, cur, selectors, pollers, pushed, received, taken>>
      BY <1>6 DEF SelectFailed
    <2>2. executed' = [executed EXCEPT ![cur] = Append(executed[cur], r.id)] \/ executed' = executed
      BY <1>6 DEF SelectFailed
    <2>3. executed' \in [Slaves -> Seq(Nat)]
      BY <1>0, <1>4, <2>1, <2>2 DEF TypeOK
    <2>4. CASE GivesUp(r)
      <3>1. /\ wq' = [wq EXCEPT ![cur] = Tail(wq[cur])]
            /\ dropped' = [dropped EXCEPT ![cur] = dropped[cur] \cup {r.id}]
        BY <1>6, <2>4 DEF SelectFailed
      <3>2. wq' \in [Slaves -> Seq(Request)]
        BY <1>0, <1>4, <2>1, <3>1 DEF TypeOK
      <3>3. r.id \in Nat
        BY <1>4, <2>1 DEF Request
      <3>4. dropped' \in [Slaves -> SUBSET Nat]
        <4> HIDE DEF r
        <4> QED BY <1>0, <3>1, <3>3 DEF TypeOK
      <3> QED BY <1>3, <1>4, <2>1, <2>3, <3>2, <3>4
    <2>5. CASE ~GivesUp(r)
      <3>1. /\ wq' = [wq EXCEPT ![cur] = [wq[cur] EXCEPT ![1] = [r EXCEPT !.retry = r.retry + 1]]]
            /\ dropped' = dropped
        BY <1>0, <1>4, <1>6, <2>1, <2>5 DEF SelectFailed, TypeOK
      <3>2. [r EXCEPT !.retry = r.retry + 1] \in Request
        BY <1>4, <2>1, <2>5, SMTT(30) DEF Request, GivesUp
      <3>3. [wq[cur] EXCEPT ![1] = [r EXCEPT !.retry = r.retry + 1]] \in Seq(Request)
        BY <1>0, <1>4, <2>1, <3>2, ExceptSeq
      <3>4. wq' \in [Slaves -> Seq(Request)] /\ dropped' \in [Slaves -> SUBSET Nat]
        BY <1>0, <3>1, <3>3 DEF TypeOK
      <3> QED BY <1>3, <1>4, <2>1, <2>3, <3>4
    <2> QED BY <2>4, <2>5
  <1>7. CASE SignalWriter
    <2>1. spc' \in [Selectors -> {"idle", "back", "full", "wait", "push"}]
      BY <1>0, <1>7 DEF SignalWriter, TypeOK
    <2> QED BY <1>0, <1>7, <2>1
            DEF SignalWriter, Typed, TypeOK, BusyInv, queues, pollers, history
  <1>8. CASE StartReads \/ NextCycle
    BY <1>0, <1>8 DEF StartReads, NextCycle, Typed, TypeOK, BusyInv, queues, selectors, pollers,
                      history
  <1>9. ASSUME VisitOver,
               rq' \in [Slaves -> Seq(Answer)], received' \in [Slaves -> Nat],
               rpause' \in [Slaves -> BOOLEAN], wpause' \in [Slaves -> BOOLEAN],
               ppc' \in [Pollers -> {"idle", "empty", "wait", "again", "front", "pop"}],
               UNCHANGED <<wq, pcall, crossed, pushed, executed, dropped, taken>>
        PROVE  Typed'
    BY <1>0, <1>9 DEF VisitOver, Typed, TypeOK, BusyInv, selectors
  <1>10. ASSUME NEW good \in BOOLEAN, Queue(good)
         PROVE  /\ rq' \in [Slaves -> Seq(Answer)] /\ received' \in [Slaves -> Nat]
                /\ UNCHANGED <<wq, rpause, pcall, crossed, pushed, executed, dropped, taken>>
    <2> DEFINE a == [n |-> received[cur] + 1, good |-> good]
    <2>1. /\ rq' = [rq EXCEPT ![cur] = Append(rq[cur], a)]
          /\ received' = [received EXCEPT ![cur] = received[cur] + 1]
          /\ UNCHANGED <<wq, rpause, pcall, crossed, pushed, executed, dropped, taken>>
      BY <1>10 DEF Queue
    <2>2. a \in Answer
      BY <1>0 DEF Answer
    <2> HIDE DEF a
    <2>3. Append(rq[cur], a) \in Seq(Answer)
      BY <1>0, <2>2, AppendProperties
    <2> QED BY <1>0, <2>1, <2>3 DEF TypeOK
  <1>11. CASE PollAnswered
    <2>1. ppc' \in [Pollers -> {"idle", "empty", "wait", "again", "front", "pop"}]
      BY <1>0, <1>11 DEF PollAnswered, TypeOK
    <2>2. VisitOver /\ (\E good \in BOOLEAN : Queue(good)) /\ wpause' \in [Slaves -> BOOLEAN]
      BY <1>0, <1>11 DEF PollAnswered, TypeOK
    <2>3. rpause \in [Slaves -> BOOLEAN]
      BY <1>0 DEF TypeOK
    <2> QED BY <1>9, <1>10, <2>1, <2>2, <2>3
  <1>12. CASE PollCrcFailed
    <2>1. Queue(FALSE) /\ VisitOver /\ UNCHANGED <<ppc, wpause>>
      BY <1>12 DEF PollCrcFailed
    <2> QED BY <1>0, <1>9, <1>10, <2>1 DEF TypeOK
  <1>13. CASE PollFailed
    <2>1. rpause' \in [Slaves -> BOOLEAN]
      BY <1>0, <1>13 DEF PollFailed, TypeOK
    <2> QED BY <1>0, <1>9, <1>13, <2>1 DEF PollFailed, TypeOK, pollers, history
  <1> QED BY <1>1, <1>2, <1>5, <1>6, <1>7, <1>8, <1>11, <1>12, <1>13 DEF SchedulerStep

(* Every step keeps the types. *)
LEMMA TypedStep == Typed /\ [Next]_vars => Typed'
  <1>1. ASSUME Typed, NEW s \in Slaves, WritePauseEnds(s) \/ ReadPauseEnds(s) PROVE Typed'
    BY <1>1 DEF WritePauseEnds, ReadPauseEnds, Typed, TypeOK, BusyInv, scheduler, selectors,
                pollers, history
  <1>2. ASSUME Typed, UNCHANGED vars PROVE Typed'
    BY <1>2 DEF vars, queues, scheduler, selectors, pollers, history, Typed, TypeOK, BusyInv
  <1> QED BY <1>1, <1>2, SelectorTyped, PollerTyped, SchedulerTyped DEF Next

(* Whatever the interleaving of clients and schedule thread, the state is  *)
(* well typed: no retry count beyond 2, no command under way that is not   *)
(* in the queue.                                                           *)
THEOREM TypeCorrect == Spec => []TypeOK
  <1>1. Typed => TypeOK
    BY DEF Typed
  <1> QED BY <1>1, TypedInit, TypedStep, PTL DEF Spec

-----------------------------------------------------------------------------
(* One slave's commands: q its write queue, p how many were pushed, e what *)
(* it carried out.                                                         *)

Settled(q, p) == p - Len(q)
Failures(q)   == IF q = << >> THEN 0 ELSE Head(q).retry
Occurs(e, id) == Cardinality({i \in DOMAIN e : e[i] = id})

(* The queue holds the last commands pushed, in order.                     *)
Numbered(q, p) == \A i \in 1..Len(q) : q[i].id = Settled(q, p) + i

(* Only the first has been tried, and if it is an SL or SA not even that.  *)
Untried(q) == \A i \in 1..Len(q) : (i > 1 \/ q[i].cmd \in NoRetry) => q[i].retry = 0

(* What was carried out has left the queue, or is its first command.       *)
InTurn(q, p, e) ==
  \A i \in 1..Len(e) :
    e[i] <= Settled(q, p) \/ (e[i] = Settled(q, p) + 1 /\ Failures(q) > 0)
Sorted(e) == \A i, j \in 1..Len(e) : i < j => e[i] <= e[j]

(* And the first command was carried out once per failure at most.         *)
InOrder(q, p, e) ==
  /\ Settled(q, p) \in Nat
  /\ Numbered(q, p) /\ Untried(q) /\ InTurn(q, p, e) /\ Sorted(e)
  /\ Occurs(e, Settled(q, p) + 1) <= Failures(q)

CommandInv == \A s \in Slaves : InOrder(wq[s], pushed[s], executed[s])

(* How often a command was carried out, as the history grows. *)
LEMMA OccursRules ==
  ASSUME NEW e \in Seq(Nat), NEW id \in Nat, NEW n \in Nat
  PROVE  /\ Occurs(e, id) \in Nat
         /\ (\A i \in 1..Len(e) : e[i] # id) => Occurs(e, id) = 0
         /\ Occurs(Append(e, n), id) \in Nat
         /\ Occurs(Append(e, n), id) <= Occurs(e, id) + 1
  <1> DEFINE S == {i \in DOMAIN e : e[i] = id}
             T == {i \in DOMAIN Append(e, n) : Append(e, n)[i] = id}
             x == Len(e) + 1
  <1>1. DOMAIN e = 1..Len(e) /\ Len(e) \in Nat
    BY LenProperties
  <1>2. IsFiniteSet(1..Len(e)) /\ S \in SUBSET (1..Len(e))
    BY <1>1, FS_Interval
  <1>3. (\A i \in 1..Len(e) : e[i] # id) => S = {}
    BY <1>1
  <1>4. T \subseteq S \cup {x}
    <2>1. /\ Append(e, n) \in Seq(Nat) /\ Len(Append(e, n)) = Len(e) + 1
          /\ \A i \in 1..Len(e) : Append(e, n)[i] = e[i]
      BY AppendProperties
    <2>2. DOMAIN Append(e, n) = 1..(Len(e) + 1)
      BY <2>1, LenProperties
    <2> QED BY <1>1, <2>1, <2>2
  <1>5. Occurs(e, id) = Cardinality(S) /\ Occurs(Append(e, n), id) = Cardinality(T)
    BY DEF Occurs
  <1> HIDE DEF S, T, x
  <1>6. IsFiniteSet(S) /\ Cardinality(S) \in Nat
    BY <1>2, FS_Subset, FS_CardinalityType
  <1>7. /\ IsFiniteSet(S \cup {x})
        /\ Cardinality(S \cup {x}) = IF x \in S THEN Cardinality(S) ELSE Cardinality(S) + 1
    BY <1>6, FS_AddElement
  <1>8. /\ IsFiniteSet(T) /\ Cardinality(T) <= Cardinality(S \cup {x})
        /\ Cardinality(T) \in Nat
    BY <1>4, <1>7, FS_Subset, FS_CardinalityType
  <1>9. Cardinality(T) <= Cardinality(S) + 1
    BY <1>6, <1>7, <1>8
  <1> QED BY <1>3, <1>5, <1>6, <1>8, <1>9, FS_EmptySet

(* The oldest command of a queue, and the rest of it. *)
LEMMA FirstCommand ==
  ASSUME NEW q \in Seq(Request), q # << >>
  PROVE  /\ Head(q) = q[1] /\ Head(q) \in Request
         /\ Len(q) \in Nat /\ 1 \in 1..Len(q)
         /\ Failures(q) = q[1].retry /\ Failures(q) \in Nat
  <1>1. Len(q) \in Nat \ {0}
    BY EmptySeq
  <1>2. Head(q) = q[1] /\ 1 \in 1..Len(q)
    BY <1>1
  <1>3. q[1] \in Request
    BY <1>2, ElementOfSeq
  <1>4. q[1].retry \in Nat
    BY <1>3 DEF Request
  <1> QED BY <1>1, <1>2, <1>3, <1>4 DEF Failures

(* A select pushes: the new command has the next number.                   *)
LEMMA PushInOrder ==
  ASSUME NEW q \in Seq(Request), NEW p \in Nat, NEW e \in Seq(Nat), NEW x \in Commands,
         InOrder(q, p, e)
  PROVE  InOrder(Append(q, [id |-> p + 1, cmd |-> x, retry |-> 0]), p + 1, e)
  <1> DEFINE r == [id |-> p + 1, cmd |-> x, retry |-> 0]
             a == Append(q, r)
  <1>1. r \in Request /\ r.id = p + 1 /\ r.retry = 0
    BY DEF Request
  <1> HIDE DEF r
  <1>2. /\ Len(a) = Len(q) + 1 /\ Len(q) \in Nat /\ a # << >> /\ a \in Seq(Request)
        /\ \A i \in 1..Len(q) : a[i] = q[i]
        /\ a[Len(q) + 1] = r
    BY <1>1, AppendProperties, LenProperties
  <1>3. Failures(a) = Failures(q)
    BY <1>1, <1>2, HeadTailAppend, SMTT(30) DEF Failures
  <1> HIDE DEF a
  <1>4. Settled(a, p + 1) = Settled(q, p)
    BY <1>2 DEF Settled
  <1>5. Numbered(a, p + 1)
    <2>1. ASSUME NEW i \in 1..Len(a) PROVE a[i].id = Settled(q, p) + i
      <3>1. CASE i \in 1..Len(q)
        <4>1. a[i] = q[i] /\ q[i].id = Settled(q, p) + i
          BY <1>2, <3>1 DEF InOrder, Numbered
        <4> QED BY <4>1
      <3>2. CASE i = Len(q) + 1
        <4>1. a[i].id = p + 1
          BY <1>1, <1>2, <3>2
        <4> QED BY <1>2, <3>2, <4>1 DEF Settled
      <3> QED BY <1>2, <3>1, <3>2
    <2> QED BY <1>4, <2>1 DEF Numbered
  <1>6. Untried(a)
    <2> SUFFICES ASSUME NEW i \in 1..Len(a), i > 1 \/ a[i].cmd \in NoRetry PROVE a[i].retry = 0
      BY DEF Untried
    <2>1. CASE i \in 1..Len(q)
      <3>1. a[i] = q[i]
        BY <1>2, <2>1
      <3> QED BY <2>1, <3>1 DEF InOrder, Untried
    <2>2. CASE i = Len(q) + 1
      BY <1>1, <1>2, <2>2
    <2> QED BY <1>2, <2>1, <2>2
  <1>7. InTurn(a, p + 1, e)
    BY <1>3, <1>4 DEF InOrder, InTurn
  <1> QED BY <1>3, <1>4, <1>5, <1>6, <1>7 DEF InOrder, a, r

(* The first command was, or was not, carried out.                         *)
TriedOnce(q, e) == {e, Append(e, Head(q).id)}

(* A try of the oldest command keeps order and count. *)
LEMMA TryInOrder ==
  ASSUME NEW q \in Seq(Request), NEW p \in Nat, NEW e \in Seq(Nat), q # << >>,
         NEW t \in TriedOnce(q, e), InOrder(q, p, e)
  PROVE  /\ t \in Seq(Nat) /\ Settled(q, p) \in Nat
         /\ \A i \in 1..Len(t) : t[i] \in Nat /\ t[i] <= Settled(q, p) + 1
         /\ Sorted(t)
         /\ Occurs(t, Settled(q, p) + 1) <= Failures(q) + 1
         /\ Occurs(t, Settled(q, p) + 2) = 0
  <1> DEFINE n == Settled(q, p) + 1
  <1>1. Settled(q, p) \in Nat /\ n \in Nat /\ Settled(q, p) + 2 = n + 1
    BY DEF InOrder
  <1>2. Head(q).id = n
    BY FirstCommand DEF InOrder, Numbered
  <1>3. \A i \in 1..Len(e) : e[i] \in Nat /\ e[i] <= n
    <2> SUFFICES ASSUME NEW i \in 1..Len(e) PROVE e[i] \in Nat /\ e[i] <= n
      OBVIOUS
    <2>1. e[i] \in Nat
      BY ElementOfSeq
    <2>2. e[i] <= Settled(q, p) \/ e[i] = Settled(q, p) + 1
      BY DEF InOrder, InTurn
    <2> QED BY <1>1, <2>1, <2>2
  <1>4. Occurs(e, n) <= Failures(q) /\ Failures(q) \in Nat
    BY FirstCommand DEF InOrder
  <1> HIDE DEF n
  <1>5. CASE t = e
    <2>1. \A i \in 1..Len(e) : e[i] # n + 1
      BY <1>1, <1>3
    <2>2. Occurs(e, n + 1) = 0 /\ Occurs(e, n) \in Nat
      <3>1. n + 1 \in Nat
        BY <1>1
      <3> QED BY <1>1, <2>1, <3>1, OccursRules
    <2>3. Occurs(e, n) <= Failures(q) + 1
      BY <1>4, <2>2
    <2> QED BY <1>1, <1>3, <1>5, <2>2, <2>3 DEF InOrder, n
  <1>6. CASE t = Append(e, n)
    <2>1. /\ t \in Seq(Nat) /\ Len(t) = Len(e) + 1 /\ Len(e) \in Nat
          /\ \A i \in 1..Len(e) : t[i] = e[i]
          /\ t[Len(e) + 1] = n
      BY <1>1, <1>6, AppendProperties, LenProperties
    <2>2. \A i \in 1..Len(t) : i \in 1..Len(e) \/ i = Len(e) + 1
      BY <2>1
    <2>3. \A i \in 1..Len(t) : t[i] \in Nat /\ t[i] <= n
      <3> SUFFICES ASSUME NEW i \in 1..Len(t) PROVE t[i] \in Nat /\ t[i] <= n
        OBVIOUS
      <3>1. CASE i \in 1..Len(e)
        BY <1>3, <2>1, <3>1
      <3>2. CASE i = Len(e) + 1
        BY <1>1, <2>1, <3>2
      <3> QED BY <2>2, <3>1, <3>2
    <2>4. Sorted(t)
      <3> SUFFICES ASSUME NEW i \in 1..Len(t), NEW j \in 1..Len(t), i < j PROVE t[i] <= t[j]
        BY DEF Sorted
      <3>1. i \in 1..Len(e) /\ t[i] = e[i]
        BY <2>1, SMTT(30)
      <3>2. CASE j \in 1..Len(e)
        <4>1. t[j] = e[j]
          BY <2>1, <3>2
        <4> QED BY <3>1, <3>2, <4>1 DEF InOrder, Sorted
      <3>3. CASE j = Len(e) + 1
        BY <1>3, <2>1, <3>1, <3>3
      <3> QED BY <2>2, <3>2, <3>3
    <2>5. Occurs(t, n) <= Failures(q) + 1
      <3>1. /\ Occurs(e, n) \in Nat /\ Occurs(t, n) \in Nat
            /\ Occurs(t, n) <= Occurs(e, n) + 1
        BY <1>1, <1>6, OccursRules
      <3> QED BY <1>4, <3>1
    <2>6. Occurs(t, n + 1) = 0
      <3>1. \A i \in 1..Len(t) : t[i] # n + 1
        BY <1>1, <2>3
      <3>2. n + 1 \in Nat
        BY <1>1
      <3> QED BY <1>1, <2>1, <3>1, <3>2, OccursRules
    <2> QED BY <1>1, <2>1, <2>3, <2>4, <2>5, <2>6 DEF n
  <1> QED BY <1>2, <1>5, <1>6 DEF TriedOnce

(* It leaves the queue, done or given up.                                  *)
LEMMA LeaveInOrder ==
  ASSUME NEW q \in Seq(Request), NEW p \in Nat, NEW e \in Seq(Nat), q # << >>,
         NEW t \in TriedOnce(q, e), InOrder(q, p, e)
  PROVE  InOrder(Tail(q), p, t)
  <1> DEFINE r == Tail(q)
             n == Settled(q, p)
  <1>1. /\ n \in Nat /\ t \in Seq(Nat) /\ Sorted(t)
        /\ \A i \in 1..Len(t) : t[i] <= n + 1
        /\ Occurs(t, n + 2) = 0
    BY TryInOrder
  <1>2. /\ r \in Seq(Request) /\ Len(r) = Len(q) - 1 /\ Len(q) \in Nat /\ Len(r) \in Nat
        /\ \A i \in 1..Len(r) : r[i] = q[i + 1]
    BY HeadTailProperties, LenProperties
  <1>3. \A i \in 1..Len(q) : q[i].id = n + i /\ (i > 1 => q[i].retry = 0)
    BY DEF InOrder, Numbered, Untried
  <1> HIDE DEF r
  <1>4. Settled(r, p) = n + 1
    BY <1>2 DEF Settled
  <1> HIDE DEF n
  <1>5. ASSUME NEW i \in 1..Len(r) PROVE r[i].id = (n + 1) + i /\ r[i].retry = 0
    <2>1. i + 1 \in 1..Len(q) /\ i + 1 > 1 /\ r[i] = q[i + 1] /\ n + (i + 1) = (n + 1) + i
      BY <1>1, <1>2
    <2> QED BY <1>3, <2>1
  <1>6. Failures(r) = 0
    <2>1. r # << >> => Failures(r) = r[1].retry /\ 1 \in 1..Len(r)
      BY <1>2, FirstCommand
    <2> QED BY <1>5, <2>1 DEF Failures
  <1>7. (n + 1) + 1 = n + 2 /\ n + 1 \in Nat
    BY <1>1
  <1>8. Numbered(r, p) /\ Untried(r)
    BY <1>4, <1>5 DEF Numbered, Untried
  <1>9. InTurn(r, p, t)
    BY <1>1, <1>4 DEF InTurn
  <1>10. Occurs(t, Settled(r, p) + 1) <= Failures(r)
    BY <1>1, <1>4, <1>6, <1>7
  <1> QED BY <1>1, <1>4, <1>7, <1>8, <1>9, <1>10 DEF InOrder, r

(* It stays for another try.                                               *)
LEMMA StayInOrder ==
  ASSUME NEW q \in Seq(Request), NEW p \in Nat, NEW e \in Seq(Nat), q # << >>,
         NEW t \in TriedOnce(q, e), InOrder(q, p, e), Head(q).cmd \notin NoRetry,
         NEW r \in Request, r = [Head(q) EXCEPT !.retry = Head(q).retry + 1]
  PROVE  InOrder([q EXCEPT ![1] = r], p, t)
  <1> DEFINE u == [q EXCEPT ![1] = r]
             n == Settled(q, p)
  <1>1. /\ n \in Nat /\ t \in Seq(Nat) /\ Failures(q) \in Nat
        /\ \A i \in 1..Len(t) : t[i] \in Nat /\ t[i] <= n + 1
        /\ Sorted(t)
        /\ Occurs(t, n + 1) <= Failures(q) + 1
    BY TryInOrder, FirstCommand
  <1>2. /\ Head(q) = q[1] /\ Len(q) \in Nat /\ 1 \in 1..Len(q) /\ Head(q) \in Request
        /\ Failures(q) = Head(q).retry
    BY FirstCommand
  <1>3. /\ u \in Seq(Request) /\ Len(u) = Len(q)
        /\ \A i \in 1..Len(q) : u[i] = IF i = 1 THEN r ELSE q[i]
    BY <1>2, ExceptSeq
  <1>4. r.id = Head(q).id /\ r.cmd = Head(q).cmd /\ r.retry = Head(q).retry + 1
    BY <1>2 DEF Request
  <1> HIDE DEF u
  <1>5. Settled(u, p) = n
    BY <1>3 DEF Settled
  <1>6. u # << >> /\ u[1] = r
    BY <1>2, <1>3, EmptySeq
  <1>7. Failures(u) = Failures(q) + 1
    BY <1>2, <1>3, <1>4, <1>6, FirstCommand
  <1>8. Numbered(u, p)
    <2>1. \A i \in 1..Len(q) : q[i].id = n + i
      BY DEF InOrder, Numbered
    <2>2. \A i \in 1..Len(q) : u[i].id = q[i].id
      BY <1>2, <1>3, <1>4
    <2> HIDE DEF n
    <2> QED BY <1>3, <1>5, <2>1, <2>2 DEF Numbered
  <1>9. Untried(u)
    <2> SUFFICES ASSUME NEW i \in 1..Len(u), i > 1 \/ u[i].cmd \in NoRetry PROVE u[i].retry = 0
      BY DEF Untried
    <2>1. i # 1 /\ u[i] = q[i] /\ i \in 1..Len(q)
      <3>1. u[1].cmd \notin NoRetry
        BY <1>4, <1>6
      <3>2. i # 1
        BY <3>1
      <3>3. i \in 1..Len(q)
        BY <1>3
      <3> QED BY <1>3, <3>2, <3>3
    <2>2. i > 1
      BY <1>2, <2>1
    <2> QED BY <2>1, <2>2 DEF InOrder, Untried
  <1> HIDE DEF n
  <1>10. InTurn(u, p, t)
    <2>1. \A i \in 1..Len(t) : t[i] <= n \/ t[i] = n + 1
      BY <1>1, SMTT(30)
    <2>2. Failures(u) > 0
      BY <1>1, <1>7
    <2> QED BY <1>5, <2>1, <2>2 DEF InTurn
  <1> QED BY <1>1, <1>5, <1>7, <1>8, <1>9, <1>10 DEF InOrder, u

-----------------------------------------------------------------------------
(* Which steps touch the commands, and how. *)

(* Steps that neither push nor try a command. *)
LEMMA QuietSteps ==
  ASSUME [Next]_vars, ~(\E c \in Selectors : SelectPushes(c)), ~SelectAcked, ~SelectFailed
  PROVE  UNCHANGED <<wq, pushed, executed, dropped>>
  <1>1. ASSUME NEW c \in Selectors, SelectorStep(c)
        PROVE  UNCHANGED <<wq, pushed, executed, dropped>>
    BY <1>1 DEF SelectorStep, StartSelect, SelectLooksBack, SelectWaits, queues, history
  <1>2. ASSUME NEW p \in Pollers, PollerStep(p)
        PROVE  UNCHANGED <<wq, pushed, executed, dropped>>
    BY <1>2 DEF PollerStep, StartPoll, PollWaits, PollTimesOut, PollLooksAgain, PollFront,
                PollPop, queues, history
  <1>3. ASSUME SchedulerStep PROVE UNCHANGED <<wq, pushed, executed, dropped>>
    BY <1>3 DEF SchedulerStep, VisitWrite, VisitRead, SignalWriter, StartReads, PollAnswered,
                PollCrcFailed, PollFailed, NextCycle, Queue, queues, history
  <1>4. ASSUME NEW s \in Slaves, WritePauseEnds(s) \/ ReadPauseEnds(s)
        PROVE  UNCHANGED <<wq, pushed, executed, dropped>>
    BY <1>4 DEF WritePauseEnds, ReadPauseEnds, history
  <1>5. CASE UNCHANGED vars
    BY <1>5 DEF vars, queues, history
  <1> QED BY <1>1, <1>2, <1>3, <1>4, <1>5 DEF Next

(* What select's push does to the commands. *)
LEMMA PushEffect ==
  ASSUME Typed, NEW c \in Selectors, SelectPushes(c)
  PROVE  \E s \in Slaves, x \in Commands :
           /\ wq' = [wq EXCEPT ![s] = Append(wq[s], [id |-> pushed[s] + 1, cmd |-> x, retry |-> 0])]
           /\ pushed' = [pushed EXCEPT ![s] = pushed[s] + 1]
           /\ UNCHANGED <<executed, dropped>>
  <1>1. scall[c].slave \in Slaves /\ scall[c].cmd \in Commands
    BY DEF Typed, TypeOK
  <1> QED BY <1>1 DEF SelectPushes

(* The end of a transaction; q is the queue of the slave it was with.      *)
Leaves(q) == wq' = [wq EXCEPT ![cur] = Tail(q)]
Stays(q)  == \E r \in Request : /\ r = [Head(q) EXCEPT !.retry = Head(q).retry + 1]
                                /\ wq' = [wq EXCEPT ![cur] = [q EXCEPT ![1] = r]]

(* What a try of the schedule thread does to the commands. *)
LEMMA TryEffect ==
  ASSUME Typed, SelectAcked \/ SelectFailed
  PROVE  /\ cur \in Slaves /\ wq[cur] # << >> /\ UNCHANGED pushed
         /\ \E t \in TriedOnce(wq[cur], executed[cur]) : executed' = [executed EXCEPT ![cur] = t]
         /\ SelectAcked => Leaves(wq[cur]) /\ UNCHANGED dropped
         /\ SelectFailed =>
              \/ /\ Leaves(wq[cur])
                 /\ dropped' = [dropped EXCEPT ![cur] = dropped[cur] \cup {Head(wq[cur]).id}]
              \/ /\ Stays(wq[cur]) /\ ~GivesUp(Head(wq[cur]))
                 /\ UNCHANGED dropped
  <1> DEFINE q == wq[cur]
             h == Head(q)
  <1>1. /\ cur \in Slaves /\ q # << >> /\ q \in Seq(Request) /\ wq \in [Slaves -> Seq(Request)]
        /\ executed \in [Slaves -> Seq(Nat)]
    BY DEF SelectAcked, SelectFailed, Typed, TypeOK, BusyInv
  <1>2. h = q[1] /\ h \in Request
    BY <1>1, FirstCommand
  <1>3. UNCHANGED pushed
    BY DEF SelectAcked, SelectFailed
  <1>4. \E t \in TriedOnce(q, executed[cur]) : executed' = [executed EXCEPT ![cur] = t]
    <2>1. \/ executed' = [executed EXCEPT ![cur] = Append(executed[cur], h.id)]
          \/ executed' = executed
      BY DEF SelectAcked, SelectFailed
    <2>2. executed = [executed EXCEPT ![cur] = executed[cur]]
      BY <1>1
    <2> QED BY <2>1, <2>2 DEF TriedOnce
  <1>5. SelectAcked => Leaves(q) /\ UNCHANGED dropped
    BY DEF SelectAcked, Leaves
  <1>6. SelectFailed /\ GivesUp(h) =>
          /\ Leaves(q)
          /\ dropped' = [dropped EXCEPT ![cur] = dropped[cur] \cup {h.id}]
    BY DEF SelectFailed, Leaves
  <1>7. ASSUME SelectFailed, ~GivesUp(h) PROVE Stays(q) /\ UNCHANGED dropped
    <2> DEFINE r == [h EXCEPT !.retry = h.retry + 1]
    <2>1. wq' = [wq EXCEPT ![cur] = [q EXCEPT ![1] = r]] /\ UNCHANGED dropped
      BY <1>1, <1>2, <1>7 DEF SelectFailed
    <2>2. r \in Request
      BY <1>2, <1>7 DEF GivesUp, Request
    <2> QED BY <2>1, <2>2 DEF Stays
  <1> QED BY <1>1, <1>3, <1>4, <1>5, <1>6, <1>7

(* Every step keeps the account of the commands. *)
LEMMA CommandStep == Typed /\ CommandInv /\ [Next]_vars => CommandInv'
  <1> SUFFICES ASSUME Typed, CommandInv, [Next]_vars, NEW s \in Slaves
               PROVE  InOrder(wq'[s], pushed'[s], executed'[s])
    BY DEF CommandInv
  <1>0. /\ wq \in [Slaves -> Seq(Request)] /\ pushed \in [Slaves -> Nat]
        /\ executed \in [Slaves -> Seq(Nat)]
    BY DEF Typed, TypeOK
  <1>1. InOrder(wq[s], pushed[s], executed[s])
    BY DEF CommandInv
  <1>2. ASSUME NEW c \in Selectors, SelectPushes(c)
        PROVE  InOrder(wq'[s], pushed'[s], executed'[s])
    <2>1. PICK z \in Slaves, x \in Commands :
            /\ wq' = [wq EXCEPT ![z] =
                        Append(wq[z], [id |-> pushed[z] + 1, cmd |-> x, retry |-> 0])]
            /\ pushed' = [pushed EXCEPT ![z] = pushed[z] + 1]
            /\ UNCHANGED executed
      BY <1>2, PushEffect
    <2>2. CASE z = s
      <3>1. /\ wq'[s] = Append(wq[s], [id |-> pushed[s] + 1, cmd |-> x, retry |-> 0])
            /\ pushed'[s] = pushed[s] + 1 /\ executed'[s] = executed[s]
        BY <1>0, <2>1, <2>2
      <3> QED BY <1>0, <1>1, <3>1, PushInOrder
    <2>3. CASE z # s
      BY <1>0, <1>1, <2>1, <2>3
    <2> QED BY <2>2, <2>3
  <1>3. CASE SelectAcked \/ SelectFailed
    <2> DEFINE q == wq[cur]
    <2>1. PICK t \in TriedOnce(q, executed[cur]) : executed' = [executed EXCEPT ![cur] = t]
      BY <1>3, TryEffect
    <2>2. /\ cur \in Slaves /\ q # << >> /\ UNCHANGED pushed
          /\ Leaves(q) \/ (Stays(q) /\ ~GivesUp(Head(q)))
      BY <1>3, TryEffect
    <2>3. CASE cur # s
      BY <1>0, <1>1, <2>1, <2>2, <2>3 DEF Leaves, Stays
    <2>4. CASE cur = s /\ Leaves(q)
      <3>1. wq'[s] = Tail(wq[s]) /\ pushed'[s] = pushed[s] /\ executed'[s] = t
        BY <1>0, <2>1, <2>2, <2>4 DEF Leaves
      <3> QED BY <1>0, <1>1, <2>1, <2>2, <2>4, <3>1, LeaveInOrder
    <2>5. CASE cur = s /\ Stays(q) /\ ~GivesUp(Head(q))
      <3>1. PICK r \in Request : /\ r = [Head(q) EXCEPT !.retry = Head(q).retry + 1]
                                 /\ wq' = [wq EXCEPT ![cur] = [q EXCEPT ![1] = r]]
        BY <2>5 DEF Stays
      <3>2. wq'[s] = [q EXCEPT ![1] = r] /\ pushed'[s] = pushed[s] /\ executed'[s] = t
        BY <1>0, <2>1, <2>2, <2>5, <3>1
      <3>3. Head(q).cmd \notin NoRetry
        BY <2>5 DEF GivesUp
      <3> QED BY <1>0, <1>1, <2>1, <2>2, <2>5, <3>1, <3>2, <3>3, StayInOrder
    <2> QED BY <2>2, <2>3, <2>4, <2>5
  <1>4. CASE UNCHANGED <<wq, pushed, executed, dropped>>
    BY <1>1, <1>4
  <1> QED BY <1>2, <1>3, <1>4, QuietSteps

(* No command was pushed at the start. *)
LEMMA CommandInit == Init => CommandInv
  <1>1. InOrder(<< >>, 0, << >>)
    <2>1. << >> \in Seq(Nat) /\ Len(<< >>) = 0 /\ 1..0 = {}
      BY EmptySeq
    <2>2. Occurs(<< >>, 1) = 0
      BY <2>1, OccursRules
    <2>3. Settled(<< >>, 0) = 0 /\ Failures(<< >>) = 0
      <3>1. \A n \in Nat : n = 0 => 0 - n = 0
        OBVIOUS
      <3> QED BY <2>1, <3>1 DEF Settled, Failures
    <2> QED BY <2>1, <2>2, <2>3 DEF InOrder, Numbered, Untried, InTurn, Sorted
  <1> QED BY <1>1 DEF Init, CommandInv

(* The account of the commands holds always. *)
LEMMA CommandAlways == Spec => [](Typed /\ CommandInv)
  BY TypedInit, TypedStep, CommandInit, CommandStep, PTL DEF Spec

(* A slave carries out commands in the order they were pushed: a retry     *)
(* neither lets a later command pass nor comes back after one, for any     *)
(* number of slaves and clients and any mix of failures.                   *)
THEOREM OrderKept == Spec => []ExecutedInOrder
  <1>1. Typed /\ CommandInv => ExecutedInOrder
    <2> SUFFICES ASSUME Typed, CommandInv, NEW s \in Slaves
                 PROVE  \A i, j \in DOMAIN executed[s] :
                          i < j => executed[s][i] <= executed[s][j]
      BY DEF ExecutedInOrder
    <2>1. executed[s] \in Seq(Nat) /\ Sorted(executed[s])
      BY DEF Typed, TypeOK, CommandInv, InOrder
    <2> QED BY <2>1, LenProperties DEF Sorted
  <1> QED BY <1>1, CommandAlways, PTL

(* A queued command has been carried out at most as often as it failed, an *)
(* SL or SA not at all.                                                    *)
THEOREM RetriesLimited == Spec => []RetriesBounded
  <1>1. Typed /\ CommandInv => RetriesBounded
    <2> SUFFICES ASSUME Typed, CommandInv, NEW s \in Slaves, NEW i \in DOMAIN wq[s]
                 PROVE  /\ Times(s, wq[s][i].id) <= wq[s][i].retry
                        /\ wq[s][i].cmd \in NoRetry => Times(s, wq[s][i].id) = 0
      BY DEF RetriesBounded
    <2> DEFINE q == wq[s]
               e == executed[s]
               n == Settled(q, pushed[s])
    <2>1. q \in Seq(Request) /\ e \in Seq(Nat) /\ InOrder(q, pushed[s], e)
      BY DEF Typed, TypeOK, CommandInv
    <2>2. i \in 1..Len(q) /\ Len(q) \in Nat /\ q[i] \in Request
      BY <2>1, LenProperties, ElementOfSeq
    <2>3. q[i].id = n + i /\ (i > 1 \/ q[i].cmd \in NoRetry => q[i].retry = 0)
      BY <2>1, <2>2 DEF InOrder, Numbered, Untried
    <2>4. n \in Nat /\ q[i].id \in Nat /\ q[i].retry \in Nat
      BY <2>1, <2>2 DEF InOrder, Request
    <2>5. Times(s, q[i].id) = Occurs(e, q[i].id) /\ Occurs(e, q[i].id) \in Nat
      BY <2>1, <2>4, OccursRules DEF Times, Occurs
    <2>6. CASE i = 1
      <3>1. q # << >> /\ Failures(q) = q[1].retry
        BY <2>1, <2>2, EmptySeq, FirstCommand
      <3>2. Occurs(e, n + 1) <= q[i].retry
        BY <2>1, <2>6, <3>1 DEF InOrder
      <3> HIDE DEF q, e, n
      <3> QED BY <2>3, <2>4, <2>5, <2>6, <3>2 DEF q
    <2>7. CASE i > 1
      <3>1. ASSUME NEW j \in 1..Len(e) PROVE e[j] # q[i].id
        <4>1. e[j] \in Nat /\ (e[j] <= n \/ e[j] = n + 1)
          BY <2>1, ElementOfSeq DEF InOrder, InTurn
        <4> HIDE DEF q, e, n
        <4> QED BY <2>2, <2>3, <2>4, <2>7, <4>1
      <3>2. Occurs(e, q[i].id) = 0
        BY <2>1, <2>4, <3>1, OccursRules
      <3> HIDE DEF q, e, n
      <3> QED BY <2>4, <2>5, <3>2 DEF q
    <2> QED BY <2>2, <2>6, <2>7
  <1> QED BY <1>1, CommandAlways, PTL

-----------------------------------------------------------------------------
(* The limit of the write queue.  A select that will push has seen room    *)
(* for its command, or was told of room; the limit is passed by no more    *)
(* than the number of those, less one.                                     *)

(* The selects on their way to push to s without waiting any more.         *)
Pushers(s) ==
  {c \in Selectors : /\ scall[c].slave = s
                     /\ spc[c] = "push" \/ (spc[c] = "back" /\ scall[c].size < MAX_WRITE_QUEUE)}

RoomInv == \A s \in Slaves :
  Len(wq[s]) + Cardinality(Pushers(s)) <= MAX_WRITE_QUEUE - 1 + Cardinality(Selectors)

(* A smaller set of clients has fewer members. *)
LEMMA SubsetCount ==
  ASSUME NEW T \in SUBSET Selectors, NEW U \in SUBSET T
  PROVE  /\ Cardinality(T) \in Nat /\ Cardinality(U) \in Nat /\ Cardinality(Selectors) \in Nat
         /\ Cardinality(T) <= Cardinality(Selectors) /\ Cardinality(U) <= Cardinality(T)
         /\ \A c \in T \ U : Cardinality(U) + 1 <= Cardinality(T)
  <1>1. IsFiniteSet(T) /\ Cardinality(T) <= Cardinality(Selectors)
    BY ConstantsAssumption, FS_Subset
  <1>2. IsFiniteSet(U) /\ Cardinality(U) <= Cardinality(T)
    BY <1>1, FS_Subset
  <1>3. Cardinality(T) \in Nat /\ Cardinality(U) \in Nat /\ Cardinality(Selectors) \in Nat
    BY <1>1, <1>2, ConstantsAssumption, FS_CardinalityType
  <1>4. ASSUME NEW c \in T \ U PROVE Cardinality(U) + 1 <= Cardinality(T)
    <2>1. U \cup {c} \in SUBSET T /\ c \notin U
      BY <1>4
    <2>2. Cardinality(U \cup {c}) = Cardinality(U) + 1
      BY <1>2, <2>1, FS_AddElement
    <2>3. Cardinality(U \cup {c}) <= Cardinality(T)
      BY <1>1, <2>1, FS_Subset
    <2> QED BY <2>2, <2>3
  <1> QED BY <1>1, <1>2, <1>3, <1>4

(* Every step keeps the account of the room in the queues. *)
LEMMA RoomStep == Typed /\ RoomInv /\ [Next]_vars => RoomInv'
  <1> SUFFICES ASSUME Typed, RoomInv, [Next]_vars, NEW s \in Slaves
               PROVE  Len(wq'[s]) + Cardinality(Pushers(s)')
                        <= MAX_WRITE_QUEUE - 1 + Cardinality(Selectors)
    BY DEF RoomInv
  <1> DEFINE P == Pushers(s)
             Q == Pushers(s)'
             n == Len(wq[s])
             m == Len(wq'[s])
             Goal == m + Cardinality(Q) <= MAX_WRITE_QUEUE - 1 + Cardinality(Selectors)
  <1>0. /\ wq \in [Slaves -> Seq(Request)] /\ wq[s] \in Seq(Request) /\ n \in Nat
        /\ spc \in [Selectors -> {"idle", "back", "full", "wait", "push"}]
        /\ scall \in [Selectors -> SelectCall] /\ MAX_WRITE_QUEUE \in Nat
        /\ Typed' /\ m \in Nat
    <2>1. Typed'
      BY TypedStep
    <2>2. wq'[s] \in Seq(Request) /\ wq[s] \in Seq(Request)
      BY <2>1 DEF Typed, TypeOK
    <2> QED BY <2>1, <2>2, LenProperties, ConstantsAssumption DEF Typed, TypeOK, SelectCall
  <1>1. P \in SUBSET Selectors /\ Q \in SUBSET Selectors
    BY DEF Pushers
  <1>2. n + Cardinality(P) <= MAX_WRITE_QUEUE - 1 + Cardinality(Selectors)
    BY DEF RoomInv
  <1>3. \A c \in Selectors :
          /\ c \in P <=> /\ scall[c].slave = s
                         /\ spc[c] = "push" \/ (spc[c] = "back" /\ scall[c].size < MAX_WRITE_QUEUE)
          /\ c \in Q <=> /\ scall'[c].slave = s
                         /\ \/ spc'[c] = "push"
                            \/ spc'[c] = "back" /\ scall'[c].size < MAX_WRITE_QUEUE
    BY DEF Pushers
  <1> SUFFICES Goal
    OBVIOUS
  <1> HIDE DEF P, Q, n, m
  <1>4. ASSUME Q \subseteq P, m <= n PROVE Goal
    BY <1>0, <1>1, <1>2, <1>4, SubsetCount, SMTT(30)
  <1>5. ASSUME m < MAX_WRITE_QUEUE PROVE Goal
    BY <1>0, <1>1, <1>5, SubsetCount
  <1>6. ASSUME NEW c \in P, Q \subseteq P \ {c}, m = n + 1 PROVE Goal
    <2>1. Cardinality(Q) + 1 <= Cardinality(P) /\ Cardinality(Q) \in Nat /\ Cardinality(P) \in Nat
      BY <1>1, <1>6, SubsetCount
    <2>2. Cardinality(Selectors) \in Nat
      BY <1>1, SubsetCount
    <2> QED BY <1>0, <1>2, <1>6, <2>1, <2>2
  <1>7. wq' = wq => m = n
    BY DEF m, n
  <1>8. \A c \in Selectors : spc'[c] = spc[c] /\ scall'[c] = scall[c] => (c \in Q <=> c \in P)
    BY <1>3
  <1>kept. UNCHANGED <<spc, scall>> => Q \subseteq P
    BY <1>1, <1>8
  <1>fits. n \in Nat /\ (m = n => m <= n)
    BY <1>0
  <1>9. ASSUME NEW c \in Selectors, StartSelect(c) PROVE Goal
    <2>1. PICK z \in Slaves, x \in Commands :
            /\ scall' = [scall EXCEPT ![c] = [slave |-> z, cmd |-> x, size |-> Len(wq[z])]]
            /\ spc' = [spc EXCEPT ![c] = IF wq[z] # << >> THEN "back" ELSE "push"]
      BY <1>9 DEF StartSelect
    <2>2. wq' = wq
      BY <1>9 DEF StartSelect, queues
    <2>3. \A d \in Selectors \ {c} : d \in Q <=> d \in P
      BY <1>0, <1>8, <2>1
    <2>4. scall'[c].slave = z /\ scall'[c].size = Len(wq[z])
      BY <1>0, <2>1
    <2>5. CASE z # s
      BY <1>1, <1>3, <1>4, <1>7, <1>0, <2>2, <2>3, <2>4, <2>5
    <2>6. CASE z = s /\ n >= MAX_WRITE_QUEUE
      <3>1. wq[z] # << >>
        BY <2>6, ConstantsAssumption, EmptySeq DEF n
      <3>2. spc'[c] = "back" /\ scall'[c].size = n
        BY <1>0, <2>1, <2>4, <2>6, <3>1 DEF n
      <3>3. c \notin Q
        BY <1>0, <1>3, <2>6, <3>2
      <3> QED BY <1>0, <1>1, <1>4, <1>7, <2>2, <2>3, <3>3
    <2>7. CASE n < MAX_WRITE_QUEUE
      BY <1>5, <1>7, <2>2, <2>7
    <2> QED BY <1>0, <2>5, <2>6, <2>7
  <1>10. ASSUME NEW c \in Selectors, SelectLooksBack(c) PROVE Goal
    <2>1. wq' = wq /\ spc[c] = "back"
      BY <1>10 DEF SelectLooksBack, queues
    <2>2. \/ spc' = [spc EXCEPT ![c] = "idle"] /\ scall' = [scall EXCEPT ![c] = NoSelect]
          \/ spc' = [spc EXCEPT ![c] = "full"] /\ scall' = scall
          \/ /\ spc' = [spc EXCEPT ![c] = "push"] /\ scall' = scall
             /\ scall[c].size < MAX_WRITE_QUEUE
      <3>1. scall[c].size \in Nat
        BY <1>0 DEF SelectCall
      <3>2. \/ SelectReturnsNow(c)
            \/ /\ scall' = scall
               /\ spc' = [spc EXCEPT ![c] = IF scall[c].size >= MAX_WRITE_QUEUE THEN "full"
                                                                                ELSE "push"]
        BY <1>10 DEF SelectLooksBack
      <3>3. ~(scall[c].size >= MAX_WRITE_QUEUE) => scall[c].size < MAX_WRITE_QUEUE
        BY <1>0, <3>1
      <3> QED BY <3>2, <3>3 DEF SelectReturnsNow
    <2>3. \A d \in Selectors \ {c} : d \in Q <=> d \in P
      BY <1>0, <1>8, <2>2
    <2>4. c \in Q => c \in P
      BY <1>0, <1>3, <2>1, <2>2
    <2> QED BY <1>0, <1>1, <1>4, <1>7, <2>1, <2>3, <2>4
  <1>11. ASSUME NEW c \in Selectors, SelectWaits(c) PROVE Goal
    <2>1. wq' = wq /\ scall' = scall /\ spc' = [spc EXCEPT ![c] = "wait"]
      BY <1>11 DEF SelectWaits, queues
    <2>2. \A d \in Selectors : d \in Q => d \in P
      BY <1>0, <1>3, <2>1
    <2> QED BY <1>0, <1>1, <1>4, <1>7, <2>1, <2>2
  <1>12. ASSUME NEW c \in Selectors, SelectPushes(c) PROVE Goal
    <2> DEFINE z == scall[c].slave
               r == [id |-> pushed[z] + 1, cmd |-> scall[c].cmd, retry |-> 0]
    <2>1. /\ wq' = [wq EXCEPT ![z] = Append(wq[z], r)] /\ spc[c] = "push"
          /\ spc' = [spc EXCEPT ![c] = "idle"] /\ scall' = [scall EXCEPT ![c] = NoSelect]
      BY <1>12 DEF SelectPushes, SelectReturnsNow
    <2>2. \A d \in Selectors \ {c} : d \in Q <=> d \in P
      BY <1>0, <1>8, <2>1
    <2>3. c \notin Q
      BY <1>0, <1>3, <2>1
    <2>4. z \in Slaves
      BY <1>0 DEF SelectCall
    <2>5. r \in Request
      <3>1. pushed[z] \in Nat
        BY <2>4 DEF Typed, TypeOK
      <3> QED BY <1>0, <3>1 DEF SelectCall, Request
    <2> HIDE DEF r
    <2>6. CASE z = s
      <3>1. m = n + 1
        BY <1>0, <2>1, <2>5, <2>6, AppendProperties DEF m, n
      <3>2. c \in P
        BY <1>3, <2>1, <2>6
      <3>3. Q \subseteq P \ {c}
        BY <1>1, <2>2, <2>3
      <3> QED BY <1>6, <3>1, <3>2, <3>3
    <2>7. CASE z # s
      <3>1. m = n
        BY <1>0, <2>1, <2>7 DEF m, n
      <3> QED BY <1>0, <1>1, <1>4, <2>2, <2>3, <3>1
    <2> QED BY <2>6, <2>7
  <1>13. CASE SelectAcked \/ SelectFailed
    <2>1. UNCHANGED <<spc, scall>>
      BY <1>13 DEF SelectAcked, SelectFailed, selectors
    <2>2. cur \in Slaves /\ wq[cur] # << >> /\ (Leaves(wq[cur]) \/ Stays(wq[cur]))
      BY <1>13, TryEffect
    <2>3. m <= n
      <3>1. CASE cur # s
        <4>1. wq'[s] = wq[s]
          BY <1>0, <2>2, <3>1 DEF Leaves, Stays
        <4> QED BY <1>0, <4>1 DEF m, n
      <3>2. CASE cur = s /\ Leaves(wq[cur])
        <4>1. wq'[s] = Tail(wq[s])
          BY <1>0, <3>2 DEF Leaves
        <4>2. m = n - 1
          BY <1>0, <2>2, <3>2, <4>1, HeadTailProperties DEF m, n
        <4> QED BY <1>0, <4>2
      <3>3. CASE cur = s /\ Stays(wq[cur])
        <4>1. PICK r \in Request : wq' = [wq EXCEPT ![cur] = [wq[cur] EXCEPT ![1] = r]]
          BY <3>3 DEF Stays
        <4>2. wq'[s] = [wq[s] EXCEPT ![1] = r] /\ 1 \in 1..Len(wq[s])
          BY <1>0, <2>2, <3>3, <4>1, FirstCommand
        <4>3. m = n
          BY <1>0, <4>2, ExceptSeq DEF m, n
        <4> QED BY <1>0, <4>3
      <3> QED BY <2>2, <3>1, <3>2, <3>3
    <2> QED BY <1>4, <1>kept, <2>1, <2>3
  <1>14. CASE SignalWriter
    <2>1. wq' = wq /\ scall' = scall
      BY <1>14 DEF SignalWriter, queues
    <2>2. \/ UNCHANGED spc
          \/ /\ Len(wq[cur]) < MAX_WRITE_QUEUE
             /\ \E c \in Selectors : scall[c].slave = cur /\ spc' = [spc EXCEPT ![c] = "push"]
      BY <1>14 DEF SignalWriter
    <2>3. CASE UNCHANGED spc
      BY <1>4, <1>7, <1>kept, <1>fits, <2>1, <2>3
    <2>4. CASE cur = s /\ n < MAX_WRITE_QUEUE
      <3>1. m < MAX_WRITE_QUEUE
        BY <1>7, <2>1, <2>4
      <3> QED BY <1>5, <3>1
    <2>5. CASE cur # s /\ ~UNCHANGED spc
      <3>1. PICK c \in Selectors : scall[c].slave = cur /\ spc' = [spc EXCEPT ![c] = "push"]
        BY <2>2, <2>5
      <3>2. c \notin Q /\ \A d \in Selectors \ {c} : d \in Q <=> d \in P
        BY <1>0, <1>3, <1>8, <2>1, <2>5, <3>1
      <3>3. Q \subseteq P
        BY <1>1, <3>2
      <3> QED BY <1>4, <1>7, <1>fits, <2>1, <3>3
    <2> QED BY <2>2, <2>3, <2>4, <2>5 DEF n
  <1>15. CASE UNCHANGED <<wq, spc, scall>>
    BY <1>4, <1>7, <1>15, <1>kept, <1>fits
  <1>16. \/ UNCHANGED <<wq, spc, scall>> \/ SignalWriter \/ SelectAcked \/ SelectFailed
         \/ \E c \in Selectors : SelectorStep(c)
    <2>1. ASSUME NEW p \in Pollers, PollerStep(p) PROVE UNCHANGED <<wq, spc, scall>>
      BY <2>1 DEF PollerStep, StartPoll, PollWaits, PollTimesOut, PollLooksAgain, PollFront,
                  PollPop, queues, selectors
    <2>2. ASSUME SchedulerStep, ~SignalWriter, ~SelectAcked, ~SelectFailed
          PROVE  UNCHANGED <<wq, spc, scall>>
      BY <2>2 DEF SchedulerStep, VisitWrite, VisitRead, StartReads, PollAnswered,
                  PollCrcFailed, PollFailed, NextCycle, Queue, VisitOver, queues, selectors
    <2>3. ASSUME NEW z \in Slaves, WritePauseEnds(z) \/ ReadPauseEnds(z)
          PROVE  UNCHANGED <<wq, spc, scall>>
      BY <2>3 DEF WritePauseEnds, ReadPauseEnds, selectors
    <2>4. CASE UNCHANGED vars
      BY <2>4 DEF vars, queues, selectors
    <2> QED BY <2>1, <2>2, <2>3, <2>4 DEF Next
  <1> QED
    BY <1>9, <1>10, <1>11, <1>12, <1>13, <1>14, <1>15, <1>16 DEF SelectorStep

(* All queues are empty at the start. *)
LEMMA RoomInit == Init => RoomInv
  <1> SUFFICES ASSUME Init, NEW s \in Slaves
               PROVE  Len(wq[s]) + Cardinality(Pushers(s))
                        <= MAX_WRITE_QUEUE - 1 + Cardinality(Selectors)
    BY DEF RoomInv
  <1>1. Len(wq[s]) = 0 /\ Pushers(s) \in SUBSET Selectors
    BY EmptySeq DEF Init, Pushers
  <1>2. /\ Cardinality(Pushers(s)) \in Nat /\ Cardinality(Selectors) \in Nat
        /\ Cardinality(Pushers(s)) <= Cardinality(Selectors)
    BY <1>1, SubsetCount
  <1> QED BY <1>1, <1>2, ConstantsAssumption

(* However the clients' looks at the size of a write queue interleave with *)
(* their pushes, the queue never exceeds the limit by more than the number *)
(* of clients less one, whatever that limit and that number.               *)
THEOREM QueueLimited == Spec => []WriteQueueBound
  <1>1. Typed /\ RoomInv => WriteQueueBound
    <2> SUFFICES ASSUME Typed, RoomInv, NEW s \in Slaves
                 PROVE  Len(wq[s]) <= MAX_WRITE_QUEUE - 1 + Cardinality(Selectors)
      BY DEF WriteQueueBound
    <2>1. wq[s] \in Seq(Request) /\ Pushers(s) \in SUBSET Selectors
      BY DEF Typed, TypeOK, Pushers
    <2>2. /\ Cardinality(Pushers(s)) \in Nat /\ Cardinality(Selectors) \in Nat
          /\ Len(wq[s]) \in Nat /\ MAX_WRITE_QUEUE \in Nat
      BY <2>1, SubsetCount, LenProperties, ConstantsAssumption
    <2>3. Len(wq[s]) + Cardinality(Pushers(s)) <= MAX_WRITE_QUEUE - 1 + Cardinality(Selectors)
      BY DEF RoomInv
    <2> QED BY <2>2, <2>3
  <1> QED BY <1>1, TypedInit, TypedStep, RoomInit, RoomStep, PTL DEF Spec

-----------------------------------------------------------------------------
(* The promise of CommandQueue.  The mapping forgets the commands and the  *)
(* retry counts of all but the first.                                      *)

Ids(q)   == [i \in DOMAIN q |-> q[i].id]
QueueBar == [s \in Slaves |-> Ids(wq[s])]
TriesBar == [s \in Slaves |-> Failures(wq[s])]

(* The numbers of the commands in a queue. *)
LEMMA IdsRules ==
  ASSUME NEW q \in Seq(Request)
  PROVE  /\ Ids(q) \in Seq(Nat) /\ Len(Ids(q)) = Len(q)
         /\ \A i \in 1..Len(q) : Ids(q)[i] = q[i].id
         /\ Ids(q) = << >> <=> q = << >>
  <1>1. DOMAIN q = 1..Len(q) /\ Len(q) \in Nat
    BY LenProperties
  <1>2. \A i \in 1..Len(q) : q[i].id \in Nat
    <2>1. \A i \in 1..Len(q) : q[i] \in Request
      BY ElementOfSeq
    <2> QED BY <2>1 DEF Request
  <1>3. Ids(q) \in [1..Len(q) -> Nat]
    BY <1>1, <1>2 DEF Ids
  <1>4. Ids(q) \in Seq(Nat)
    BY <1>1, <1>3
  <1>5. Len(Ids(q)) = Len(q)
    <2>1. DOMAIN Ids(q) = 1..Len(q)
      BY <1>3
    <2>2. DOMAIN Ids(q) = 1..Len(Ids(q)) /\ Len(Ids(q)) \in Nat
      BY <1>4, LenProperties
    <2> HIDE DEF Ids
    <2> QED BY <1>1, <2>1, <2>2
  <1>6. \A i \in 1..Len(q) : Ids(q)[i] = q[i].id
    BY <1>1 DEF Ids
  <1> QED BY <1>4, <1>5, <1>6, EmptySeq

(* They grow by the one pushed. *)
LEMMA IdsAppend ==
  ASSUME NEW q \in Seq(Request), NEW r \in Request
  PROVE  Ids(Append(q, r)) = Append(Ids(q), r.id)
  <1>1. /\ Append(q, r) \in Seq(Request) /\ Len(Append(q, r)) = Len(q) + 1 /\ Len(q) \in Nat
        /\ \A i \in 1..Len(q) : Append(q, r)[i] = q[i]
        /\ Append(q, r)[Len(q) + 1] = r
    BY AppendProperties, LenProperties
  <1>2. r.id \in Nat
    BY DEF Request
  <1> DEFINE a == Ids(Append(q, r))
             b == Append(Ids(q), r.id)
  <1>3. /\ a \in Seq(Nat) /\ Len(a) = Len(q) + 1
        /\ \A i \in 1..(Len(q) + 1) : a[i] = Append(q, r)[i].id
    BY <1>1, IdsRules
  <1>4. /\ b \in Seq(Nat) /\ Len(b) = Len(q) + 1
        /\ \A i \in 1..Len(q) : b[i] = q[i].id
        /\ b[Len(q) + 1] = r.id
    BY <1>1, <1>2, IdsRules, AppendProperties
  <1> HIDE DEF a, b
  <1>5. \A i \in 1..(Len(q) + 1) : i \in 1..Len(q) \/ i = Len(q) + 1
    BY <1>1
  <1>6. \A i \in 1..Len(a) : a[i] = b[i]
    BY <1>1, <1>3, <1>4, <1>5
  <1>7. a = b
    BY <1>3, <1>4, <1>6, SeqEqual
  <1> QED BY <1>7 DEF a, b

(* They lose the oldest. *)
LEMMA IdsTail ==
  ASSUME NEW q \in Seq(Request), q # << >>
  PROVE  Head(Ids(q)) = Head(q).id /\ Ids(Tail(q)) = Tail(Ids(q))
  <1>1. /\ Tail(q) \in Seq(Request) /\ Len(Tail(q)) = Len(q) - 1 /\ Len(q) \in Nat \ {0}
        /\ \A i \in 1..Len(Tail(q)) : Tail(q)[i] = q[i + 1]
    BY HeadTailProperties, EmptySeq
  <1>2. /\ Ids(q) \in Seq(Nat) /\ Ids(q) # << >> /\ Len(Ids(q)) = Len(q)
        /\ \A i \in 1..Len(q) : Ids(q)[i] = q[i].id
    BY IdsRules
  <1> DEFINE a == Ids(Tail(q))
             b == Tail(Ids(q))
  <1>3. /\ a \in Seq(Nat) /\ Len(a) = Len(q) - 1
        /\ \A i \in 1..(Len(q) - 1) : a[i] = q[i + 1].id
    BY <1>1, IdsRules
  <1>4. /\ b \in Seq(Nat) /\ Len(b) = Len(q) - 1
        /\ \A i \in 1..(Len(q) - 1) : b[i] = Ids(q)[i + 1]
    BY <1>2, HeadTailProperties
  <1> HIDE DEF a, b
  <1>5. \A i \in 1..Len(a) : a[i] = b[i]
    <2>1. \A i \in 1..(Len(q) - 1) : i + 1 \in 1..Len(q)
      BY <1>1
    <2> QED BY <1>2, <1>3, <1>4, <2>1
  <1>6. a = b
    BY <1>3, <1>4, <1>5, SeqEqual
  <1>7. Head(Ids(q)) = Ids(q)[1] /\ Head(q) = q[1] /\ 1 \in 1..Len(q)
    BY <1>1
  <1> QED BY <1>2, <1>6, <1>7 DEF a, b

(* They stay when the oldest is marked as tried. *)
LEMMA IdsExcept ==
  ASSUME NEW q \in Seq(Request), q # << >>, NEW r \in Request, r.id = Head(q).id
  PROVE  Ids([q EXCEPT ![1] = r]) = Ids(q)
  <1> DEFINE u == [q EXCEPT ![1] = r]
  <1>1. Head(q) = q[1] /\ 1 \in 1..Len(q)
    BY FirstCommand
  <1>2. /\ u \in Seq(Request) /\ Len(u) = Len(q)
        /\ \A i \in 1..Len(q) : u[i] = IF i = 1 THEN r ELSE q[i]
    BY <1>1, ExceptSeq
  <1> HIDE DEF u
  <1>3. /\ Ids(u) \in Seq(Nat) /\ Ids(q) \in Seq(Nat) /\ Len(Ids(u)) = Len(Ids(q))
        /\ \A i \in 1..Len(q) : Ids(u)[i] = u[i].id /\ Ids(q)[i] = q[i].id
        /\ Len(Ids(q)) = Len(q)
    BY <1>2, IdsRules
  <1>4. \A i \in 1..Len(q) : u[i].id = q[i].id
    BY <1>1, <1>2
  <1>5. Ids(u) = Ids(q)
    BY <1>3, <1>4, SeqEqual
  <1> QED BY <1>5 DEF u

(* A mapping that changes at one slave. *)
LEMMA BarUpdate ==
  ASSUME Typed, NEW s \in Slaves, NEW q \in Seq(Request), wq' = [wq EXCEPT ![s] = q]
  PROVE  /\ QueueBar' = [QueueBar EXCEPT ![s] = Ids(q)]
         /\ TriesBar' = [TriesBar EXCEPT ![s] = Failures(q)]
  <1>1. wq \in [Slaves -> Seq(Request)]
    BY DEF Typed, TypeOK
  <1>2. \A z \in Slaves : wq'[z] = IF z = s THEN q ELSE wq[z]
    BY <1>1
  <1>3. \A z \in Slaves : /\ Ids(wq'[z]) = IF z = s THEN Ids(q) ELSE Ids(wq[z])
                          /\ Failures(wq'[z]) = IF z = s THEN Failures(q) ELSE Failures(wq[z])
    BY <1>2
  <1>4. /\ QueueBar' = [z \in Slaves |-> Ids(wq'[z])]
        /\ TriesBar' = [z \in Slaves |-> Failures(wq'[z])]
    BY DEF QueueBar, TriesBar, Ids, Failures
  <1>5. QueueBar' = [QueueBar EXCEPT ![s] = Ids(q)]
    BY <1>3, <1>4 DEF QueueBar
  <1>6. TriesBar' = [TriesBar EXCEPT ![s] = Failures(q)]
    BY <1>3, <1>4 DEF TriesBar
  <1> QED BY <1>5, <1>6

(* What the command queue is mapped to is typed. *)
LEMMA BarTyped ==
  ASSUME Typed, NEW s \in Slaves
  PROVE  /\ wq[s] \in Seq(Request)
         /\ QueueBar[s] = Ids(wq[s]) /\ TriesBar[s] = Failures(wq[s])
         /\ QueueBar = [QueueBar EXCEPT ![s] = QueueBar[s]]
         /\ TriesBar = [TriesBar EXCEPT ![s] = TriesBar[s]]
  <1>1. wq \in [Slaves -> Seq(Request)]
    BY DEF Typed, TypeOK
  <1> QED BY <1>1 DEF QueueBar, TriesBar

(* A select's push accepts a command.                                      *)
LEMMA PushAccepts ==
  ASSUME Typed, NEW c \in Selectors, SelectPushes(c)
  PROVE  \E s \in Slaves : CommandQueues!Accept(s)
  <1>1. PICK s \in Slaves, x \in Commands :
          /\ wq' = [wq EXCEPT ![s] = Append(wq[s], [id |-> pushed[s] + 1, cmd |-> x, retry |-> 0])]
          /\ pushed' = [pushed EXCEPT ![s] = pushed[s] + 1]
          /\ UNCHANGED <<executed, dropped>>
    BY PushEffect
  <1> DEFINE r == [id |-> pushed[s] + 1, cmd |-> x, retry |-> 0]
             a == Append(wq[s], r)
  <1>2. pushed \in [Slaves -> Nat] /\ pushed[s] \in Nat
    BY DEF Typed, TypeOK
  <1>3. r \in Request /\ r.id = pushed[s] + 1 /\ r.retry = 0
    <2>1. pushed[s] + 1 \in Nat /\ 0 \in 0..2
      BY <1>2
    <2> QED BY <2>1 DEF Request
  <1> HIDE DEF r
  <1>4. a \in Seq(Request) /\ Ids(a) = Append(Ids(wq[s]), pushed[s] + 1)
    BY <1>3, BarTyped, AppendProperties, IdsAppend
  <1>5. Failures(a) = Failures(wq[s])
    BY <1>3, BarTyped, HeadTailAppend DEF Failures
  <1> HIDE DEF a
  <1>6. wq' = [wq EXCEPT ![s] = a]
    BY <1>1 DEF a, r
  <1>7. /\ QueueBar' = [QueueBar EXCEPT ![s] = Append(QueueBar[s], pushed'[s])]
        /\ TriesBar' = TriesBar
    <2>1. pushed'[s] = pushed[s] + 1
      BY <1>1, <1>2
    <2>2. /\ QueueBar' = [QueueBar EXCEPT ![s] = Ids(a)]
          /\ TriesBar' = [TriesBar EXCEPT ![s] = Failures(a)]
      BY <1>4, <1>6, BarUpdate
    <2>3. /\ QueueBar[s] = Ids(wq[s]) /\ TriesBar[s] = Failures(wq[s])
          /\ TriesBar = [TriesBar EXCEPT ![s] = TriesBar[s]]
      BY BarTyped
    <2> QED BY <1>4, <1>5, <2>1, <2>2, <2>3
  <1>8. CommandQueues!Accept(s)
    BY <1>1, <1>7 DEF CommandQueues!Accept, QueueBar, TriesBar, Ids, Failures
  <1> QED BY <1>8

(* A command that leaves, after InOrder the only one that was ever tried.  *)
LEMMA LeaveMaps ==
  ASSUME Typed, CommandInv, cur \in Slaves, wq[cur] # << >>, Leaves(wq[cur])
  PROVE  /\ QueueBar' = [QueueBar EXCEPT ![cur] = Tail(QueueBar[cur])]
         /\ TriesBar' = [TriesBar EXCEPT ![cur] = 0]
  <1> DEFINE q == wq[cur]
             r == Tail(q)
  <1>1. q \in Seq(Request) /\ q # << >> /\ wq' = [wq EXCEPT ![cur] = r] /\ QueueBar[cur] = Ids(q)
    BY BarTyped DEF Leaves
  <1>2. Untried(q)
    BY DEF CommandInv, InOrder
  <1> HIDE DEF q
  <1>3. /\ r \in Seq(Request) /\ Ids(r) = Tail(Ids(q)) /\ Len(r) = Len(q) - 1 /\ Len(q) \in Nat
        /\ \A i \in 1..Len(r) : r[i] = q[i + 1]
    BY <1>1, IdsTail, HeadTailProperties, LenProperties
  <1> HIDE DEF r
  <1>4. Failures(r) = 0
    <2>1. CASE r = << >>
      BY <2>1 DEF Failures
    <2>2. CASE r # << >>
      <3>1. Failures(r) = r[1].retry /\ 1 \in 1..Len(r)
        BY <1>3, <2>2, FirstCommand
      <3>2. r[1] = q[2] /\ 2 \in 1..Len(q)
        BY <1>3, <3>1
      <3> QED BY <1>2, <3>1, <3>2 DEF Untried
    <2> QED BY <2>1, <2>2
  <1> QED BY <1>1, <1>3, <1>4, BarUpdate, ZenonT(40)

(* One that stays for another try.                                         *)
LEMMA StayMaps ==
  ASSUME Typed, cur \in Slaves, wq[cur] # << >>, Stays(wq[cur]), ~GivesUp(Head(wq[cur]))
  PROVE  /\ QueueBar' = QueueBar
         /\ TriesBar' = [TriesBar EXCEPT ![cur] = TriesBar[cur] + 1]
         /\ TriesBar[cur] + 1 < 3
  <1> DEFINE q == wq[cur]
             h == Head(q)
  <1>1. q \in Seq(Request) /\ q # << >> /\ QueueBar[cur] = Ids(q) /\ TriesBar[cur] = Failures(q)
    BY BarTyped
  <1>2. PICK r \in Request : /\ r = [h EXCEPT !.retry = h.retry + 1]
                             /\ wq' = [wq EXCEPT ![cur] = [q EXCEPT ![1] = r]]
    BY DEF Stays
  <1> DEFINE u == [q EXCEPT ![1] = r]
  <1>3. h \in Request /\ h = q[1] /\ 1 \in 1..Len(q) /\ Failures(q) = h.retry
    BY <1>1, FirstCommand
  <1>4. r.id = h.id /\ r.retry = h.retry + 1 /\ h.retry \in Nat /\ h.retry + 1 < 3
    BY <1>2, <1>3 DEF Request, GivesUp
  <1>5. u \in Seq(Request) /\ u # << >> /\ u[1] = r /\ Ids(u) = Ids(q)
    <2>1. u \in Seq(Request) /\ Len(u) = Len(q) /\ u[1] = r
      BY <1>1, <1>3, ExceptSeq
    <2> QED BY <1>1, <1>3, <1>4, <2>1, IdsExcept, EmptySeq
  <1> HIDE DEF u
  <1>6. Failures(u) = h.retry + 1
    BY <1>4, <1>5, FirstCommand
  <1>7. wq' = [wq EXCEPT ![cur] = u]
    BY <1>2 DEF u
  <1>8. /\ QueueBar' = [QueueBar EXCEPT ![cur] = Ids(u)]
        /\ TriesBar' = [TriesBar EXCEPT ![cur] = Failures(u)]
    BY <1>5, <1>7, BarUpdate
  <1>9. QueueBar = [QueueBar EXCEPT ![cur] = QueueBar[cur]]
    BY BarTyped
  <1> QED BY <1>1, <1>3, <1>4, <1>5, <1>6, <1>8, <1>9

(* A try maps to a step of the command queue. *)
LEMMA TryMaps ==
  ASSUME Typed, CommandInv, SelectAcked \/ SelectFailed
  PROVE  CommandQueues!Succeed(cur) \/ CommandQueues!Fail(cur)
  <1> DEFINE q == wq[cur]
             h == Head(q)
  <1>1. cur \in Slaves /\ q # << >> /\ UNCHANGED pushed
    BY TryEffect
  <1>2. /\ QueueBar[cur] # << >> /\ Head(QueueBar[cur]) = h.id
    BY <1>1, BarTyped, IdsRules, IdsTail
  <1>3. CASE SelectAcked
    <2>1. /\ executed' = [executed EXCEPT ![cur] = Append(executed[cur], h.id)]
          /\ UNCHANGED dropped /\ Leaves(q)
      BY <1>3 DEF SelectAcked, Leaves
    <2>2. /\ QueueBar' = [QueueBar EXCEPT ![cur] = Tail(QueueBar[cur])]
          /\ TriesBar' = [TriesBar EXCEPT ![cur] = 0]
      BY <1>1, <2>1, LeaveMaps
    <2>3. executed' = [executed EXCEPT ![cur] = Append(executed[cur], Head(QueueBar[cur]))]
      BY <1>2, <2>1
    <2>4. CommandQueues!Succeed(cur)
      BY <1>1, <1>2, <2>1, <2>2, <2>3
         DEF CommandQueues!Succeed, CommandQueues!Obey, CommandQueues!LeaveQueue, QueueBar,
             TriesBar, Ids, Failures
    <2> QED BY <2>4
  <1>4. CASE SelectFailed
    <2>1. \/ executed' = [executed EXCEPT ![cur] = Append(executed[cur], Head(QueueBar[cur]))]
          \/ UNCHANGED executed
      BY <1>2, <1>4 DEF SelectFailed
    <2>2. CASE /\ Leaves(q)
               /\ dropped' = [dropped EXCEPT ![cur] = dropped[cur] \cup {h.id}]
      <3>1. /\ QueueBar' = [QueueBar EXCEPT ![cur] = Tail(QueueBar[cur])]
            /\ TriesBar' = [TriesBar EXCEPT ![cur] = 0]
        BY <1>1, <2>2, LeaveMaps
      <3>2. dropped' = [dropped EXCEPT ![cur] = dropped[cur] \cup {Head(QueueBar[cur])}]
        BY <1>2, <2>2
      <3>3. CommandQueues!Fail(cur)
        BY <1>1, <1>2, <2>1, <3>1, <3>2
           DEF CommandQueues!Fail, CommandQueues!Obey, CommandQueues!LeaveQueue, QueueBar,
               TriesBar, Ids, Failures
      <3> QED BY <3>3
    <2>3. CASE Stays(q) /\ ~GivesUp(h) /\ UNCHANGED dropped
      <3>1. /\ QueueBar' = QueueBar /\ TriesBar[cur] + 1 < 3
            /\ TriesBar' = [TriesBar EXCEPT ![cur] = TriesBar[cur] + 1]
        BY <1>1, <2>3, StayMaps
      <3>2. CommandQueues!Fail(cur)
        BY <1>1, <1>2, <2>1, <2>3, <3>1
           DEF CommandQueues!Fail, CommandQueues!Obey, QueueBar, TriesBar, Ids, Failures
      <3> QED BY <3>2
    <2> QED BY <1>4, <2>2, <2>3, TryEffect
  <1> QED BY <1>3, <1>4

(* Each slave's commands keep the promise of CommandQueue with three tries:*)
(* only the oldest is tried, and once it left the queue, done or given up, *)
(* it is never carried out again.                                          *)
THEOREM KeepsCommandQueue == Spec => ImplementsCommandQueue
  <1>1. Init => CommandQueues!CommandQueueInit
    <2> SUFFICES ASSUME Init PROVE CommandQueues!CommandQueueInit
      OBVIOUS
    <2>1. Ids(<< >>) = << >> /\ Failures(<< >>) = 0
      BY EmptySeq, IdsRules DEF Failures
    <2>2. QueueBar = [s \in Slaves |-> << >>] /\ TriesBar = [s \in Slaves |-> 0]
      BY <2>1 DEF Init, QueueBar, TriesBar
    <2> QED BY <2>2 DEF Init, CommandQueues!CommandQueueInit, QueueBar, TriesBar, Ids, Failures
  <1>2. Typed /\ CommandInv /\ [Next]_vars =>
          [\E s \in Slaves : CommandQueues!Accept(s) \/ CommandQueues!Succeed(s)
                             \/ CommandQueues!Fail(s)]_(CommandQueues!promise)
    <2> SUFFICES ASSUME Typed, CommandInv, [Next]_vars
                 PROVE  \/ \E s \in Slaves : CommandQueues!Accept(s) \/ CommandQueues!Succeed(s)
                                             \/ CommandQueues!Fail(s)
                        \/ UNCHANGED CommandQueues!promise
      OBVIOUS
    <2>1. CASE UNCHANGED <<wq, pushed, executed, dropped>>
      BY <2>1 DEF CommandQueues!promise
    <2>2. ASSUME NEW c \in Selectors, SelectPushes(c)
          PROVE  \E s \in Slaves : CommandQueues!Accept(s)
      BY <2>2, PushAccepts
    <2>3. CASE SelectAcked \/ SelectFailed
      <3>1. cur \in Slaves
        BY DEF Typed, TypeOK
      <3> QED BY <2>3, <3>1, TryMaps
              DEF CommandQueues!Succeed, CommandQueues!Fail, CommandQueues!Obey,
                  CommandQueues!LeaveQueue
    <2> QED BY <2>1, <2>2, <2>3, QuietSteps
  <1> QED BY <1>1, <1>2, CommandAlways, PTL
          DEF Spec, ImplementsCommandQueue, CommandQueues!CommandQueueSpec
=============================================================================
