---------------------------- MODULE ScheduleCFQ ----------------------------
(***************************************************************************)
(* OcemProtocolScheduleCFQ while its schedule thread runs and its slaves   *)
(* stay registered: clients push commands with select and take answers     *)
(* with poll; the schedule thread carries the commands to the slaves, with *)
(* retries, and polls the slaves for answers.  Each slave has a write and  *)
(* a read queue, an OcemData with a mutex that covers one push, pop, size, *)
(* front or back, never two: those calls are the steps of this module.     *)
(* A transaction on the line is external here and shows as the outcomes    *)
(* OcemProtocol::select and OcemProtocol::poll can return.                 *)
(***************************************************************************)
EXTENDS Integers, Sequences, FiniteSets

CONSTANTS
  Slaves,           \* the registered slaves
  Selectors,        \* threads that call select
  Pollers,          \* threads that call poll
  Commands,         \* the commands they send
  NoRetry,          \* those of them that are "SL" or "SA"
  MAX_WRITE_QUEUE,
  MaxCommands,      \* bound: the commands pushed for one slave
  MaxAnswers        \* bound: the answers received from one slave

(* There is a slave and a command, which the locals of a call that is over *)
(* and of a thread that has not started name.                              *)
ASSUME ConstantsAssumption ==
  /\ Slaves # {} /\ Commands # {}
  /\ NoRetry \subseteq Commands
  /\ MAX_WRITE_QUEUE \in Nat \ {0}
  /\ IsFiniteSet(Selectors)
  /\ MaxCommands \in Nat /\ MaxAnswers \in Nat

VARIABLES
  wq, rq,       \* per slave: the two queues
  wpause,       \* per slave: must_wait_to of the write queue is in the future
  rpause,       \* per slave: the same of the read queue
  phase, todo, cur,         \* runSchedule: what it does, to whom
  spc, scall,   \* per selector: where it is in select, and its call
  ppc, pcall,   \* per poller: where it is in poll, and its call
  crossed,      \* per slave: two polls of it were past their look at once
  pushed,       \* per slave: commands pushed so far, which number them
  executed,     \* per slave: the commands it has carried out, in order
  dropped,      \* per slave: the commands given up without success
  received,     \* per slave: answers queued so far, which number them
  taken         \* per slave and poller: the answers handed to it, in order

queues    == <<wq, rq, wpause, rpause>>
scheduler == <<phase, todo, cur>>
selectors == <<spc, scall>>
pollers   == <<ppc, pcall, crossed>>
history   == <<pushed, executed, dropped, received, taken>>
vars == <<queues, scheduler, selectors, pollers, history>>

Request == [id: Nat, cmd: Commands, retry: 0..2]
Answer  == [n: Nat, good: BOOLEAN]

TypeOK ==
  /\ wq \in [Slaves -> Seq(Request)] /\ rq \in [Slaves -> Seq(Answer)]
  /\ wpause \in [Slaves -> BOOLEAN] /\ rpause \in [Slaves -> BOOLEAN]
  /\ phase \in {"write", "selecting", "signal", "read", "polling"}
  /\ todo \subseteq Slaves /\ cur \in Slaves
  /\ spc \in [Selectors -> {"idle", "back", "full", "wait", "push"}]
  /\ scall \in [Selectors -> [slave: Slaves, cmd: Commands, size: Nat]]
  /\ ppc \in [Pollers -> {"idle", "empty", "wait", "again", "front", "pop"}]
  /\ pcall \in [Pollers -> [slave: Slaves, timed: BOOLEAN, ans: Answer]]
  /\ crossed \in [Slaves -> BOOLEAN]
  /\ pushed \in [Slaves -> Nat] /\ received \in [Slaves -> Nat]
  /\ executed \in [Slaves -> Seq(Nat)]
  /\ dropped \in [Slaves -> SUBSET Nat]
  /\ taken \in [Slaves -> [Pollers -> Seq(Answer)]]

(* What front() finds in an empty queue, or a copy of what is being        *)
(* destroyed: undefined, so no numbered answer.                            *)
Garbage == [n |-> 0, good |-> FALSE]

(* The locals of a call that is over are forgotten. *)
SomeSlave == CHOOSE s \in Slaves : TRUE
NoSelect  == [slave |-> SomeSlave, cmd |-> CHOOSE x \in Commands : TRUE, size |-> 0]
NoPoll    == [slave |-> SomeSlave, timed |-> FALSE, ans |-> Garbage]

Init ==
  /\ wq = [s \in Slaves |-> << >>] /\ rq = [s \in Slaves |-> << >>]
  /\ wpause = [s \in Slaves |-> FALSE] /\ rpause = [s \in Slaves |-> FALSE]
  /\ phase = "write" /\ todo = Slaves /\ cur = SomeSlave
  /\ spc = [c \in Selectors |-> "idle"]
  /\ scall = [c \in Selectors |-> NoSelect]
  /\ ppc = [p \in Pollers |-> "idle"]
  /\ pcall = [p \in Pollers |-> NoPoll]
  /\ crossed = [s \in Slaves |-> FALSE]
  /\ pushed = [s \in Slaves |-> 0] /\ received = [s \in Slaves |-> 0]
  /\ executed = [s \in Slaves |-> << >>] /\ dropped = [s \in Slaves |-> {}]
  /\ taken = [s \in Slaves |-> [p \in Pollers |-> << >>]]

-----------------------------------------------------------------------------
(* The clients of select. *)

Selecting(s) == {c \in Selectors : spc[c] # "idle" /\ scall[c].slave = s}

SelectReturnsNow(c) ==
  spc' = [spc EXCEPT ![c] = "idle"] /\ scall' = [scall EXCEPT ![c] = NoSelect]

(* The size of the queue is read once, before anything else. *)
StartSelect(c) ==
  /\ spc[c] = "idle"
  /\ \E s \in Slaves, x \in Commands :
       /\ pushed[s] + Cardinality(Selecting(s)) < MaxCommands
       /\ scall' = [scall EXCEPT ![c] = [slave |-> s, cmd |-> x, size |-> Len(wq[s])]]
       /\ spc' = [spc EXCEPT ![c] = IF wq[s] # << >> THEN "back" ELSE "push"]
  /\ UNCHANGED <<queues, scheduler, pollers, history>>

(* The last command queued is compared with the new one, which is not      *)
(* pushed when it is the same.  The queue may have been emptied since its  *)
(* size was read, or the thread may pop the one command back() refers to   *)
(* before it is copied, outside the lock; then the outcome is undefined.   *)
SelectLooksBack(c) ==
  LET s == scall[c].slave
      popping == phase = "selecting" /\ cur = s /\ Len(wq[s]) = 1
      same == IF wq[s] = << >> \/ popping THEN BOOLEAN
              ELSE {wq[s][Len(wq[s])].cmd = scall[c].cmd}
  IN  /\ spc[c] = "back"
      /\ \/ TRUE \in same /\ SelectReturnsNow(c)
         \/ /\ FALSE \in same
            /\ spc' = [spc EXCEPT ![c] = IF scall[c].size >= MAX_WRITE_QUEUE THEN "full"
                                                                            ELSE "push"]
            /\ UNCHANGED scall
      /\ UNCHANGED <<queues, scheduler, pollers, history>>

(* The queue was full: select waits, whatever has become of it since. *)
SelectWaits(c) ==
  /\ spc[c] = "full"
  /\ spc' = [spc EXCEPT ![c] = "wait"]
  /\ UNCHANGED <<queues, scheduler, scall, pollers, history>>

(* Woken, or never held up, select pushes without looking again. *)
SelectPushes(c) ==
  LET s == scall[c].slave
  IN  /\ spc[c] = "push"
      /\ wq' = [wq EXCEPT ![s] = Append(@, [id |-> pushed[s] + 1, cmd |-> scall[c].cmd,
                                            retry |-> 0])]
      /\ pushed' = [pushed EXCEPT ![s] = @ + 1]
      /\ SelectReturnsNow(c)
      /\ UNCHANGED <<rq, wpause, rpause, scheduler, pollers,
                     executed, dropped, received, taken>>

-----------------------------------------------------------------------------
(* The clients of poll. *)

PollReturnsNow(p) ==
  /\ ppc' = [ppc EXCEPT ![p] = "idle"] /\ pcall' = [pcall EXCEPT ![p] = NoPoll]
  /\ UNCHANGED crossed

StartPoll(p) ==
  /\ ppc[p] = "idle"
  /\ \E s \in Slaves, timed \in BOOLEAN :
       /\ pcall' = [pcall EXCEPT ![p] = [slave |-> s, timed |-> timed, ans |-> Garbage]]
       /\ ppc' = [ppc EXCEPT ![p] = IF rq[s] = << >> THEN "empty" ELSE "again"]
  /\ UNCHANGED <<queues, scheduler, selectors, crossed, history>>

(* The queue was empty: poll waits, whatever has become of it since. *)
PollWaits(p) ==
  /\ ppc[p] = "empty"
  /\ ppc' = [ppc EXCEPT ![p] = "wait"]
  /\ UNCHANGED <<queues, scheduler, selectors, pcall, crossed, history>>

(* poll returns OCEM_NO_TRAFFIC. *)
PollTimesOut(p) ==
  /\ ppc[p] = "wait" /\ pcall[p].timed
  /\ PollReturnsNow(p)
  /\ UNCHANGED <<queues, scheduler, selectors, history>>

(* The other polls of the slave of p that take what they have seen in its  *)
(* queue for theirs.                                                       *)
Taking(p, pcs) == {o \in Pollers \ {p} : ppc[o] \in pcs /\ pcall[o].slave = pcall[p].slave}

(* poll looks again, and returns 0 when there still is nothing. *)
PollLooksAgain(p) ==
  LET s == pcall[p].slave
  IN  /\ ppc[p] = "again"
      /\ IF rq[s] = << >>
         THEN PollReturnsNow(p)
         ELSE /\ ppc' = [ppc EXCEPT ![p] = "front"] /\ UNCHANGED pcall
              /\ crossed' = [crossed EXCEPT ![s] = @ \/ Taking(p, {"front", "pop"}) # {}]
      /\ UNCHANGED <<queues, scheduler, selectors, history>>

(* front() returns a reference that is copied after the unlock, so another *)
(* poll of the same slave may pop what is being copied: this step is the   *)
(* moment before the other's pop.                                          *)
PollFront(p) ==
  LET s == pcall[p].slave
  IN  /\ ppc[p] = "front"
      /\ \/ rq[s] # << >> /\ pcall' = [pcall EXCEPT ![p].ans = Head(rq[s])]
         \/ /\ rq[s] = << >> \/ Taking(p, {"pop"}) # {}
            /\ pcall' = [pcall EXCEPT ![p].ans = Garbage]
      /\ ppc' = [ppc EXCEPT ![p] = "pop"]
      /\ UNCHANGED <<queues, scheduler, selectors, crossed, history>>

(* Mutant of PollPop: the answer stays in the queue. *)
PollPopForgotten(p) ==
  /\ ppc[p] = "pop"
  /\ taken' = [taken EXCEPT ![pcall[p].slave][p] = Append(@, pcall[p].ans)]
  /\ PollReturnsNow(p)
  /\ UNCHANGED <<queues, scheduler, selectors, pushed, executed, dropped, received>>

(* Mutant of PollPop: an answer whose checksum is wrong is not handed out. *)
PollPopDropsBad(p) ==
  LET s == pcall[p].slave
  IN  /\ ppc[p] = "pop"
      /\ rq' = [rq EXCEPT ![s] = IF @ = << >> THEN @ ELSE Tail(@)]
      /\ taken' = IF pcall[p].ans.good THEN [taken EXCEPT ![s][p] = Append(@, pcall[p].ans)]
                                       ELSE taken
      /\ PollReturnsNow(p)
      /\ UNCHANGED <<wq, wpause, rpause, scheduler, selectors,
                     pushed, executed, dropped, received>>

PollPop(p) ==
  LET s == pcall[p].slave
  IN  /\ ppc[p] = "pop"
      /\ rq' = [rq EXCEPT ![s] = IF @ = << >> THEN @ ELSE Tail(@)]
      /\ taken' = [taken EXCEPT ![s][p] = Append(@, pcall[p].ans)]
      /\ PollReturnsNow(p)
      /\ UNCHANGED <<wq, wpause, rpause, scheduler, selectors,
                     pushed, executed, dropped, received>>

-----------------------------------------------------------------------------
(* The schedule thread.  A cycle visits every slave once to write and once *)
(* to read.  The order is that of a sort by queue sizes that clients       *)
(* change while it runs, so any order.                                     *)

(* Mutant of VisitWrite: an empty queue is passed over without the signal. *)
VisitWriteSkipsEmpty(s) ==
  /\ phase = "write" /\ s \in todo
  /\ IF wq[s] # << >> /\ ~wpause[s]
     THEN phase' = "selecting" /\ cur' = s /\ UNCHANGED todo
     ELSE todo' = todo \ {s} /\ UNCHANGED <<phase, cur>>
  /\ UNCHANGED <<queues, selectors, pollers, history>>

VisitWrite(s) ==
  /\ phase = "write" /\ s \in todo
  /\ \/ /\ wq[s] # << >> /\ wpause[s]
        /\ todo' = todo \ {s} /\ UNCHANGED <<phase, cur>>
     \/ /\ wq[s] # << >> /\ ~wpause[s]
        /\ phase' = "selecting" /\ cur' = s /\ UNCHANGED todo
     \/ /\ wq[s] = << >>
        /\ phase' = "signal" /\ cur' = s /\ UNCHANGED todo
  /\ UNCHANGED <<queues, selectors, pollers, history>>

(* OcemProtocol::select succeeded. *)
SelectAcked ==
  /\ phase = "selecting"
  /\ wq' = [wq EXCEPT ![cur] = Tail(@)]
  /\ wpause' = [wpause EXCEPT ![cur] = TRUE]
  /\ executed' = [executed EXCEPT ![cur] = Append(@, Head(wq[cur]).id)]
  /\ phase' = "signal"
  /\ UNCHANGED <<rq, rpause, todo, cur, selectors, pollers,
                 pushed, dropped, received, taken>>

(* Mutants of GivesUp: whatever the command, and one failure late. *)
GivesUpOnCount(r) == r.retry + 1 >= 3
GivesUpLate(r)    == r.retry + 1 > 3 \/ r.cmd \in NoRetry

(* A command that failed is given up on the third failure, and SL and SA   *)
(* on the first.                                                           *)
GivesUp(r) == r.retry + 1 >= 3 \/ r.cmd \in NoRetry

(* Mutants of SelectFailed: the retry goes to the back of the queue, the   *)
(* failures are not counted, a command given up stays queued.              *)
SelectFailedRequeues ==
  LET r == Head(wq[cur])
  IN  /\ phase = "selecting"
      /\ wq' = [wq EXCEPT ![cur] = IF GivesUp(r) THEN Tail(@)
                                   ELSE Append(Tail(@), [r EXCEPT !.retry = @ + 1])]
      /\ executed' = [executed EXCEPT ![cur] = Append(@, r.id)]
      /\ phase' = "signal"
      /\ UNCHANGED <<rq, wpause, rpause, todo, cur, selectors, pollers,
                     pushed, dropped, received, taken>>

SelectFailedUncounted ==
  /\ phase = "selecting"
  /\ wpause' = [wpause EXCEPT ![cur] = TRUE]
  /\ phase' = "signal"
  /\ UNCHANGED <<wq, rq, rpause, todo, cur, selectors, pollers, history>>

SelectFailedKeeps ==
  LET r == Head(wq[cur])
  IN  /\ phase = "selecting"
      /\ dropped' = [dropped EXCEPT ![cur] = IF GivesUp(r) THEN @ \cup {r.id} ELSE @]
      /\ phase' = "signal"
      /\ UNCHANGED <<wq, rq, wpause, rpause, todo, cur, selectors, pollers,
                     pushed, executed, received, taken>>

(* OcemProtocol::select failed, after the slave carried out the command or *)
(* not.  That the fourth failure since the last RMT sends one as well, for *)
(* which nsuccessive_busy counts, is left out: nobody looks what becomes   *)
(* of it, and it is no client's command.                                   *)
SelectFailed ==
  LET r == Head(wq[cur])
  IN  /\ phase = "selecting"
      /\ IF GivesUp(r)
         THEN /\ wq' = [wq EXCEPT ![cur] = Tail(@)]
              /\ dropped' = [dropped EXCEPT ![cur] = @ \cup {r.id}]
         ELSE /\ wq' = [wq EXCEPT ![cur][1].retry = @ + 1]
              /\ UNCHANGED dropped
      /\ wpause' = [wpause EXCEPT ![cur] = TRUE]
      /\ \/ executed' = [executed EXCEPT ![cur] = Append(@, r.id)]
         \/ UNCHANGED executed
      /\ phase' = "signal"
      /\ UNCHANGED <<rq, rpause, todo, cur, selectors, pollers, pushed, received, taken>>

(* Mutant of SignalWriter: without the test of the size. *)
SignalWriterUntested ==
  LET waiting == {c \in Selectors : spc[c] = "wait" /\ scall[c].slave = cur}
  IN  /\ phase = "signal"
      /\ IF waiting # {} THEN \E c \in waiting : spc' = [spc EXCEPT ![c] = "push"]
                         ELSE UNCHANGED spc
      /\ phase' = "write" /\ todo' = todo \ {cur}
      /\ UNCHANGED <<queues, cur, scall, pollers, history>>

(* A client that waits for room is woken, one per visit, when there is     *)
(* some; also when the queue was empty all along.                          *)
SignalWriter ==
  LET waiting == {c \in Selectors : spc[c] = "wait" /\ scall[c].slave = cur}
  IN  /\ phase = "signal"
      /\ IF Len(wq[cur]) < MAX_WRITE_QUEUE /\ waiting # {}
         THEN \E c \in waiting : spc' = [spc EXCEPT ![c] = "push"]
         ELSE UNCHANGED spc
      /\ phase' = "write" /\ todo' = todo \ {cur}
      /\ UNCHANGED <<queues, cur, scall, pollers, history>>

StartReads ==
  /\ phase = "write" /\ todo = {}
  /\ phase' = "read" /\ todo' = Slaves
  /\ UNCHANGED <<queues, cur, selectors, pollers, history>>

VisitRead(s) ==
  /\ phase = "read" /\ s \in todo
  /\ IF rpause[s] THEN todo' = todo \ {s} /\ UNCHANGED <<phase, cur>>
                  ELSE phase' = "polling" /\ cur' = s /\ UNCHANGED todo
  /\ UNCHANGED <<queues, selectors, pollers, history>>

(* The end of the one poll of a visit. *)
VisitOver == phase' = "read" /\ todo' = todo \ {cur} /\ UNCHANGED <<cur, selectors>>

(* An answer goes into the read queue with its number.                     *)
Queue(good) ==
  /\ received[cur] < MaxAnswers
  /\ rq' = [rq EXCEPT ![cur] = Append(@, [n |-> received[cur] + 1, good |-> good])]
  /\ received' = [received EXCEPT ![cur] = @ + 1]
  /\ UNCHANGED <<pcall, crossed, pushed, executed, dropped, taken, wq, rpause>>

(* An answer arrived, or a NAK that passes for one (OcemLink): it is       *)
(* queued, a waiting poll is woken, and commands need not pause any longer.*)
PollAnswered ==
  LET waiting == {p \in Pollers : ppc[p] = "wait" /\ pcall[p].slave = cur}
  IN  /\ phase = "polling"
      /\ \E good \in BOOLEAN : Queue(good)
      /\ IF waiting # {} THEN \E p \in waiting : ppc' = [ppc EXCEPT ![p] = "again"]
                         ELSE UNCHANGED ppc
      /\ wpause' = [wpause EXCEPT ![cur] = FALSE]
      /\ VisitOver

(* The answer's checksum is wrong: it is queued all the same, and nobody   *)
(* is woken.                                                               *)
PollCrcFailed ==
  /\ phase = "polling"
  /\ Queue(FALSE)
  /\ VisitOver
  /\ UNCHANGED <<ppc, wpause>>

(* No traffic makes the next polls pause; another error does nothing. *)
PollFailed ==
  /\ phase = "polling"
  /\ rpause' = [rpause EXCEPT ![cur] = TRUE] \/ UNCHANGED rpause
  /\ VisitOver
  /\ UNCHANGED <<wq, rq, wpause, pollers, history>>

NextCycle ==
  /\ phase = "read" /\ todo = {}
  /\ phase' = "write" /\ todo' = Slaves
  /\ UNCHANGED <<queues, cur, selectors, pollers, history>>

(* The clock passes a must_wait_to. *)
WritePauseEnds(s) ==
  /\ wpause[s] /\ wpause' = [wpause EXCEPT ![s] = FALSE]
  /\ UNCHANGED <<wq, rq, rpause, scheduler, selectors, pollers, history>>

ReadPauseEnds(s) ==
  /\ rpause[s] /\ rpause' = [rpause EXCEPT ![s] = FALSE]
  /\ UNCHANGED <<wq, rq, wpause, scheduler, selectors, pollers, history>>

-----------------------------------------------------------------------------
SelectorStep(c) ==
  StartSelect(c) \/ SelectLooksBack(c) \/ SelectWaits(c) \/ SelectPushes(c)

PollerStep(p) ==
  \/ StartPoll(p) \/ PollWaits(p) \/ PollTimesOut(p)
  \/ PollLooksAgain(p) \/ PollFront(p) \/ PollPop(p)

SchedulerStep ==
  \/ \E s \in Slaves : VisitWrite(s) \/ VisitRead(s)
  \/ SelectAcked \/ SelectFailed \/ SignalWriter \/ StartReads
  \/ PollAnswered \/ PollCrcFailed \/ PollFailed \/ NextCycle

Next ==
  \/ \E c \in Selectors : SelectorStep(c)
  \/ \E p \in Pollers : PollerStep(p)
  \/ SchedulerStep
  \/ \E s \in Slaves : WritePauseEnds(s) \/ ReadPauseEnds(s)

Spec == Init /\ [][Next]_vars

(* The kernel schedules the thread and the clients inside a call, every    *)
(* transaction on the line ends, and time passes.                          *)
Fairness ==
  /\ WF_vars(SchedulerStep)
  /\ \A s \in Slaves : WF_vars(WritePauseEnds(s)) /\ WF_vars(ReadPauseEnds(s))
  /\ \A c \in Selectors : WF_vars(SelectLooksBack(c) \/ SelectWaits(c) \/ SelectPushes(c))

FairSpec == Spec /\ Fairness

-----------------------------------------------------------------------------
(* However the clients' looks at the size of a write queue interleave with *)
(* their pushes, each of them carries it at most one past the limit.       *)
WriteQueueBound ==
  \A s \in Slaves : Len(wq[s]) <= MAX_WRITE_QUEUE - 1 + Cardinality(Selectors)

(* A slave carries out commands in the order they were pushed: a retry     *)
(* neither lets a later command pass nor comes back after one.             *)
ExecutedInOrder ==
  \A s \in Slaves : \A i, j \in DOMAIN executed[s] :
    i < j => executed[s][i] <= executed[s][j]

(* Each slave's commands keep the promise of CommandQueue with three tries:*)
(* only the oldest is tried, and once it left the queue, done or given up, *)
(* it is never carried out again.                                          *)
CommandQueues == INSTANCE CommandQueue WITH
  Tries <- 3, accepted <- pushed, done <- executed, givenUp <- dropped,
  queue <- [s \in Slaves |-> [i \in DOMAIN wq[s] |-> wq[s][i].id]],
  tries <- [s \in Slaves |-> IF wq[s] = << >> THEN 0 ELSE Head(wq[s]).retry]

ImplementsCommandQueue == CommandQueues!CommandQueueSpec

(* Until it succeeds a command has been carried out at most as often as it *)
(* failed, so at most three times in all, and an SL or SA that is queued   *)
(* not yet, so at most once.                                               *)
Times(s, id) == Cardinality({i \in DOMAIN executed[s] : executed[s][i] = id})
RetriesBounded ==
  \A s \in Slaves : \A i \in DOMAIN wq[s] :
    /\ Times(s, wq[s][i].id) <= wq[s][i].retry
    /\ wq[s][i].cmd \in NoRetry => Times(s, wq[s][i].id) = 0

(* What poll hands out.  A read queue is what is left of the answers       *)
(* received, in order.  Nobody is handed an answer that is still queued,   *)
(* or one twice, or one after a later one, and a lone poller no garbage.   *)
Popped(s) == received[s] - Len(rq[s])
AnswersInOrder ==
  \A s \in Slaves :
    /\ \A i \in DOMAIN rq[s] : rq[s][i].n = Popped(s) + i
    /\ \A p \in Pollers :
         LET ns == [i \in DOMAIN taken[s][p] |-> taken[s][p][i].n]
         IN  \A i \in DOMAIN ns :
               /\ ns[i] = 0 => Pollers # {p}
               /\ ns[i] <= Popped(s)
               /\ \A j \in 1..(i - 1) : ns[i] # 0 => ns[j] < ns[i]

(* Where answer n of slave s, or with 0 garbage, was handed out: the       *)
(* poller and the place in what it was handed.                             *)
Handed(s)    == UNION {{p} \X DOMAIN taken[s][p] : p \in Pollers}
Places(s, n) == {h \in Handed(s) : taken[s][h[1]][h[2]].n = n}

(* An answer is lost, handed out twice or replaced by garbage only where   *)
(* two polls of one slave crossed, each past its look at the queue before  *)
(* the other's pop.  Until that happens every answer that left the queue   *)
(* is in the hands of one client, once, however many clients there are and *)
(* whatever the thread queues between their front and their pop.           *)
KeptUnlessCrossed ==
  \A s \in Slaves : ~crossed[s] =>
    /\ \A n \in 1..Popped(s) : \E h \in Handed(s) : Places(s, n) = {h}
    /\ Places(s, 0) = {}

(* Every command pushed leaves the queue, done or given up: whenever it    *)
(* may be pushed, there is a later moment at which it is not queued.       *)
CommandsSettle ==
  \A s \in Slaves, k \in 1..MaxCommands :
    []<>(\A i \in DOMAIN wq[s] : wq[s][i].id # k)

(* select returns, although the wakeup for room may come before the wait:  *)
(* the schedule thread signals again in every cycle.  However often it is  *)
(* called, there is a later moment at which the client is in no call.      *)
SelectReturns == \A c \in Selectors : []<>(spc[c] = "idle")
=============================================================================
