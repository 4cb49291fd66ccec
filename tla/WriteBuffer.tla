---------------------------- MODULE WriteBuffer ----------------------------
(***************************************************************************)
(* The sending half of PosixSerialComm when it is built with               *)
(* POSIX_WRITE_BUFFERING (without it, write is a plain ::write): clients   *)
(* fill a ring with write, write_async and empty it with flush_write, the  *)
(* write thread (run_write) sends what is in it.  A byte is its position   *)
(* among all the bytes the ring has accepted.  The channel stays           *)
(* initialised.  As in ReadBuffer, a step is what is done between a lock   *)
(* of write_mutex and the next unlock or condition wait; only              *)
(* byte_available_write looks at write_full outside the lock.              *)
(***************************************************************************)
EXTENDS Integers

CONSTANTS
  Clients,   \* threads that call the channel
  Size,      \* write_buffer_size
  MaxWrite,  \* bound: the most bytes one call sends
  MaxBytes,  \* bound: the bytes the ring ever accepts
  Ops,       \* the calls the clients make, a subset of Calls
  Spurious   \* who may return from a condition wait without a signal

Calls == {"write", "writeTimeo", "async", "count", "flush"}

ASSUME ConstantsAssumption ==
  /\ Size \in Nat \ {0}
  /\ MaxWrite \in Nat \ {0}
  /\ MaxBytes \in Nat
  /\ Ops \subseteq Calls
  /\ Spurious \subseteq {"client", "thread"}

VARIABLES
  accepted,     \* bytes 1..accepted have been put into the ring
  head,         \* bytes 1..head have left it, sent or flushed
  write_buffer, wptr, rptr, write_full,
  sent,         \* what the thread's last pass gave to the tty
  thread,       \* run_write: at select, waiting on write_cond, woken
  pc,           \* per client: where it is in its call
  call          \* per client: its call, or the last one when it is idle

ring == <<write_buffer, wptr, rptr, write_full>>
vars == <<accepted, head, ring, sent, thread, pc, call>>

Slots == 0..(Size - 1)

(* tot is the value the call returns, ret that of the write_async under way *)
Call == [op: Calls, nb: Nat, tot: Nat, ret: Nat, timeo: BOOLEAN]
NewCall(op, nb, tot) ==
  [op |-> op, nb |-> nb, tot |-> tot, ret |-> 0, timeo |-> FALSE]

TypeOK ==
  /\ accepted \in Nat /\ head \in Nat
  /\ write_buffer \in [Slots -> Nat]
  /\ wptr \in Slots /\ rptr \in Slots /\ write_full \in BOOLEAN
  /\ thread \in {"select", "wait", "woken"}
  /\ pc \in [Clients -> {"idle", "atomic", "check", "wait", "count"}]
  /\ call \in [Clients -> Call]

Init ==
  /\ accepted = 0 /\ head = 0
  /\ write_buffer = [i \in Slots |-> 0]
  /\ wptr = 0 /\ rptr = 0 /\ write_full = FALSE
  /\ sent = << >>
  /\ thread = "select"
  /\ pc = [c \in Clients |-> "idle"]
  /\ call = [c \in Clients |-> NewCall("async", 0, 0)]

-----------------------------------------------------------------------------
(* The ring. *)

MIN(x, y) == IF x < y THEN x ELSE y

(* Mutant of Wrap: the pointer runs off the end. *)
WrapNever(p) == p

(* A pointer that reaches the end of the buffer goes back to its start. *)
Wrap(p) == IF p = Size THEN 0 ELSE p

(* Mutant of FirstPart: writes past the reader. *)
FirstPartToTheEnd(nb) == MIN(nb, Size - wptr)

(* What write_async_atomic copies in, of nb bytes: one piece from wptr on, *)
(* then, when that reaches the end of the buffer, one from slot 0 on.      *)
FirstPart(nb)  == IF wptr >= rptr THEN MIN(nb, Size - wptr) ELSE MIN(nb, rptr - wptr)
SecondPart(nb) == IF wptr >= rptr THEN MIN(nb - FirstPart(nb), rptr) ELSE 0
Space(nb) == IF write_full THEN 0 ELSE FirstPart(nb) + SecondPart(nb)

FillRing(nb) ==
  LET first == FirstPart(nb)
      k     == Space(nb)
  IN  /\ write_buffer' = [i \in Slots |->
            IF i \in wptr..(wptr + first - 1) THEN accepted + 1 + (i - wptr)
            ELSE IF i \in 0..(k - first - 1)  THEN accepted + 1 + first + i
            ELSE write_buffer[i]]
      /\ wptr' = IF wptr >= rptr /\ nb > first THEN k - first ELSE Wrap(wptr + first)
      /\ write_full' = (k > 0 /\ wptr' = rptr)
      /\ accepted' = accepted + k
      /\ UNCHANGED <<head, rptr>>

(* Mutant of Pending: does not stop at the writer's pointer. *)
PendingToTheEnd == Size - rptr

(* What the thread's first ::write offers.  Equal pointers are taken for a *)
(* full ring, whatever write_full says.                                    *)
Pending == IF wptr <= rptr THEN Size - rptr ELSE wptr - rptr

(* That ::write reached the end of the buffer, so a second one offers what *)
(* is below wptr.                                                          *)
GoesOn(n) == wptr <= rptr /\ n = Size - rptr

(* One pass of run_write whose ::writes take n and then m bytes. *)
DrainRing(n, m) ==
  /\ n <= Pending
  /\ m <= (IF GoesOn(n) THEN wptr ELSE 0)
  /\ sent' = [i \in 1..(n + m) |-> IF i <= n THEN write_buffer[rptr + i - 1]
                                            ELSE write_buffer[i - n - 1]]
  /\ rptr' = IF GoesOn(n) THEN m ELSE rptr + n
  /\ write_full' = (write_full /\ n = 0)
  /\ head' = head + n + m
  /\ UNCHANGED <<accepted, write_buffer, wptr>>

-----------------------------------------------------------------------------
(* The write thread. *)

(* pthread_cond_signal(&write_full_cond) *)
SignalWriteFull ==
  \/ \E c \in Clients : pc[c] = "wait" /\ pc' = [pc EXCEPT ![c] = "atomic"]
  \/ (\A c \in Clients : pc[c] # "wait") /\ UNCHANGED pc

(* Mutant of ThreadWaits: takes equal pointers for an empty ring. *)
ThreadWaitsOnEqual ==
  /\ thread = "select" /\ wptr = rptr
  /\ SignalWriteFull
  /\ thread' = "wait"
  /\ UNCHANGED <<accepted, head, ring, sent, call>>

(* The tty is writable and there is nothing to send. *)
ThreadWaits ==
  /\ thread = "select" /\ ~write_full /\ wptr = rptr
  /\ SignalWriteFull
  /\ thread' = "wait"
  /\ UNCHANGED <<accepted, head, ring, sent, call>>

(* The thread holds the mutex and goes on to ::write.  After the wait the  *)
(* ring is not looked at again.                                            *)
MayDrain == \/ thread = "select" /\ (write_full \/ wptr # rptr)
            \/ thread = "woken"

(* Clients are told of the room in a ring that was full, except when the   *)
(* pass went round its end: write_full is reset too early for that.        *)
ThreadWrites ==
  /\ MayDrain
  /\ \E n \in 1..Pending, m \in 0..wptr :
       /\ DrainRing(n, m)
       /\ IF write_full /\ ~(GoesOn(n) /\ wptr # 0) THEN SignalWriteFull ELSE UNCHANGED pc
  /\ thread' = "select"
  /\ UNCHANGED call

(* ::write fails or takes nothing. *)
ThreadWritesNothing ==
  /\ MayDrain
  /\ DrainRing(0, 0)
  /\ thread' = "select"
  /\ UNCHANGED <<pc, call>>

-----------------------------------------------------------------------------
(* The clients. *)

StartWrite(c) ==
  /\ pc[c] = "idle"
  /\ \E op \in Ops \cap {"write", "writeTimeo", "async"}, nb \in 1..MaxWrite :
       /\ accepted + nb <= MaxBytes
       /\ call' = [call EXCEPT ![c] = NewCall(op, nb, 0)]
  /\ pc' = [pc EXCEPT ![c] = "atomic"]
  /\ UNCHANGED <<accepted, head, ring, sent, thread>>

(* Mutant of SignalWrite: the writer is not told. *)
SignalWriteForgotten == UNCHANGED thread

(* pthread_cond_signal(&write_cond) *)
SignalWrite == thread' = IF thread = "wait" THEN "woken" ELSE thread

(* Mutant of AfterAtomic: a partial write_async ends the call. *)
AfterAtomicNoLoop(c, k) ==
  /\ call' = [call EXCEPT ![c].tot = @ + k]
  /\ pc' = [pc EXCEPT ![c] = IF k > 0 THEN "idle" ELSE "check"]

(* Where a call goes when write_async_atomic has taken k of the bytes it   *)
(* still has: write_async repeats it until none or all are taken, write    *)
(* repeats write_async until none is.                                      *)
AfterAtomic(c, k) ==
  LET q    == call[c]
      full == q.tot + q.ret + k = q.nb
      done == full \/ (k = 0 /\ q.op = "async")
  IN  /\ call' = [call EXCEPT ![c] =
                    IF done \/ k = 0 THEN [q EXCEPT !.tot = @ + q.ret + k, !.ret = 0]
                                     ELSE [q EXCEPT !.ret = @ + k]]
      /\ pc' = [pc EXCEPT ![c] = IF done THEN "idle"
                                 ELSE IF k = 0 /\ q.ret = 0 THEN "check" ELSE "atomic"]

WriteAsyncAtomic(c) ==
  LET nb == call[c].nb - call[c].tot - call[c].ret
  IN  /\ pc[c] = "atomic"
      /\ IF write_full THEN UNCHANGED <<accepted, head, ring, thread>>
                       ELSE FillRing(nb) /\ SignalWrite
      /\ AfterAtomic(c, Space(nb))
      /\ UNCHANGED sent

(* write found the ring full and waits for room, without another look. *)
WriteBlocks(c) ==
  /\ pc[c] = "check"
  /\ pc' = [pc EXCEPT ![c] = "wait"]
  /\ UNCHANGED <<accepted, head, ring, sent, thread, call>>

(* Mutant of WriteTimesOut: the test of ms_timeo the wrong way round. *)
WriteTimesOutInverted(c) ==
  /\ pc[c] = "wait" /\ call[c].op = "write"
  /\ call' = [call EXCEPT ![c].timeo = TRUE]
  /\ pc' = [pc EXCEPT ![c] = "idle"]
  /\ UNCHANGED <<accepted, head, ring, sent, thread>>

(* pthread_cond_timedwait gave up: write returns what the ring has taken. *)
WriteTimesOut(c) ==
  /\ pc[c] = "wait" /\ call[c].op = "writeTimeo"
  /\ call' = [call EXCEPT ![c].timeo = TRUE]
  /\ pc' = [pc EXCEPT ![c] = "idle"]
  /\ UNCHANGED <<accepted, head, ring, sent, thread>>

(* byte_available_write tests write_full before it takes the mutex. *)
ByteAvailableWrite(c) ==
  /\ pc[c] = "idle" /\ "count" \in Ops
  /\ call' = [call EXCEPT ![c] = NewCall("count", 0, IF write_full THEN Size ELSE 0)]
  /\ pc' = [pc EXCEPT ![c] = IF write_full THEN "idle" ELSE "count"]
  /\ UNCHANGED <<accepted, head, ring, sent, thread>>

PointerDistance == IF wptr >= rptr THEN wptr - rptr ELSE wptr - rptr + Size

ByteAvailableWriteLocked(c) ==
  /\ pc[c] = "count"
  /\ call' = [call EXCEPT ![c].tot = PointerDistance]
  /\ pc' = [pc EXCEPT ![c] = "idle"]
  /\ UNCHANGED <<accepted, head, ring, sent, thread>>

(* flush_write signals nobody. *)
FlushWrite(c) ==
  /\ pc[c] = "idle" /\ "flush" \in Ops
  /\ wptr' = 0 /\ rptr' = 0 /\ write_full' = FALSE
  /\ head' = accepted
  /\ call' = [call EXCEPT ![c] = NewCall("flush", 0, 0)]
  /\ UNCHANGED <<accepted, write_buffer, sent, thread, pc>>

(* A condition wait that returns though nobody signalled.  Bound: the      *)
(* thread stops doing so when it has sent MaxBytes.                        *)
SpuriousWakeup ==
  /\ \/ /\ "thread" \in Spurious /\ thread = "wait" /\ head < MaxBytes
        /\ thread' = "woken" /\ UNCHANGED pc
     \/ /\ "client" \in Spurious /\ UNCHANGED thread
        /\ \E c \in Clients : pc[c] = "wait" /\ pc' = [pc EXCEPT ![c] = "atomic"]
  /\ UNCHANGED <<accepted, head, ring, sent, call>>

-----------------------------------------------------------------------------
ClientStep(c) ==
  \/ StartWrite(c) \/ WriteAsyncAtomic(c) \/ WriteBlocks(c) \/ WriteTimesOut(c)
  \/ ByteAvailableWrite(c) \/ ByteAvailableWriteLocked(c) \/ FlushWrite(c)

Next ==
  \/ ThreadWaits \/ ThreadWrites \/ ThreadWritesNothing
  \/ SpuriousWakeup
  \/ \E c \in Clients : ClientStep(c)

Spec == Init /\ [][Next]_vars

(* Both threads are scheduled by the kernel, the tty ends up taking bytes, *)
(* a timed wait ends.  Nothing is assumed of new calls.                    *)
Fairness ==
  /\ WF_vars(ThreadWaits) /\ WF_vars(ThreadWrites)
  /\ \A c \in Clients : /\ WF_vars(WriteAsyncAtomic(c)) /\ WF_vars(WriteBlocks(c))
                       /\ WF_vars(WriteTimesOut(c))
                       /\ WF_vars(ByteAvailableWriteLocked(c))

FairSpec == Spec /\ Fairness

-----------------------------------------------------------------------------
Wrapped == wptr < rptr \/ (wptr = rptr /\ write_full)

(* Bytes in the ring, and the slot of the k-th of them. *)
Count == IF Wrapped THEN wptr - rptr + Size ELSE wptr - rptr
SlotOf(k) == IF rptr + k < Size THEN rptr + k ELSE rptr + k - Size

(* Without flush_write and without wakeups of the thread that nobody       *)
(* signalled: the ring holds exactly the accepted bytes not yet sent, in   *)
(* order from rptr, a full ring has equal pointers (the assertion of       *)
(* run_write), and the thread comes back from its wait to a ring that has  *)
(* something to send.                                                      *)
RingInv ==
  /\ head + Count = accepted
  /\ \A k \in Slots : k < Count => write_buffer[SlotOf(k)] = head + 1 + k
  /\ write_full => wptr = rptr
  /\ thread = "woken" => Count > 0

(* Under the same conditions the sending half is a bounded byte stream:    *)
(* what each pass of run_write gives to the tty is the next bytes of the   *)
(* stream, none lost, repeated or overtaken.                               *)
Stream == INSTANCE ByteStream WITH Capacity <- Size, in <- accepted, out <- head,
                                   chunk <- sent
ImplementsStream == Stream!Spec

(* The thread does not sleep on write_cond while bytes wait to be sent,    *)
(* whatever mix of writes, flushes and wakeups led there.                  *)
NoSleepOnData == thread = "wait" => Count = 0

(* A write that is over has handed over all its bytes, or timed out. *)
ShortWriteTimedOut ==
  \A c \in Clients :
    pc[c] = "idle" /\ call[c].op \in {"write", "writeTimeo"} =>
      call[c].tot = call[c].nb \/ (call[c].timeo /\ call[c].tot < call[c].nb)

(* Every byte the ring accepts is sent, whether or not its client is stuck *)
(* on write_full_cond or gave up.                                          *)
AcceptedIsSent == \A k \in 1..MaxBytes : accepted >= k ~> head >= k

(* A write with a timeout returns. *)
TimedWriteReturns ==
  \A c \in Clients : (pc[c] = "atomic" /\ call[c].op = "writeTimeo") ~> pc[c] = "idle"

(* A write without a timeout returns once the tty has taken its bytes. *)
WriteReturns ==
  \A c \in Clients : (pc[c] = "atomic" /\ call[c].op = "write") ~> pc[c] = "idle"

(* Past its wait, run_write finds equal pointers only in a full ring, as   *)
(* the comment on that branch says.                                        *)
EqualMeansFull == thread = "woken" /\ wptr = rptr => write_full
=============================================================================
