----------------------------- MODULE ReadBuffer -----------------------------
(***************************************************************************)
(* The receiving half of PosixSerialComm: the read thread (run_read) fills *)
(* a ring from the tty, clients empty it with read, read_async,            *)
(* byte_available_read and flush_read.  A byte is its position in the      *)
(* stream that arrives on the line.  The channel is initialised and stays  *)
(* so: init and deinit are not in this module.                             *)
(*                                                                         *)
(* Every access to the ring but one is made under read_mutex, so what is   *)
(* done between a lock and the next unlock or condition wait is one step.  *)
(* The exception is the test of read_full in byte_available_read.          *)
(***************************************************************************)
EXTENDS Integers

CONSTANTS
  Clients,   \* threads that call the channel
  Size,      \* read_buffer_size
  MaxRead,   \* bound: the most bytes one call asks for
  MaxBytes,  \* bound: the bytes that arrive on the line
  Ops,       \* the calls the clients make, a subset of Calls
  Spurious   \* who may return from a condition wait without a signal

Calls == {"read", "readTimeo", "async", "count", "flush"}

ASSUME ConstantsAssumption ==
  /\ Size \in Nat \ {0}
  /\ MaxRead \in Nat \ {0}
  /\ MaxBytes \in Nat
  /\ Ops \subseteq Calls
  /\ Spurious \subseteq {"client", "thread"}

VARIABLES
  arrived,      \* bytes 1..arrived have reached the tty
  taken,        \* bytes 1..taken have been read from it by the thread
  head,         \* bytes 1..head have left the ring, copied or flushed
  read_buffer, wptr, rptr, read_full,
  copied,       \* what the last read_async_atomic copied to its caller
  thread,       \* run_read: in select, waiting on read_full_cond, woken
  pc,           \* per client: where it is in its call
  call          \* per client: its call, or the last one when it is idle

ring == <<read_buffer, wptr, rptr, read_full>>
vars == <<arrived, taken, head, ring, copied, thread, pc, call>>

Slots == 0..(Size - 1)

(* tot is the value the call returns, ret that of the read_async under way. *)
Call == [op: Calls, nb: Nat, tot: Nat, ret: Nat, timeo: BOOLEAN]
NewCall(op, nb, tot) ==
  [op |-> op, nb |-> nb, tot |-> tot, ret |-> 0, timeo |-> FALSE]

TypeOK ==
  /\ arrived \in Nat /\ taken \in Nat /\ head \in Nat
  /\ read_buffer \in [Slots -> Nat]
  /\ wptr \in Slots /\ rptr \in Slots /\ read_full \in BOOLEAN
  /\ thread \in {"select", "wait", "woken"}
  /\ pc \in [Clients -> {"idle", "atomic", "check", "wait", "count"}]
  /\ call \in [Clients -> Call]

Init ==
  /\ arrived = 0 /\ taken = 0 /\ head = 0
  /\ read_buffer = [i \in Slots |-> 0]
  /\ wptr = 0 /\ rptr = 0 /\ read_full = FALSE
  /\ copied = << >>
  /\ thread = "select"
  /\ pc = [c \in Clients |-> "idle"]
  /\ call = [c \in Clients |-> NewCall("async", 0, 0)]

-----------------------------------------------------------------------------
(* The ring. *)

MIN(x, y) == IF x < y THEN x ELSE y

(* Mutant of Wrap: the pointer runs off the end. *)
WrapNever(p) == p

(* A pointer that reaches the end of the buffer goes back to its start. *)
Wrap(p) == IF p = Size THEN 0 ELSE p

(* Mutant of Room: does not stop at the reader's pointer. *)
RoomToTheEnd == IF wptr = rptr THEN Size ELSE Size - wptr

(* How much the next ::read may put in one piece, from wptr on. *)
Room == IF wptr = rptr THEN Size
        ELSE IF wptr > rptr THEN Size - wptr ELSE rptr - wptr

(* The tail of run_read's loop: one ::read that returns n bytes.  Equal    *)
(* pointers are taken for an empty ring, whatever read_full says.  The     *)
(* second ::read of that branch is never reached: rptr is 0 there.         *)
FillRing(n) ==
  LET w == IF wptr = rptr THEN 0 ELSE wptr
  IN  /\ n <= Room /\ taken + n <= arrived
      /\ read_buffer' = [i \in Slots |-> IF i \in w..(w + n - 1)
                                         THEN taken + 1 + (i - w)
                                         ELSE read_buffer[i]]
      /\ wptr' = Wrap(w + n)
      /\ rptr' = IF wptr = rptr THEN 0 ELSE rptr
      /\ read_full' = (read_full \/ (n > 0 /\ wptr' = rptr'))
      /\ taken' = taken + n

(* The unread bytes run past the end of the buffer. *)
Wrapped == wptr < rptr \/ (wptr = rptr /\ read_full)

(* Mutant of FirstPart: does not stop at the writer's pointer. *)
FirstPartToTheEnd(nb) == MIN(nb, Size - rptr)

(* What read_async_atomic copies: one piece from rptr on, then, when the   *)
(* unread bytes are wrapped and more is wanted, one from slot 0 on.        *)
FirstPart(nb) == IF Wrapped THEN MIN(nb, Size - rptr) ELSE MIN(nb, wptr - rptr)
SecondPart(nb) == IF Wrapped THEN MIN(nb - FirstPart(nb), wptr) ELSE 0
Copy(nb) == FirstPart(nb) + SecondPart(nb)

EmptyRing(nb) ==
  LET first == FirstPart(nb)
  IN  /\ copied' = [i \in 1..Copy(nb) |->
                      IF i <= first THEN read_buffer[rptr + i - 1]
                                    ELSE read_buffer[i - first - 1]]
      /\ rptr' = IF Wrapped /\ nb > first THEN SecondPart(nb) ELSE Wrap(rptr + first)
      /\ read_full' = FALSE
      /\ head' = head + Copy(nb)
      /\ UNCHANGED <<read_buffer, wptr>>

-----------------------------------------------------------------------------
(* The line and the read thread. *)

Arrive ==
  /\ arrived < MaxBytes
  /\ arrived' = arrived + 1
  /\ UNCHANGED <<taken, head, ring, copied, thread, pc, call>>

(* Mutant of SignalRead: the reader is not told. *)
SignalReadForgotten == UNCHANGED pc

(* pthread_cond_signal(&read_cond) wakes one waiting client, if any: it    *)
(* leaves wait_timeo with 0 and goes round the loop of read.               *)
SignalRead ==
  \/ \E c \in Clients : pc[c] = "wait" /\ pc' = [pc EXCEPT ![c] = "atomic"]
  \/ (\A c \in Clients : pc[c] # "wait") /\ UNCHANGED pc

(* pthread_cond_signal(&read_full_cond) *)
SignalReadFull == thread' = IF thread = "wait" THEN "woken" ELSE thread

(* select reported bytes, but the ring is full. *)
ThreadWaits ==
  /\ thread = "select" /\ arrived > taken /\ read_full
  /\ thread' = "wait"
  /\ UNCHANGED <<arrived, taken, head, ring, copied, pc, call>>

(* The thread holds the mutex and goes on to ::read.  After the wait       *)
(* read_full is not tested again.                                          *)
MayFill == \/ thread = "select" /\ arrived > taken /\ ~read_full
           \/ thread = "woken"

ThreadFills ==
  /\ MayFill
  /\ \E n \in 1..(arrived - taken) : FillRing(n)
  /\ SignalRead
  /\ thread' = "select"
  /\ UNCHANGED <<arrived, head, copied, call>>

(* ::read returns 0 or an error. *)
ThreadReadsNothing ==
  /\ MayFill
  /\ FillRing(0)
  /\ thread' = "select"
  /\ UNCHANGED <<arrived, head, copied, pc, call>>

-----------------------------------------------------------------------------
(* The clients. *)

StartRead(c) ==
  /\ pc[c] = "idle"
  /\ \E op \in Ops \cap {"read", "readTimeo", "async"}, nb \in 1..MaxRead :
       call' = [call EXCEPT ![c] = NewCall(op, nb, 0)]
  /\ pc' = [pc EXCEPT ![c] = "atomic"]
  /\ UNCHANGED <<arrived, taken, head, ring, copied, thread>>

(* Mutant of AfterAtomic: a partial read_async ends the call. *)
AfterAtomicNoLoop(c, k) ==
  /\ call' = [call EXCEPT ![c].tot = @ + k]
  /\ pc' = [pc EXCEPT ![c] = IF k > 0 THEN "idle" ELSE "check"]

(* Where a call goes when read_async_atomic has copied k of the bytes it   *)
(* still wants: read_async repeats it until nothing is copied or all is    *)
(* there, and read repeats read_async until that brings nothing.           *)
AfterAtomic(c, k) ==
  LET q    == call[c]
      full == q.tot + q.ret + k = q.nb
      done == full \/ (k = 0 /\ q.op = "async")
  IN  /\ call' = [call EXCEPT ![c] =
                    IF done \/ k = 0 THEN [q EXCEPT !.tot = @ + q.ret + k, !.ret = 0]
                                     ELSE [q EXCEPT !.ret = @ + k]]
      /\ pc' = [pc EXCEPT ![c] = IF done THEN "idle"
                                 ELSE IF k = 0 /\ q.ret = 0 THEN "check" ELSE "atomic"]

ReadAsyncAtomic(c) ==
  LET nb == call[c].nb - call[c].tot - call[c].ret
  IN  /\ pc[c] = "atomic"
      /\ EmptyRing(nb)
      /\ SignalReadFull
      /\ AfterAtomic(c, Copy(nb))
      /\ UNCHANGED <<arrived, taken>>

(* Mutant of ReadBlocks: sleeps without another look at the ring. *)
ReadBlocksUnchecked(c) ==
  /\ pc[c] = "check"
  /\ pc' = [pc EXCEPT ![c] = "wait"]
  /\ UNCHANGED <<arrived, taken, head, ring, copied, thread, call>>

(* read found nothing: under the lock it sleeps, or goes round again. *)
ReadBlocks(c) ==
  /\ pc[c] = "check"
  /\ IF wptr = rptr /\ ~read_full
     THEN /\ wptr' = 0 /\ rptr' = 0
          /\ pc' = [pc EXCEPT ![c] = "wait"]
     ELSE /\ pc' = [pc EXCEPT ![c] = "atomic"]
          /\ UNCHANGED <<wptr, rptr>>
  /\ UNCHANGED <<arrived, taken, head, read_buffer, read_full, copied, thread, call>>

(* Mutant of ReadTimesOut: a timeout is taken for a wakeup. *)
ReadTimesOutRetries(c) ==
  /\ pc[c] = "wait" /\ call[c].op = "readTimeo"
  /\ pc' = [pc EXCEPT ![c] = "atomic"]
  /\ UNCHANGED <<arrived, taken, head, ring, copied, thread, call>>

(* pthread_cond_timedwait gave up: read returns what it has so far. *)
ReadTimesOut(c) ==
  /\ pc[c] = "wait" /\ call[c].op = "readTimeo"
  /\ call' = [call EXCEPT ![c].timeo = TRUE]
  /\ pc' = [pc EXCEPT ![c] = "idle"]
  /\ UNCHANGED <<arrived, taken, head, ring, copied, thread>>

(* byte_available_read tests read_full before it takes the mutex. *)
ByteAvailableRead(c) ==
  /\ pc[c] = "idle" /\ "count" \in Ops
  /\ call' = [call EXCEPT ![c] = NewCall("count", 0, IF read_full THEN Size ELSE 0)]
  /\ pc' = [pc EXCEPT ![c] = IF read_full THEN "idle" ELSE "count"]
  /\ UNCHANGED <<arrived, taken, head, ring, copied, thread>>

(* Mutant of PointerDistance: an empty ring counts as a full one. *)
PointerDistanceEmptyIsFull ==
  IF wptr > rptr THEN wptr - rptr ELSE wptr - rptr + Size

PointerDistance == IF wptr >= rptr THEN wptr - rptr ELSE wptr - rptr + Size

ByteAvailableReadLocked(c) ==
  /\ pc[c] = "count"
  /\ call' = [call EXCEPT ![c].tot = PointerDistance]
  /\ pc' = [pc EXCEPT ![c] = "idle"]
  /\ UNCHANGED <<arrived, taken, head, ring, copied, thread>>

(* flush_read signals nobody. *)
FlushRead(c) ==
  /\ pc[c] = "idle" /\ "flush" \in Ops
  /\ wptr' = 0 /\ rptr' = 0 /\ read_full' = FALSE
  /\ head' = taken
  /\ call' = [call EXCEPT ![c] = NewCall("flush", 0, 0)]
  /\ UNCHANGED <<arrived, taken, read_buffer, copied, thread, pc>>

(* A condition wait that returns though nobody signalled. *)
SpuriousWakeup ==
  /\ \/ /\ "thread" \in Spurious /\ thread = "wait"
        /\ thread' = "woken" /\ UNCHANGED pc
     \/ /\ "client" \in Spurious /\ UNCHANGED thread
        /\ \E c \in Clients : pc[c] = "wait" /\ pc' = [pc EXCEPT ![c] = "atomic"]
  /\ UNCHANGED <<arrived, taken, head, ring, copied, call>>

-----------------------------------------------------------------------------
ClientStep(c) ==
  \/ StartRead(c) \/ ReadAsyncAtomic(c) \/ ReadBlocks(c) \/ ReadTimesOut(c)
  \/ ByteAvailableRead(c) \/ ByteAvailableReadLocked(c) \/ FlushRead(c)

Next ==
  \/ Arrive \/ ThreadWaits \/ ThreadFills \/ ThreadReadsNothing
  \/ SpuriousWakeup
  \/ \E c \in Clients : ClientStep(c)

Spec == Init /\ [][Next]_vars

(* Both threads are scheduled by the kernel and a readable tty ends up     *)
(* giving its bytes; a timed wait ends.  Nothing is assumed of the line,   *)
(* of new calls, or of wakeups without a signal.                           *)
Fairness ==
  /\ WF_vars(ThreadWaits) /\ WF_vars(ThreadFills)
  /\ \A c \in Clients : /\ WF_vars(ReadAsyncAtomic(c)) /\ WF_vars(ReadBlocks(c))
                       /\ WF_vars(ReadTimesOut(c))
                       /\ WF_vars(ByteAvailableReadLocked(c))

FairSpec == Spec /\ Fairness

-----------------------------------------------------------------------------
(* Bytes in the ring, and the slot of the k-th of them. *)
Count == IF Wrapped THEN wptr - rptr + Size ELSE wptr - rptr
SlotOf(k) == IF rptr + k < Size THEN rptr + k ELSE rptr + k - Size

(* When the thread wakes only if it is signalled: the ring holds exactly   *)
(* the bytes taken from the tty and not yet copied or flushed, in order    *)
(* from rptr; a full ring has equal pointers; and when the thread comes    *)
(* back from its wait there is room, so ::read overwrites nothing although *)
(* read_full is not tested again.                                          *)
RingInv ==
  /\ taken <= arrived
  /\ head + Count = taken
  /\ \A k \in Slots : k < Count => read_buffer[SlotOf(k)] = head + 1 + k
  /\ read_full => wptr = rptr
  /\ thread = "woken" => ~read_full

(* Under the same condition the receiving half is a bounded byte stream:   *)
(* what read_async_atomic copies is always the next bytes of the stream,   *)
(* none lost, repeated or overtaken, and only flush_read discards any.     *)
Stream == INSTANCE ByteStream WITH Capacity <- Size, in <- taken, out <- head,
                                   chunk <- copied
ImplementsStream == Stream!Spec

(* A read that is over returns all it was asked for, or timed out: neither *)
(* the split into read_async_atomic calls nor the end of the buffer makes  *)
(* it return early.                                                        *)
ShortReadTimedOut ==
  \A c \in Clients :
    pc[c] = "idle" /\ call[c].op \in {"read", "readTimeo"} =>
      call[c].tot = call[c].nb \/ (call[c].timeo /\ call[c].tot < call[c].nb)

(* With one client: read never sleeps on read_cond while there are bytes   *)
(* in the ring, whatever arrived between its look at the ring and its wait.*)
NoSleepOnData == \A c \in Clients : pc[c] = "wait" => Count = 0

(* With one client: what byte_available_read reported can be read without  *)
(* blocking, as echo_serial does, until the client makes another call.     *)
CountedBytesStay ==
  \A c \in Clients :
    pc[c] = "idle" /\ call[c].op = "count" => call[c].tot <= Count

(* With one client: a read that sleeps is woken once a byte has arrived,   *)
(* even when the thread was left waiting for room by flush_read.           *)
ReadProgress ==
  \A c \in Clients : (pc[c] = "wait" /\ arrived > head) ~> pc[c] # "wait"

(* A read with a timeout returns. *)
TimedReadReturns ==
  \A c \in Clients : (pc[c] = "atomic" /\ call[c].op = "readTimeo") ~> pc[c] = "idle"
=============================================================================
