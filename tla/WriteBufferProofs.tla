------------------------- MODULE WriteBufferProofs -------------------------
(* Proofs about WriteBuffer, for every number of clients and every size of *)
(* the ring.                                                               *)
EXTENDS WriteBuffer, TLAPS

(* A call in progress still has bytes to send, and every place belongs to  *)
(* an operation.                                                           *)
CallInv == \A c \in Clients :
  /\ pc[c] \in {"atomic", "check", "wait"} =>
       /\ call[c].tot + call[c].ret < call[c].nb
       /\ call[c].op \in {"write", "writeTimeo", "async"}
  /\ pc[c] = "count" => call[c].op = "count"

(* ShortWriteTimedOut is inductive with the two others: they speak of the  *)
(* same calls, so one proof goes through the actions for all three.        *)
Typed == TypeOK /\ CallInv /\ ShortWriteTimedOut

PCs == {"idle", "atomic", "check", "wait", "count"}

-----------------------------------------------------------------------------
(* The operators on the ring. *)

(* The ring holds no more than its size. *)
LEMMA CountRange == ASSUME TypeOK PROVE Count \in 0..Size
  BY ConstantsAssumption DEF TypeOK, Slots, Count, Wrapped

(* write_async_atomic takes what it is given or what there is room for;    *)
(* the second piece starts where the first one reached the end.            *)
LEMMA SpaceIsMin ==
  ASSUME TypeOK, NEW nb \in Nat
  PROVE  /\ Space(nb) \in 0..nb
         /\ FirstPart(nb) \in 0..nb /\ SecondPart(nb) \in 0..nb
         /\ FirstPart(nb) <= Size - wptr
         /\ SecondPart(nb) > 0 => wptr + FirstPart(nb) = Size
         /\ write_full => Space(nb) = 0
         /\ (~write_full /\ wptr >= rptr) =>
              Space(nb) = MIN(nb, Size - wptr + rptr) /\ SecondPart(nb) <= rptr
         /\ (~write_full /\ wptr < rptr) =>
              Space(nb) = MIN(nb, rptr - wptr) /\ SecondPart(nb) = 0
  BY ConstantsAssumption DEF TypeOK, Slots, MIN, Space, FirstPart, SecondPart

(* Filling keeps the types. *)
LEMMA FillTypes ==
  ASSUME TypeOK, ~write_full, NEW nb \in Nat, FillRing(nb)
  PROVE  /\ wptr' \in Slots /\ rptr' \in Slots /\ write_full' \in BOOLEAN
         /\ write_buffer' \in [Slots -> Nat] /\ accepted' \in Nat
  <1>1. /\ FirstPart(nb) \in Nat /\ SecondPart(nb) \in Nat /\ Space(nb) \in Nat
        /\ FirstPart(nb) <= Size - wptr
        /\ wptr >= rptr => SecondPart(nb) <= rptr
        /\ Space(nb) = FirstPart(nb) + SecondPart(nb)
    BY SpaceIsMin DEF Space
  <1>2. /\ wptr' = IF wptr >= rptr /\ nb > FirstPart(nb) THEN Space(nb) - FirstPart(nb)
                   ELSE Wrap(wptr + FirstPart(nb))
        /\ accepted' = accepted + Space(nb) /\ rptr' = rptr
        /\ write_full' = (Space(nb) > 0 /\ wptr' = rptr)
    BY DEF FillRing
  <1>3. write_buffer' \in [Slots -> Nat]
    <2> DEFINE first == FirstPart(nb)
               k     == Space(nb)
               b(i)  == IF i \in wptr..(wptr + first - 1) THEN accepted + 1 + (i - wptr)
                        ELSE IF i \in 0..(k - first - 1)  THEN accepted + 1 + first + i
                        ELSE write_buffer[i]
    <2>1. write_buffer' = [i \in Slots |-> b(i)]
      BY DEF FillRing
    <2>2. /\ first \in Nat /\ wptr \in Nat /\ accepted \in Nat /\ Slots \subseteq Nat
          /\ \A i \in Slots : write_buffer[i] \in Nat
      BY <1>1, ConstantsAssumption DEF TypeOK, Slots
    <2>3. \A i \in Slots : b(i) \in Nat
      <3> HIDE DEF first, k
      <3> QED BY <2>2
    <2> QED BY <2>1, <2>3
  <1>4. wptr' \in Slots
    <2> DEFINE first == FirstPart(nb)
               second == SecondPart(nb)
    <2>0. /\ first \in Nat /\ second \in Nat /\ first <= Size - wptr
          /\ wptr >= rptr => second <= rptr
          /\ Space(nb) - first = second
      BY <1>1
    <2> HIDE DEF first, second
    <2>1. wptr \in 0..(Size - 1) /\ rptr \in 0..(Size - 1) /\ Size \in Nat
      BY ConstantsAssumption DEF TypeOK, Slots
    <2>2. CASE wptr >= rptr /\ nb > first
      <3>1. wptr' = second
        BY <1>2, <2>0, <2>2 DEF first
      <3> QED BY <2>0, <2>1, <2>2, <3>1 DEF Slots
    <2>3. CASE ~(wptr >= rptr /\ nb > first)
      <3>1. wptr' = Wrap(wptr + first)
        BY <1>2, <2>3 DEF first
      <3> QED BY <2>0, <2>1, <3>1, ConstantsAssumption DEF Slots, Wrap
    <2> QED BY <2>2, <2>3
  <1>5. rptr' \in Slots /\ accepted' \in Nat /\ write_full' \in BOOLEAN
    BY <1>1, <1>2 DEF TypeOK
  <1> QED BY <1>3, <1>4, <1>5

(* Sending keeps the types. *)
LEMMA DrainTypes ==
  ASSUME TypeOK, NEW n \in Nat, NEW m \in Nat, DrainRing(n, m)
  PROVE  /\ rptr' \in Slots /\ write_full' \in BOOLEAN /\ head' \in Nat
         /\ UNCHANGED <<accepted, write_buffer, wptr>>
  BY ConstantsAssumption DEF TypeOK, Slots, DrainRing, Pending, GoesOn

-----------------------------------------------------------------------------
(* Types and calls, step by step.                                          *)

(* One client's call moves on; what it must satisfy in its new place.      *)
LEMMA CallUpdate ==
  ASSUME Typed, NEW c \in Clients, NEW r \in Call, NEW s \in PCs,
         s \in {"atomic", "check", "wait"} =>
           r.tot + r.ret < r.nb /\ r.op \in {"write", "writeTimeo", "async"},
         s = "count" => r.op = "count",
         (s = "idle" /\ r.op \in {"write", "writeTimeo"}) =>
           r.tot = r.nb \/ (r.timeo /\ r.tot < r.nb),
         call' = [call EXCEPT ![c] = r], pc' = [pc EXCEPT ![c] = s]
  PROVE  /\ pc' \in [Clients -> PCs] /\ call' \in [Clients -> Call]
         /\ CallInv' /\ ShortWriteTimedOut'
  <1>0. pc \in [Clients -> PCs] /\ call \in [Clients -> Call]
    BY DEF Typed, TypeOK, PCs
  <1>1. pc' \in [Clients -> PCs] /\ call' \in [Clients -> Call]
    BY <1>0
  <1>2. \A d \in Clients : /\ d = c => pc'[d] = s /\ call'[d] = r
                           /\ d # c => pc'[d] = pc[d] /\ call'[d] = call[d]
    BY <1>0
  <1>3. CallInv'
    BY <1>2 DEF Typed, CallInv
  <1>4. ShortWriteTimedOut'
    BY <1>2 DEF Typed, ShortWriteTimedOut
  <1> QED BY <1>1, <1>3, <1>4

(* write_async ends or goes on with a typed call. *)
LEMMA AfterAtomicTyped ==
  ASSUME Typed, NEW c \in Clients, pc[c] = "atomic",
         NEW k \in 0..(call[c].nb - call[c].tot - call[c].ret), AfterAtomic(c, k)
  PROVE  /\ pc' \in [Clients -> PCs] /\ call' \in [Clients -> Call]
         /\ CallInv' /\ ShortWriteTimedOut'
  <1> DEFINE q    == call[c]
             t    == q.tot + q.ret + k
             r    == q.ret + k
             over == [q EXCEPT !.tot = t, !.ret = 0]
             more == [q EXCEPT !.ret = r]
  <1>1. /\ q \in Call /\ q.nb \in Nat /\ q.tot \in Nat /\ q.ret \in Nat
        /\ q.tot + q.ret < q.nb /\ k \in Nat /\ q.tot + q.ret + k <= q.nb
        /\ q.op \in {"write", "writeTimeo", "async"}
    BY DEF Typed, TypeOK, Call, CallInv
  <1>2. t \in Nat /\ r \in Nat /\ t = q.tot + q.ret + k
    BY <1>1
  <1> HIDE DEF t, r
  <1>3. /\ over \in Call /\ over.tot = t /\ over.ret = 0 /\ over.nb = q.nb /\ over.op = q.op
        /\ more \in Call /\ more.tot = q.tot /\ more.ret = r /\ more.nb = q.nb
        /\ more.op = q.op
    BY <1>1, <1>2 DEF Call
  <1>4. more.tot + more.ret = t
    BY <1>1, <1>3 DEF t, r
  <1> HIDE DEF over, more
  <1>5. CASE t = q.nb \/ (k = 0 /\ q.op = "async")
    <2>1. call' = [call EXCEPT ![c] = over] /\ pc' = [pc EXCEPT ![c] = "idle"]
      BY <1>5 DEF AfterAtomic, over, t
    <2>2. over.op \in {"write", "writeTimeo"} => over.tot = over.nb
      BY <1>3, <1>5
    <2> QED BY <1>3, <2>1, <2>2, CallUpdate DEF PCs
  <1>6. CASE t # q.nb /\ k = 0 /\ q.op # "async"
    <2> DEFINE s == IF q.ret = 0 THEN "check" ELSE "atomic"
    <2>1. call' = [call EXCEPT ![c] = over] /\ pc' = [pc EXCEPT ![c] = s]
      BY <1>6 DEF AfterAtomic, over, t
    <2>2. s \in PCs /\ s # "idle" /\ s # "count" /\ over.tot + over.ret < over.nb
      BY <1>1, <1>2, <1>3, <1>6 DEF PCs
    <2> HIDE DEF s
    <2> QED BY <1>1, <1>3, <2>1, <2>2, CallUpdate
  <1>7. CASE t # q.nb /\ k # 0
    <2>1. call' = [call EXCEPT ![c] = more] /\ pc' = [pc EXCEPT ![c] = "atomic"]
      BY <1>7 DEF AfterAtomic, more, t, r
    <2>2. more.tot + more.ret < more.nb
      BY <1>1, <1>2, <1>3, <1>4, <1>7
    <2> QED BY <1>1, <1>3, <2>1, <2>2, CallUpdate DEF PCs
  <1> QED BY <1>5, <1>6, <1>7

(* A signal, or a wait that ends without one, leaves the calls alone.      *)
LEMMA WakeUp ==
  ASSUME Typed, UNCHANGED call,
         UNCHANGED pc \/ \E c \in Clients : pc[c] = "wait" /\ pc' = [pc EXCEPT ![c] = "atomic"]
  PROVE  pc' \in [Clients -> PCs] /\ CallInv' /\ ShortWriteTimedOut'
  BY DEF Typed, TypeOK, CallInv, ShortWriteTimedOut, PCs

(* Every step keeps the types. *)
LEMMA TypedStep == Typed /\ [Next]_vars => Typed'
  <1> SUFFICES ASSUME Typed, [Next]_vars PROVE Typed'
    OBVIOUS
  <1>0. TypeOK /\ pc \in [Clients -> PCs] /\ call \in [Clients -> Call]
    BY DEF Typed, TypeOK, PCs
  <1>1. ASSUME pc' \in [Clients -> PCs], UNCHANGED call, CallInv', ShortWriteTimedOut',
               thread' \in {"select", "wait", "woken"}, accepted' \in Nat, head' \in Nat,
               write_buffer' \in [Slots -> Nat], wptr' \in Slots, rptr' \in Slots,
               write_full' \in BOOLEAN
        PROVE  Typed'
    BY <1>0, <1>1 DEF Typed, TypeOK, PCs
  <1>2. ASSUME UNCHANGED <<accepted, head, ring, thread>>, pc' \in [Clients -> PCs],
               call' \in [Clients -> Call], CallInv', ShortWriteTimedOut'
        PROVE  Typed'
    BY <1>0, <1>2 DEF Typed, TypeOK, PCs, ring
  <1>3. CASE ThreadWaits
    <2>1. pc' \in [Clients -> PCs] /\ CallInv' /\ ShortWriteTimedOut'
      BY <1>3, WakeUp DEF ThreadWaits, SignalWriteFull
    <2> QED BY <1>0, <1>1, <1>3, <2>1 DEF ThreadWaits, ring, TypeOK
  <1>4. ASSUME NEW n \in Nat, NEW m \in Nat, DrainRing(n, m), SignalWriteFull \/ UNCHANGED pc,
               UNCHANGED call, thread' = "select"
        PROVE  Typed'
    <2>1. pc' \in [Clients -> PCs] /\ CallInv' /\ ShortWriteTimedOut'
      BY <1>4, WakeUp DEF SignalWriteFull
    <2> QED BY <1>0, <1>1, <1>4, <2>1, DrainTypes DEF TypeOK
  <1>5. CASE ThreadWrites
    <2>1. PICK n \in 1..Pending, m \in 0..wptr :
            DrainRing(n, m) /\ (SignalWriteFull \/ UNCHANGED pc)
      BY <1>5 DEF ThreadWrites
    <2>2. n \in Nat /\ m \in Nat
      BY <1>0, ConstantsAssumption DEF TypeOK, Slots, Pending
    <2> QED BY <1>4, <1>5, <2>1, <2>2 DEF ThreadWrites
  <1>6. CASE ThreadWritesNothing
    BY <1>4, <1>6 DEF ThreadWritesNothing
  <1>7. CASE SpuriousWakeup
    <2>1. pc' \in [Clients -> PCs] /\ CallInv' /\ ShortWriteTimedOut'
      BY <1>7, WakeUp DEF SpuriousWakeup
    <2>2. thread' \in {"select", "wait", "woken"}
      BY <1>0, <1>7 DEF SpuriousWakeup, TypeOK
    <2> QED BY <1>0, <1>1, <1>7, <2>1, <2>2 DEF SpuriousWakeup, ring, TypeOK
  <1>8. ASSUME NEW c \in Clients, ClientStep(c) PROVE Typed'
    <2>1. CASE StartWrite(c)
      <3>1. PICK op \in Ops \cap {"write", "writeTimeo", "async"}, nb \in 1..MaxWrite :
                call' = [call EXCEPT ![c] = NewCall(op, nb, 0)]
        BY <2>1 DEF StartWrite
      <3> DEFINE r == NewCall(op, nb, 0)
      <3>2. r \in Call /\ r.tot + r.ret < r.nb /\ r.op = op
        BY ConstantsAssumption DEF NewCall, Call, Calls
      <3>3. call' = [call EXCEPT ![c] = r] /\ pc' = [pc EXCEPT ![c] = "atomic"]
        BY <2>1, <3>1 DEF StartWrite
      <3> HIDE DEF r
      <3> QED BY <1>2, <2>1, <3>2, <3>3, CallUpdate DEF PCs, StartWrite
    <2>2. CASE WriteAsyncAtomic(c)
      <3> DEFINE nb == call[c].nb - call[c].tot - call[c].ret
      <3>1. nb \in Nat /\ pc[c] = "atomic" /\ AfterAtomic(c, Space(nb))
        BY <2>2 DEF WriteAsyncAtomic, Typed, TypeOK, Call, CallInv
      <3>2. Space(nb) \in 0..nb
        BY <1>0, <3>1, SpaceIsMin
      <3>3. /\ pc' \in [Clients -> PCs] /\ call' \in [Clients -> Call]
            /\ CallInv' /\ ShortWriteTimedOut'
        BY <3>1, <3>2, AfterAtomicTyped
      <3>4. CASE write_full
        BY <1>2, <2>2, <3>3, <3>4 DEF WriteAsyncAtomic
      <3>5. CASE ~write_full
        <4>1. FillRing(nb) /\ SignalWrite
          BY <2>2, <3>5 DEF WriteAsyncAtomic
        <4> HIDE DEF nb
        <4>2. /\ wptr' \in Slots /\ rptr' \in Slots /\ write_full' \in BOOLEAN
              /\ write_buffer' \in [Slots -> Nat] /\ accepted' \in Nat
          BY <1>0, <3>1, <3>5, <4>1, FillTypes
        <4>3. head' \in Nat /\ thread' \in {"select", "wait", "woken"}
          BY <1>0, <4>1 DEF FillRing, SignalWrite, TypeOK
        <4> QED BY <3>3, <4>2, <4>3 DEF Typed, TypeOK, PCs
      <3> QED BY <3>4, <3>5
    <2>3. CASE WriteBlocks(c)
      <3>1. call' = [call EXCEPT ![c] = call[c]] /\ pc' = [pc EXCEPT ![c] = "wait"]
        BY <1>0, <2>3 DEF WriteBlocks
      <3>2. /\ call[c] \in Call /\ call[c].tot + call[c].ret < call[c].nb
            /\ call[c].op \in {"write", "writeTimeo", "async"}
        BY <1>0, <2>3 DEF WriteBlocks, Typed, CallInv
      <3> QED BY <1>2, <2>3, <3>1, <3>2, CallUpdate DEF PCs, WriteBlocks
    <2>4. CASE WriteTimesOut(c)
      <3> DEFINE r == [call[c] EXCEPT !.timeo = TRUE]
      <3>1. call' = [call EXCEPT ![c] = r] /\ pc' = [pc EXCEPT ![c] = "idle"]
        BY <2>4 DEF WriteTimesOut
      <3>2. call[c] \in Call /\ call[c].tot + call[c].ret < call[c].nb
        BY <1>0, <2>4 DEF WriteTimesOut, Typed, CallInv
      <3>3. r \in Call /\ r.timeo = TRUE /\ r.tot = call[c].tot /\ r.nb = call[c].nb
        BY <3>2 DEF Call
      <3> HIDE DEF r
      <3>4. r.tot < r.nb
        BY <3>2, <3>3 DEF Call
      <3> QED BY <1>2, <2>4, <3>1, <3>3, <3>4, CallUpdate DEF PCs, WriteTimesOut
    <2>5. CASE ByteAvailableWrite(c)
      <3> DEFINE r == NewCall("count", 0, IF write_full THEN Size ELSE 0)
                 s == IF write_full THEN "idle" ELSE "count"
      <3>1. call' = [call EXCEPT ![c] = r] /\ pc' = [pc EXCEPT ![c] = s]
        BY <2>5 DEF ByteAvailableWrite
      <3>2. s \in PCs /\ s \in {"idle", "count"}
        BY DEF PCs
      <3>3. \A tot \in Nat : LET q == NewCall("count", 0, tot)
                            IN  q \in Call /\ q.op = "count"
        BY DEF NewCall, Call, Calls
      <3>4. r \in Call /\ r.op = "count"
        BY <3>3, ConstantsAssumption
      <3> HIDE DEF r, s
      <3> QED BY <1>2, <2>5, <3>1, <3>2, <3>4, CallUpdate DEF ByteAvailableWrite
    <2>6. CASE ByteAvailableWriteLocked(c)
      <3> DEFINE r == [call[c] EXCEPT !.tot = PointerDistance]
      <3>1. call' = [call EXCEPT ![c] = r] /\ pc' = [pc EXCEPT ![c] = "idle"]
        BY <2>6 DEF ByteAvailableWriteLocked
      <3>2. PointerDistance \in Nat
        BY <1>0, ConstantsAssumption DEF PointerDistance, TypeOK, Slots
      <3>3. call[c] \in Call /\ call[c].op = "count"
        BY <1>0, <2>6 DEF ByteAvailableWriteLocked, Typed, CallInv
      <3>4. r \in Call /\ r.op = "count"
        BY <3>2, <3>3 DEF Call
      <3> HIDE DEF r
      <3> QED BY <1>2, <2>6, <3>1, <3>4, CallUpdate DEF PCs, ByteAvailableWriteLocked
    <2>7. CASE FlushWrite(c)
      <3> DEFINE r == NewCall("flush", 0, 0)
      <3>1. call' = [call EXCEPT ![c] = r] /\ pc' = [pc EXCEPT ![c] = "idle"]
        BY <1>0, <2>7 DEF FlushWrite
      <3>2. r \in Call /\ r.op = "flush"
        BY DEF NewCall, Call, Calls
      <3> HIDE DEF r
      <3>3. /\ pc' \in [Clients -> PCs] /\ call' \in [Clients -> Call]
            /\ CallInv' /\ ShortWriteTimedOut'
        BY <3>1, <3>2, CallUpdate DEF PCs
      <3>4. 0 \in Slots
        BY ConstantsAssumption DEF Slots
      <3> QED BY <1>0, <2>7, <3>3, <3>4 DEF FlushWrite, Typed, TypeOK, PCs
    <2> QED BY <1>8, <2>1, <2>2, <2>3, <2>4, <2>5, <2>6, <2>7 DEF ClientStep
  <1>9. CASE UNCHANGED vars
    BY <1>9 DEF vars, ring, Typed, TypeOK, CallInv, ShortWriteTimedOut
  <1> QED BY <1>3, <1>5, <1>6, <1>7, <1>8, <1>9 DEF Next

(* The types hold at the start. *)
LEMMA TypedInit == Init => Typed
  <1> DEFINE r == NewCall("async", 0, 0)
  <1>1. 0 \in Slots /\ r \in Call /\ r.op = "async"
    BY ConstantsAssumption DEF Slots, NewCall, Call, Calls
  <1> HIDE DEF r
  <1> SUFFICES ASSUME Init PROVE Typed
    OBVIOUS
  <1>2. /\ pc = [c \in Clients |-> "idle"] /\ call = [c \in Clients |-> r]
        /\ thread = "select" /\ write_buffer = [i \in Slots |-> 0]
        /\ accepted = 0 /\ head = 0 /\ wptr = 0 /\ rptr = 0 /\ write_full = FALSE
    BY DEF Init, r
  <1>3. TypeOK
    BY <1>1, <1>2 DEF TypeOK
  <1>4. CallInv /\ ShortWriteTimedOut
    BY <1>1, <1>2 DEF CallInv, ShortWriteTimedOut
  <1> QED BY <1>3, <1>4 DEF Typed

(* Whatever is flushed and whoever wakes without a signal, the pointers    *)
(* stay in the buffer and the state is well typed.                         *)
THEOREM TypeCorrect == Spec => []TypeOK
  <1>1. Typed => TypeOK
    BY DEF Typed
  <1> QED BY <1>1, TypedInit, TypedStep, PTL DEF Spec

(* A write that is over has handed over all its bytes or timed out, with   *)
(* any number of clients, flushes and wakeups without a signal.            *)
THEOREM WritesComplete == Spec => []ShortWriteTimedOut
  <1>1. Typed => ShortWriteTimedOut
    BY DEF Typed
  <1> QED BY <1>1, TypedInit, TypedStep, PTL DEF Spec

-----------------------------------------------------------------------------
(* What waits in the ring. *)

(* The number of bytes depends on the ring only. *)
LEMMA SameRing == UNCHANGED ring => Count' = Count
  BY DEF ring, Count, Wrapped

(* The steps of the clients that leave the ring and the thread alone.      *)
LEMMA Bystanders ==
  ASSUME NEW c \in Clients, ClientStep(c), ~WriteAsyncAtomic(c), ~FlushWrite(c)
  PROVE  UNCHANGED <<accepted, head, ring, sent, thread>>
  BY DEF ClientStep, StartWrite, WriteBlocks, WriteTimesOut, ByteAvailableWrite,
         ByteAvailableWriteLocked

(* No step puts bytes in the ring and leaves the thread asleep. *)
LEMMA NoSleepStep == Typed /\ NoSleepOnData /\ [Next]_vars => NoSleepOnData'
  <1> SUFFICES ASSUME Typed, NoSleepOnData, [Next]_vars, thread' = "wait" PROVE Count' = 0
    BY DEF NoSleepOnData
  <1>1. ASSUME UNCHANGED ring, thread = "wait" PROVE Count' = 0
    BY <1>1, SameRing DEF NoSleepOnData
  <1>2. CASE ThreadWaits
    <2>1. Count = 0
      BY <1>2, ConstantsAssumption DEF ThreadWaits, Count, Wrapped, Typed, TypeOK, Slots
    <2> QED BY <1>2, <2>1, SameRing DEF ThreadWaits
  <1>3. ~ThreadWrites /\ ~ThreadWritesNothing
    BY DEF ThreadWrites, ThreadWritesNothing
  <1>4. CASE SpuriousWakeup
    BY <1>1, <1>4 DEF SpuriousWakeup
  <1>5. ASSUME NEW c \in Clients, WriteAsyncAtomic(c) PROVE Count' = 0
    <2>1. SignalWrite => thread' # "wait"
      BY DEF SignalWrite
    <2> QED BY <1>1, <1>5, <2>1 DEF WriteAsyncAtomic
  <1>6. ASSUME NEW c \in Clients, FlushWrite(c) PROVE Count' = 0
    <2>1. wptr' = 0 /\ rptr' = 0 /\ write_full' = FALSE
      BY <1>6 DEF FlushWrite
    <2> QED BY <2>1 DEF Count, Wrapped
  <1>7. CASE UNCHANGED <<ring, thread>>
    BY <1>1, <1>7
  <1> QED BY <1>2, <1>3, <1>4, <1>5, <1>6, <1>7, Bystanders DEF Next, vars

(* The thread does not sleep on write_cond while bytes wait to be sent,    *)
(* whatever mix of writes, flushes and wakeups led there, for any number   *)
(* of clients: write_async signals while it still holds the mutex, and     *)
(* run_write looks at the ring under that mutex before it waits.           *)
THEOREM NoLostWakeup == Spec => []NoSleepOnData
  <1>1. Init => NoSleepOnData
    BY DEF Init, NoSleepOnData
  <1> QED BY <1>1, TypedInit, TypedStep, NoSleepStep, PTL DEF Spec

-----------------------------------------------------------------------------
(* The ring holds the right bytes.  RingInv is inductive on well typed     *)
(* states, once the thread wakes only when it is signalled and nobody      *)
(* flushes: a flush under the feet of a woken thread empties the ring it   *)
(* takes for a full one.                                                   *)

Contents == \A k \in Slots : k < Count => write_buffer[SlotOf(k)] = head + 1 + k

(* Equal pointers are a full ring as soon as something is buffered.        *)
LEMMA CountCases ==
  ASSUME TypeOK, RingInv
  PROVE  /\ Count \in 0..Size
         /\ wptr > rptr => Count = wptr - rptr
         /\ wptr < rptr => Count = wptr - rptr + Size
         /\ wptr = rptr => Count = IF write_full THEN Size ELSE 0
         /\ ~write_full => Count < Size
         /\ wptr = IF rptr + Count < Size THEN rptr + Count ELSE rptr + Count - Size
  BY ConstantsAssumption DEF TypeOK, RingInv, Slots, Count, Wrapped

(* Bytes accepted go behind those in the ring. *)
LEMMA FillKeepsRing ==
  ASSUME TypeOK, RingInv, ~write_full, NEW nb \in Nat, FillRing(nb)
  PROVE  /\ accepted' = accepted + Space(nb)
         /\ Count' = Count + Space(nb) /\ Count' <= Size
         /\ nb > 0 => Space(nb) > 0
         /\ head' + Count' = accepted'
         /\ Contents'
         /\ write_full' => wptr' = rptr'
  <1> DEFINE f == FirstPart(nb)
             g == SecondPart(nb)
             k == Space(nb)
  <1>0. /\ accepted \in Nat /\ head \in Nat /\ Size \in Nat /\ Size > 0
        /\ wptr \in 0..(Size - 1) /\ rptr \in 0..(Size - 1)
        /\ Slots = 0..(Size - 1)
    BY ConstantsAssumption DEF TypeOK, Slots
  <1>1. /\ write_buffer' = [i \in Slots |->
              IF i \in wptr..(wptr + f - 1) THEN accepted + 1 + (i - wptr)
              ELSE IF i \in 0..(k - f - 1)  THEN accepted + 1 + f + i
              ELSE write_buffer[i]]
        /\ wptr' = IF wptr >= rptr /\ nb > f THEN k - f ELSE Wrap(wptr + f)
        /\ write_full' = (k > 0 /\ wptr' = rptr)
        /\ accepted' = accepted + k /\ head' = head /\ rptr' = rptr
    BY DEF FillRing
  <1>2. /\ f \in Nat /\ g \in Nat /\ k = f + g
        /\ f = IF wptr >= rptr THEN MIN(nb, Size - wptr) ELSE MIN(nb, rptr - wptr)
        /\ g = IF wptr >= rptr THEN MIN(nb - f, rptr) ELSE 0
    BY SpaceIsMin DEF Space, FirstPart, SecondPart
  <1>3. /\ Count \in 0..(Size - 1) /\ head + Count = accepted
        /\ wptr >= rptr => Count = wptr - rptr
        /\ wptr < rptr => Count = wptr - rptr + Size
    BY <1>0, CountCases DEF RingInv
  <1> HIDE DEF f, g, k
  <1>4. /\ Count + k <= Size /\ wptr + f <= Size /\ k \in Nat
        /\ g > 0 => (wptr + f = Size /\ g <= rptr /\ wptr >= rptr)
        /\ nb > 0 => k > 0
    BY <1>0, <1>2, <1>3 DEF MIN
  <1>10. f \in Nat /\ g \in Nat /\ k = f + g /\ Count \in Nat /\ head + Count = accepted
    BY <1>0, <1>2, <1>3
  <1>5. wptr' = IF wptr + k < Size THEN wptr + k ELSE wptr + k - Size
    <2>1. CASE wptr >= rptr /\ nb > f
      <3>1. f = Size - wptr /\ wptr' = g
        BY <1>0, <1>1, <1>2, <2>1 DEF MIN
      <3> QED BY <1>0, <1>10, <3>1
    <2>2. CASE ~(wptr >= rptr /\ nb > f)
      <3>1. g = 0
        BY <1>0, <1>2, <2>2 DEF MIN
      <3>2. wptr' = Wrap(wptr + f)
        BY <1>1, <2>2
      <3>3. k = f
        BY <1>10, <3>1
      <3> QED BY <1>0, <1>4, <1>10, <3>2, <3>3 DEF Wrap
    <2> QED BY <2>1, <2>2
  <1>6. Count' = Count + k
    <2>1. Count' = IF wptr' < rptr \/ (wptr' = rptr /\ k > 0) THEN wptr' - rptr + Size
                                                            ELSE wptr' - rptr
      BY <1>1 DEF Count, Wrapped
    <2>2. CASE wptr >= rptr
      BY <1>0, <1>3, <1>4, <1>5, <2>1, <2>2
    <2>3. CASE wptr < rptr
      BY <1>0, <1>3, <1>4, <1>5, <2>1, <2>3
    <2> QED BY <1>0, <2>2, <2>3
  <1>7. Contents'
    <2> SUFFICES ASSUME NEW j \in Slots, j < Count' PROVE write_buffer'[SlotOf(j)'] = head + 1 + j
      BY <1>1 DEF Contents
    <2> DEFINE s == IF rptr + j < Size THEN rptr + j ELSE rptr + j - Size
    <2>1. /\ s \in Slots /\ s = SlotOf(j)' /\ s = SlotOf(j) /\ j \in Nat /\ j < Size
      BY <1>0, <1>1 DEF SlotOf
    <2>2. write_buffer'[s] = IF s \in wptr..(wptr + f - 1) THEN accepted + 1 + (s - wptr)
                             ELSE IF s \in 0..(g - 1) THEN accepted + 1 + f + s
                             ELSE write_buffer[s]
      <3>1. k - f = g
        BY <1>2
      <3> HIDE DEF s
      <3> QED BY <1>1, <2>1, <3>1
    <2>3. CASE j < Count
      <3>1. s \notin wptr..(wptr + f - 1) /\ s \notin 0..(g - 1)
        <4>1. CASE wptr >= rptr
          <5>1. s = rptr + j /\ s < wptr /\ s >= rptr
            BY <1>0, <1>3, <2>1, <2>3, <4>1
          <5> HIDE DEF s
          <5> QED BY <1>0, <1>10, <1>4, <2>1, <5>1
        <4>2. CASE wptr < rptr
          <5>1. g = 0 /\ wptr + f <= rptr
            BY <1>0, <1>10, <1>3, <1>4, <4>2
          <5>2. s >= rptr \/ s < wptr
            BY <1>0, <1>3, <2>1, <2>3, <4>2
          <5> HIDE DEF s
          <5> QED BY <1>0, <1>10, <2>1, <5>1, <5>2
        <4> QED BY <1>0, <4>1, <4>2
      <3> QED BY <2>1, <2>2, <2>3, <3>1 DEF RingInv
    <2>4. CASE j >= Count /\ j - Count < f
      <3>1. s \in wptr..(wptr + f - 1) /\ s - wptr = j - Count
        <4>1. CASE wptr >= rptr
          BY <1>0, <1>10, <1>3, <1>4, <2>1, <2>4, <4>1
        <4>2. CASE wptr < rptr
          BY <1>0, <1>10, <1>3, <1>4, <2>1, <2>4, <4>2
        <4> QED BY <1>0, <4>1, <4>2
      <3> HIDE DEF s
      <3>2. accepted + 1 + (s - wptr) = head + 1 + j
        BY <1>0, <1>3, <2>1, <3>1
      <3> QED BY <2>1, <2>2, <3>1, <3>2
    <2>5. CASE j >= Count /\ j - Count >= f
      <3>1. g > 0 /\ j < Count + f + g
        BY <1>2, <1>3, <1>6, <2>1, <2>5
      <3>2. s = j - Count - f /\ s \in 0..(g - 1) /\ s \notin wptr..(wptr + f - 1)
        <4>1. /\ wptr >= rptr /\ Count = wptr - rptr /\ wptr + f = Size /\ g <= rptr
              /\ j >= Count + f
          BY <1>0, <1>10, <1>3, <1>4, <2>1, <2>5, <3>1
        <4>2. s = j - Count - f
          BY <1>0, <1>10, <2>1, <4>1
        <4> HIDE DEF s
        <4> QED BY <1>0, <1>10, <2>1, <3>1, <4>1, <4>2
      <3> HIDE DEF s
      <3>3. accepted + 1 + f + s = head + 1 + j
        BY <1>0, <1>10, <2>1, <3>2
      <3> QED BY <2>1, <2>2, <3>2, <3>3
    <2> QED BY <1>2, <1>3, <2>1, <2>3, <2>4, <2>5
  <1>8. head' + Count' = accepted'
    BY <1>0, <1>1, <1>3, <1>4, <1>6
  <1>9. /\ accepted' = accepted + k /\ Count' <= Size
        /\ write_full' => wptr' = rptr'
    BY <1>1, <1>4, <1>6
  <1> QED BY <1>4, <1>6, <1>7, <1>8, <1>9 DEF k

(* Bytes sent are the oldest of the ring. *)
LEMMA DrainKeepsRing ==
  ASSUME TypeOK, RingInv, Count > 0, NEW n \in Nat, NEW m \in Nat, DrainRing(n, m)
  PROVE  /\ head' = head + (n + m) /\ n + m \in 0..Count
         /\ head' + Count' = accepted'
         /\ Contents'
         /\ write_full' => wptr' = rptr'
         /\ sent' = [i \in 1..(n + m) |-> head + i]
  <1> DEFINE k == n + m
  <1>0. /\ accepted \in Nat /\ head \in Nat /\ Size \in Nat /\ Size > 0
        /\ wptr \in 0..(Size - 1) /\ rptr \in 0..(Size - 1)
        /\ Slots = 0..(Size - 1)
    BY ConstantsAssumption DEF TypeOK, Slots
  <1>1. /\ sent' = [i \in 1..k |-> IF i <= n THEN write_buffer[rptr + i - 1]
                                             ELSE write_buffer[i - n - 1]]
        /\ rptr' = IF GoesOn(n) THEN m ELSE rptr + n
        /\ write_full' = (write_full /\ n = 0)
        /\ accepted' = accepted /\ write_buffer' = write_buffer /\ wptr' = wptr
    BY DEF DrainRing
  <1>2. /\ head' = head + k
        /\ n <= (IF wptr <= rptr THEN Size - rptr ELSE wptr - rptr)
        /\ m <= (IF GoesOn(n) THEN wptr ELSE 0)
        /\ GoesOn(n) <=> (wptr <= rptr /\ n = Size - rptr)
    BY <1>0 DEF DrainRing, Pending, GoesOn
  <1>3. /\ Count \in 1..Size /\ head + Count = accepted
        /\ wptr > rptr => Count = wptr - rptr
        /\ wptr <= rptr => Count = wptr - rptr + Size
        /\ write_full => wptr = rptr
        /\ ~write_full => wptr # rptr
    <2>1. Count \in 1..Size /\ head + Count = accepted /\ (write_full => wptr = rptr)
      BY <1>0, CountCases DEF RingInv
    <2>2. ~write_full => wptr # rptr
      BY CountCases
    <2>3. wptr = rptr => Count = Size
      BY CountCases, <2>2
    <2>4. wptr > rptr => Count = wptr - rptr
      BY CountCases
    <2>5. wptr <= rptr => Count = wptr - rptr + Size
      BY <1>0, <2>3, CountCases
    <2> QED BY <2>1, <2>2, <2>4, <2>5
  <1>4. k \in Nat /\ k \in 0..Count /\ (m > 0 => GoesOn(n))
    BY <1>0, <1>2, <1>3
  <1>5. /\ rptr' \in Slots
        /\ rptr' = IF rptr + k < Size THEN rptr + k ELSE rptr + k - Size
    BY <1>0, <1>1, <1>2, <1>3
  <1>6. Count' = Count - k
    <2>1. Count' = IF wptr < rptr' \/ (wptr = rptr' /\ write_full /\ n = 0)
                   THEN wptr - rptr' + Size ELSE wptr - rptr'
      BY <1>1 DEF Count, Wrapped
    <2>2. n = 0 => m = 0
      BY <1>0, <1>2
    <2>3. CASE n = 0
      BY <1>0, <1>3, <1>5, <2>1, <2>2, <2>3
    <2>4. CASE n > 0 /\ wptr > rptr
      BY <1>0, <1>2, <1>3, <1>4, <1>5, <2>1, <2>4
    <2>5. CASE n > 0 /\ wptr <= rptr
      BY <1>0, <1>2, <1>3, <1>4, <1>5, <2>1, <2>5
    <2> QED BY <1>0, <2>3, <2>4, <2>5
  <1>7. Contents'
    <2> SUFFICES ASSUME NEW j \in Slots, j < Count'
                 PROVE  write_buffer[SlotOf(j)'] = head' + 1 + j
      BY <1>1 DEF Contents
    <2>1. k + j \in Slots /\ k + j < Count
      BY <1>0, <1>3, <1>4, <1>6
    <2>2. SlotOf(j)' = SlotOf(k + j)
      <3>1. SlotOf(j)' = IF rptr' + j < Size THEN rptr' + j ELSE rptr' + j - Size
        BY DEF SlotOf
      <3>2. SlotOf(k + j) = IF rptr + (k + j) < Size THEN rptr + (k + j)
                                                    ELSE rptr + (k + j) - Size
        BY DEF SlotOf
      <3>3. j \in Nat /\ k + j < Size
        BY <1>0, <2>1
      <3> HIDE DEF k
      <3> QED BY <1>0, <1>4, <1>5, <3>1, <3>2, <3>3
    <2>3. write_buffer[SlotOf(k + j)] = head + 1 + (k + j)
      BY <2>1 DEF RingInv
    <2> HIDE DEF k
    <2> QED BY <1>0, <1>2, <1>4, <2>2, <2>3
  <1>8. ASSUME NEW i \in 1..k PROVE sent'[i] = head + i
    <2>1. i - 1 \in Slots /\ i - 1 < Count
      BY <1>0, <1>3, <1>4
    <2>2. write_buffer[SlotOf(i - 1)] = head + i
      BY <1>0, <2>1 DEF RingInv
    <2>3. SlotOf(i - 1) = IF i <= n THEN rptr + i - 1 ELSE i - n - 1
      <3>1. SlotOf(i - 1) = IF rptr + (i - 1) < Size THEN rptr + (i - 1)
                                                   ELSE rptr + (i - 1) - Size
        BY DEF SlotOf
      <3> QED BY <1>0, <1>2, <1>3, <1>4, <2>1, <3>1
    <2> QED BY <1>1, <2>2, <2>3
  <1>9. sent' = [i \in 1..k |-> head + i]
    BY <1>1, <1>8
  <1>10. head' + Count' = accepted'
    BY <1>0, <1>1, <1>2, <1>3, <1>4, <1>6
  <1>11. write_full' => wptr' = rptr'
    <2>1. write_full' => write_full /\ n = 0
      BY <1>1
    <2>2. n = 0 => rptr' = rptr
      BY <1>0, <1>1, <1>2
    <2> QED BY <1>1, <1>3, <2>1, <2>2
  <1> QED BY <1>2, <1>4, <1>7, <1>9, <1>10, <1>11

(* What the two theorems below ask of the environment. *)
Orderly == "thread" \notin Spurious /\ "flush" \notin Ops

(* A pass of run_write, of whatever size, starts from a ring with bytes.   *)
LEMMA DrainStep ==
  ASSUME Typed, RingInv, MayDrain
  PROVE  Count > 0
  <1>1. TypeOK /\ (write_full => wptr = rptr) /\ (thread = "woken" => Count > 0)
    BY DEF Typed, RingInv
  <1>2. CASE write_full
    BY <1>1, <1>2, CountCases, ConstantsAssumption
  <1>3. CASE wptr # rptr
    BY <1>1, <1>3, ConstantsAssumption DEF Count, Wrapped, TypeOK, Slots
  <1> QED BY <1>1, <1>2, <1>3 DEF MayDrain

(* Every step keeps the contents of the ring. *)
LEMMA RingStep ==
  ASSUME Orderly, Typed, RingInv, [Next]_vars
  PROVE  RingInv'
  <1>0. TypeOK /\ head \in Nat /\ Count \in Nat
    BY CountRange, ConstantsAssumption DEF Typed, TypeOK
  <1>1. ASSUME UNCHANGED <<accepted, head, ring>>, thread' = "woken" => thread = "woken"
        PROVE  RingInv'
    <2>1. Count' = Count /\ \A k \in Slots : SlotOf(k)' = SlotOf(k)
      BY <1>1 DEF Count, Wrapped, SlotOf, ring
    <2>2. \A k \in Slots : k < Count' => write_buffer'[SlotOf(k)'] = head' + 1 + k
      BY <1>1, <2>1 DEF RingInv, ring
    <2> QED BY <1>1, <2>1, <2>2 DEF RingInv, ring
  <1>2. ASSUME MayDrain, NEW n \in Nat, NEW m \in Nat, DrainRing(n, m), thread' = "select"
        PROVE  RingInv'
    BY <1>0, <1>2, DrainStep, DrainKeepsRing DEF RingInv, Contents
  <1>3. CASE ThreadWaits
    BY <1>1, <1>3 DEF ThreadWaits
  <1>4. CASE ThreadWrites
    <2>1. PICK n \in 1..Pending, m \in 0..wptr : DrainRing(n, m)
      BY <1>4 DEF ThreadWrites
    <2>2. n \in Nat /\ m \in Nat
      BY <1>0, ConstantsAssumption DEF TypeOK, Slots, Pending
    <2> QED BY <1>2, <1>4, <2>1, <2>2 DEF ThreadWrites
  <1>5. CASE ThreadWritesNothing
    BY <1>2, <1>5 DEF ThreadWritesNothing
  <1>6. CASE SpuriousWakeup
    BY <1>1, <1>6 DEF SpuriousWakeup, Orderly
  <1>7. ASSUME NEW c \in Clients, WriteAsyncAtomic(c) PROVE RingInv'
    <2> DEFINE nb == call[c].nb - call[c].tot - call[c].ret
    <2>1. nb \in Nat /\ nb > 0
      BY <1>7 DEF WriteAsyncAtomic, Typed, TypeOK, Call, CallInv
    <2>2. CASE write_full
      BY <1>1, <1>7, <2>2 DEF WriteAsyncAtomic
    <2>3. CASE ~write_full
      <3>1. FillRing(nb)
        BY <1>7, <2>3 DEF WriteAsyncAtomic
      <3> HIDE DEF nb
      <3>2. Space(nb) > 0 /\ Space(nb) \in Nat /\ Count' = Count + Space(nb)
        BY <1>0, <2>1, <2>3, <3>1, FillKeepsRing, SpaceIsMin
      <3>3. Count' > 0
        BY <1>0, <3>2
      <3> QED BY <1>0, <2>1, <2>3, <3>1, <3>3, FillKeepsRing DEF RingInv, Contents
    <2> QED BY <2>2, <2>3
  <1>8. ~ \E c \in Clients : FlushWrite(c)
    BY DEF Orderly, FlushWrite
  <1>9. CASE UNCHANGED <<accepted, head, ring, thread>>
    BY <1>1, <1>9
  <1> QED BY <1>3, <1>4, <1>5, <1>6, <1>7, <1>8, <1>9, Bystanders DEF Next, vars

(* The ring is empty at the start. *)
LEMMA RingInit == Init => RingInv
  <1> SUFFICES ASSUME Init PROVE RingInv
    OBVIOUS
  <1>1. Count = 0
    BY DEF Init, Count, Wrapped
  <1> QED BY <1>1, ConstantsAssumption DEF Init, RingInv, Slots

(* For any ring size, any number of clients and any mix of calls without a *)
(* flush, the ring holds exactly the accepted bytes not yet sent, a full   *)
(* ring has equal pointers and the thread comes back from its wait to a    *)
(* ring with something in it, provided it wakes only when signalled.       *)
THEOREM RingCorrect == ASSUME Orderly PROVE Spec => []RingInv
  <1>1. Init => Typed /\ RingInv
    BY TypedInit, RingInit
  <1>2. Typed /\ RingInv /\ [Next]_vars => (Typed /\ RingInv)'
    BY TypedStep, RingStep
  <1> QED BY <1>1, <1>2, PTL DEF Spec

-----------------------------------------------------------------------------
(* Every step is a step of the byte stream: write_async_atomic puts bytes  *)
(* in, a pass of run_write gets the next ones out, nothing else touches it.*)

(* A step of the sending half is a step of the stream, or none. *)
LEMMA StreamStep ==
  ASSUME Orderly, Typed, RingInv, [Next]_vars
  PROVE  [Stream!Next]_(Stream!streamVars)
  <1>0. /\ TypeOK /\ head + Count = accepted /\ Count \in 0..Size /\ head \in Nat
        /\ Size \in Nat /\ accepted \in Nat
    BY CountRange, ConstantsAssumption DEF Typed, RingInv, TypeOK
  <1>1. ASSUME UNCHANGED <<accepted, head, sent>> PROVE UNCHANGED Stream!streamVars
    BY <1>1 DEF Stream!streamVars
  <1>2. ASSUME MayDrain, NEW n \in Nat, NEW m \in Nat, DrainRing(n, m)
        PROVE  Stream!Next
    <2> DEFINE k == n + m
    <2>1. /\ head' = head + k /\ k \in 0..Count
          /\ sent' = [i \in 1..k |-> head + i] /\ accepted' = accepted
      BY <1>0, <1>2, DrainStep, DrainKeepsRing DEF DrainRing
    <2> HIDE DEF k
    <2>2. k \in 0..(accepted - head) /\ head + k <= accepted
      BY <1>0, <2>1
    <2> QED BY <2>1, <2>2 DEF Stream!Next, Stream!Get
  <1>3. CASE ThreadWaits \/ SpuriousWakeup \/ UNCHANGED vars
    BY <1>1, <1>3 DEF ThreadWaits, SpuriousWakeup, vars
  <1>4. CASE ThreadWrites
    <2>1. PICK n \in 1..Pending, m \in 0..wptr : DrainRing(n, m)
      BY <1>4 DEF ThreadWrites
    <2>2. n \in Nat /\ m \in Nat
      BY <1>0, ConstantsAssumption DEF TypeOK, Slots, Pending
    <2> QED BY <1>2, <1>4, <2>1, <2>2 DEF ThreadWrites
  <1>5. CASE ThreadWritesNothing
    BY <1>2, <1>5 DEF ThreadWritesNothing
  <1>6. ASSUME NEW c \in Clients, WriteAsyncAtomic(c)
        PROVE  [Stream!Next]_(Stream!streamVars)
    <2> DEFINE nb == call[c].nb - call[c].tot - call[c].ret
               k  == Space(nb)
    <2>1. nb \in Nat
      BY <1>6 DEF WriteAsyncAtomic, Typed, TypeOK, Call, CallInv
    <2>2. CASE write_full
      BY <1>1, <1>6, <2>2 DEF WriteAsyncAtomic
    <2>3. CASE ~write_full
      <3>1. FillRing(nb) /\ UNCHANGED <<head, sent>>
        BY <1>6, <2>3 DEF WriteAsyncAtomic, FillRing
      <3> HIDE DEF nb
      <3>2. accepted' = accepted + k /\ k \in Nat /\ Count + k <= Size
        BY <1>0, <2>1, <2>3, <3>1, FillKeepsRing, SpaceIsMin
      <3> HIDE DEF k
      <3>3. k \in 0..Size /\ accepted + k - head <= Size
        BY <1>0, <3>2
      <3>4. Stream!Put(k)
        BY <3>1, <3>2, <3>3 DEF Stream!Put
      <3> QED BY <3>3, <3>4 DEF Stream!Next
    <2> QED BY <2>2, <2>3
  <1>7. ~ \E c \in Clients : FlushWrite(c)
    BY DEF Orderly, FlushWrite
  <1>8. CASE UNCHANGED <<accepted, head, sent>>
    BY <1>1, <1>8
  <1> QED BY <1>3, <1>4, <1>5, <1>6, <1>7, <1>8, Bystanders DEF Next

(* The sending half implements a bounded byte stream: what is given to the *)
(* tty is what write and write_async were given, in order, nothing lost or *)
(* sent twice, for any ring size and number of clients, same proviso.      *)
THEOREM ImplementsByteStream == ASSUME Orderly PROVE Spec => ImplementsStream
  <1>1. Init => Typed /\ RingInv
    BY TypedInit, RingInit
  <1>2. Typed /\ RingInv /\ [Next]_vars => (Typed /\ RingInv)'
    BY TypedStep, RingStep
  <1>3. Init => Stream!Init
    BY DEF Init, Stream!Init
  <1>4. Typed /\ RingInv /\ [Next]_vars => [Stream!Next]_(Stream!streamVars)
    BY StreamStep
  <1> QED BY <1>1, <1>2, <1>3, <1>4, PTL DEF Spec, ImplementsStream, Stream!Spec
=============================================================================
