-------------------------- MODULE ReadBufferProofs --------------------------
(* Proofs about ReadBuffer, for every number of clients and every size of  *)
(* the ring.                                                               *)
EXTENDS ReadBuffer, TLAPS

(* A call in progress still wants bytes: the guards of the two loops.      *)
CallInv == \A c \in Clients :
  pc[c] \in {"atomic", "check", "wait"} => call[c].tot + call[c].ret < call[c].nb

Typed == TypeOK /\ CallInv

-----------------------------------------------------------------------------
(* The operators on the ring. *)

(* A wrapped pointer is inside the buffer. *)
LEMMA WrapInSlots == ASSUME NEW p \in 0..Size PROVE Wrap(p) \in Slots
  BY ConstantsAssumption DEF Wrap, Slots

(* The ring holds no more than its size. *)
LEMMA CountRange == ASSUME TypeOK PROVE Count \in 0..Size
  BY ConstantsAssumption DEF TypeOK, Slots, Count, Wrapped

(* read_async_atomic copies what is asked for or what there is. *)
LEMMA CopyIsMin ==
  ASSUME TypeOK, NEW nb \in Nat
  PROVE  /\ Copy(nb) \in 0..nb
         /\ Copy(nb) = MIN(nb, Count)
         /\ FirstPart(nb) \in 0..nb /\ SecondPart(nb) \in 0..nb
         /\ FirstPart(nb) <= Size - rptr
         /\ SecondPart(nb) <= wptr
         /\ SecondPart(nb) > 0 => rptr + FirstPart(nb) = Size
  BY ConstantsAssumption DEF TypeOK, Slots, Count, Wrapped, MIN, Copy, FirstPart,
     SecondPart

(* Filling keeps the types. *)
LEMMA FillTypes ==
  ASSUME TypeOK, NEW n \in Nat, FillRing(n)
  PROVE  /\ wptr' \in Slots /\ rptr' \in Slots /\ read_full' \in BOOLEAN
         /\ read_buffer' \in [Slots -> Nat] /\ taken' \in Nat
  BY ConstantsAssumption DEF TypeOK, Slots, FillRing, Room, Wrap

(* Emptying keeps the types. *)
LEMMA EmptyTypes ==
  ASSUME TypeOK, NEW nb \in Nat, EmptyRing(nb)
  PROVE  /\ wptr' \in Slots /\ rptr' \in Slots /\ read_full' \in BOOLEAN
         /\ read_buffer' \in [Slots -> Nat] /\ head' \in Nat
  <1>1. /\ rptr' = IF Wrapped /\ nb > FirstPart(nb) THEN SecondPart(nb)
                  ELSE Wrap(rptr + FirstPart(nb))
        /\ head' = head + Copy(nb)
        /\ read_full' = FALSE /\ read_buffer' = read_buffer /\ wptr' = wptr
    BY DEF EmptyRing
  <1>2. /\ Copy(nb) \in Nat /\ FirstPart(nb) \in Nat /\ SecondPart(nb) \in Nat
        /\ FirstPart(nb) <= Size - rptr /\ SecondPart(nb) <= wptr
    BY CopyIsMin
  <1>3. SecondPart(nb) \in Slots /\ rptr + FirstPart(nb) \in 0..Size
    BY <1>2, ConstantsAssumption, SMTT(30) DEF TypeOK, Slots
  <1>4. Wrap(rptr + FirstPart(nb)) \in Slots
    BY <1>3, WrapInSlots
  <1>5. rptr' \in Slots
    BY <1>1, <1>3, <1>4
  <1>6. wptr' \in Slots /\ read_full' \in BOOLEAN
    BY <1>1 DEF TypeOK
  <1>7. read_buffer' \in [Slots -> Nat] /\ head' \in Nat
    BY <1>1, <1>2 DEF TypeOK
  <1> QED
    BY <1>5, <1>6, <1>7

-----------------------------------------------------------------------------
(* TypeOK, step by step.  ASSUME Typed, and each action keeps it. *)

PCs == {"idle", "atomic", "check", "wait", "count"}

(* A call that changes is still a call. *)
LEMMA CallUpdate ==
  ASSUME Typed, NEW c \in Clients, NEW r \in Call, NEW s \in PCs,
         s \in {"atomic", "check", "wait"} => r.tot + r.ret < r.nb,
         call' = [call EXCEPT ![c] = r], pc' = [pc EXCEPT ![c] = s]
  PROVE  pc' \in [Clients -> PCs] /\ call' \in [Clients -> Call] /\ CallInv'
  <1>1. pc' \in [Clients -> PCs] /\ call' \in [Clients -> Call]
    BY DEF Typed, TypeOK, PCs
  <1>2. ASSUME NEW d \in Clients, pc'[d] \in {"atomic", "check", "wait"}
        PROVE  call'[d].tot + call'[d].ret < call'[d].nb
    <2>1. CASE d = c
      BY <1>2, <2>1 DEF Typed, TypeOK
    <2>2. CASE d # c
      BY <1>2, <2>2 DEF Typed, TypeOK, CallInv
    <2> QED BY <2>1, <2>2
  <1> QED BY <1>1, <1>2 DEF CallInv

(* read_async ends or goes on with a typed call. *)
LEMMA AfterAtomicTyped ==
  ASSUME Typed, NEW c \in Clients, pc[c] = "atomic",
         NEW k \in 0..(call[c].nb - call[c].tot - call[c].ret), AfterAtomic(c, k)
  PROVE  pc' \in [Clients -> PCs] /\ call' \in [Clients -> Call] /\ CallInv'
  <1> DEFINE q    == call[c]
             t    == q.tot + q.ret + k
             r    == q.ret + k
             over == [q EXCEPT !.tot = t, !.ret = 0]
             more == [q EXCEPT !.ret = r]
  <1>1. /\ q \in Call /\ q.nb \in Nat /\ q.tot \in Nat /\ q.ret \in Nat
        /\ q.tot + q.ret < q.nb /\ k \in Nat /\ q.tot + q.ret + k <= q.nb
    BY DEF Typed, TypeOK, Call, CallInv
  <1>2. /\ over \in Call /\ over.tot + over.ret = q.tot + q.ret + k /\ over.nb = q.nb
        /\ more \in Call /\ more.tot + more.ret = q.tot + q.ret + k /\ more.nb = q.nb
    <2>1. t \in Nat /\ r \in Nat
      BY <1>1
    <2> HIDE DEF t, r
    <2>2. /\ over \in Call /\ over.tot = t /\ over.ret = 0 /\ over.nb = q.nb
          /\ more \in Call /\ more.tot = q.tot /\ more.ret = r /\ more.nb = q.nb
      BY <1>1, <2>1 DEF Call
    <2> QED BY <1>1, <2>1, <2>2 DEF t, r
  <1> HIDE DEF over, more
  <1>3. CASE q.tot + q.ret + k = q.nb \/ (k = 0 /\ q.op = "async")
    <2>1. call' = [call EXCEPT ![c] = over] /\ pc' = [pc EXCEPT ![c] = "idle"]
      BY <1>3 DEF AfterAtomic, over
    <2> QED BY <1>2, <2>1, CallUpdate DEF PCs
  <1>4. CASE q.tot + q.ret + k # q.nb /\ k = 0 /\ q.op # "async"
    <2> DEFINE s == IF q.ret = 0 THEN "check" ELSE "atomic"
    <2>1. call' = [call EXCEPT ![c] = over] /\ pc' = [pc EXCEPT ![c] = s]
      BY <1>4 DEF AfterAtomic, over
    <2>2. s \in PCs /\ over.tot + over.ret < over.nb
      BY <1>1, <1>2, <1>4 DEF PCs
    <2> HIDE DEF s
    <2> QED BY <1>2, <2>1, <2>2, CallUpdate
  <1>5. CASE q.tot + q.ret + k # q.nb /\ k # 0
    <2>1. call' = [call EXCEPT ![c] = more] /\ pc' = [pc EXCEPT ![c] = "atomic"]
      BY <1>5 DEF AfterAtomic, more
    <2>2. more.tot + more.ret < more.nb
      BY <1>1, <1>2, <1>5
    <2> QED BY <1>2, <2>1, <2>2, CallUpdate DEF PCs
  <1> QED BY <1>3, <1>4, <1>5

(* Every step keeps the types. *)
LEMMA TypedStep == Typed /\ [Next]_vars => Typed'
  <1> SUFFICES ASSUME Typed, [Next]_vars PROVE Typed'
    OBVIOUS
  <1> USE DEF Typed
  <1>1. CASE Arrive
    BY <1>1 DEF Arrive, TypeOK, CallInv, ring
  <1>2. CASE ThreadWaits
    BY <1>2 DEF ThreadWaits, TypeOK, CallInv, ring
  <1>3. CASE ThreadFills
    <2>1. PICK n \in 1..(arrived - taken) : FillRing(n)
      BY <1>3 DEF ThreadFills
    <2>2. n \in Nat
      BY DEF TypeOK
    <2>3. /\ wptr' \in Slots /\ rptr' \in Slots /\ read_full' \in BOOLEAN
          /\ read_buffer' \in [Slots -> Nat] /\ taken' \in Nat
      BY <2>1, <2>2, FillTypes
    <2>4. pc' \in [Clients -> PCs] /\ CallInv'
      BY <1>3 DEF ThreadFills, SignalRead, TypeOK, CallInv, PCs
    <2> QED BY <1>3, <2>3, <2>4 DEF ThreadFills, TypeOK, PCs
  <1>4. CASE ThreadReadsNothing
    <2>1. /\ wptr' \in Slots /\ rptr' \in Slots /\ read_full' \in BOOLEAN
          /\ read_buffer' \in [Slots -> Nat] /\ taken' \in Nat
      BY <1>4, FillTypes DEF ThreadReadsNothing
    <2> QED BY <1>4, <2>1 DEF ThreadReadsNothing, TypeOK, CallInv
  <1>5. CASE SpuriousWakeup
    BY <1>5 DEF SpuriousWakeup, TypeOK, CallInv, ring
  <1>6. ASSUME NEW c \in Clients, ClientStep(c) PROVE Typed'
    <2>1. CASE StartRead(c)
      <3>1. PICK op \in Ops \cap {"read", "readTimeo", "async"}, nb \in 1..MaxRead :
                call' = [call EXCEPT ![c] = NewCall(op, nb, 0)]
        BY <2>1 DEF StartRead
      <3>2. NewCall(op, nb, 0) \in Call /\ nb > 0
        BY ConstantsAssumption DEF NewCall, Call, Calls
      <3> DEFINE r == NewCall(op, nb, 0)
      <3>3. r.tot + r.ret < r.nb
        BY <3>2, ConstantsAssumption DEF NewCall
      <3>4. call' = [call EXCEPT ![c] = r] /\ pc' = [pc EXCEPT ![c] = "atomic"]
        BY <2>1, <3>1 DEF StartRead
      <3> HIDE DEF r
      <3>5. pc' \in [Clients -> PCs] /\ call' \in [Clients -> Call] /\ CallInv'
        BY <3>2, <3>3, <3>4, CallUpdate DEF PCs, r
      <3> QED BY <2>1, <3>5 DEF StartRead, TypeOK, ring, PCs
    <2>2. CASE ReadAsyncAtomic(c)
      <3> DEFINE nb == call[c].nb - call[c].tot - call[c].ret
      <3>1. nb \in Nat
        BY <2>2 DEF ReadAsyncAtomic, TypeOK, Call, CallInv
      <3>2. Copy(nb) \in 0..nb
        BY <3>1, CopyIsMin
      <3>3. EmptyRing(nb) /\ AfterAtomic(c, Copy(nb)) /\ pc[c] = "atomic"
        BY <2>2 DEF ReadAsyncAtomic
      <3>4. /\ pc' \in [Clients -> PCs]
            /\ call' \in [Clients -> Call] /\ CallInv'
        BY <3>2, <3>3, AfterAtomicTyped
      <3>5. /\ wptr' \in Slots /\ rptr' \in Slots /\ read_full' \in BOOLEAN
            /\ read_buffer' \in [Slots -> Nat] /\ head' \in Nat
        BY <3>1, <3>3, EmptyTypes
      <3> QED BY <2>2, <3>4, <3>5 DEF ReadAsyncAtomic, SignalReadFull, TypeOK, PCs
    <2>3. CASE ReadBlocks(c)
      BY <2>3, ConstantsAssumption DEF ReadBlocks, TypeOK, CallInv, Slots
    <2>4. CASE ReadTimesOut(c)
      <3>1. /\ call' = [call EXCEPT ![c] = [@ EXCEPT !.timeo = TRUE]]
            /\ pc' = [pc EXCEPT ![c] = "idle"]
        BY <2>4 DEF ReadTimesOut
      <3>2. [call[c] EXCEPT !.timeo = TRUE] \in Call
        BY DEF TypeOK, Call
      <3> QED BY <2>4, <3>1, <3>2 DEF ReadTimesOut, TypeOK, CallInv, ring
    <2>5. CASE ByteAvailableRead(c)
      <3> DEFINE q == NewCall("count", 0, IF read_full THEN Size ELSE 0)
      <3>1. q \in Call
        BY ConstantsAssumption DEF NewCall, Call, Calls
      <3> QED BY <2>5, <3>1 DEF ByteAvailableRead, TypeOK, CallInv, ring
    <2>6. CASE ByteAvailableReadLocked(c)
      <3>1. PointerDistance \in Nat
        BY ConstantsAssumption DEF PointerDistance, TypeOK, Slots
      <3>2. [call[c] EXCEPT !.tot = PointerDistance] \in Call
        BY <3>1 DEF TypeOK, Call
      <3> QED BY <2>6, <3>2 DEF ByteAvailableReadLocked, TypeOK, CallInv, ring
    <2>7. CASE FlushRead(c)
      <3>1. NewCall("flush", 0, 0) \in Call
        BY DEF NewCall, Call, Calls
      <3>2. 0 \in Slots
        BY ConstantsAssumption DEF Slots
      <3>3. CallInv'
        BY <2>7 DEF FlushRead, CallInv, TypeOK
      <3> QED BY <2>7, <3>1, <3>2, <3>3 DEF FlushRead, TypeOK
    <2> QED BY <1>6, <2>1, <2>2, <2>3, <2>4, <2>5, <2>6, <2>7 DEF ClientStep
  <1>7. CASE UNCHANGED vars
    BY <1>7 DEF vars, ring, TypeOK, CallInv
  <1> QED BY <1>1, <1>2, <1>3, <1>4, <1>5, <1>6, <1>7 DEF Next

(* The types hold at the start. *)
LEMMA TypedInit == Init => Typed
  <1>1. 0 \in Slots
    BY ConstantsAssumption DEF Slots
  <1>2. NewCall("async", 0, 0) \in Call
    BY DEF NewCall, Call, Calls
  <1>3. Init => TypeOK
    BY <1>1, <1>2, SMTT(30) DEF Init, TypeOK
  <1> QED BY <1>3 DEF Init, Typed, CallInv

(* Every state is well typed, whatever is asked for in a call and however  *)
(* the ring splits it; wakeups without a signal included.                  *)
THEOREM TypeCorrect == Spec => []TypeOK
  <1>1. Typed => TypeOK
    BY DEF Typed
  <1> QED BY <1>1, TypedInit, TypedStep, PTL DEF Spec

-----------------------------------------------------------------------------
(* The ring holds the right bytes.  RingInv is inductive on well typed     *)
(* states, once the thread cannot wake without a signal.                   *)

Contents == \A k \in Slots : k < Count => read_buffer[SlotOf(k)] = head + 1 + k

(* Bytes taken from the tty go behind those in the ring. *)
LEMMA FillKeepsRing ==
  ASSUME TypeOK, RingInv, ~read_full, NEW n \in Nat, FillRing(n), head' = head,
         arrived' = arrived
  PROVE  /\ taken' = taken + n /\ taken' <= arrived'
         /\ head' + Count' = taken'
         /\ Contents'
         /\ read_full' => wptr' = rptr'
  <1> DEFINE w == IF wptr = rptr THEN 0 ELSE wptr
             r == IF wptr = rptr THEN 0 ELSE rptr
  <1>0. /\ taken \in Nat /\ head \in Nat /\ Size \in Nat /\ Size > 0
        /\ \A k \in Slots : k \in Nat
    BY ConstantsAssumption DEF TypeOK, Slots
  <1>1. /\ n <= Room /\ taken + n <= arrived /\ taken' = taken + n
        /\ read_buffer' = [i \in Slots |-> IF i \in w..(w + n - 1)
                                           THEN taken + 1 + (i - w) ELSE read_buffer[i]]
        /\ wptr' = Wrap(w + n) /\ rptr' = r
        /\ read_full' = (n > 0 /\ wptr' = rptr')
    BY DEF FillRing
  <1>2. w \in Slots /\ r \in Slots /\ Count \in 0..(Size - 1)
    BY CountRange, ConstantsAssumption DEF TypeOK, Slots, Count, Wrapped
  <1> HIDE DEF w, r
  <1>3. /\ w + n <= Size /\ Count + n <= Size
        /\ w = IF r + Count < Size THEN r + Count ELSE r + Count - Size
        /\ Count > 0 => r = rptr
    <2>1. CASE wptr = rptr
      BY <1>1, <2>1, ConstantsAssumption DEF TypeOK, Slots, Count, Wrapped, Room, w, r
    <2>2. CASE wptr > rptr
      BY <1>1, <2>2, ConstantsAssumption DEF TypeOK, Slots, Count, Wrapped, Room, w, r
    <2>3. CASE wptr < rptr
      BY <1>1, <2>3, ConstantsAssumption DEF TypeOK, Slots, Count, Wrapped, Room, w, r
    <2> QED BY <2>1, <2>2, <2>3 DEF TypeOK, Slots
  <1>5. Count' = Count + n
    <2>1. Count' = IF wptr' < r \/ (wptr' = r /\ n > 0) THEN wptr' - r + Size ELSE wptr' - r
      BY <1>1 DEF Count, Wrapped
    <2>2. wptr' = IF w + n = Size THEN 0 ELSE w + n
      BY <1>1 DEF Wrap
    <2>3. CASE r + Count < Size
      BY <1>2, <1>3, <2>1, <2>2, <2>3, ConstantsAssumption DEF Slots
    <2>4. CASE r + Count >= Size
      BY <1>2, <1>3, <2>1, <2>2, <2>4, ConstantsAssumption DEF Slots
    <2> QED BY <1>2, <2>3, <2>4, ConstantsAssumption DEF Slots
  <1>4. Contents'
    <2> SUFFICES ASSUME NEW k \in Slots, k < Count' PROVE read_buffer'[SlotOf(k)'] = head + 1 + k
      BY DEF Contents
    <2> DEFINE s == IF r + k < Size THEN r + k ELSE r + k - Size
    <2>1. /\ s \in Slots /\ s = SlotOf(k)' /\ k \in Nat
          /\ read_buffer'[s] = IF s \in w..(w + n - 1)
                               THEN taken + 1 + (s - w) ELSE read_buffer[s]
      BY <1>1, <1>2, ConstantsAssumption DEF Slots, SlotOf
    <2>2. CASE k < Count
      <3>1. s = SlotOf(k)
        BY <1>2, <1>3, <2>1, <2>2, ConstantsAssumption DEF SlotOf
      <3>2. s \notin w..(w + n - 1)
        BY <1>2, <1>3, <2>1, <2>2, ConstantsAssumption DEF Slots
      <3> QED BY <2>1, <2>2, <3>1, <3>2 DEF RingInv
    <2>3. CASE k >= Count
      <3>1. s \in w..(w + n - 1) /\ s - w = k - Count
        BY <1>2, <1>3, <1>5, <2>1, <2>3, ConstantsAssumption DEF Slots
      <3> HIDE DEF s
      <3>2. head + Count = taken
        BY DEF RingInv
      <3>3. taken + 1 + (s - w) = head + 1 + k
        BY <1>0, <1>2, <2>1, <3>1, <3>2
      <3> QED BY <2>1, <3>1, <3>3
    <2> QED BY <1>2, <2>2, <2>3, ConstantsAssumption DEF Slots
  <1> QED
    BY <1>1, <1>2, <1>4, <1>5 DEF RingInv, TypeOK

(* Bytes copied out are the oldest of the ring. *)
LEMMA EmptyKeepsRing ==
  ASSUME TypeOK, RingInv, NEW nb \in Nat, nb > 0, EmptyRing(nb)
  PROVE  /\ head' = head + Copy(nb) /\ Copy(nb) \in 0..Count
         /\ head' + Count' = taken
         /\ Contents'
         /\ ~read_full'
         /\ copied' = [i \in 1..Copy(nb) |-> head + i]
  <1> DEFINE f == FirstPart(nb)
             k == Copy(nb)
  <1>0. /\ taken \in Nat /\ head \in Nat /\ Size \in Nat /\ Size > 0
        /\ wptr \in 0..(Size - 1) /\ rptr \in 0..(Size - 1)
        /\ Slots = 0..(Size - 1)
    BY ConstantsAssumption DEF TypeOK, Slots
  <1>1. /\ copied' = [i \in 1..k |-> IF i <= f THEN read_buffer[rptr + i - 1]
                                               ELSE read_buffer[i - f - 1]]
        /\ rptr' = IF Wrapped /\ nb > f THEN SecondPart(nb) ELSE Wrap(rptr + f)
        /\ head' = head + k
        /\ ~read_full' /\ read_buffer' = read_buffer /\ wptr' = wptr
    BY DEF EmptyRing
  <1>2. Count \in 0..Size /\ k = MIN(nb, Count) /\ k \in 0..Count
    BY CountRange, CopyIsMin DEF MIN
  <1> DEFINE g == SecondPart(nb)
  <1>8. /\ f = IF Wrapped THEN MIN(nb, Size - rptr) ELSE MIN(nb, wptr - rptr)
        /\ g = IF Wrapped THEN MIN(nb - f, wptr) ELSE 0
        /\ k = f + g
        /\ Wrapped => wptr <= rptr
        /\ ~Wrapped => wptr >= rptr
    BY <1>0 DEF FirstPart, SecondPart, Copy, Wrapped
  <1>9. /\ Count = IF Wrapped THEN wptr - rptr + Size ELSE wptr - rptr
        /\ Count' = IF wptr < rptr' THEN wptr - rptr' + Size ELSE wptr - rptr'
    BY <1>1 DEF Count, Wrapped
  <1> HIDE DEF f, g, k
  <1>10. f \in Nat /\ g \in Nat /\ k \in Nat /\ Count \in Nat
    BY <1>2, CopyIsMin DEF f, g
  <1>3. /\ rptr' \in 0..(Size - 1)
        /\ rptr' = IF rptr + k < Size THEN rptr + k ELSE rptr + k - Size
    <2>1. CASE ~Wrapped
      BY <1>0, <1>1, <1>2, <1>8, <1>9, <1>10, <2>1 DEF MIN, Wrap
    <2>2. CASE Wrapped /\ nb > f
      BY <1>0, <1>1, <1>8, <1>10, <2>2 DEF MIN, g
    <2>3. CASE Wrapped /\ nb <= f
      BY <1>0, <1>1, <1>8, <1>10, <2>3 DEF MIN, Wrap
    <2> QED BY <1>10, <2>1, <2>2, <2>3
  <1>11. Count' = Count - k
    <2>1. CASE ~Wrapped
      <3>1. Count = wptr - rptr /\ rptr' = rptr + k
        BY <1>0, <1>2, <1>3, <1>9, <1>10, <2>1
      <3> QED BY <1>0, <1>2, <1>9, <1>10, <3>1, SMTT(30)
    <2>2. CASE Wrapped
      <3>1. Count = wptr - rptr + Size /\ wptr <= rptr
        BY <1>8, <1>9, <2>2
      <3>2. k > 0
        BY <1>0, <1>2, <3>1 DEF MIN
      <3>3. CASE rptr + k < Size
        <4>1. rptr' = rptr + k /\ wptr < rptr'
          BY <1>0, <1>3, <1>10, <3>1, <3>2, <3>3
        <4> QED BY <1>0, <1>9, <1>10, <3>1, <4>1
      <3>4. CASE rptr + k >= Size
        BY <1>0, <1>2, <1>3, <1>9, <1>10, <3>1, <3>2, <3>4
      <3> QED BY <1>0, <1>10, <3>3, <3>4
    <2> QED BY <2>1, <2>2
  <1>4. Contents'
    <2> SUFFICES ASSUME NEW j \in Slots, j < Count'
                 PROVE  read_buffer[SlotOf(j)'] = head' + 1 + j
      BY <1>1 DEF Contents
    <2>1. k + j \in Slots /\ k + j < Count
      BY <1>0, <1>2, <1>10, <1>11
    <2>2. SlotOf(j)' = SlotOf(k + j)
      <3>1. SlotOf(j)' = IF rptr' + j < Size THEN rptr' + j ELSE rptr' + j - Size
        BY DEF SlotOf
      <3>2. SlotOf(k + j) = IF rptr + (k + j) < Size THEN rptr + (k + j)
                                                    ELSE rptr + (k + j) - Size
        BY DEF SlotOf
      <3>3. j \in Nat /\ k + j < Size
        BY <1>0, <2>1
      <3> QED BY <1>0, <1>3, <1>10, <3>1, <3>2, <3>3
    <2>3. read_buffer[SlotOf(k + j)] = head + 1 + (k + j)
      BY <2>1 DEF RingInv
    <2> QED BY <1>0, <1>1, <1>2, <2>2, <2>3
  <1>5. ASSUME NEW i \in 1..k PROVE copied'[i] = head + i
    <2>1. i - 1 \in Slots /\ i - 1 < Count
      BY <1>0, <1>2, <1>10
    <2>2. read_buffer[SlotOf(i - 1)] = head + i
      BY <1>0, <1>10, <2>1 DEF RingInv
    <2>3. SlotOf(i - 1) = IF i <= f THEN rptr + i - 1 ELSE i - f - 1
      <3>1. SlotOf(i - 1) = IF rptr + (i - 1) < Size THEN rptr + (i - 1)
                                                   ELSE rptr + (i - 1) - Size
        BY DEF SlotOf
      <3> QED BY <1>0, <1>8, <1>9, <1>10, <2>1, <3>1 DEF MIN
    <2> QED BY <1>1, <2>2, <2>3
  <1>6. copied' = [i \in 1..k |-> head + i]
    BY <1>1, <1>5
  <1>7. head' + Count' = taken
    BY <1>0, <1>1, <1>10, <1>11 DEF RingInv
  <1>12. ~read_full' /\ head' = head + k
    BY <1>1
  <1> QED BY <1>2, <1>4, <1>6, <1>7, <1>12 DEF k

(* The step of RingInv.  ReadBlocks and FlushRead reset both pointers, but *)
(* only of a ring that is, or is declared, empty.                          *)
LEMMA RingStep ==
  ASSUME "thread" \notin Spurious, Typed, RingInv, [Next]_vars
  PROVE  RingInv'
  <1>0. TypeOK /\ arrived' \in Nat
    BY TypedStep DEF Typed, TypeOK
  <1> DEFINE KeepsRing == UNCHANGED <<taken, head, ring>>
  <1>1. ASSUME KeepsRing, arrived' >= arrived, thread' = "woken" => ~read_full
        PROVE  RingInv'
    <2>1. Count' = Count /\ \A k \in Slots : SlotOf(k)' = SlotOf(k)
      BY <1>1 DEF Count, Wrapped, SlotOf, ring
    <2>2. taken' <= arrived' /\ head' + Count' = taken'
      BY <1>0, <1>1, <2>1 DEF RingInv, TypeOK
    <2>3. \A k \in Slots : k < Count' => read_buffer'[SlotOf(k)'] = head' + 1 + k
      BY <1>1, <2>1 DEF RingInv, ring
    <2> QED BY <1>1, <2>2, <2>3 DEF RingInv, ring
  <1>2. ASSUME UNCHANGED <<arrived, taken>>, head' = taken, ~read_full',
               wptr' = 0, rptr' = 0
        PROVE  RingInv'
    <2>1. Count' = 0
      BY <1>2 DEF Count, Wrapped
    <2> QED BY <1>0, <1>2, <2>1, ConstantsAssumption DEF RingInv, Slots, TypeOK
  <1>3. CASE Arrive
    BY <1>0, <1>1, <1>3 DEF Arrive, TypeOK, RingInv
  <1>4. CASE ThreadWaits
    BY <1>0, <1>1, <1>4 DEF ThreadWaits, TypeOK, RingInv
  <1>5. ASSUME MayFill, NEW n \in Nat, FillRing(n), thread' = "select",
               UNCHANGED <<arrived, head>>
        PROVE  RingInv'
    <2>1. ~read_full
      BY <1>5 DEF MayFill, RingInv
    <2> QED BY <1>0, <1>5, <2>1, FillKeepsRing DEF RingInv, Contents
  <1>6. CASE ThreadFills
    <2>1. PICK n \in 1..(arrived - taken) : FillRing(n)
      BY <1>6 DEF ThreadFills
    <2> QED BY <1>5, <1>6, <2>1 DEF ThreadFills
  <1>7. CASE ThreadReadsNothing
    BY <1>5, <1>7 DEF ThreadReadsNothing
  <1>8. CASE SpuriousWakeup
    BY <1>0, <1>1, <1>8 DEF SpuriousWakeup, TypeOK, RingInv
  <1>9. ASSUME NEW c \in Clients, ClientStep(c) PROVE RingInv'
    <2>1. CASE StartRead(c) \/ ReadTimesOut(c) \/ ByteAvailableRead(c)
                \/ ByteAvailableReadLocked(c)
      BY <1>0, <1>1, <2>1 DEF StartRead, ReadTimesOut, ByteAvailableRead,
         ByteAvailableReadLocked, TypeOK, RingInv
    <2>2. CASE ReadAsyncAtomic(c)
      <3> DEFINE nb == call[c].nb - call[c].tot - call[c].ret
      <3>1. nb \in Nat /\ nb > 0
        BY <2>2 DEF ReadAsyncAtomic, Typed, TypeOK, Call, CallInv
      <3>2. EmptyRing(nb) /\ UNCHANGED <<arrived, taken>>
        BY <2>2 DEF ReadAsyncAtomic
      <3> HIDE DEF nb
      <3> QED BY <1>0, <3>1, <3>2, EmptyKeepsRing DEF RingInv, Contents
    <2>3. CASE ReadBlocks(c)
      <3>1. CASE wptr = rptr /\ ~read_full
        <4>1. head' = taken
          BY <1>0, <2>3, <3>1 DEF ReadBlocks, RingInv, Count, Wrapped, TypeOK, Slots
        <4> QED BY <1>2, <2>3, <3>1, <4>1 DEF ReadBlocks
      <3>2. CASE ~(wptr = rptr /\ ~read_full)
        BY <1>0, <1>1, <2>3, <3>2 DEF ReadBlocks, ring, TypeOK, RingInv
      <3> QED BY <3>1, <3>2
    <2>4. CASE FlushRead(c)
      BY <1>2, <2>4 DEF FlushRead
    <2> QED BY <1>9, <2>1, <2>2, <2>3, <2>4 DEF ClientStep
  <1>10. CASE UNCHANGED vars
    BY <1>0, <1>1, <1>10 DEF vars, TypeOK, RingInv
  <1> QED BY <1>3, <1>4, <1>6, <1>7, <1>8, <1>9, <1>10 DEF Next

(* The ring is empty at the start. *)
LEMMA RingInit == Init => RingInv
  <1> SUFFICES ASSUME Init PROVE RingInv
    OBVIOUS
  <1>1. Count = 0
    BY DEF Init, Count, Wrapped
  <1> QED BY <1>1, ConstantsAssumption DEF Init, RingInv, Slots

(* For any ring size, any number of clients and any mix of calls, the ring *)
(* holds exactly the bytes taken and not yet handed over, provided a       *)
(* condition wait of the read thread returns only when it is signalled.    *)
THEOREM RingCorrect == ASSUME "thread" \notin Spurious PROVE Spec => []RingInv
  <1>1. Init => Typed /\ RingInv
    BY TypedInit, RingInit
  <1>2. Typed /\ RingInv /\ [Next]_vars => (Typed /\ RingInv)'
    BY TypedStep, RingStep
  <1> QED BY <1>1, <1>2, PTL DEF Spec

-----------------------------------------------------------------------------
(* Every step is a step of the byte stream. *)

(* A step of the receiving half is a step of the stream, or none. *)
LEMMA StreamStep ==
  ASSUME "thread" \notin Spurious, Typed, RingInv, [Next]_vars
  PROVE  [Stream!Next]_(Stream!streamVars)
  <1>0. TypeOK /\ head + Count = taken /\ Count \in 0..Size
    BY CountRange DEF Typed, RingInv
  <1>1. ASSUME UNCHANGED <<taken, head, copied>> PROVE UNCHANGED Stream!streamVars
    BY <1>1 DEF Stream!streamVars
  <1>2. ASSUME MayFill, NEW n \in Nat, FillRing(n), UNCHANGED <<arrived, head, copied>>
        PROVE  Stream!Next
    <2>1. ~read_full
      BY <1>2 DEF MayFill, RingInv
    <2>2. taken' = taken + n /\ head' + Count' = taken'
      BY <1>0, <1>2, <2>1, FillKeepsRing
    <2>3. n <= Size /\ taken + n - head <= Size
      BY <1>0, <1>2, <2>1, ConstantsAssumption
         DEF FillRing, Room, Count, Wrapped, TypeOK, Slots
    <2>4. n \in 0..Size /\ Stream!Put(n)
      BY <1>2, <2>2, <2>3, ConstantsAssumption DEF Stream!Put
    <2> QED BY <2>4 DEF Stream!Next
  <1>3. CASE Arrive \/ ThreadWaits \/ SpuriousWakeup \/ UNCHANGED vars
    BY <1>1, <1>3 DEF Arrive, ThreadWaits, SpuriousWakeup, vars
  <1>4. CASE ThreadFills
    <2>1. PICK n \in 1..(arrived - taken) : FillRing(n)
      BY <1>4 DEF ThreadFills
    <2> QED BY <1>2, <1>4, <2>1 DEF ThreadFills
  <1>5. CASE ThreadReadsNothing
    BY <1>2, <1>5 DEF ThreadReadsNothing
  <1>6. ASSUME NEW c \in Clients, ClientStep(c)
        PROVE  [Stream!Next]_(Stream!streamVars)
    <2>1. CASE StartRead(c) \/ ReadTimesOut(c) \/ ByteAvailableRead(c)
                \/ ByteAvailableReadLocked(c) \/ ReadBlocks(c)
      BY <1>1, <2>1 DEF StartRead, ReadTimesOut, ByteAvailableRead,
         ByteAvailableReadLocked, ReadBlocks
    <2>2. CASE ReadAsyncAtomic(c)
      <3> DEFINE nb == call[c].nb - call[c].tot - call[c].ret
                 k  == Copy(nb)
      <3>1. nb \in Nat /\ nb > 0
        BY <2>2 DEF ReadAsyncAtomic, Typed, TypeOK, Call, CallInv
      <3>2. EmptyRing(nb) /\ UNCHANGED taken
        BY <2>2 DEF ReadAsyncAtomic
      <3> HIDE DEF nb
      <3>3. /\ head' = head + k /\ k \in 0..Count
            /\ copied' = [i \in 1..k |-> head + i]
        BY <1>0, <3>1, <3>2, EmptyKeepsRing
      <3> HIDE DEF k
      <3>4. k \in 0..(taken - head) /\ head + k <= taken
        BY <1>0, <3>3 DEF TypeOK
      <3> QED BY <3>2, <3>3, <3>4 DEF Stream!Next, Stream!Get
    <2>3. CASE FlushRead(c)
      BY <2>3 DEF FlushRead, Stream!Next, Stream!Drop
    <2> QED BY <1>6, <2>1, <2>2, <2>3 DEF ClientStep
  <1> QED BY <1>3, <1>4, <1>5, <1>6 DEF Next

(* The read half implements a bounded byte stream: run_read and            *)
(* read_async_atomic together lose, repeat and reorder nothing, for any    *)
(* ring size, number of clients and mix of calls, under the same proviso.  *)
THEOREM ImplementsByteStream ==
  ASSUME "thread" \notin Spurious PROVE Spec => ImplementsStream
  <1>1. Init => Typed /\ RingInv
    BY TypedInit, RingInit
  <1>2. Typed /\ RingInv /\ [Next]_vars => (Typed /\ RingInv)'
    BY TypedStep, RingStep
  <1>3. Init => Stream!Init
    BY DEF Init, Stream!Init
  <1>4. Typed /\ RingInv /\ [Next]_vars => [Stream!Next]_(Stream!streamVars)
    BY StreamStep
  <1> QED BY <1>1, <1>2, <1>3, <1>4, PTL DEF Spec, ImplementsStream, Stream!Spec
-----------------------------------------------------------------------------
(* A call that is over, or under way, is one of the operation its place    *)
(* says: a count never ends as a read, a read never as a count.            *)
PlaceInv == \A c \in Clients :
  /\ pc[c] \in {"atomic", "check", "wait"} => call[c].op \in {"read", "readTimeo", "async"}
  /\ pc[c] = "count" => call[c].op = "count"

(* What AfterAtomic makes of a call: it is still under way, or it is over  *)
(* and has all it asked for, or it was a read_async.                       *)
LEMMA AfterAtomicEnds ==
  ASSUME Typed, NEW c \in Clients, pc[c] = "atomic",
         NEW k \in 0..(call[c].nb - call[c].tot - call[c].ret), AfterAtomic(c, k)
  PROVE  /\ \A d \in Clients \ {c} : pc'[d] = pc[d] /\ call'[d] = call[d]
         /\ call'[c].op = call[c].op
         /\ pc'[c] \in {"idle", "atomic", "check"}
         /\ (pc'[c] = "idle" /\ call[c].op # "async") => call'[c].tot = call'[c].nb
  <1>1. call \in [Clients -> Call] /\ pc \in [Clients -> PCs] /\ call[c] \in Call
    BY DEF Typed, TypeOK, PCs
  <1>2. /\ call[c].nb \in Nat /\ call[c].tot \in Nat /\ call[c].ret \in Nat /\ k \in Nat
        /\ call[c].tot + call[c].ret < call[c].nb
    BY <1>1 DEF Typed, Call, CallInv
  <1>3. \A d \in Clients \ {c} : pc'[d] = pc[d] /\ call'[d] = call[d]
    BY <1>1 DEF AfterAtomic
  <1>4. call'[c].op = call[c].op /\ pc'[c] \in {"idle", "atomic", "check"}
    BY <1>1 DEF AfterAtomic, Call
  <1>5. ASSUME pc'[c] = "idle", call[c].op # "async"
        PROVE  call'[c].tot = call'[c].nb
    <2>1. call[c].tot + call[c].ret + k = call[c].nb
      BY <1>1, <1>2, <1>5 DEF AfterAtomic
    <2>2. call'[c] = [call[c] EXCEPT !.tot = @ + call[c].ret + k, !.ret = 0]
      BY <1>1, <2>1 DEF AfterAtomic
    <2> QED BY <1>1, <1>2, <2>1, <2>2 DEF Call
  <1> QED BY <1>3, <1>4, <1>5

(* What a step means for the calls, in one lemma for PlaceInv and          *)
(* ShortReadTimedOut.                                                      *)
ReadsInv == PlaceInv /\ ShortReadTimedOut

(* Every step keeps the account of a read. *)
LEMMA ReadsStep ==
  ASSUME Typed, ReadsInv, [Next]_vars
  PROVE  ReadsInv'
  <1> USE DEF ReadsInv, PlaceInv, ShortReadTimedOut
  <1>0. call \in [Clients -> Call] /\ pc \in [Clients -> PCs]
    BY DEF Typed, TypeOK, PCs
  <1>1. ASSUME UNCHANGED call,
               \A d \in Clients : pc'[d] = pc[d] \/ (pc[d] = "wait" /\ pc'[d] = "atomic")
        PROVE  ReadsInv'
    BY <1>1
  <1>2. CASE Arrive \/ ThreadWaits \/ ThreadReadsNothing \/ UNCHANGED vars
    BY <1>1, <1>2 DEF Arrive, ThreadWaits, ThreadReadsNothing, vars
  <1>3. CASE ThreadFills
    BY <1>0, <1>1, <1>3 DEF ThreadFills, SignalRead
  <1>4. CASE SpuriousWakeup
    BY <1>0, <1>1, <1>4 DEF SpuriousWakeup
  <1>5. ASSUME NEW c \in Clients, ClientStep(c) PROVE ReadsInv'
    <2>0. ASSUME \A d \in Clients \ {c} : pc'[d] = pc[d] /\ call'[d] = call[d],
                 pc'[c] \in {"atomic", "check", "wait"}
                   => call'[c].op \in {"read", "readTimeo", "async"},
                 pc'[c] = "count" => call'[c].op = "count",
                 (pc'[c] = "idle" /\ call'[c].op \in {"read", "readTimeo"}) =>
                    call'[c].tot = call'[c].nb
                      \/ (call'[c].timeo /\ call'[c].tot < call'[c].nb)
          PROVE  ReadsInv'
      BY <2>0
    <2>1. CASE StartRead(c)
      <3>1. PICK op \in Ops \cap {"read", "readTimeo", "async"}, nb \in 1..MaxRead :
                call' = [call EXCEPT ![c] = NewCall(op, nb, 0)]
        BY <2>1 DEF StartRead
      <3> QED BY <1>0, <2>0, <2>1, <3>1 DEF StartRead, NewCall
    <2>2. CASE ReadAsyncAtomic(c)
      <3> DEFINE nb == call[c].nb - call[c].tot - call[c].ret
      <3>1. nb \in Nat /\ pc[c] = "atomic" /\ AfterAtomic(c, Copy(nb))
        BY <2>2 DEF ReadAsyncAtomic, Typed, TypeOK, Call, CallInv
      <3>2. Copy(nb) \in 0..nb
        BY <3>1, CopyIsMin DEF Typed
      <3> QED BY <2>0, <3>1, <3>2, AfterAtomicEnds
    <2>3. CASE ReadBlocks(c)
      BY <1>0, <2>0, <2>3 DEF ReadBlocks
    <2>4. CASE ReadTimesOut(c)
      <3>1. call'[c] = [call[c] EXCEPT !.timeo = TRUE] /\ call[c] \in Call
        BY <1>0, <2>4 DEF ReadTimesOut
      <3>2. call[c].tot < call[c].nb
        BY <1>0, <2>4 DEF ReadTimesOut, Typed, CallInv, Call
      <3>3. call'[c].tot = call[c].tot /\ call'[c].nb = call[c].nb /\ call'[c].timeo
        BY <3>1 DEF Call
      <3> QED BY <1>0, <2>0, <2>4, <3>2, <3>3 DEF ReadTimesOut
    <2>5. CASE ByteAvailableRead(c)
      BY <1>0, <2>0, <2>5 DEF ByteAvailableRead, NewCall
    <2>6. CASE ByteAvailableReadLocked(c)
      <3>1. call'[c] = [call[c] EXCEPT !.tot = PointerDistance] /\ call[c] \in Call
        BY <1>0, <2>6 DEF ByteAvailableReadLocked
      <3>2. call'[c].op = "count" /\ pc'[c] = "idle"
        BY <1>0, <2>6, <3>1 DEF ByteAvailableReadLocked, Call
      <3> QED BY <1>0, <2>0, <2>6, <3>2 DEF ByteAvailableReadLocked
    <2>7. CASE FlushRead(c)
      BY <1>0, <2>0, <2>7 DEF FlushRead, NewCall
    <2> QED BY <1>5, <2>1, <2>2, <2>3, <2>4, <2>5, <2>6, <2>7 DEF ClientStep
  <1> QED BY <1>2, <1>3, <1>4, <1>5 DEF Next

(* No read is under way at the start. *)
LEMMA ReadsInit == Init => ReadsInv
  BY DEF Init, ReadsInv, PlaceInv, ShortReadTimedOut, NewCall

(* However clients, thread and flushes interleave, and whatever wakes a    *)
(* wait: a read that is over returned all it was asked for or timed out.   *)
THEOREM ReadsComplete == Spec => []ShortReadTimedOut
  <1>1. Init => Typed /\ ReadsInv
    BY TypedInit, ReadsInit
  <1>2. Typed /\ ReadsInv /\ [Next]_vars => (Typed /\ ReadsInv)'
    BY TypedStep, ReadsStep
  <1>3. ReadsInv => ShortReadTimedOut
    BY DEF ReadsInv
  <1> QED BY <1>1, <1>2, <1>3, PTL DEF Spec

-----------------------------------------------------------------------------
(* With one client.                                                        *)

OneReader == \A c, d \in Clients : c = d

(* The thread signals after every byte it puts in, and read looks at the   *)
(* ring under the lock before it sleeps.  The proviso on the thread's      *)
(* wakeups is not needed.                                                  *)
LEMMA NoSleepStep ==
  ASSUME OneReader, Typed, NoSleepOnData, [Next]_vars
  PROVE  NoSleepOnData'
  <1> USE DEF NoSleepOnData
  <1>0. TypeOK /\ pc \in [Clients -> PCs]
    BY DEF Typed, TypeOK, PCs
  <1>1. ASSUME UNCHANGED ring, \A c \in Clients : pc'[c] = "wait" => pc[c] = "wait"
        PROVE  NoSleepOnData'
    BY <1>1 DEF ring, Count, Wrapped
  <1>2. CASE Arrive \/ ThreadWaits \/ UNCHANGED vars
    BY <1>1, <1>2 DEF Arrive, ThreadWaits, vars
  <1>3. CASE ThreadFills
    <2>1. \A c \in Clients : pc'[c] # "wait"
      BY <1>0, <1>3 DEF ThreadFills, SignalRead, OneReader
    <2> QED BY <2>1
  <1>4. CASE ThreadReadsNothing
    <2>1. Count' = 0 \/ Count # 0
      BY <1>0, <1>4, ConstantsAssumption DEF ThreadReadsNothing, FillRing, Room, Wrap, Count,
         Wrapped, TypeOK, Slots
    <2> QED BY <1>4, <2>1 DEF ThreadReadsNothing
  <1>5. CASE SpuriousWakeup
    BY <1>0, <1>1, <1>5 DEF SpuriousWakeup
  <1>6. ASSUME NEW c \in Clients, ClientStep(c) PROVE NoSleepOnData'
    <2>1. CASE StartRead(c) \/ ReadTimesOut(c) \/ ByteAvailableRead(c)
                \/ ByteAvailableReadLocked(c)
      BY <1>0, <1>1, <2>1 DEF StartRead, ReadTimesOut, ByteAvailableRead,
         ByteAvailableReadLocked
    <2>2. CASE ReadAsyncAtomic(c)
      BY <1>0, <2>2 DEF ReadAsyncAtomic, AfterAtomic, OneReader
    <2>3. CASE ReadBlocks(c)
      <3>1. CASE wptr = rptr /\ ~read_full
        BY <2>3, <3>1 DEF ReadBlocks, Count, Wrapped
      <3>2. CASE ~(wptr = rptr /\ ~read_full)
        BY <1>0, <1>1, <2>3, <3>2 DEF ReadBlocks, ring
      <3> QED BY <3>1, <3>2
    <2>4. CASE FlushRead(c)
      BY <2>4 DEF FlushRead, Count, Wrapped
    <2> QED BY <1>6, <2>1, <2>2, <2>3, <2>4 DEF ClientStep
  <1> QED BY <1>2, <1>3, <1>4, <1>5, <1>6 DEF Next

(* A lone client never sleeps on read_cond while there are bytes to read,  *)
(* for any ring size and mix of calls.                                     *)
THEOREM NoLostWakeup == ASSUME OneReader PROVE Spec => []NoSleepOnData
  <1>1. Init => Typed /\ NoSleepOnData
    BY TypedInit DEF Init, NoSleepOnData
  <1>2. Typed /\ NoSleepOnData /\ [Next]_vars => (Typed /\ NoSleepOnData)'
    BY TypedStep, NoSleepStep
  <1> QED BY <1>1, <1>2, PTL DEF Spec

(* The thread only adds to the ring, and only the client itself takes from *)
(* it.                                                                     *)
LEMMA CountedStep ==
  ASSUME "thread" \notin Spurious, OneReader, Typed, RingInv, PlaceInv, CountedBytesStay,
         [Next]_vars
  PROVE  CountedBytesStay'
  <1> USE DEF CountedBytesStay
  <1>0. /\ TypeOK /\ pc \in [Clients -> PCs] /\ call \in [Clients -> Call]
        /\ taken \in Nat /\ head \in Nat /\ Count \in 0..Size
        /\ \A c \in Clients : call[c].tot \in Nat
    BY CountRange DEF Typed, TypeOK, PCs, Call
  <1>1. ASSUME Count' >= Count, UNCHANGED call,
               \A c \in Clients : pc'[c] = "idle" => pc[c] = "idle", Count' \in Nat
        PROVE  CountedBytesStay'
    BY <1>0, <1>1
  <1>2. ASSUME UNCHANGED ring PROVE Count' = Count
    BY <1>2 DEF ring, Count, Wrapped
  <1>3. CASE Arrive \/ ThreadWaits \/ SpuriousWakeup \/ UNCHANGED vars
    BY <1>0, <1>1, <1>2, <1>3 DEF Arrive, ThreadWaits, SpuriousWakeup, vars
  <1>4. ASSUME MayFill, NEW n \in Nat, FillRing(n), UNCHANGED <<arrived, head>>
        PROVE  Count' \in Nat /\ Count' >= Count
    <2>1. ~read_full
      BY <1>4 DEF MayFill, RingInv
    <2>2. head' + Count' = taken + n /\ head + Count = taken
      BY <1>0, <1>4, <2>1, FillKeepsRing DEF RingInv
    <2>3. Count' \in Int
      BY <1>0, <1>4, FillTypes, ConstantsAssumption DEF Count, Slots
    <2>4. /\ head' = head /\ n \in Nat /\ head \in Nat /\ taken \in Nat
          /\ Count \in Nat /\ Count \in Int
      BY <1>0, <1>4, ConstantsAssumption
    <2>5. \A c, d \in Int : head + c = taken /\ head + d = taken + n => d = c + n
      BY <2>4
    <2>6. Count' = Count + n
      BY <2>2, <2>3, <2>4, <2>5, Zenon
    <2> QED BY <2>4, <2>6
  <1>5. CASE ThreadFills
    <2>1. PICK n \in 1..(arrived - taken) : FillRing(n)
      BY <1>5 DEF ThreadFills
    <2>2. Count' \in Nat /\ Count' >= Count
      BY <1>4, <1>5, <2>1 DEF ThreadFills
    <2> QED BY <1>0, <1>1, <1>5, <2>2 DEF ThreadFills, SignalRead
  <1>6. CASE ThreadReadsNothing
    BY <1>1, <1>4, <1>6 DEF ThreadReadsNothing
  <1>7. ASSUME NEW c \in Clients, ClientStep(c) PROVE CountedBytesStay'
    <2>0. \A d \in Clients : d = c
      BY DEF OneReader
    <2>1. CASE StartRead(c)
      BY <1>0, <2>0, <2>1 DEF StartRead
    <2>2. CASE ReadAsyncAtomic(c)
      <3>1. call'[c].op = call[c].op /\ call[c].op # "count"
        BY <1>0, <2>2 DEF ReadAsyncAtomic, AfterAtomic, PlaceInv, Call
      <3> QED BY <2>0, <3>1
    <2>3. CASE ReadBlocks(c)
      BY <1>0, <2>0, <2>3 DEF ReadBlocks
    <2>4. CASE ReadTimesOut(c)
      <3>1. call'[c].op = "readTimeo"
        BY <1>0, <2>4 DEF ReadTimesOut, Call
      <3> QED BY <2>0, <3>1
    <2>5. CASE ByteAvailableRead(c)
      <3>1. CASE read_full
        <4>1. call'[c].tot = Size /\ Count' = Size
          BY <1>0, <1>2, <2>5, <3>1, ConstantsAssumption
             DEF ByteAvailableRead, NewCall, RingInv, Count, Wrapped, TypeOK, Slots
        <4> QED BY <2>0, <4>1, ConstantsAssumption
      <3>2. CASE ~read_full
        BY <1>0, <2>0, <2>5, <3>2 DEF ByteAvailableRead
      <3> QED BY <3>1, <3>2
    <2>6. CASE ByteAvailableReadLocked(c)
      <3>1. call'[c].tot = PointerDistance
        BY <1>0, <2>6 DEF ByteAvailableReadLocked, Call
      <3>2. PointerDistance <= Count' /\ Count' = Count
        BY <1>0, <1>2, <2>6, ConstantsAssumption
           DEF ByteAvailableReadLocked, PointerDistance, Count, Wrapped, TypeOK, Slots
      <3> QED BY <2>0, <3>1, <3>2
    <2>7. CASE FlushRead(c)
      BY <1>0, <2>0, <2>7 DEF FlushRead, NewCall
    <2> QED BY <1>7, <2>1, <2>2, <2>3, <2>4, <2>5, <2>6, <2>7 DEF ClientStep
  <1> QED BY <1>3, <1>5, <1>6, <1>7 DEF Next

(* What byte_available_read told a lone client can be read without         *)
(* blocking, for any ring size.                                            *)
THEOREM CountIsPromise ==
  ASSUME "thread" \notin Spurious, OneReader PROVE Spec => []CountedBytesStay
  <1> DEFINE IInv == Typed /\ RingInv /\ ReadsInv /\ CountedBytesStay
  <1>1. Init => IInv
    BY TypedInit, RingInit, ReadsInit DEF Init, CountedBytesStay, NewCall
  <1>2. IInv /\ [Next]_vars => IInv'
    BY TypedStep, RingStep, ReadsStep, CountedStep DEF ReadsInv
  <1> QED BY <1>1, <1>2, PTL DEF Spec
=============================================================================
