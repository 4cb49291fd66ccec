------------------------- MODULE ArithmeticProofs -------------------------
(* Proofs about the pure parts of the program: the order of the slaves and *)
(* the deadline of a timed wait.                                           *)
EXTENDS CFQOrder, Deadline, TLAPS

(* While no client pushes and no select ends, algo_sort_write is an order  *)
(* std::sort may be given: what breaks it is only that sizes move.         *)
THEOREM WriteOrderSorts == StrictWeakOrder(algo_sort_write, Queue)
<1>1. \A q \in Queue : q.size \in Nat /\ q.old_req_time \in Nat
  BY DEF Queue
<1>2. \A a \in Queue : ~algo_sort_write(a, a)
  BY <1>1 DEF algo_sort_write
<1>3. \A a, b, c \in Queue :
        algo_sort_write(a, b) /\ algo_sort_write(b, c) => algo_sort_write(a, c)
  BY <1>1 DEF algo_sort_write
<1>4. \A a, b, c \in Queue :
        (/\ ~algo_sort_write(a, b) /\ ~algo_sort_write(b, a)
         /\ ~algo_sort_write(b, c) /\ ~algo_sort_write(c, b))
          => (~algo_sort_write(a, c) /\ ~algo_sort_write(c, a))
  BY <1>1 DEF algo_sort_write
<1> QED
  BY <1>2, <1>3, <1>4 DEF StrictWeakOrder

(* The read pass goes through the slaves the other way round: last comes   *)
(* the slave with the most commands, however many answers wait for it.     *)
THEOREM ReadOrderReversed ==
  \A a, b \in Queue : algo_sort_read(a, b) <=> algo_sort_write(b, a)
BY DEF algo_sort_read, algo_sort_write, Queue

(* So it is an order as well. *)
THEOREM ReadOrderSorts == StrictWeakOrder(algo_sort_read, Queue)
<1>1. \A a \in Queue : ~algo_sort_read(a, a)
  BY WriteOrderSorts, ReadOrderReversed DEF StrictWeakOrder
<1>2. \A a, b, c \in Queue :
        algo_sort_read(a, b) /\ algo_sort_read(b, c) => algo_sort_read(a, c)
  BY WriteOrderSorts, ReadOrderReversed DEF StrictWeakOrder
<1>3. \A a, b, c \in Queue :
        (/\ ~algo_sort_read(a, b) /\ ~algo_sort_read(b, a)
         /\ ~algo_sort_read(b, c) /\ ~algo_sort_read(c, b))
          => (~algo_sort_read(a, c) /\ ~algo_sort_read(c, a))
  BY WriteOrderSorts, ReadOrderReversed DEF StrictWeakOrder
<1> QED
  BY <1>1, <1>2, <1>3 DEF StrictWeakOrder

-----------------------------------------------------------------------------
(* The deadline is the right moment, refused or not: seconds and           *)
(* nanoseconds add up to the time of day plus the timeout.                 *)
THEOREM DeadlineExact ==
  ASSUME NEW now \in TimeOfDay, NEW timeo_ms \in Nat
  PROVE  tv_sec(now, timeo_ms) * Second + tv_nsec(now, timeo_ms)
           = now.sec * Second + now.usec * 1000 + timeo_ms * 1000000
<1>1. timeo_ms = (timeo_ms \div 1000) * 1000 + (timeo_ms % 1000)
  OBVIOUS
<1>2. timeo_ms \div 1000 \in Nat /\ timeo_ms % 1000 \in Nat
  OBVIOUS
<1>3. now.sec \in Nat /\ now.usec \in Nat
  BY SMTT(30) DEF TimeOfDay
<1> QED
  BY <1>1, <1>2, <1>3, SMTT(30) DEF tv_sec, tv_nsec, Second

(* Only a timeout of whole seconds is never refused: for any other there   *)
(* is a part of every second in which wait_timeo returns at once, and the  *)
(* refused deadline is less than two seconds' worth of nanoseconds.        *)
THEOREM RefusedSometimes ==
  ASSUME NEW timeo_ms \in Nat
  PROVE  /\ \A now \in TimeOfDay : tv_nsec(now, timeo_ms) < 2 * Second
         /\ (\A now \in TimeOfDay : ~Refused(now, timeo_ms)) <=> timeo_ms % 1000 = 0
<1> DEFINE m == timeo_ms % 1000
<1>1. m \in 0..999
  OBVIOUS
<1>2. \A now \in TimeOfDay : now.usec \in Nat /\ now.usec < 1000000
  BY SMTT(30) DEF TimeOfDay
<1>3. \A now \in TimeOfDay : tv_nsec(now, timeo_ms) < 2 * Second
  BY <1>1, <1>2, SMTT(30) DEF tv_nsec, Second
<1>4. ASSUME m = 0, NEW now \in TimeOfDay
      PROVE  ~Refused(now, timeo_ms)
  BY <1>2, <1>4, SMTT(30) DEF Refused, tv_nsec, Second
<1>5. ASSUME m # 0
      PROVE  \E now \in TimeOfDay : Refused(now, timeo_ms)
  <2> DEFINE late == [sec |-> 0, usec |-> 999999]
  <2>1. late \in TimeOfDay
    BY SMTT(30) DEF TimeOfDay
  <2>2. late.usec = 999999
    OBVIOUS
  <2>3. Refused(late, timeo_ms)
    BY <1>1, <1>5, <2>2, SMTT(30) DEF Refused, tv_nsec, Second
  <2> QED
    BY <2>1, <2>3
<1> QED
  BY <1>3, <1>4, <1>5
=============================================================================
