------------------------------ MODULE CFQOrder ------------------------------
(***************************************************************************)
(* The order in which OcemProtocolScheduleCFQ visits its slaves: std::sort *)
(* with algo_sort_write before the write pass and algo_sort_read before    *)
(* the read pass.  Both compare the slaves' write queues.                  *)
(***************************************************************************)
EXTENDS Integers

(* What the comparators read of a queue. *)
Queue == [size: Nat, old_req_time: Nat]

algo_sort_write(q0, q1) ==
  q0.size > q1.size \/ (q0.size = q1.size /\ q0.old_req_time < q1.old_req_time)

algo_sort_read(q0, q1) ==
  q0.size < q1.size \/ (q0.size = q1.size /\ q0.old_req_time > q1.old_req_time)

(* What std::sort demands of a comparison; neither before the other is     *)
(* transitive as well.                                                     *)
StrictWeakOrder(before(_, _), S) ==
  /\ \A a \in S : ~before(a, a)
  /\ \A a, b, c \in S : before(a, b) /\ before(b, c) => before(a, c)
  /\ \A a, b, c \in S :
       (~before(a, b) /\ ~before(b, a) /\ ~before(b, c) /\ ~before(c, b))
         => (~before(a, c) /\ ~before(c, a))
=============================================================================
