---------------------------- MODULE MCSchedules -----------------------------
(* A small instance of Schedules. *)
EXTENDS Schedules, TLC

Threads == Permutations(Selectors) \cup Permutations(Pollers)
=============================================================================
