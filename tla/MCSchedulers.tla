---------------------------- MODULE MCSchedulers ----------------------------
(* A small instance of Schedulers. *)
EXTENDS Schedulers, TLC
=============================================================================
