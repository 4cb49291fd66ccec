---------------------------- MODULE MCReadBuffer ----------------------------
(* Small instances of ReadBuffer: a ring of a few slots, a line that       *)
(* brings more bytes than it holds, and calls that ask for more than that. *)
EXTENDS ReadBuffer, TLC

AllOps    == Calls
OneClient == {1}
TheClient == {"client"}
Symmetry  == Permutations(Clients)
=============================================================================
