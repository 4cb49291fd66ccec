--------------------------- MODULE MCWriteBuffer ---------------------------
(* Small instances of WriteBuffer: a ring of a few slots and calls that    *)
(* send more bytes than it holds.                                          *)
EXTENDS WriteBuffer, TLC

AllOps    == Calls
NoFlush   == Calls \ {"flush"}
Blocking  == {"write"}
AsyncOps  == {"async", "flush"}
OneClient == {1}
Anybody   == {"client", "thread"}
TheClient == {"client"}
Symmetry  == Permutations(Clients)
=============================================================================
