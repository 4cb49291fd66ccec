--------------------------- MODULE MCScheduleCFQ ---------------------------
(* Small instances of ScheduleCFQ. *)
EXTENDS ScheduleCFQ
=============================================================================
