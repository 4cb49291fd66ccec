--------------------------- MODULE MCChannelUsers ---------------------------
(* A small instance of ChannelUsers. *)
EXTENDS ChannelUsers

CONSTANTS a, b
ReadOnly == <<"read">>
EachOpensOne == [t \in Tasks |-> IF t = a THEN {1} ELSE {2}]
=============================================================================
