----------------------------- MODULE ByteStream -----------------------------
(***************************************************************************)
(* What one direction of a buffered serial channel promises, whatever its  *)
(* buffer looks like inside.  The bytes of a stream are numbered 1, 2, ... *)
(* and a byte is its number, so a lost, repeated or overtaken byte shows.  *)
(* Bytes 1..in have been put into the buffer, bytes 1..out have left it,   *)
(* and chunk is what the last Get handed over.                             *)
(***************************************************************************)
EXTENDS Integers

CONSTANT Capacity

VARIABLES in, out, chunk

streamVars == <<in, out, chunk>>

Init == in = 0 /\ out = 0 /\ chunk = << >>

(* The next n bytes of the stream enter, if there is room for them. *)
Put(n) ==
  /\ in + n - out <= Capacity
  /\ in' = in + n
  /\ UNCHANGED <<out, chunk>>

(* The k oldest bytes leave, in order, and are the ones handed over. *)
Get(k) ==
  /\ out + k <= in
  /\ out' = out + k
  /\ chunk' = [i \in 1..k |-> out + i]
  /\ UNCHANGED in

(* Everything buffered is thrown away; nothing is handed over. *)
Drop == out' = in /\ UNCHANGED <<in, chunk>>

Next == \/ Drop
        \/ \E n \in 0..Capacity : Put(n)
        \/ \E k \in 0..(in - out) : Get(k)

Spec == Init /\ [][Next]_streamVars
=============================================================================
