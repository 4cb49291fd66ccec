----------------------------- MODULE MCOcemLink -----------------------------
\* Instances of OcemLink for TLC.
EXTENDS OcemLink

\* Two slaves: an answer of one may meet the poll of the other.
CONSTANTS s1, s2
TheSlaves == {s1, s2}

\* What OcemLink takes of frames and checksums, on short texts of plain
\* characters and with every damage to one byte.
F == INSTANCE OcemFraming
SomeTexts == F!Texts({48, 65, 127}, 2)
ASSUME FramingAssumption ==
  F!RoundTrip({1, 2}, SomeTexts) /\ F!DamageNoticed({1, 2}, SomeTexts, 0..255)
====
