---------------------------- MODULE OcemFraming -----------------------------
(***************************************************************************)
(* The frames of the OCEM protocol: build_cmd makes the one of a command,  *)
(* check_and_extract takes apart the one of an answer, from the address to *)
(* the checksum, and finds the text.  Bytes are numbers.                   *)
(***************************************************************************)
EXTENDS Naturals, Sequences, SequencesExt, Bitwise

STX == 2
ETX == 3

Address(slave) == slave + 96

(* Every byte goes into the checksum, STX does not. *)
Checksum(bytes) == FoldLeft(LAMBDA crc, byte : crc ^^ byte, 0, bytes)

(* An empty command gets neither STX nor address: the loop that would put  *)
(* them there does not begin.                                              *)
build_cmd(slave, cmd) ==
  LET body == IF cmd = << >> THEN << >> ELSE <<Address(slave)>> \o cmd
  IN  (IF cmd = << >> THEN << >> ELSE <<STX>>) \o body \o <<ETX, Checksum(body) ^^ (ETX | 128)>>

(* ret and the text: all between the first byte and the first ETX, which   *)
(* must come within size; the top bit of the checksum is set, not computed.*)
check_and_extract(protbuf, size) ==
  LET stops == {i \in DOMAIN protbuf : protbuf[i] = ETX \/ i > size}
      cnt   == Min(stops) - 1
      crc   == Checksum(SubSeq(protbuf, 1, cnt + 1)) | 128
      text  == SubSeq(protbuf, 2, cnt)
  IN  [ret |-> IF stops = {} THEN "NO_ETX_MATCHED"
               ELSE IF protbuf[cnt + 1] # ETX THEN "NO_ETX_MATCHED"
               ELSE IF protbuf[cnt + 2] # crc THEN "POLL_ANSWER_CRC_FAILED" ELSE "OK",
       text |-> IF stops = {} THEN Tail(protbuf) ELSE text]

-----------------------------------------------------------------------------
Texts(chars, n) == UNION {[1..k -> chars] : k \in 1..n}

(* What a slave that frames its answers as build_cmd does its commands     *)
(* says, check_and_extract hands out.                                      *)
RoundTrip(slaves, texts) ==
  \A s \in slaves, t \in texts :
    LET frame == Tail(build_cmd(s, t))
    IN  check_and_extract(frame, Len(frame) - 1) = [ret |-> "OK", text |-> t]

(* One byte, of text or checksum, that has become another but no ETX is    *)
(* always noticed, unless only the top bit of a byte of text has changed.  *)
DamageNoticed(slaves, texts, bytes) ==
  \A s \in slaves, t \in texts :
    LET frame == Tail(build_cmd(s, t))
    IN  \A i \in DOMAIN frame \ {1, Len(frame) - 1}, b \in bytes \ {ETX} :
          LET damaged == [frame EXCEPT ![i] = b]
          IN  (b # frame[i] /\ check_and_extract(damaged, Len(frame) - 1).ret = "OK")
                <=> (i < Len(frame) /\ b = frame[i] ^^ 128)
=============================================================================
