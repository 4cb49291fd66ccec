--------------------------- MODULE OcemLinkProofs ---------------------------
(***************************************************************************)
(* Proofs about OcemLink: what select and poll return agrees with what the *)
(* slaves did and sent, for any number of slaves, calls and answers.       *)
(***************************************************************************)
EXTENDS OcemLink, SequenceTheorems, FiniteSetTheorems, TLAPS

----------------------------------------------------------------------------
(* The inductive invariant, in parts.                                      *)

SelectReads == {"selAck", "drain", "cmdAck"}
PollReads   == {"pollAck", "text", "crc", "eot"}

\* What the master may have sent.
Sendable(t) ==
  /\ t.c \in Enquiry => t.s \in Slaves
  /\ t.c = "CMD" => t.n \in 1..MaxCalls

\* How much of tmpbuf poll has filled: the frame, and with ETX one more.
Stored ==
  /\ pc \notin {"crc", "eot"} => filled = Len(frame)
  /\ pc = "crc" => filled = Len(frame) + 1

\* What TypeOK leaves open: the tokens on their way to the slaves, the call a
\* read belongs to, and the bounds that keep the next step inside the types.
Typed ==
  /\ TypeOK /\ Stored
  /\ \A i \in 1..Len(down) : Sendable(down[i])
  /\ Len(log) <= MaxCalls
  /\ pc = "idle" => call = NoCall
  /\ pc # "idle" => call \in Call /\ Len(log) < MaxCalls
  /\ pc \in SelectReads => call.op = "select"
  /\ pc \in PollReads => call.op = "poll"
  /\ pc = "eot" => Len(frame) > 1
  /\ hold.st = "talking" => hold.s \in Slaves /\ acked[hold.s] < MaxAnswers
  /\ \A s \in Slaves : \A i \in 1..Len(taken[s]) : Len(taken[s][i]) >= 1

Damaged(t) == [t EXCEPT !.ok = FALSE]
Heard(t, u) == t = u \/ t = Damaged(u)

\* On their way to the slaves: an enquiry, perhaps behind the EOT of the call
\* before it.
Asked(enq) ==
  /\ up = <<>>
  /\ \/ down = <<Tok(enq, call.s, 0)>>
     \/ down = <<Char("EOT"), Tok(enq, call.s, 0)>>

\* The slave that was polled talks, and what is still to come of its message
\* begins with token k; only the next token can be damaged.
Rest(k) ==
  /\ hold = [s |-> call.s, st |-> "talking"]
  /\ Len(up) = 6 - k
  /\ \A i \in 1..Len(up) :
       \/ up[i] = Message(call.s)[i + k - 1]
       \/ i = 1 /\ up[i] = Damaged(Message(call.s)[k])

\* One character of a slave.
One(C) == Len(up) = 1 /\ up[1].c \in C

\* What is on the line at each read, while no answer is late.
LineInv ==
  lates = 0 =>
    /\ pc = "idle" => down = <<>> \/ down = <<Char("EOT")>>
    /\ pc = "selAck" =>
         \/ Asked("SELECT")
         \/ down = <<>> /\ \A i \in 1..Len(up) : up[i].c = "ACK" => Len(up) = 1
    /\ pc = "drain" => down = <<>>
    /\ pc = "cmdAck" =>
         \/ down = <<Command>> /\ up = <<>>
         \/ down = <<>> /\ (up = <<>> \/ One({"ACK", "NAK", "EOT"}))
    /\ pc = "pollAck" =>
         \/ Asked("POLL")
         \/ /\ down = <<>>
            /\ \/ up = <<>>
               \/ One({"ACK", "NAK", "EOT"})
               \/ \E k \in 1..5 : Rest(k)
    /\ pc = "text" => down = <<>> /\ \E k \in 2..6 : Rest(k)
    /\ pc = "crc"  => down = <<>> /\ \E k \in 5..6 : Rest(k)

\* What poll has read of the message, while no answer is late: address and
\* text, each perhaps damaged, or less.
Kept(m) ==
  /\ Len(frame) <= m
  /\ m >= 1 /\ Len(frame) = m =>
       Heard(frame[1], Tok("ADDR", call.s, acked[call.s] + 1))
  /\ m = 2 /\ Len(frame) = 2 =>
       Heard(frame[2], Tok("TEXT", call.s, acked[call.s] + 1))
  /\ m = 2 /\ Len(frame) = 1 =>
       \/ Heard(frame[1], Tok("ADDR", call.s, acked[call.s] + 1))
       \/ Heard(frame[1], Tok("TEXT", call.s, acked[call.s] + 1))

FrameInv ==
  lates = 0 =>
    /\ pc = "text" => \A m \in 0..2 : Len(up) = 4 - m => Kept(m)
    /\ pc = "crc" => Kept(2)
    /\ pc = "eot" =>
         /\ Len(frame) = 2
         /\ frame[2].n \in 1..MaxAnswers
         /\ Heard(frame[2], Tok("TEXT", call.s, frame[2].n))
         /\ \/ /\ frame[2].n = acked[call.s] + 1 /\ up = <<>>
               /\ \/ down = <<>>
                  \/ /\ down = <<Char("ACK")>>
                     /\ hold = [s |-> call.s, st |-> "talking"]
            \/ /\ frame[2].n = acked[call.s] /\ down = <<>>
               /\ up = <<>> \/ One({"EOT"})

\* The commands carried out, while no answer is late: none of a later call,
\* and none of this one before its command has been sent and heard.
CommandInv ==
  lates = 0 =>
    /\ \A j \in 1..Len(executed) :
         \/ executed[j] < This
         \/ executed[j] = This /\ pc = "cmdAck" /\ down = <<>>
    /\ pc = "cmdAck" /\ up # <<>> =>
         /\ up[1].c = "ACK" => Executions(This) = 1
         /\ up[1].c \in {"NAK", "EOT"} => Executions(This) = 0

\* The slave has counted the answer that poll is about to hand out.
Pending(s) == pc = "eot" /\ s = call.s /\ frame[2].n = acked[s]

\* The answers of a slave: those handed out, those counted, and the polls that
\* ended without its last word.
Accounted(s) ==
  /\ Len(taken[s]) <= acked[s]
  /\ acked[s] <= Len(taken[s]) + Cardinality(Unconfirmed(s))
                   + (IF Pending(s) THEN 1 ELSE 0)
  /\ Pending(s) => Len(taken[s]) < acked[s]
  /\ \A i \in 1..Len(taken[s]) :
       /\ taken[s][i][1].n <= acked[s]
       /\ Pending(s) => taken[s][i][1].n < acked[s]
  /\ \A i, j \in 1..Len(taken[s]) :
       i < j => taken[s][i][1].n < taken[s][j][1].n

\* So it is while none is late.
AnswerInv == lates = 0 => \A s \in Slaves : Accounted(s)

\* Token i of address, text, ETX of an answer.
Part(s, n, i) == CASE i = 1 -> Tok("ADDR", s, n)
                   [] i = 2 -> Tok("TEXT", s, n)
                   [] OTHER -> Char("ETX")

\* From its token i on u holds the rest of an answer behind token m.
Begins(u, s, n, i, m) ==
  \A j \in 1..(3 - m) : i + j - 1 <= Len(u) /\ u[i + j - 1] = Part(s, n, m + j)

\* Nothing of u is damaged, and an answer that begins goes on.
Clean(u) ==
  \A i \in 1..Len(u) :
    /\ u[i].ok
    /\ u[i].c = "STX" =>
         \E s \in Slaves, n \in 1..MaxAnswers : Begins(u, s, n, i + 1, 0)

\* A sound line, whatever is late: a message is never mixed with another.
SoundInv ==
  faults = 0 =>
    /\ Clean(up)
    /\ pc = "text" =>
         \E s \in Slaves, n \in 1..MaxAnswers :
           /\ Len(frame) <= 2 /\ Begins(up, s, n, 1, Len(frame))
           /\ \A i \in 1..Len(frame) : frame[i] = Part(s, n, i)
    /\ pc \in {"crc", "eot"} =>
         \E s \in Slaves, n \in 1..MaxAnswers :
           /\ frame = <<Part(s, n, 1), Part(s, n, 2)>>
           /\ pc = "eot" => s = call.s

\* While none is late, what is damaged counts: in the frame, or the next token
\* or its absence.
Wounded == \E i \in 1..Len(frame) : ~frame[i].ok
Bruised == up = <<>> \/ ~up[1].ok

DamageInv ==
  lates = 0 =>
    /\ (pc = "text" /\ Len(up) >= 2) \/ pc = "crc" =>
         /\ Wounded \/ Bruised => faults >= 1
         /\ Wounded /\ Bruised => faults >= 2
    /\ pc = "eot" /\ faults <= 1 => frame[2].ok

----------------------------------------------------------------------------
(* Sequences and tokens.                                                   *)

\* u is what is left of v once a part of its front is gone.
Suffix(u, v) ==
  /\ Len(u) <= Len(v)
  /\ \A i \in 1..Len(u) : u[i] = v[i + (Len(v) - Len(u))]

(* The elements of a Tail. *)
LEMMA TailFacts ==
  ASSUME NEW T, NEW u \in Seq(T), u # <<>>
  PROVE  /\ Tail(u) \in Seq(T) /\ Len(u) >= 1 /\ Head(u) = u[1] /\ u[1] \in T
         /\ Len(Tail(u)) = Len(u) - 1
         /\ \A i \in 1..(Len(u) - 1) : Tail(u)[i] = u[i + 1]
         /\ Suffix(Tail(u), u)
<1>1. Tail(u) \in Seq(T) /\ Len(Tail(u)) = Len(u) - 1 /\ Len(u) \in Nat
  BY HeadTailProperties, LenProperties
<1>2. Len(u) >= 1
  BY <1>1, EmptySeq
<1>3. \A i \in 1..(Len(u) - 1) : Tail(u)[i] = u[i + 1]
  BY <1>1, HeadTailProperties
<1>4. Suffix(Tail(u), u)
  <2>1. Len(u) - Len(Tail(u)) = 1
    BY <1>1
  <2> QED
    BY <1>1, <1>3, <2>1 DEF Suffix
<1>5. Head(u) = u[1] /\ u[1] \in T
  BY <1>2, ElementOfSeq, HeadTailProperties
<1> QED
  BY <1>1, <1>2, <1>3, <1>4, <1>5

(* What a flush leaves is a suffix. *)
LEMMA FlushFacts ==
  ASSUME NEW T, NEW u \in Seq(T), NEW k \in 0..Len(u)
  PROVE  /\ SubSeq(u, k + 1, Len(u)) \in Seq(T)
         /\ Suffix(SubSeq(u, k + 1, Len(u)), u)
<1>1. Len(u) \in Nat
  BY LenProperties
<1>2. k + 1 \in 1..(Len(u) + 1) /\ Len(u) \in k..Len(u)
  BY <1>1
<1>3. /\ SubSeq(u, k + 1, Len(u)) \in Seq(T)
      /\ Len(SubSeq(u, k + 1, Len(u))) = Len(u) - k
      /\ \A i \in 1..(Len(u) - k) : SubSeq(u, k + 1, Len(u))[i] = u[k + i]
  BY <1>1, <1>2, SubSeqProperties
<1>4. \A i \in 1..(Len(u) - k) : i + (Len(u) - (Len(u) - k)) = k + i
  BY <1>1
<1>5. Len(u) - k <= Len(u)
  BY <1>1
<1>6. ASSUME NEW v, Len(v) = Len(u) - k,
             \A i \in 1..(Len(u) - k) : v[i] = u[k + i]
      PROVE  Suffix(v, u)
  BY <1>1, <1>4, <1>5, <1>6 DEF Suffix
<1> QED
  BY <1>3, <1>6

(* And so is a suffix of one. *)
LEMMA SuffixOfSuffix ==
  ASSUME NEW T, NEW u \in Seq(T), NEW v \in Seq(T), NEW w \in Seq(T),
         Suffix(u, v), Suffix(v, w)
  PROVE  Suffix(u, w)
<1>1. Len(u) \in Nat /\ Len(v) \in Nat /\ Len(w) \in Nat
  BY LenProperties
<1>2. Len(u) <= Len(w)
  BY <1>1 DEF Suffix
<1>3. ASSUME NEW i \in 1..Len(u)
      PROVE  u[i] = w[i + (Len(w) - Len(u))]
  <2>1. u[i] = v[i + (Len(v) - Len(u))] /\ i + (Len(v) - Len(u)) \in 1..Len(v)
    BY <1>1 DEF Suffix
  <2>2. v[i + (Len(v) - Len(u))]
          = w[(i + (Len(v) - Len(u))) + (Len(w) - Len(v))]
    BY <2>1 DEF Suffix
  <2>3. (i + (Len(v) - Len(u))) + (Len(w) - Len(v)) = i + (Len(w) - Len(u))
    BY <1>1
  <2> QED
    BY <2>1, <2>2, <2>3
<1> QED
  BY <1>2, <1>3 DEF Suffix

(* A sequence is a suffix of itself. *)
LEMMA SuffixOfItself ==
  ASSUME NEW T, NEW u \in Seq(T)
  PROVE  Suffix(u, u)
<1>1. Len(u) \in Nat
  BY LenProperties
<1> QED
  BY <1>1 DEF Suffix

(* The tokens the two sides write are tokens. *)
LEMMA TokFacts ==
  ASSUME NEW c \in Control \cup Enquiry \cup {"CMD", "ADDR", "TEXT", "CRC"},
         NEW s \in Slaves \cup {NoSlave}, NEW n \in Nat
  PROVE  Tok(c, s, n) \in Token /\ Tok(c, s, n).c = c /\ Tok(c, s, n).s = s
         /\ Tok(c, s, n).n = n /\ Tok(c, s, n).ok
BY DEF Tok, Token

(* So are the characters. *)
LEMMA CharFacts ==
  ASSUME NEW c \in Control
  PROVE  Char(c) \in Token /\ Char(c).c = c /\ Char(c).ok
BY TokFacts DEF Char

(* A message is five tokens. *)
LEMMA MessageFacts ==
  ASSUME NEW s \in Slaves, acked[s] \in Nat
  PROVE  /\ Message(s) \in Seq(Token) /\ Len(Message(s)) = 5
         /\ Message(s)[1] = Char("STX")
         /\ Message(s)[2] = Tok("ADDR", s, acked[s] + 1)
         /\ Message(s)[3] = Tok("TEXT", s, acked[s] + 1)
         /\ Message(s)[4] = Char("ETX")
         /\ Message(s)[5] = Tok("CRC", s, acked[s] + 1)
<1>1. acked[s] + 1 \in Nat
  OBVIOUS
<1>2. /\ Char("STX") \in Token /\ Char("ETX") \in Token
      /\ Tok("ADDR", s, acked[s] + 1) \in Token
      /\ Tok("TEXT", s, acked[s] + 1) \in Token
      /\ Tok("CRC", s, acked[s] + 1) \in Token
  BY <1>1, TokFacts, CharFacts DEF Control
<1> QED
  BY <1>2 DEF Message

(* A token the line damages is still one, of the same kind. *)
LEMMA DamagedFacts ==
  ASSUME NEW t \in Token
  PROVE  /\ Damaged(t) \in Token /\ ~Damaged(t).ok
         /\ Damaged(t).c = t.c /\ Damaged(t).s = t.s /\ Damaged(t).n = t.n
         /\ Damaged(Damaged(t)) = Damaged(t)
BY DEF Damaged, Token

----------------------------------------------------------------------------
(* The steps, as the proofs below take them: many reads end a call in the  *)
(* same way.                                                               *)

\* The clock, the line's faults and what a flush or a read leaves of up.
Ticks ==
  /\ faults' = faults \/ faults' = faults + 1
  /\ lates' = lates \/ lates' = lates + 1
  /\ faults' + lates' <= MaxMishaps
Drops == up' \in Seq(Token) /\ Suffix(up', up)

Logs(op, s, r) == log' = Append(log, [op |-> op, s |-> s, r |-> r])

\* Where a read must be for the call to return r.
From(r) ==
  /\ r = "chars" => pc = "cmdAck" /\ up # <<>> /\ Is(up[1], "ACK")
  /\ r \in {"SLAVE_BUSY", "SLAVE_CANNOT_UNDERSTAND_MESSAGE"} =>
       /\ up # <<>>
       /\ \/ pc = "selAck"
          \/ pc = "cmdAck" /\ up[1].c \in {"NAK", "EOT"}
  /\ r \in {"BAD_SELECT_COMMAND", "WRITE_FAILED"} => pc = "selAck"
  /\ pc = "eot" => r \in {"NO_ACK_FROM_SLAVE", "EOT_MISSING_FROM_SLAVE"}

\* A step that ends the call.
Ends ==
  /\ pc # "idle" /\ pc' = "idle" /\ call' = NoCall
  /\ frame' = <<>> /\ filled' = 0
  /\ Ticks /\ Drops
  /\ \/ down' = down
     \/ down' = Append(down, Char("EOT")) /\ pc \in PollReads
  /\ lates' = lates => up # <<>> \/ down = <<>> \/ pc = "text"
  /\ UNCHANGED slave

\* One that hands out nothing, and one that hands out a text.
EndsWithout == Ends /\ UNCHANGED taken
  /\ \E r \in Return : Logs(call.op, call.s, r) /\ From(r)
EndsWithText == Ends /\ pc = "eot" /\ Logs(call.op, call.s, "chars")
  /\ down' = down /\ up # <<>> /\ Is(up[1], "EOT")
  /\ taken' = [taken EXCEPT ![call.s] = Append(@, Tail(frame))]

\* A read that leads to the next one.
Reading(p, q) ==
  /\ pc = p /\ pc' = q /\ up # <<>> /\ up' = Tail(up) /\ Ticks
  /\ lates' = lates /\ faults' = faults
  /\ UNCHANGED <<call, log, taken, slave>>
SendsCommand == Reading("selAck", "cmdAck") /\ Is(up[1], "ACK")
  /\ down' = Append(down, Command) /\ UNCHANGED <<frame, filled>>
Drains == \E p \in {"selAck", "drain"} :
  Reading(p, "drain") /\ UNCHANGED <<down, frame, filled>>
BeginsText == Reading("pollAck", "text") /\ Is(up[1], "STX")
  /\ UNCHANGED <<down, frame, filled>>
KeepsText == Reading("text", "text") /\ ~Is(up[1], "ETX") /\ ~Full
  /\ frame' = Append(frame, up[1]) /\ filled' = filled + 1 /\ UNCHANGED down
EndsText == Reading("text", "crc") /\ Is(up[1], "ETX") /\ ~Full
  /\ filled' = filled + 1 /\ UNCHANGED <<down, frame>>

\* The message is judged good, and acknowledged.
Acknowledges ==
  /\ pc = "crc" /\ pc' = "eot" /\ Sender = call.s /\ Len(frame) > 1
  /\ filled' \in {filled, filled + 1}
  /\ down' = Append(down, Char("ACK")) /\ Ticks /\ faults' = faults
  /\ \/ up # <<>> /\ Matches(up[1], frame) /\ up' = Tail(up) /\ lates' = lates
     \/ up' = up /\ (lates' = lates => up = <<>> /\ down = <<>>)
  /\ UNCHANGED <<call, frame, log, taken, slave>>

\* A call begins; its enquiry leaves or fails.
Enquires(op, enq, l) ==
  /\ pc = "idle" /\ Len(log) < MaxCalls /\ Ticks /\ Drops
  /\ lates' = lates => up' = <<>>
  /\ UNCHANGED <<frame, filled, slave, taken>>
  /\ \E s \in Slaves :
       \/ /\ down' = Append(down, Tok(enq, s, 0)) /\ faults' = faults
          /\ \E fits \in BOOLEAN : call' = [op |-> op, s |-> s, fits |-> fits]
          /\ pc' = l /\ UNCHANGED log
       \/ /\ Logs(op, s, "WRITE_FAILED") /\ UNCHANGED <<down, pc, call>>

(* What Typed says of the line. *)
LEMMA LineTyped ==
  ASSUME Typed
  PROVE  /\ up \in Seq(Token) /\ down \in Seq(Token) /\ frame \in Seq(Token)
         /\ faults \in Nat /\ lates \in Nat /\ MaxMishaps \in Nat
         /\ MaxCalls \in Nat /\ MaxAnswers \in Nat /\ Len(log) \in Nat
  BY ConstantsAssumption, LenProperties DEF Typed, TypeOK

(* A flush drops. *)
LEMMA FlushDrops ==
  ASSUME Typed, Flush(up)
  PROVE  Drops
<1>1. PICK k \in 0..Len(up) : up' = SubSeq(up, k + 1, Len(up))
  BY DEF Flush
<1>2. up \in Seq(Token)
  BY LineTyped
<1> QED
  BY <1>1, <1>2, FlushFacts DEF Drops

(* So does a read, *)
LEMMA TailDrops ==
  ASSUME Typed, up # <<>>, up' = Tail(up)
  PROVE  Drops
<1>2. up \in Seq(Token)
  BY LineTyped
<1> QED
  BY <1>2, TailFacts DEF Drops

(* a read and a flush, *)
LEMMA FlushTailDrops ==
  ASSUME Typed, up # <<>>, Flush(Tail(up))
  PROVE  Drops
<1>1. PICK k \in 0..Len(Tail(up)) :
        up' = SubSeq(Tail(up), k + 1, Len(Tail(up)))
  BY DEF Flush
<1>2. up \in Seq(Token)
  BY LineTyped
<1>3. Tail(up) \in Seq(Token) /\ Suffix(Tail(up), up)
  BY <1>2, TailFacts
<1>4. up' \in Seq(Token) /\ Suffix(up', Tail(up))
  BY <1>1, <1>3, FlushFacts
<1> QED
  BY <1>2, <1>3, <1>4, SuffixOfSuffix DEF Drops

(* and nothing at all. *)
LEMMA NothingDrops ==
  ASSUME Typed, up' = up
  PROVE  Drops
<1>2. up \in Seq(Token)
  BY LineTyped
<1> QED
  BY <1>2, SuffixOfItself DEF Drops

(* What the steps of select come to: Selected, *)
LEMMA SelectedCases ==
  ASSUME Typed, Selected, Bounded
  PROVE  EndsWithout \/ SendsCommand \/ Drains
<1>1. /\ pc = "selAck" /\ up # <<>> /\ UNCHANGED slave /\ lates' = lates
      /\ faults' + lates' <= MaxMishaps
  BY DEF Selected, Reads, Bounded
<1>2. Head(up) = up[1]
  BY <1>1, LineTyped, TailFacts
<1>3. ASSUME NEW r \in Return, Returns(r), Drops, UNCHANGED <<down, taken>>,
             faults' = faults \/ faults' = faults + 1, From(r)
      PROVE  EndsWithout
  BY <1>1, <1>3 DEF EndsWithout, Ends, Returns, Logs, Ticks
<1>4. up' = Tail(up) => Drops
  BY <1>1, TailDrops
<1>5. CASE Is(Head(up), "ACK") /\ up' = Tail(up)
  <2>1. CASE Written(Command) /\ Goto("cmdAck")
    BY <1>1, <1>2, <1>5, <2>1
    DEF SendsCommand, Reading, Ticks, Goto, Written
  <2>2. CASE WriteFails /\ Returns("WRITE_FAILED") /\ UNCHANGED taken
    BY <1>1, <1>3, <1>4, <1>5, <2>2
    DEF From, Return, Failure, WriteFails, Fault
  <2>3. CASE Returns("BAD_SELECT_COMMAND") /\ UNCHANGED <<down, taken, faults>>
    BY <1>1, <1>3, <1>4, <1>5, <2>3 DEF From, Return, Failure
  <2> QED
    BY <1>5, <2>1, <2>2, <2>3 DEF Selected, Is, Refused, Known
<1>6. CASE Refused(Head(up)) /\ up' = Tail(up) /\ Returns(Refusal(Head(up)))
             /\ UNCHANGED <<down, taken, faults>>
  BY <1>1, <1>3, <1>4, <1>6 DEF From, Return, Failure, Refusal
<1>7. CASE up' = Tail(up) /\ Goto("drain") /\ UNCHANGED <<down, faults>>
  BY <1>1, <1>7 DEF Drains, Reading, Ticks, Goto
<1>8. CASE /\ Flush(Tail(up)) /\ Returns("UNEXPECTED_SLAVE_ANSWER")
           /\ UNCHANGED <<down, taken, faults>>
  <2>1. Drops
    BY <1>1, <1>8, FlushTailDrops
  <2> QED
    BY <1>1, <1>3, <1>8, <2>1 DEF From, Return, Failure
<1> QED
  BY <1>5, <1>6, <1>7, <1>8 DEF Selected

(* Drain, *)
LEMMA DrainCases ==
  ASSUME Typed, Drain, Bounded
  PROVE  EndsWithout \/ Drains
<1>1. /\ pc = "drain" /\ up # <<>> /\ UNCHANGED slave /\ lates' = lates
      /\ faults' + lates' <= MaxMishaps /\ UNCHANGED <<down, taken, faults>>
  BY DEF Drain, Reads, Bounded
<1>2. CASE Flush(Tail(up)) /\ Returns("UNEXPECTED_SLAVE_ANSWER")
  <2>1. Drops
    BY <1>1, <1>2, FlushTailDrops
  <2> QED
    BY <1>1, <1>2, <2>1
    DEF EndsWithout, Ends, Returns, Logs, Ticks, From, Return, Failure
<1>3. CASE up' = Tail(up) /\ UNCHANGED master
  BY <1>1, <1>3 DEF Drains, Reading, Ticks, master
<1> QED
  BY <1>2, <1>3 DEF Drain

(* Commanded, *)
LEMMA CommandedCases ==
  ASSUME Typed, Commanded, Bounded
  PROVE  EndsWithout
<1>1. /\ pc = "cmdAck" /\ up # <<>> /\ UNCHANGED slave /\ lates' = lates
      /\ faults' + lates' <= MaxMishaps /\ UNCHANGED <<down, taken, faults>>
  BY DEF Commanded, Reads, Bounded
<1>2. Head(up) = up[1]
  BY <1>1, LineTyped, TailFacts
<1>3. ASSUME NEW r \in Return, Returns(r), Drops, From(r)
      PROVE  EndsWithout
  BY <1>1, <1>3 DEF EndsWithout, Ends, Returns, Logs, Ticks
<1>4. up' = Tail(up) => Drops
  BY <1>1, TailDrops
<1>5. CASE Is(Head(up), "ACK") /\ up' = Tail(up) /\ Returns("chars")
  BY <1>1, <1>2, <1>3, <1>4, <1>5 DEF From, Return, Failure
<1>6. CASE Refused(Head(up)) /\ up' = Tail(up) /\ Returns(Refusal(Head(up)))
  BY <1>1, <1>2, <1>3, <1>4, <1>6
  DEF From, Return, Failure, Refusal, Refused, Is
<1>7. CASE up' = Tail(up) /\ Returns("UNEXPECTED_SLAVE_ANSWER")
  BY <1>1, <1>3, <1>4, <1>7 DEF From, Return, Failure
<1>8. CASE Flush(Tail(up)) /\ Returns("UNEXPECTED_SLAVE_ANSWER")
  <2>1. Drops
    BY <1>1, <1>8, FlushTailDrops
  <2> QED
    BY <1>1, <1>3, <1>8, <2>1 DEF From, Return, Failure
<1> QED
  BY <1>5, <1>6, <1>7, <1>8 DEF Commanded

(* and SelectTimesOut. *)
LEMMA SelectTimesOutCases ==
  ASSUME Typed, SelectTimesOut, Bounded
  PROVE  EndsWithout
<1>1. /\ pc \in {"selAck", "drain", "cmdAck"} /\ UNCHANGED slave
      /\ faults' + lates' <= MaxMishaps /\ UNCHANGED <<down, taken, faults>>
      /\ TimedOut /\ Returns("UNEXPECTED_SLAVE_ANSWER")
  BY DEF SelectTimesOut, Bounded
<1>2. Drops
  BY FlushDrops, NothingDrops DEF SelectTimesOut
<1>3. /\ lates' = lates \/ lates' = lates + 1
      /\ lates' = lates => down = <<>>
  BY <1>1, LineTyped DEF TimedOut, Late
<1> QED
  BY <1>1, <1>2, <1>3
  DEF EndsWithout, Ends, Returns, Logs, Ticks, From, Return, Failure

(* The steps of poll: Polled, *)
LEMMA PolledCases ==
  ASSUME Typed, Polled, Bounded
  PROVE  EndsWithout \/ BeginsText
<1>1. /\ pc = "pollAck" /\ up # <<>> /\ UNCHANGED slave /\ lates' = lates
      /\ faults' + lates' <= MaxMishaps /\ UNCHANGED <<down, faults>>
  BY DEF Polled, Reads, Bounded
<1>2. Head(up) = up[1]
  BY <1>1, LineTyped, TailFacts
<1>3. CASE Is(Head(up), "STX")
  BY <1>1, <1>2, <1>3 DEF Polled, BeginsText, Reading, Ticks, Goto
<1>4. CASE ~Is(Head(up), "STX")
  <2>1. Returns(PollReturn(Head(up))) /\ UNCHANGED taken
    BY <1>4 DEF Polled
  <2>2. Drops
    BY <1>1, <1>4, TailDrops, FlushTailDrops DEF Polled
  <2>3. PollReturn(Head(up))
          \in {"NO_TRAFFIC", "0", "NAK", "UNEXPECTED_SLAVE_ANSWER"}
    BY DEF PollReturn
  <2> QED
    BY <1>1, <2>1, <2>2, <2>3
    DEF EndsWithout, Ends, Returns, Logs, Ticks, From, Return, Failure
<1> QED
  BY <1>3, <1>4

(* PollTimesOut, *)
LEMMA PollTimesOutCases ==
  ASSUME Typed, PollTimesOut, Bounded
  PROVE  EndsWithout
<1>1. /\ pc = "pollAck" /\ UNCHANGED <<line, taken, slave, faults>>
      /\ faults' + lates' <= MaxMishaps /\ TimedOut
      /\ Returns("NO_ACK_FROM_SLAVE")
  BY DEF PollTimesOut, Bounded
<1>2. Drops /\ down' = down
  BY <1>1, NothingDrops DEF line
<1>3. /\ lates' = lates \/ lates' = lates + 1
      /\ lates' = lates => down = <<>>
  BY <1>1, LineTyped DEF TimedOut, Late
<1> QED
  BY <1>1, <1>2, <1>3
  DEF EndsWithout, Ends, Returns, Logs, Ticks, From, Return, Failure

(* ReadText, *)
LEMMA ReadTextCases ==
  ASSUME Typed, ReadText, Bounded
  PROVE  KeepsText \/ EndsText
<1>1. /\ pc = "text" /\ up # <<>> /\ UNCHANGED slave /\ lates' = lates
      /\ faults' + lates' <= MaxMishaps /\ UNCHANGED <<down, faults>>
      /\ ~Full /\ up' = Tail(up)
  BY DEF ReadText, Reads, Bounded
<1>2. Head(up) = up[1]
  BY <1>1, LineTyped, TailFacts
<1> QED
  BY <1>1, <1>2 DEF ReadText, KeepsText, EndsText, Reading, Ticks

(* NoTerminator, *)
LEMMA NoTerminatorCases ==
  ASSUME Typed, NoTerminator, Bounded
  PROVE  EndsWithout
<1>1. /\ pc = "text" /\ UNCHANGED <<taken, slave>>
      /\ faults' + lates' <= MaxMishaps /\ Flush(up) /\ SendEOT
      /\ Returns("MALFORMED_POLL_ANSWER")
  BY DEF NoTerminator, Bounded
<1>2. Drops
  BY <1>1, FlushDrops
<1>3. lates' = lates \/ lates' = lates + 1
  BY DEF NoTerminator, TimedOut, Late
<1>4. /\ down' = down \/ down' = Append(down, Char("EOT"))
      /\ faults' = faults \/ faults' = faults + 1
  BY <1>1 DEF SendEOT, Written, WriteFails, Fault
<1> QED
  BY <1>1, <1>2, <1>3, <1>4
  DEF EndsWithout, Ends, Returns, Logs, Ticks, From, Return, Failure,
      PollReads

(* the judgement, *)
LEMMA JudgeCases ==
  ASSUME Typed, NEW crcOk \in BOOLEAN, NEW rest, NEW n \in {filled, filled + 1},
         Judge(crcOk, rest, n), Bounded,
         pc = "crc", UNCHANGED <<slave, taken>>,
         \/ /\ up # <<>> /\ rest = Tail(up)
            /\ crcOk => Matches(up[1], frame)
            /\ lates' = lates
         \/ rest = up /\ TimedOut
  PROVE  EndsWithout \/ Acknowledges
<1>1. /\ Flush(rest) => Drops
      /\ up' = rest => Drops
  BY TailDrops, FlushTailDrops, FlushDrops, NothingDrops
<1>2. /\ lates' = lates \/ lates' = lates + 1
      /\ lates' = lates => up # <<>> \/ (up = <<>> /\ down = <<>>)
  BY LineTyped DEF TimedOut, Late
<1>3. faults' + lates' <= MaxMishaps
  BY DEF Bounded
<1>4. ASSUME NEW r \in Return, Returns(r), Drops, From(r),
             down' = down \/ down' = Append(down, Char("EOT")),
             faults' = faults \/ faults' = faults + 1
      PROVE  EndsWithout
  BY <1>2, <1>3, <1>4
  DEF EndsWithout, Ends, Returns, Logs, Ticks, PollReads
<1>5. SendEOT => /\ down' = down \/ down' = Append(down, Char("EOT"))
                 /\ faults' = faults \/ faults' = faults + 1
  BY DEF SendEOT, Written, WriteFails, Fault
<1>6. CASE Flush(rest) /\ SendEOT /\ Returns("UNEXPECTED_SLAVE_ANSWER")
  BY <1>1, <1>4, <1>5, <1>6 DEF From, Return, Failure
<1>7. CASE /\ Sender = call.s /\ call.fits /\ crcOk /\ Len(frame) > 1
           /\ up' = rest
           /\ \/ /\ Written(Char("ACK"))
                 /\ pc' = "eot" /\ filled' = n /\ UNCHANGED <<call, frame, log>>
              \/ WriteFails /\ Returns("ERROR_WRITING_ACK")
  <2>1. CASE WriteFails /\ Returns("ERROR_WRITING_ACK")
    BY <1>1, <1>4, <1>7, <2>1 DEF From, Return, Failure, WriteFails, Fault
  <2>2. CASE /\ Written(Char("ACK"))
             /\ pc' = "eot" /\ filled' = n /\ UNCHANGED <<call, frame, log>>
    <3>1. down' = Append(down, Char("ACK")) /\ faults' = faults
      BY <2>2 DEF Written
    <3>2. /\ pc' = "eot" /\ filled' \in {filled, filled + 1}
          /\ UNCHANGED <<call, frame, log, taken>>
      BY <2>2
    <3>3. \/ /\ up # <<>> /\ Matches(up[1], frame) /\ up' = Tail(up)
             /\ lates' = lates
          \/ up' = up /\ (lates' = lates => up = <<>> /\ down = <<>>)
      BY <1>7, LineTyped DEF TimedOut, Late
    <3> QED
      BY <1>2, <1>3, <1>7, <3>1, <3>2, <3>3 DEF Acknowledges, Ticks
  <2> QED
    BY <1>7, <2>1, <2>2
<1>8. CASE SendEOT /\ Flush(rest)
           /\ Returns(CASE ~call.fits -> "NO_ETX_MATCHED"
                    [] call.fits /\ ~crcOk -> "POLL_ANSWER_CRC_FAILED"
                    [] OTHER -> "0")
  <2>1. PICK r \in {"NO_ETX_MATCHED", "POLL_ANSWER_CRC_FAILED", "0"} :
          Returns(r)
    BY <1>8
  <2> QED
    BY <1>1, <1>4, <1>5, <1>8, <2>1 DEF From, Return, Failure
<1> QED
  BY <1>6, <1>7, <1>8 DEF Judge

(* ReadCrc and MissCrc, *)
LEMMA CrcCases ==
  ASSUME Typed, ReadCrc \/ MissCrc, Bounded
  PROVE  EndsWithout \/ Acknowledges
<1>1. CASE ReadCrc
  <2>1. /\ pc = "crc" /\ up # <<>> /\ UNCHANGED <<slave, taken>>
        /\ lates' = lates
    BY <1>1 DEF ReadCrc, Reads
  <2>2. Head(up) = up[1]
    BY <2>1, LineTyped, TailFacts
  <2>3. Judge(Matches(up[1], frame), Tail(up), filled + 1)
    BY <1>1, <2>2 DEF ReadCrc
  <2>4. Matches(up[1], frame) \in BOOLEAN
    BY DEF Matches
  <2> QED
    BY <2>1, <2>3, <2>4, JudgeCases
<1>2. CASE MissCrc
  <2>1. /\ pc = "crc" /\ TimedOut /\ UNCHANGED <<slave, taken>>
    BY <1>2 DEF MissCrc
  <2>2. PICK crcOk \in BOOLEAN : Judge(crcOk, up, filled)
    BY <1>2 DEF MissCrc
  <2> QED
    BY <2>1, <2>2, JudgeCases
<1> QED
  BY <1>1, <1>2

(* and the slave's last word. *)
LEMMA LastWordCases ==
  ASSUME Typed, Confirmed \/ NotConfirmed, Bounded
  PROVE  EndsWithout \/ EndsWithText
<1>1. CASE Confirmed
  <2>1. /\ pc = "eot" /\ up # <<>> /\ UNCHANGED slave /\ lates' = lates
        /\ faults' + lates' <= MaxMishaps /\ UNCHANGED <<down, faults>>
        /\ up' = Tail(up)
    BY <1>1 DEF Confirmed, Reads, Bounded
  <2>2. Head(up) = up[1]
    BY <2>1, LineTyped, TailFacts
  <2>3. Drops
    BY <2>1, TailDrops
  <2>4. CASE Is(Head(up), "EOT")
    BY <1>1, <2>1, <2>2, <2>3, <2>4
    DEF Confirmed, EndsWithText, Ends, Returns, Logs, Ticks
  <2>5. CASE ~Is(Head(up), "EOT")
    BY <1>1, <2>1, <2>2, <2>3, <2>5
    DEF Confirmed, EndsWithout, Ends, Returns, Logs, Ticks, From, Return,
        Failure
  <2> QED
    BY <2>4, <2>5
<1>2. CASE NotConfirmed
  <2>1. /\ pc = "eot" /\ UNCHANGED <<line, taken, slave, faults>>
        /\ faults' + lates' <= MaxMishaps /\ TimedOut
        /\ Returns("NO_ACK_FROM_SLAVE")
    BY <1>2 DEF NotConfirmed, Bounded
  <2>2. Drops /\ down' = down
    BY <2>1, NothingDrops DEF line
  <2>3. /\ lates' = lates \/ lates' = lates + 1
        /\ lates' = lates => down = <<>>
    BY <2>1, LineTyped DEF TimedOut, Late
  <2> QED
    BY <2>1, <2>2, <2>3
    DEF EndsWithout, Ends, Returns, Logs, Ticks, From, Return, Failure
<1> QED
  BY <1>1, <1>2

(* The start of a call. *)
LEMMA EnquireCases ==
  ASSUME Typed, NEW op, NEW enq, NEW l, Enquire(op, enq, l), Bounded
  PROVE  Enquires(op, enq, l)
<1>1. /\ pc = "idle" /\ Len(log) < MaxCalls /\ FlushBefore
      /\ UNCHANGED <<filled, slave, taken>> /\ faults' + lates' <= MaxMishaps
  BY DEF Enquire, Bounded
<1>2. Drops
  BY <1>1, FlushDrops DEF FlushBefore
<1>3. /\ lates' = lates \/ lates' = lates + 1
      /\ lates' = lates => up' = <<>>
  BY <1>1, LineTyped DEF FlushBefore, Late
<1>4. PICK s \in Slaves, fits \in BOOLEAN :
       \/ /\ Written(Tok(enq, s, 0))
          /\ call' = [op |-> op, s |-> s, fits |-> fits]
          /\ pc' = l /\ UNCHANGED <<frame, log>>
       \/ /\ WriteFails
          /\ log' = Append(log, [op |-> op, s |-> s, r |-> "WRITE_FAILED"])
          /\ UNCHANGED <<pc, call, frame>>
  BY DEF Enquire
<1>5. CASE /\ Written(Tok(enq, s, 0))
           /\ call' = [op |-> op, s |-> s, fits |-> fits]
           /\ pc' = l /\ UNCHANGED <<frame, log>>
  BY <1>1, <1>2, <1>3, <1>5 DEF Written, Enquires, Ticks
<1>6. CASE /\ WriteFails
           /\ log' = Append(log, [op |-> op, s |-> s, r |-> "WRITE_FAILED"])
           /\ UNCHANGED <<pc, call, frame>>
  BY <1>1, <1>2, <1>3, <1>6 DEF WriteFails, Fault, Enquires, Ticks, Logs
<1> QED
  BY <1>4, <1>5, <1>6

(* Every step is one of these, a slave's, or the line's. *)
LEMMA StepCases ==
  ASSUME Typed, Next
  PROVE  \/ Enquires("select", "SELECT", "selAck")
         \/ Enquires("poll", "POLL", "pollAck")
         \/ EndsWithout \/ EndsWithText
         \/ SendsCommand \/ Drains
         \/ BeginsText \/ KeepsText \/ EndsText \/ Acknowledges
         \/ Slave \/ Line
<1>1. CASE Begin
  BY <1>1, EnquireCases DEF Begin, Select, Poll
<1>2. CASE Proceed
  BY <1>2, SelectedCases, DrainCases, CommandedCases, SelectTimesOutCases,
     PolledCases, PollTimesOutCases, ReadTextCases, NoTerminatorCases,
     CrcCases, LastWordCases DEF Proceed
<1> QED
  BY <1>1, <1>2 DEF Next

----------------------------------------------------------------------------
(* Types.                                                                  *)

(* Where the invariant starts. *)
LEMMA TypedInit == Init => Typed
<1> SUFFICES ASSUME Init PROVE Typed
  OBVIOUS
<1>1. TypeOK
  BY ConstantsAssumption, EmptySeq
  DEF Init, TypeOK, NoCall, NoHold
<1>2. Stored
  BY EmptySeq DEF Init, Stored
<1> QED
  BY <1>1, <1>2, ConstantsAssumption
  DEF Init, Typed, SelectReads, PollReads, NoHold

(* A master's write leaves only what may be sent. *)
LEMMA DownAppended ==
  ASSUME Typed, NEW t \in Token, Sendable(t), down' = Append(down, t)
  PROVE  /\ down' \in Seq(Token)
         /\ \A i \in 1..Len(down') : Sendable(down'[i])
<1>1. down \in Seq(Token) /\ \A i \in 1..Len(down) : Sendable(down[i])
  BY DEF Typed, TypeOK
<1>2. /\ Append(down, t) \in Seq(Token)
      /\ Len(Append(down, t)) = Len(down) + 1
      /\ Append(down, t)[Len(down) + 1] = t
      /\ \A i \in 1..Len(down) : Append(down, t)[i] = down[i]
  BY <1>1, AppendProperties
<1>3. ASSUME NEW i \in 1..(Len(down) + 1)
      PROVE  Sendable(Append(down, t)[i])
  <2>1. i = Len(down) + 1 \/ i \in 1..Len(down)
    BY <1>1, LenProperties
  <2> QED
    BY <1>1, <1>2, <2>1
<1> QED
  BY <1>2, <1>3

(* And so does a slave that hears a token. *)
LEMMA DownHeard ==
  ASSUME Typed, down # <<>>, down' = Tail(down)
  PROVE  /\ down' \in Seq(Token) /\ Head(down) = down[1]
         /\ down[1] \in Token /\ Sendable(down[1])
         /\ \A i \in 1..Len(down') : Sendable(down'[i])
<1>1. down \in Seq(Token) /\ \A i \in 1..Len(down) : Sendable(down[i])
  BY DEF Typed, TypeOK
<1>2. /\ Tail(down) \in Seq(Token) /\ Len(down) >= 1 /\ Len(down) \in Nat
      /\ Head(down) = down[1] /\ down[1] \in Token
      /\ Len(Tail(down)) = Len(down) - 1
      /\ \A i \in 1..(Len(down) - 1) : Tail(down)[i] = down[i + 1]
  BY <1>1, TailFacts, LenProperties
<1>3. Sendable(down[1])
  BY <1>1, <1>2
<1>4. ASSUME NEW i \in 1..(Len(down) - 1)
      PROVE  Sendable(Tail(down)[i])
  <2>1. i + 1 \in 1..Len(down) /\ Tail(down)[i] = down[i + 1]
    BY <1>2
  <2> QED
    BY <1>1, <2>1
<1> QED
  BY <1>2, <1>3, <1>4

(* An entry of the log is one. *)
LEMMA Logged ==
  ASSUME Typed, pc # "idle", NEW r \in Return, Logs(call.op, call.s, r)
  PROVE  /\ log' \in Seq([op: {"select", "poll"}, s: Slaves, r: Return])
         /\ Len(log') = Len(log) + 1 /\ Len(log') <= MaxCalls
<1>1. /\ call \in Call /\ Len(log) < MaxCalls
      /\ log \in Seq([op: {"select", "poll"}, s: Slaves, r: Return])
  BY DEF Typed, TypeOK
<1>2. [op |-> call.op, s |-> call.s, r |-> r]
        \in [op: {"select", "poll"}, s: Slaves, r: Return]
  BY <1>1 DEF Call
<1>3. Len(log') = Len(log) + 1
      /\ log' \in Seq([op: {"select", "poll"}, s: Slaves, r: Return])
  BY <1>1, <1>2, AppendProperties DEF Logs
<1> QED
  BY <1>1, <1>3, LineTyped

(* The end of a call keeps the types. *)
LEMMA TypedEnds ==
  ASSUME Typed, Ends, NEW r \in Return, Logs(call.op, call.s, r),
         taken' \in [Slaves -> Seq(Seq(Token))],
         \A s \in Slaves : \A i \in 1..Len(taken'[s]) : Len(taken'[s][i]) >= 1
  PROVE  Typed'
<1>1. /\ down' \in Seq(Token)
      /\ \A i \in 1..Len(down') : Sendable(down'[i])
  <2>1. CASE down' = down
    BY <2>1 DEF Typed, TypeOK
  <2>2. CASE down' = Append(down, Char("EOT"))
    <3>1. Char("EOT") \in Token /\ Sendable(Char("EOT"))
      BY CharFacts DEF Control, Sendable, Enquiry
    <3> QED
      BY <2>2, <3>1, DownAppended
  <2> QED
    BY <2>1, <2>2 DEF Ends
<1>2. /\ log' \in Seq([op: {"select", "poll"}, s: Slaves, r: Return])
      /\ Len(log') <= MaxCalls
  BY Logged DEF Ends
<1>3. /\ pc' = "idle" /\ call' = NoCall /\ frame' = <<>> /\ filled' = 0
      /\ up' \in Seq(Token)
      /\ hold' = hold /\ executed' = executed /\ acked' = acked
  BY DEF Ends, Drops, slave
<1>4. /\ faults' \in Nat /\ lates' \in Nat /\ faults' + lates' <= MaxMishaps
  BY LineTyped DEF Ends, Ticks
<1>5. TypeOK'
  <2>1. /\ hold \in [s: Slaves \cup {NoSlave}, st: {"none", "selected", "talking"}]
        /\ executed \in Seq(1..MaxCalls)
        /\ acked \in [Slaves -> 0..MaxAnswers]
    BY DEF Typed, TypeOK
  <2>2. frame' \in Seq(Token)
    BY <1>3, EmptySeq
  <2>3. filled' \in 0..(MAX_ANSWER_SIZE + 1) /\ ~(filled' > MAX_ANSWER_SIZE)
    BY <1>3, ConstantsAssumption
  <2> QED
    BY <1>1, <1>2, <1>3, <1>4, <2>1, <2>2, <2>3 DEF TypeOK
<1>6. hold.st = "talking" => hold.s \in Slaves /\ acked[hold.s] < MaxAnswers
  BY DEF Typed
<1>7. Stored'
  BY <1>3, EmptySeq DEF Stored
<1> QED
  BY <1>1, <1>2, <1>3, <1>5, <1>6, <1>7 DEF Typed, SelectReads, PollReads

(* Without a text, *)
LEMMA TypedEndsWithout ==
  ASSUME Typed, EndsWithout
  PROVE  Typed'
<1>1. PICK r \in Return : Logs(call.op, call.s, r)
  BY DEF EndsWithout
<1>2. taken' = taken /\ Ends
  BY DEF EndsWithout
<1>3. /\ taken \in [Slaves -> Seq(Seq(Token))]
      /\ \A s \in Slaves : \A i \in 1..Len(taken[s]) : Len(taken[s][i]) >= 1
  BY DEF Typed, TypeOK
<1> QED
  BY <1>1, <1>2, <1>3, TypedEnds

(* What poll hands out. *)
LEMMA TakenText ==
  ASSUME Typed, EndsWithText
  PROVE  /\ call.s \in Slaves /\ taken' \in [Slaves -> Seq(Seq(Token))]
         /\ Tail(frame) \in Seq(Token) /\ Len(Tail(frame)) >= 1
         /\ Tail(frame)[1] = frame[2]
         /\ \A s \in Slaves \ {call.s} : taken'[s] = taken[s]
         /\ taken'[call.s] = Append(taken[call.s], Tail(frame))
<1>1. /\ call \in Call /\ frame \in Seq(Token) /\ Len(frame) > 1
      /\ taken \in [Slaves -> Seq(Seq(Token))]
  BY DEF Typed, TypeOK, EndsWithText
<1>2. call.s \in Slaves
  BY <1>1 DEF Call
<1>3. frame # <<>> /\ Len(frame) \in Nat
  BY <1>1, EmptySeq, LenProperties
<1>4. /\ Tail(frame) \in Seq(Token) /\ Len(Tail(frame)) >= 1
      /\ Tail(frame)[1] = frame[2]
  BY <1>1, <1>3, TailFacts
<1>5. Append(taken[call.s], Tail(frame)) \in Seq(Seq(Token))
  BY <1>1, <1>2, <1>4, AppendProperties
<1>6. taken' = [taken EXCEPT ![call.s] = Append(@, Tail(frame))]
  BY DEF EndsWithText
<1> QED
  BY <1>1, <1>2, <1>4, <1>5, <1>6

(* and with one. *)
LEMMA TypedEndsWithText ==
  ASSUME Typed, EndsWithText
  PROVE  Typed'
<1>1. ASSUME NEW s \in Slaves, NEW i \in 1..Len(taken'[s])
      PROVE  Len(taken'[s][i]) >= 1
  <2>1. \A j \in 1..Len(taken[s]) : Len(taken[s][j]) >= 1
    BY DEF Typed
  <2>2. CASE s # call.s
    BY <1>1, <2>1, <2>2, TakenText
  <2>3. CASE s = call.s
    <3>1. taken[s] \in Seq(Seq(Token))
      BY DEF Typed, TypeOK
    <3>2. /\ Len(taken'[s]) = Len(taken[s]) + 1
          /\ taken'[s][Len(taken[s]) + 1] = Tail(frame)
          /\ \A j \in 1..Len(taken[s]) : taken'[s][j] = taken[s][j]
      <4>1. taken'[s] = Append(taken[s], Tail(frame))
            /\ Tail(frame) \in Seq(Token)
        BY <2>3, TakenText
      <4>2. /\ Len(Append(taken[s], Tail(frame))) = Len(taken[s]) + 1
            /\ Append(taken[s], Tail(frame))[Len(taken[s]) + 1] = Tail(frame)
            /\ \A j \in 1..Len(taken[s]) :
                 Append(taken[s], Tail(frame))[j] = taken[s][j]
        BY <3>1, <4>1, AppendProperties
      <4> QED
        BY <4>1, <4>2
    <3>3. i = Len(taken[s]) + 1 \/ i \in 1..Len(taken[s])
      BY <1>1, <3>1, <3>2, LenProperties
    <3> QED
      BY <2>1, <3>2, <3>3, TakenText
  <2> QED
    BY <2>2, <2>3
<1>2. "chars" \in Return /\ Ends /\ Logs(call.op, call.s, "chars")
  BY DEF Return, EndsWithText
<1> QED
  BY <1>1, <1>2, TakenText, TypedEnds

(* A call that goes on keeps the types. *)
LEMMA TypedGoesOn ==
  ASSUME Typed, pc # "idle", Ticks, up' \in Seq(Token),
         UNCHANGED <<call, log, taken, slave>>,
         \/ pc \in SelectReads /\ pc' \in SelectReads
         \/ pc \in PollReads /\ pc' \in PollReads,
         pc' = "eot" => Len(frame') > 1,
         frame' \in Seq(Token), filled' \in 0..(MAX_ANSWER_SIZE + 1),
         filled' > MAX_ANSWER_SIZE => pc' = "eot", Stored',
         down' \in Seq(Token), \A i \in 1..Len(down') : Sendable(down'[i])
  PROVE  Typed'
<1>1. /\ call' = call /\ log' = log /\ taken' = taken
      /\ hold' = hold /\ executed' = executed /\ acked' = acked
  BY DEF slave
<1>2. /\ faults' \in Nat /\ lates' \in Nat /\ faults' + lates' <= MaxMishaps
  <2>1. faults \in Nat /\ lates \in Nat
    BY LineTyped
  <2> QED
    BY <2>1 DEF Ticks
<1>3. TypeOK'
  BY <1>1, <1>2 DEF Typed, TypeOK, SelectReads, PollReads
<1>4. /\ Len(log) <= MaxCalls
      /\ call \in Call /\ Len(log) < MaxCalls
      /\ pc \in SelectReads => call.op = "select"
      /\ pc \in PollReads => call.op = "poll"
      /\ hold.st = "talking" => hold.s \in Slaves /\ acked[hold.s] < MaxAnswers
      /\ \A s \in Slaves : \A i \in 1..Len(taken[s]) : Len(taken[s][i]) >= 1
  BY DEF Typed
<1>5. /\ pc' # "idle"
      /\ pc' \in SelectReads => pc \in SelectReads
      /\ pc' \in PollReads => pc \in PollReads
  BY DEF SelectReads, PollReads
<1> QED
  BY <1>1, <1>3, <1>4, <1>5 DEF Typed

(* The reads that lead to the next one, *)
LEMMA TypedReading ==
  ASSUME Typed, SendsCommand \/ Drains \/ BeginsText \/ KeepsText \/ EndsText
  PROVE  Typed'
<1>1. PICK p \in SelectReads \cup PollReads, q \in SelectReads \cup PollReads :
        /\ Reading(p, q) /\ q # "eot"
        /\ (p \in SelectReads /\ q \in SelectReads)
             \/ (p \in PollReads /\ q \in PollReads)
  BY DEF SendsCommand, Drains, BeginsText, KeepsText, EndsText, SelectReads,
         PollReads
<1>2. /\ pc = p /\ pc' = q /\ up # <<>> /\ up' = Tail(up) /\ Ticks
      /\ UNCHANGED <<call, log, taken, slave>>
  BY <1>1 DEF Reading
<1>3. pc # "idle"
  BY <1>2 DEF SelectReads, PollReads
<1>4. up' \in Seq(Token) /\ up[1] \in Token
  BY <1>2, LineTyped, TailFacts
<1>5. /\ down \in Seq(Token) /\ frame \in Seq(Token)
      /\ \A i \in 1..Len(down) : Sendable(down[i])
      /\ filled \in 0..(MAX_ANSWER_SIZE + 1) /\ Len(frame) \in Nat
      /\ MAX_ANSWER_SIZE \in Nat
  BY LenProperties, ConstantsAssumption DEF Typed, TypeOK
<1>6. down' \in Seq(Token) /\ \A i \in 1..Len(down') : Sendable(down'[i])
  <2>1. CASE SendsCommand
    <3>1. call \in Call /\ Len(log) < MaxCalls
      BY <1>3 DEF Typed
    <3>2. This \in 1..MaxCalls
      BY <3>1, LineTyped DEF This
    <3>3. Command \in Token /\ Sendable(Command)
      <4>1. This \in Nat /\ call.s \in Slaves
        BY <3>1, <3>2, LineTyped DEF Call
      <4>2. /\ Command \in Token /\ Command.c = "CMD" /\ Command.n = This
        BY <4>1, TokFacts DEF Command
      <4> QED
        BY <3>2, <4>2 DEF Sendable, Enquiry
    <3> QED
      BY <2>1, <3>3, DownAppended DEF SendsCommand
  <2>2. CASE down' = down
    BY <1>5, <2>2
  <2> QED
    BY <2>1, <2>2 DEF Drains, BeginsText, KeepsText, EndsText
<1>7. p # "crc" /\ p # "eot" /\ filled = Len(frame) /\ filled <= MAX_ANSWER_SIZE
  <2>1. p # "crc" /\ p # "eot"
    BY <1>2 DEF SendsCommand, Drains, BeginsText, KeepsText, EndsText, Reading
  <2> QED
    BY <1>2, <1>5, <2>1 DEF Typed, TypeOK, Stored
<1>8. /\ frame' \in Seq(Token) /\ filled' \in 0..MAX_ANSWER_SIZE
      /\ Stored'
  <2>1. CASE KeepsText
    <3>1. /\ Append(frame, up[1]) \in Seq(Token)
          /\ Len(Append(frame, up[1])) = Len(frame) + 1
      BY <1>4, <1>5, AppendProperties
    <3>2. filled < MAX_ANSWER_SIZE
      BY <1>5, <2>1 DEF KeepsText, Full
    <3>3. /\ frame' = Append(frame, up[1]) /\ filled' = filled + 1
          /\ pc' = "text"
      BY <2>1 DEF KeepsText, Reading
    <3> QED
      BY <1>5, <1>7, <3>1, <3>2, <3>3 DEF Stored
  <2>2. CASE EndsText
    <3>1. filled < MAX_ANSWER_SIZE
      BY <1>5, <2>2 DEF EndsText, Full
    <3>2. frame' = frame /\ filled' = filled + 1 /\ pc' = "crc"
      BY <2>2 DEF EndsText, Reading
    <3> QED
      BY <1>5, <1>7, <3>1, <3>2 DEF Stored
  <2>3. CASE SendsCommand \/ Drains \/ BeginsText
    <3>1. /\ frame' = frame /\ filled' = filled
          /\ pc' \in {"cmdAck", "drain", "text"}
      BY <2>3 DEF SendsCommand, Drains, BeginsText, Reading
    <3> QED
      BY <1>5, <1>7, <3>1 DEF Stored
  <2> QED
    BY <2>1, <2>2, <2>3
<1>9. filled' \in 0..(MAX_ANSWER_SIZE + 1) /\ ~(filled' > MAX_ANSWER_SIZE)
  BY <1>5, <1>8
<1> QED
  BY <1>1, <1>2, <1>3, <1>4, <1>6, <1>8, <1>9, TypedGoesOn

(* the judgement, *)
LEMMA TypedAcknowledges ==
  ASSUME Typed, Acknowledges
  PROVE  Typed'
<1>1. /\ pc = "crc" /\ pc' = "eot" /\ Len(frame) > 1 /\ Ticks
      /\ down' = Append(down, Char("ACK"))
      /\ frame' = frame /\ UNCHANGED <<call, log, taken, slave>>
  BY DEF Acknowledges
<1>2. up' \in Seq(Token)
  BY LineTyped, TailFacts DEF Acknowledges
<1>3. Char("ACK") \in Token /\ Sendable(Char("ACK"))
  BY CharFacts DEF Control, Sendable, Enquiry
<1>4. down' \in Seq(Token) /\ \A i \in 1..Len(down') : Sendable(down'[i])
  BY <1>1, <1>3, DownAppended
<1>5. frame' \in Seq(Token)
  BY <1>1 DEF Typed, TypeOK
<1>6. pc # "idle" /\ pc \in PollReads /\ pc' \in PollReads
  BY <1>1 DEF PollReads
<1>7. filled' \in 0..(MAX_ANSWER_SIZE + 1) /\ Stored'
  <2>1. filled \in 0..(MAX_ANSWER_SIZE + 1) /\ ~(filled > MAX_ANSWER_SIZE)
    BY <1>1 DEF Typed, TypeOK
  <2>2. filled' \in {filled, filled + 1}
    BY DEF Acknowledges
  <2> QED
    BY <1>1, <2>1, <2>2, ConstantsAssumption DEF Stored
<1> QED
  BY <1>1, <1>2, <1>4, <1>5, <1>6, <1>7, TypedGoesOn

(* the start of a call, *)
LEMMA TypedEnquires ==
  ASSUME Typed, \/ Enquires("select", "SELECT", "selAck")
                \/ Enquires("poll", "POLL", "pollAck")
  PROVE  Typed'
<1>1. PICK op \in {"select", "poll"}, enq \in Enquiry,
           l \in {"selAck", "pollAck"} :
        /\ Enquires(op, enq, l)
        /\ op = "select" <=> l = "selAck"
  BY DEF Enquiry
<1>2. PICK s \in Slaves :
       \/ /\ down' = Append(down, Tok(enq, s, 0)) /\ faults' = faults
          /\ \E fits \in BOOLEAN : call' = [op |-> op, s |-> s, fits |-> fits]
          /\ pc' = l /\ UNCHANGED log
       \/ /\ Logs(op, s, "WRITE_FAILED") /\ UNCHANGED <<down, pc, call>>
  BY <1>1 DEF Enquires
<1>3. /\ pc = "idle" /\ Len(log) < MaxCalls /\ Ticks /\ up' \in Seq(Token)
      /\ frame' = frame /\ filled' = filled /\ taken' = taken
      /\ hold' = hold /\ executed' = executed /\ acked' = acked
  BY <1>1 DEF Enquires, Drops, slave
<1>4. /\ faults' \in Nat /\ lates' \in Nat /\ faults' + lates' <= MaxMishaps
  BY <1>3, LineTyped DEF Ticks
<1>5. /\ Len(log) <= MaxCalls
      /\ hold.st = "talking" => hold.s \in Slaves /\ acked[hold.s] < MaxAnswers
      /\ \A i \in Slaves : \A j \in 1..Len(taken[i]) : Len(taken[i][j]) >= 1
      /\ call = NoCall
      /\ \A i \in 1..Len(down) : Sendable(down[i])
  BY <1>3 DEF Typed
<1>6. CASE /\ down' = Append(down, Tok(enq, s, 0)) /\ faults' = faults
           /\ \E fits \in BOOLEAN : call' = [op |-> op, s |-> s, fits |-> fits]
           /\ pc' = l /\ UNCHANGED log
  <2>1. Tok(enq, s, 0) \in Token /\ Sendable(Tok(enq, s, 0))
    BY TokFacts DEF Sendable, Enquiry
  <2>2. down' \in Seq(Token) /\ \A i \in 1..Len(down') : Sendable(down'[i])
    BY <1>6, <2>1, DownAppended
  <2>3. call' \in Call /\ call'.op = op
    BY <1>6 DEF Call
  <2>4. TypeOK'
    BY <1>3, <1>4, <1>6, <2>2, <2>3 DEF Typed, TypeOK
  <2>5. Stored'
    BY <1>1, <1>3, <1>6 DEF Typed, Stored
  <2> QED
    BY <1>1, <1>3, <1>5, <1>6, <2>2, <2>3, <2>4, <2>5
    DEF Typed, SelectReads, PollReads
<1>7. CASE Logs(op, s, "WRITE_FAILED") /\ UNCHANGED <<down, pc, call>>
  <2>1. "WRITE_FAILED" \in Return
    BY DEF Return, Failure
  <2>2. log \in Seq([op: {"select", "poll"}, s: Slaves, r: Return])
    BY DEF Typed, TypeOK
  <2>3. [op |-> op, s |-> s, r |-> "WRITE_FAILED"]
           \in [op: {"select", "poll"}, s: Slaves, r: Return]
    BY <2>1
  <2>4. /\ log' \in Seq([op: {"select", "poll"}, s: Slaves, r: Return])
        /\ Len(log') = Len(log) + 1
    BY <1>7, <2>2, <2>3, AppendProperties DEF Logs
  <2>5. Len(log') <= MaxCalls
    BY <1>3, <2>4, LineTyped
  <2>6. TypeOK'
    BY <1>3, <1>4, <1>7, <2>4 DEF Typed, TypeOK
  <2>7. Stored'
    BY <1>3, <1>7 DEF Typed, Stored
  <2> QED
    BY <1>3, <1>5, <1>7, <2>5, <2>6, <2>7 DEF Typed, SelectReads, PollReads
<1> QED
  BY <1>2, <1>6, <1>7

(* What a slave says keeps the line's types, *)
LEMMA SaysTyped ==
  ASSUME Typed, NEW t \in Seq(Token), Says(t)
  PROVE  up' \in Seq(Token)
BY LineTyped, ConcatProperties DEF Says

(* as one character or a message. *)
LEMMA SaidFacts ==
  ASSUME Typed, NEW s \in Slaves
  PROVE  /\ \A c \in Control : <<Char(c)>> \in Seq(Token)
         /\ Message(s) \in Seq(Token)
         /\ acked[s] \in Nat
<1>1. acked[s] \in Nat
  BY LineTyped DEF Typed, TypeOK
<1> QED
  BY <1>1, CharFacts, MessageFacts

(* The steps of a slave, *)
LEMMA TypedSlave ==
  ASSUME Typed, Slave
  PROVE  Typed'
<1>1. /\ pc' = pc /\ call' = call /\ frame' = frame /\ log' = log
      /\ filled' = filled /\ taken' = taken
      /\ faults' = faults /\ lates' = lates
  BY DEF Slave, master
<1>2. /\ down' \in Seq(Token) /\ Head(down) = down[1]
      /\ down[1] \in Token /\ Sendable(down[1])
      /\ \A i \in 1..Len(down') : Sendable(down'[i])
  BY DownHeard DEF Slave, SlavePolled, SlaveSelected, SlaveCommanded,
     SlaveAcknowledged, SlaveDismissed, SlaveSilent, Hears
<1>3. /\ hold \in [s: Slaves \cup {NoSlave}, st: {"none", "selected", "talking"}]
      /\ executed \in Seq(1..MaxCalls) /\ acked \in [Slaves -> 0..MaxAnswers]
      /\ up \in Seq(Token)
      /\ hold.st = "talking" => hold.s \in Slaves /\ acked[hold.s] < MaxAnswers
  BY DEF Typed, TypeOK
<1>4. ASSUME up' \in Seq(Token), executed' \in Seq(1..MaxCalls),
             acked' \in [Slaves -> 0..MaxAnswers],
             hold' \in [s: Slaves \cup {NoSlave},
                        st: {"none", "selected", "talking"}],
             hold'.st = "talking" =>
               hold'.s \in Slaves /\ acked'[hold'.s] < MaxAnswers
      PROVE  Typed'
  <2>1. TypeOK'
    BY <1>1, <1>2, <1>4 DEF Typed, TypeOK
  <2>2. /\ Len(log) <= MaxCalls
        /\ pc = "idle" => call = NoCall
        /\ pc # "idle" => call \in Call /\ Len(log) < MaxCalls
        /\ pc \in SelectReads => call.op = "select"
        /\ pc \in PollReads => call.op = "poll"
        /\ pc = "eot" => Len(frame) > 1
        /\ \A s \in Slaves : \A i \in 1..Len(taken[s]) : Len(taken[s][i]) >= 1
    BY DEF Typed
  <2>3. Stored'
    BY <1>1 DEF Typed, Stored
  <2> QED
    BY <1>1, <1>2, <1>4, <2>1, <2>2, <2>3 DEF Typed
<1>5. /\ NoHold \in [s: Slaves \cup {NoSlave},
                     st: {"none", "selected", "talking"}]
      /\ NoHold.st # "talking"
  BY DEF NoHold
<1>6. ASSUME NEW c \in {"ACK", "NAK", "EOT"}, Says(<<Char(c)>>)
      PROVE  up' \in Seq(Token)
  <2>1. <<Char(c)>> \in Seq(Token)
    BY CharFacts DEF Control
  <2> QED
    BY <1>6, <2>1, SaysTyped
<1>7. ASSUME NEW s \in Slaves, Talks(s), acked' = acked, executed' = executed
      PROVE  Typed'
  <2>1. up' \in Seq(Token)
    BY <1>7, SaidFacts, SaysTyped DEF Talks
  <2>2. hold' = [s |-> s, st |-> "talking"] /\ acked[s] < MaxAnswers
    BY <1>7 DEF Talks, Holds
  <2> QED
    BY <1>3, <1>4, <1>7, <2>1, <2>2
<1>8. CASE SlavePolled
  <2>1. down[1].s \in Slaves
    BY <1>2, <1>8 DEF SlavePolled, Hears, Is, Sendable, Enquiry
  <2> QED
    BY <1>2, <1>3, <1>4, <1>5, <1>6, <1>7, <1>8, <2>1 DEF SlavePolled
<1>9. CASE SlaveSelected
  <2>1. down[1].s \in Slaves
    BY <1>2, <1>9 DEF SlaveSelected, Hears, Is, Sendable, Enquiry
  <2>2. ASSUME Says(<<Char("ACK")>>), Holds(down[1].s, "selected"),
               UNCHANGED <<executed, acked>>
        PROVE  Typed'
    BY <1>3, <1>4, <1>6, <2>1, <2>2 DEF Holds
  <2> QED
    BY <1>2, <1>3, <1>4, <1>5, <1>6, <1>7, <1>9, <2>1, <2>2 DEF SlaveSelected
<1>10. CASE SlaveCommanded
  <2>1. down[1].n \in 1..MaxCalls
    BY <1>2, <1>10 DEF SlaveCommanded, Hears, Is, Sendable
  <2>2. Append(executed, down[1].n) \in Seq(1..MaxCalls)
    BY <1>3, <2>1, AppendProperties
  <2> QED
    BY <1>2, <1>3, <1>4, <1>5, <1>6, <1>10, <2>2 DEF SlaveCommanded
<1>11. CASE SlaveAcknowledged
  <2>1. /\ hold.s \in Slaves /\ acked[hold.s] < MaxAnswers /\ hold' = NoHold
        /\ acked' = [acked EXCEPT ![hold.s] = @ + 1] /\ executed' = executed
        /\ Says(<<Char("EOT")>>)
    BY <1>3, <1>11 DEF SlaveAcknowledged
  <2>2. acked[hold.s] + 1 \in 0..MaxAnswers
    BY <1>3, <2>1, LineTyped
  <2>3. acked' \in [Slaves -> 0..MaxAnswers]
    BY <1>3, <2>1, <2>2
  <2> QED
    BY <1>3, <1>4, <1>5, <1>6, <2>1, <2>3
<1>12. CASE SlaveDismissed
  BY <1>3, <1>4, <1>5, <1>12 DEF SlaveDismissed
<1>13. CASE SlaveSilent
  BY <1>3, <1>4, <1>13 DEF SlaveSilent, slave
<1> QED
  BY <1>8, <1>9, <1>10, <1>11, <1>12, <1>13 DEF Slave

(* What the line does to up. *)
LEMMA LineCases ==
  ASSUME Typed, Line
  PROVE  /\ up # <<>> /\ up' \in Seq(Token)
         /\ \/ up' = Tail(up)
            \/ /\ Len(up') = Len(up) /\ up'[1] = Damaged(up[1])
               /\ \A i \in 2..Len(up) : up'[i] = up[i]
         /\ pc' = pc /\ call' = call /\ frame' = frame /\ filled' = filled /\ log' = log
         /\ taken' = taken /\ hold' = hold /\ executed' = executed
         /\ acked' = acked /\ down' = down
         /\ lates' = lates /\ faults' = faults + 1
         /\ faults' + lates' <= MaxMishaps
<1>1. /\ up # <<>>
      /\ up' = Tail(up) \/ up' = [up EXCEPT ![1].ok = FALSE]
      /\ UNCHANGED <<master, slave, down, lates>> /\ faults' = faults + 1
      /\ faults' + lates' <= MaxMishaps
  BY DEF Line, Fault, Bounded
<1>2. /\ up \in Seq(Token) /\ Len(up) >= 1 /\ Len(up) \in Nat
      /\ Tail(up) \in Seq(Token) /\ up[1] \in Token
  BY <1>1, LineTyped, TailFacts, LenProperties
<1>3. CASE up' = [up EXCEPT ![1].ok = FALSE]
  <2>1. up' = [up EXCEPT ![1] = Damaged(up[1])]
    BY <1>3 DEF Damaged
  <2>2. Damaged(up[1]) \in Token
    BY <1>2, DamagedFacts
  <2>3. /\ up' \in Seq(Token) /\ Len(up') = Len(up)
        /\ \A i \in 1..Len(up) : up'[i] = IF i = 1 THEN Damaged(up[1]) ELSE up[i]
    BY <1>2, <2>1, <2>2, ExceptSeq
  <2> QED
    BY <1>1, <1>2, <2>3 DEF master, slave
<1>4. CASE up' = Tail(up)
  BY <1>1, <1>2, <1>4 DEF master, slave
<1> QED
  BY <1>1, <1>3, <1>4

(* and those of the line. *)
LEMMA TypedLine ==
  ASSUME Typed, Line
  PROVE  Typed'
<1>1. /\ up' \in Seq(Token)
      /\ pc' = pc /\ call' = call /\ frame' = frame /\ filled' = filled
      /\ log' = log /\ taken' = taken /\ hold' = hold
      /\ executed' = executed /\ acked' = acked /\ down' = down
  BY LineCases
<1>2. faults' \in Nat /\ lates' \in Nat /\ faults' + lates' <= MaxMishaps
  BY LineCases, LineTyped
<1>3. TypeOK' /\ Stored'
  BY <1>1, <1>2 DEF Typed, TypeOK, Stored
<1> QED
  BY <1>1, <1>3 DEF Typed

(* So the types hold at every step. *)
LEMMA TypedStep == Typed /\ [Next]_vars => Typed'
<1> SUFFICES ASSUME Typed, [Next]_vars PROVE Typed'
  OBVIOUS
<1>1. CASE UNCHANGED vars
  BY <1>1 DEF vars, line, master, slave, Typed, TypeOK, Stored
<1>2. CASE Next
  BY <1>2, StepCases, TypedEnquires, TypedEndsWithout, TypedEndsWithText,
     TypedReading, TypedAcknowledges, TypedSlave, TypedLine
<1> QED
  BY <1>1, <1>2

(* The variables keep their types and bounds, for any line. *)
THEOREM TypeCorrect == Spec => []TypeOK
<1>1. Typed => TypeOK
  BY DEF Typed
<1> QED
  BY <1>1, TypedInit, TypedStep, PTL DEF Spec

----------------------------------------------------------------------------
(* The line.                                                               *)

(* Some arithmetic of short lengths. *)
LEMMA ShortLength ==
  \A n \in Nat : (n <= 1 => n = 0 \/ n = 1) /\ (n > 1 /\ n <= 2 => n = 2)
OBVIOUS

(* Reading and writing one or two tokens. *)
LEMMA ShortFacts ==
  ASSUME NEW T, NEW a \in T, NEW b \in T
  PROVE  /\ Head(<<a>>) = a /\ Tail(<<a>>) = <<>>
         /\ Head(<<a, b>>) = a /\ Tail(<<a, b>>) = <<b>>
         /\ Append(<<>>, a) = <<a>> /\ Append(<<a>>, b) = <<a, b>>
         /\ <<>> \o <<a>> = <<a>>
         /\ <<a>> # <<>> /\ <<a, b>> # <<>>
<1>1. Head(<<a>>) = a /\ Head(<<a, b>>) = a
  OBVIOUS
<1>2. Tail(<<a>>) = <<>>
  BY EmptySeq, HeadTailProperties
<1>3. Tail(<<a, b>>) = <<b>>
  <2>1. <<a, b>> \in Seq(T) /\ <<b>> \in Seq(T) /\ <<a, b>> # <<>>
    OBVIOUS
  <2>2. /\ Tail(<<a, b>>) \in Seq(T) /\ Len(Tail(<<a, b>>)) = 1
        /\ Tail(<<a, b>>)[1] = b
    BY <2>1, TailFacts
  <2> QED
    BY <2>1, <2>2, SeqEqual
<1>4. Append(<<>>, a) = <<a>> /\ Append(<<a>>, b) = <<a, b>>
  <2>1. /\ Append(<<>>, a) \in Seq(T) /\ Len(Append(<<>>, a)) = 1
        /\ Append(<<>>, a)[1] = a
    BY AppendProperties, EmptySeq
  <2>2. /\ <<a>> \in Seq(T) /\ <<a, b>> \in Seq(T)
        /\ Len(<<a>>) = 1 /\ Len(<<a, b>>) = 2 /\ <<a>>[1] = a
        /\ <<a, b>>[1] = a /\ <<a, b>>[2] = b
    OBVIOUS
  <2>3. /\ Append(<<a>>, b) \in Seq(T) /\ Len(Append(<<a>>, b)) = 2
        /\ Append(<<a>>, b)[1] = a /\ Append(<<a>>, b)[2] = b
    BY <2>2, AppendProperties
  <2>4. Append(<<>>, a) = <<a>>
    BY <2>1, <2>2, SeqEqual
  <2>5. Append(<<a>>, b) = <<a, b>>
    <3> DEFINE u == Append(<<a>>, b)
               v == <<a, b>>
    <3>1. /\ u \in Seq(T) /\ Len(u) = 2 /\ u[1] = a /\ u[2] = b
          /\ v \in Seq(T) /\ Len(v) = 2 /\ v[1] = a /\ v[2] = b
      BY <2>2, <2>3
    <3> HIDE DEF u, v
    <3>2. \A i \in 1..Len(u) : u[i] = v[i]
      BY <3>1
    <3>3. u = v
      BY <3>1, <3>2, SeqEqual
    <3> QED
      BY <3>3 DEF u, v
  <2> QED
    BY <2>4, <2>5
<1>5. <<>> \o <<a>> = <<a>>
  OBVIOUS
<1>6. <<a>> # <<>> /\ <<a, b>> # <<>>
  OBVIOUS
<1> QED
  BY <1>1, <1>2, <1>3, <1>4, <1>5, <1>6

(* A sequence of one element has none behind it. *)
LEMMA TailOfOne ==
  ASSUME NEW T, NEW u \in Seq(T), Len(u) = 1
  PROVE  u # <<>> /\ Tail(u) = <<>>
<1>1. u # <<>>
  BY EmptySeq, SMTT(30)
<1>2. Tail(u) \in Seq(T) /\ Len(Tail(u)) = 0
  BY <1>1, TailFacts
<1> QED
  BY <1>1, <1>2, EmptySeq

(* The message that is talked of: its tokens, each of its own kind. *)
LEMMA RestFacts ==
  ASSUME Typed, call.s \in Slaves, NEW k \in 1..6, Rest(k)
  PROVE  /\ acked[call.s] \in Nat
         /\ acked[call.s] < MaxAnswers
         /\ k = 6 <=> up = <<>>
         /\ k # 6 => Heard(up[1], Message(call.s)[k])
         /\ \A i \in 2..(6 - k) : up[i] = Message(call.s)[i + k - 1]
         /\ up # <<>> /\ up[1].c = "STX" => k = 1
         /\ up # <<>> /\ up[1].c = "ETX" => k = 4
         /\ up # <<>> /\ up[1].c = "ETX" /\ up[1].ok => up[1] = Char("ETX")
<1>1. up \in Seq(Token) /\ Len(up) = 6 - k
  BY LineTyped DEF Rest
<1>2. hold.s = call.s /\ hold.st = "talking"
  BY DEF Rest
<1>3. acked[call.s] \in Nat /\ acked[call.s] < MaxAnswers
  BY <1>2, LineTyped DEF Typed, TypeOK
<1>4. k = 6 <=> up = <<>>
  BY <1>1, EmptySeq
<1>5. k # 6 => Heard(up[1], Message(call.s)[k])
  <2> SUFFICES ASSUME k # 6 PROVE Heard(up[1], Message(call.s)[k])
    OBVIOUS
  <2>1. 1 \in 1..Len(up) /\ 1 + k - 1 = k
    BY <1>1
  <2>2. \/ up[1] = Message(call.s)[1 + k - 1]
        \/ up[1] = Damaged(Message(call.s)[k])
    BY <2>1 DEF Rest
  <2> QED
    BY <2>1, <2>2 DEF Heard
<1>6. \A i \in 2..(6 - k) : up[i] = Message(call.s)[i + k - 1]
  BY <1>1 DEF Rest
<1>7. Message(call.s)[k] \in Token \/ k = 6
  BY <1>3, MessageFacts, ElementOfSeq
<1>8. k # 6 => /\ Message(call.s)[k].c = "STX" => k = 1
               /\ Message(call.s)[k].c = "ETX" => k = 4
  <2> DEFINE kind(j) == Message(call.s)[j].c
  <2>1. /\ kind(1) = "STX" /\ kind(2) = "ADDR" /\ kind(3) = "TEXT"
        /\ kind(4) = "ETX" /\ kind(5) = "CRC"
    <3>1. /\ Message(call.s)[1] = Char("STX") /\ Message(call.s)[4] = Char("ETX")
          /\ Message(call.s)[2] = Tok("ADDR", call.s, acked[call.s] + 1)
          /\ Message(call.s)[3] = Tok("TEXT", call.s, acked[call.s] + 1)
          /\ Message(call.s)[5] = Tok("CRC", call.s, acked[call.s] + 1)
      BY <1>3, MessageFacts
    <3>2. /\ Char("STX").c = "STX" /\ Char("ETX").c = "ETX"
          /\ \A c, s, n : Tok(c, s, n).c = c
      BY DEF Tok, Char
    <3> QED
      BY <3>1, <3>2
  <2>2. k = 1 \/ k = 2 \/ k = 3 \/ k = 4 \/ k = 5 \/ k = 6
    OBVIOUS
  <2> HIDE DEF kind
  <2>3. k # 6 => (kind(k) = "STX" => k = 1) /\ (kind(k) = "ETX" => k = 4)
    BY <2>1, <2>2
  <2> QED
    BY <2>3 DEF kind
<1>9. up # <<>> => /\ up[1].c = Message(call.s)[k].c
                   /\ up[1] = Message(call.s)[k] \/ ~up[1].ok
  BY <1>4, <1>5, <1>7, DamagedFacts DEF Heard
<1>10. up # <<>> /\ up[1].c = "STX" => k = 1
  BY <1>4, <1>8, <1>9
<1>11. up # <<>> /\ up[1].c = "ETX" => k = 4
  BY <1>4, <1>8, <1>9
<1>12. up # <<>> /\ up[1].c = "ETX" /\ up[1].ok => up[1] = Char("ETX")
  BY <1>3, <1>9, <1>11, MessageFacts
<1> QED
  BY <1>3, <1>4, <1>5, <1>6, <1>10, <1>11, <1>12

(* One token of the message is read or lost. *)
LEMMA RestTail ==
  ASSUME Typed, call.s \in Slaves, NEW k \in 1..6, Rest(k), up # <<>>,
         up' = Tail(up), call' = call, hold' = hold, acked' = acked
  PROVE  k \in 1..5 /\ Rest(k + 1)'
<1>1. k \in 1..5
  BY RestFacts
<1>2. /\ up \in Seq(Token) /\ Len(up) = 6 - k
      /\ Len(Tail(up)) = Len(up) - 1
      /\ \A i \in 1..(Len(up) - 1) : Tail(up)[i] = up[i + 1]
  BY LineTyped, TailFacts DEF Rest
<1>3. Message(call.s)' = Message(call.s)
  BY DEF Message
<1>4. ASSUME NEW i \in 1..(6 - (k + 1))
      PROVE  Tail(up)[i] = Message(call.s)[i + (k + 1) - 1]
  <2>1. Tail(up)[i] = up[i + 1] /\ i + 1 \in 2..(6 - k)
    BY <1>2
  <2>2. up[i + 1] = Message(call.s)[(i + 1) + k - 1]
    BY <2>1, RestFacts
  <2>3. (i + 1) + k - 1 = i + (k + 1) - 1
    BY <1>1
  <2> QED
    BY <2>1, <2>2, <2>3
<1>5. Len(Tail(up)) = 6 - (k + 1)
  BY <1>1, <1>2
<1> QED
  BY <1>1, <1>3, <1>4, <1>5 DEF Rest

(* One token of the message is damaged. *)
LEMMA RestDamaged ==
  ASSUME Typed, call.s \in Slaves, NEW k \in 1..6, Rest(k), up # <<>>,
         Len(up') = Len(up), up'[1] = Damaged(up[1]),
         \A i \in 2..Len(up) : up'[i] = up[i],
         call' = call, hold' = hold, acked' = acked
  PROVE  Rest(k)'
<1>1. k \in 1..5 /\ Len(up) = 6 - k /\ hold = [s |-> call.s, st |-> "talking"]
  BY RestFacts DEF Rest
<1>2. Message(call.s)' = Message(call.s)
  BY DEF Message
<1>3. up'[1] = Damaged(Message(call.s)[k])
  <2>1. Message(call.s)[k] \in Token
    BY <1>1, RestFacts, MessageFacts, ElementOfSeq
  <2>2. Heard(up[1], Message(call.s)[k])
    BY <1>1, RestFacts
  <2> QED
    BY <2>1, <2>2, DamagedFacts DEF Heard
<1>4. \A i \in 2..Len(up) : up'[i] = Message(call.s)[i + k - 1]
  BY <1>1, RestFacts
<1>5. \A i \in 1..Len(up') : i = 1 \/ i \in 2..Len(up)
  BY <1>1
<1> QED
  BY <1>1, <1>2, <1>3, <1>4, <1>5 DEF Rest

(* A message begins. *)
LEMMA RestBegins ==
  ASSUME Typed, call.s \in Slaves, up = <<>>, Talks(call.s),
         call' = call, acked' = acked
  PROVE  Rest(1)'
<1>1. acked[call.s] \in Nat
  BY SaidFacts
<1>2. Message(call.s) \in Seq(Token) /\ Len(Message(call.s)) = 5
  BY <1>1, MessageFacts
<1>3. up' = Message(call.s)
  BY <1>2, ConcatEmptySeq DEF Talks, Says
<1>4. Message(call.s)' = Message(call.s)
  BY DEF Message
<1>5. hold' = [s |-> call.s, st |-> "talking"]
  BY DEF Talks, Holds
<1>6. \A i \in 1..5 : i + 1 - 1 = i
  OBVIOUS
<1> QED
  BY <1>2, <1>3, <1>4, <1>5, <1>6 DEF Rest

(* A slave that hears EOT, or nothing it heeds, says nothing. *)
LEMMA SlaveHears ==
  ASSUME Typed, Slave
  PROVE  /\ down # <<>> /\ down' = Tail(down) /\ Head(down) = down[1]
         /\ pc' = pc /\ call' = call /\ frame' = frame /\ log' = log
         /\ taken' = taken /\ faults' = faults /\ lates' = lates
         /\ \/ up' = up /\ executed' = executed /\ acked' = acked
               /\ (hold' = hold \/ down[1].c = "EOT")
            \/ SlavePolled /\ down[1].c = "POLL"
            \/ SlaveSelected /\ down[1].c = "SELECT"
            \/ SlaveCommanded /\ down[1].c = "CMD"
            \/ SlaveAcknowledged /\ down[1].c = "ACK"
<1>1. down # <<>> /\ down' = Tail(down)
  BY DEF Slave, SlavePolled, SlaveSelected, SlaveCommanded,
     SlaveAcknowledged, SlaveDismissed, SlaveSilent, Hears
<1>2. Head(down) = down[1]
  BY <1>1, DownHeard
<1>3. /\ SlavePolled => down[1].c = "POLL"
      /\ SlaveSelected => down[1].c = "SELECT"
      /\ SlaveCommanded => down[1].c = "CMD"
      /\ SlaveAcknowledged => down[1].c = "ACK"
      /\ SlaveDismissed => down[1].c = "EOT" /\ UNCHANGED <<up, executed, acked>>
  BY <1>2 DEF SlavePolled, SlaveSelected, SlaveCommanded, SlaveAcknowledged,
     SlaveDismissed, Hears, Is
<1>4. SlaveSilent => up' = up /\ hold' = hold /\ executed' = executed /\ acked' = acked
  BY DEF SlaveSilent, slave
<1>5. /\ pc' = pc /\ call' = call /\ frame' = frame /\ log' = log
      /\ taken' = taken /\ faults' = faults /\ lates' = lates
  BY DEF Slave, master
<1>6. SlavePolled \/ SlaveSelected \/ SlaveCommanded \/ SlaveAcknowledged
      \/ SlaveDismissed \/ SlaveSilent
  BY DEF Slave
<1> QED
  BY <1>1, <1>2, <1>3, <1>4, <1>5, <1>6

(* A slave that is asked answers with a character or with its message. *)
LEMMA SlaveAnswers ==
  ASSUME Typed, call.s \in Slaves, NEW c \in {"POLL", "SELECT"},
         Slave, up = <<>>, down = <<Tok(c, call.s, 0)>>
  PROVE  /\ down' = <<>> /\ acked' = acked /\ executed' = executed
         /\ up' = <<>> \/ One({"ACK", "NAK", "EOT"})' \/ Rest(1)'
<1>1. Tok(c, call.s, 0) \in Token /\ Tok(c, call.s, 0).c = c
      /\ Tok(c, call.s, 0).s = call.s
  <2>1. c \in Control \cup Enquiry \cup {"CMD", "ADDR", "TEXT", "CRC"}
    BY DEF Enquiry
  <2>2. call.s \in Slaves \cup {NoSlave} /\ 0 \in Nat
    OBVIOUS
  <2> QED
    BY <2>1, <2>2, TokFacts
<1>2. down' = <<>> /\ down[1].c = c /\ Head(down).s = call.s
  BY <1>1, SlaveHears, ShortFacts
<1>3. call' = call
  BY SlaveHears
<1>4. ASSUME NEW x \in {"ACK", "NAK", "EOT"}, Says(<<Char(x)>>)
      PROVE  One({"ACK", "NAK", "EOT"})'
  <2>1. Char(x) \in Token /\ Char(x).c = x
    BY CharFacts DEF Control
  <2>2. up' = <<Char(x)>>
    BY <1>4, <2>1, ShortFacts DEF Says
  <2> QED
    BY <2>1, <2>2 DEF One
<1>5. Talks(call.s) /\ acked' = acked => Rest(1)'
  BY <1>3, RestBegins
<1>6. CASE up' = up /\ executed' = executed /\ acked' = acked
  BY <1>2, <1>6
<1>7. CASE SlavePolled
  BY <1>2, <1>4, <1>5, <1>7 DEF SlavePolled
<1>8. CASE SlaveSelected
  BY <1>2, <1>4, <1>5, <1>8 DEF SlaveSelected
<1> QED
  BY <1>2, <1>6, <1>7, <1>8, SlaveHears

(* While an answer is on its way, nothing else is. *)
LEMMA AnsweredDown ==
  ASSUME Typed, LineInv, FrameInv, lates = 0, pc # "idle", up # <<>>
  PROVE  down = <<>>
<1>1. pc \in {"selAck", "drain", "cmdAck", "pollAck", "text", "crc", "eot"}
  BY DEF Typed, TypeOK
<1> QED
  BY <1>1 DEF LineInv, FrameInv, Asked

(* What the master finds on the line at each step keeps its shape: at the  *)
(* start of a call, *)
LEMMA LineEnquires ==
  ASSUME Typed, LineInv, lates' = 0,
         \/ Enquires("select", "SELECT", "selAck")
         \/ Enquires("poll", "POLL", "pollAck")
  PROVE  LineInv'
<1>1. PICK op \in {"select", "poll"}, enq \in Enquiry,
           l \in {"selAck", "pollAck"} :
        /\ Enquires(op, enq, l)
        /\ enq = IF l = "selAck" THEN "SELECT" ELSE "POLL"
  BY DEF Enquiry
<1>2. PICK s \in Slaves :
       \/ /\ down' = Append(down, Tok(enq, s, 0)) /\ faults' = faults
          /\ \E fits \in BOOLEAN : call' = [op |-> op, s |-> s, fits |-> fits]
          /\ pc' = l /\ UNCHANGED log
       \/ /\ Logs(op, s, "WRITE_FAILED") /\ UNCHANGED <<down, pc, call>>
  BY <1>1 DEF Enquires
<1>3. lates = 0 /\ lates' = lates /\ up' = <<>> /\ pc = "idle"
  BY <1>1, LineTyped DEF Enquires, Ticks
<1>4. down = <<>> \/ down = <<Char("EOT")>>
  BY <1>3 DEF LineInv
<1>5. CASE /\ down' = Append(down, Tok(enq, s, 0)) /\ pc' = l
           /\ \E fits \in BOOLEAN : call' = [op |-> op, s |-> s, fits |-> fits]
  <2>1. Tok(enq, s, 0) \in Token /\ Char("EOT") \in Token /\ call'.s = s
    BY <1>5, TokFacts, CharFacts DEF Enquiry, Control
  <2>2. \/ down' = <<Tok(enq, s, 0)>>
        \/ down' = <<Char("EOT"), Tok(enq, s, 0)>>
    <3> DEFINE t == Tok(enq, s, 0)
               e == Char("EOT")
    <3>1. t \in Token /\ e \in Token
      BY <2>1
    <3>2. Append(<<>>, t) = <<t>> /\ Append(<<e>>, t) = <<e, t>>
      <4> HIDE DEF t, e
      <4> QED
        BY <3>1, ShortFacts
    <3> QED
      BY <1>4, <1>5, <3>2
  <2>3. Asked(enq)'
    BY <1>3, <2>1, <2>2 DEF Asked
  <2> QED
    BY <1>1, <1>3, <1>5, <2>3 DEF LineInv
<1>6. CASE UNCHANGED <<down, pc, call>>
  BY <1>3, <1>4, <1>6 DEF LineInv
<1> QED
  BY <1>2, <1>5, <1>6

(* at its end, *)
LEMMA LineEnds ==
  ASSUME Typed, LineInv, FrameInv, lates' = 0, Ends
  PROVE  LineInv'
<1>1. /\ lates = 0 /\ lates' = lates /\ pc # "idle" /\ pc' = "idle"
      /\ up # <<>> \/ down = <<>> \/ pc = "text"
      /\ down' = down \/ down' = Append(down, Char("EOT"))
  BY LineTyped DEF Ends, Ticks
<1>2. down = <<>>
  BY <1>1, AnsweredDown DEF LineInv
<1>3. Append(<<>>, Char("EOT")) = <<Char("EOT")>>
  BY CharFacts, ShortFacts DEF Control
<1> QED
  BY <1>1, <1>2, <1>3 DEF LineInv

(* and in between. *)
LEMMA LineReading ==
  ASSUME Typed, LineInv, FrameInv, lates' = 0,
         SendsCommand \/ Drains \/ BeginsText \/ KeepsText \/ EndsText
         \/ Acknowledges
  PROVE  LineInv'
<1>1. lates = 0 /\ pc # "idle"
  BY LineTyped DEF SendsCommand, Drains, BeginsText, KeepsText, EndsText,
     Acknowledges, Reading, Ticks
<1>2. call.s \in Slaves
  BY <1>1 DEF Typed, Call
<1>3. CASE SendsCommand
  <2>1. /\ pc = "selAck" /\ up # <<>> /\ up[1].c = "ACK" /\ up' = Tail(up)
        /\ pc' = "cmdAck" /\ down' = Append(down, Command)
        /\ call' = call /\ log' = log
    BY <1>3 DEF SendsCommand, Reading, Is
  <2>2. up \in Seq(Token) /\ Len(up) >= 1
    BY <2>1, LineTyped, TailFacts
  <2>3. down = <<>> /\ Len(up) = 1
    BY <1>1, <2>1, <2>2 DEF LineInv, Asked
  <2>4. up' = <<>>
    BY <2>1, <2>2, <2>3, TailOfOne
  <2>5. down' = <<Command>>
    <3>1. This \in Nat
      BY LineTyped DEF This
    <3>2. Command \in Token
      BY <1>2, <3>1, TokFacts DEF Command
    <3> QED
      BY <2>1, <2>3, <3>2, ShortFacts
  <2>6. Command' = Command
    BY <2>1 DEF Command, This
  <2> QED
    BY <2>1, <2>4, <2>5, <2>6 DEF LineInv
<1>4. CASE Drains
  <2>1. /\ pc \in {"selAck", "drain"} /\ up # <<>> /\ pc' = "drain"
        /\ down' = down
    BY <1>4 DEF Drains, Reading
  <2>2. down = <<>>
    BY <1>1, <2>1, AnsweredDown
  <2> QED
    BY <2>1, <2>2 DEF LineInv
<1>5. CASE BeginsText \/ KeepsText \/ EndsText
  <2>1. /\ up # <<>> /\ up' = Tail(up) /\ down' = down
        /\ call' = call /\ hold' = hold /\ acked' = acked
        /\ pc \in {"pollAck", "text"}
    BY <1>5 DEF BeginsText, KeepsText, EndsText, Reading, slave
  <2>2. down = <<>>
    BY <1>1, <2>1, AnsweredDown
  <2>3. PICK k \in 1..6 : /\ Rest(k)
                          /\ BeginsText => k = 1
                          /\ EndsText => k = 4
                          /\ pc = "text" => k \in 2..6
    <3>1. CASE BeginsText
      <4>1. pc = "pollAck" /\ up[1].c = "STX"
        BY <3>1 DEF BeginsText, Reading, Is
      <4>2. PICK k \in 1..5 : Rest(k)
        BY <1>1, <2>1, <4>1 DEF LineInv, Asked, One
      <4>3. k = 1
        BY <1>2, <2>1, <4>1, <4>2, RestFacts
      <4> QED
        BY <3>1, <4>1, <4>2, <4>3 DEF EndsText, Reading
    <3>2. CASE KeepsText \/ EndsText
      <4>1. pc = "text" /\ (EndsText => up[1].c = "ETX")
        BY <3>2 DEF KeepsText, EndsText, Reading, Is
      <4>2. PICK k \in 2..6 : Rest(k)
        BY <1>1, <4>1 DEF LineInv
      <4>3. EndsText => k = 4
        BY <1>2, <2>1, <4>1, <4>2, RestFacts
      <4> QED
        BY <4>1, <4>2, <4>3 DEF BeginsText, Reading
    <3> QED
      BY <1>5, <3>1, <3>2
  <2>4. k \in 1..5 /\ Rest(k + 1)'
    BY <1>2, <2>1, <2>3, RestTail
  <2>5. CASE BeginsText \/ KeepsText
    <3>1. pc' = "text" /\ (k = 1 \/ k \in 2..6)
      BY <2>3, <2>5 DEF BeginsText, KeepsText, Reading
    <3>2. k + 1 \in 2..6
      BY <2>4
    <3> QED
      BY <2>1, <2>2, <2>4, <3>1, <3>2 DEF LineInv
  <2>6. CASE EndsText
    <3>1. pc' = "crc" /\ k + 1 = 5
      BY <2>3, <2>6 DEF EndsText, Reading
    <3> QED
      BY <2>1, <2>2, <2>4, <3>1 DEF LineInv
  <2> QED
    BY <1>5, <2>5, <2>6
<1>6. CASE Acknowledges
  BY <1>6 DEF Acknowledges, LineInv
<1> QED
  BY <1>3, <1>4, <1>5, <1>6

(* A slave answers, *)
LEMMA LineSlave ==
  ASSUME Typed, LineInv, lates' = 0, Slave
  PROVE  LineInv'
<1>1. /\ lates = 0 /\ down # <<>> /\ down' = Tail(down)
      /\ pc' = pc /\ call' = call /\ log' = log
  BY SlaveHears
<1>2. Char("EOT") \in Token /\ Char("EOT").c = "EOT"
  BY CharFacts DEF Control
<1>3. ASSUME NEW e, down = <<Char("EOT"), e>>, e \in Token
      PROVE  down' = <<e>> /\ up' = up
  <2>1. down' = <<e>> /\ down[1].c = "EOT"
    BY <1>1, <1>2, <1>3, ShortFacts
  <2> QED
    BY <2>1, SlaveHears
<1>4. CASE pc = "idle"
  <2>1. down = <<Char("EOT")>>
    BY <1>1, <1>4 DEF LineInv
  <2>2. down' = <<>>
    BY <1>1, <1>2, <2>1, ShortFacts
  <2> QED
    BY <1>1, <1>4, <2>2 DEF LineInv
<1>5. ASSUME NEW enq \in {"SELECT", "POLL"}, Asked(enq), call.s \in Slaves
      PROVE  \/ Asked(enq)'
             \/ /\ down' = <<>>
                /\ up' = <<>> \/ One({"ACK", "NAK", "EOT"})' \/ Rest(1)'
  <2>1. Tok(enq, call.s, 0) \in Token
    <3>1. enq \in Control \cup Enquiry \cup {"CMD", "ADDR", "TEXT", "CRC"}
      BY DEF Enquiry
    <3> QED
      BY <1>5, <3>1, TokFacts
  <2>2. CASE down = <<Tok(enq, call.s, 0)>>
    BY <1>5, <2>2, SlaveAnswers DEF Asked
  <2>3. CASE down = <<Char("EOT"), Tok(enq, call.s, 0)>>
    <3>1. down' = <<Tok(enq, call.s, 0)>> /\ up' = up
      BY <1>3, <2>1, <2>3
    <3> QED
      BY <1>1, <1>5, <3>1 DEF Asked
  <2> QED
    BY <1>5, <2>2, <2>3 DEF Asked
<1>6. pc # "idle" => call.s \in Slaves
  BY DEF Typed, Call
<1>7. CASE pc = "selAck"
  <2>1. Asked("SELECT")
    BY <1>1, <1>7 DEF LineInv
  <2>2. Rest(1)' => \A i \in 1..Len(up') : up'[i].c # "ACK"
    <3> SUFFICES ASSUME Rest(1)', NEW i \in 1..Len(up')
                 PROVE  up'[i].c # "ACK"
      OBVIOUS
    <3>1. acked[call.s] \in Nat
      BY <1>6, <1>7, SaidFacts
    <3>2. CASE acked' = acked
      <4>1. Message(call.s)' = Message(call.s)
        BY <1>1, <3>2 DEF Message
      <4>2. i \in 1..5 /\ i + 1 - 1 = i
        BY DEF Rest
      <4>3. \/ up'[i] = Message(call.s)[i]
            \/ i = 1 /\ up'[i] = Damaged(Message(call.s)[1])
        BY <4>1, <4>2 DEF Rest
      <4>4. /\ Message(call.s)[1].c = "STX" /\ Message(call.s)[2].c = "ADDR"
            /\ Message(call.s)[3].c = "TEXT" /\ Message(call.s)[4].c = "ETX"
            /\ Message(call.s)[5].c = "CRC" /\ Message(call.s)[1] \in Token
        <5>1. /\ Message(call.s)[1] = Char("STX")
              /\ Message(call.s)[4] = Char("ETX")
              /\ Message(call.s)[2] = Tok("ADDR", call.s, acked[call.s] + 1)
              /\ Message(call.s)[3] = Tok("TEXT", call.s, acked[call.s] + 1)
              /\ Message(call.s)[5] = Tok("CRC", call.s, acked[call.s] + 1)
          BY <1>6, <1>7, <3>1, MessageFacts
        <5>2. /\ Char("STX").c = "STX" /\ Char("ETX").c = "ETX"
              /\ \A c, s, n : Tok(c, s, n).c = c
          BY DEF Tok, Char
        <5>3. Char("STX") \in Token
          BY CharFacts DEF Control
        <5> QED
          BY <5>1, <5>2, <5>3
      <4>5. Damaged(Message(call.s)[1]).c = "STX"
        BY <4>4, DamagedFacts
      <4>6. i = 1 \/ i = 2 \/ i = 3 \/ i = 4 \/ i = 5
        BY <4>2
      <4> QED
        BY <4>3, <4>4, <4>5, <4>6
    <3>3. CASE acked' # acked
      <4>1. Tok("SELECT", call.s, 0).c = "SELECT"
        BY DEF Tok
      <4>2. down[1].c = "SELECT" \/ down[1].c = "EOT"
        BY <1>2, <2>1, <4>1 DEF Asked
      <4> QED
        BY <3>3, <4>2, SlaveHears DEF SlaveSelected
    <3> QED
      BY <3>2, <3>3
  <2>3. One({"ACK", "NAK", "EOT"})' => Len(up') = 1
    BY DEF One
  <2>4. up' = <<>> => \A i \in 1..Len(up') : up'[i].c # "ACK"
    BY EmptySeq
  <2>5. \/ Asked("SELECT")'
        \/ down' = <<>> /\ \A i \in 1..Len(up') : up'[i].c = "ACK" => Len(up') = 1
    BY <1>5, <1>6, <1>7, <2>1, <2>2, <2>3, <2>4
  <2> QED
    BY <1>1, <1>7, <2>5 DEF LineInv
<1>8. CASE pc \in {"drain", "text", "crc"}
  BY <1>1, <1>8 DEF LineInv
<1>9. CASE pc = "cmdAck"
  <2>1. down = <<Command>> /\ up = <<>>
    BY <1>1, <1>9 DEF LineInv
  <2>2. Command \in Token /\ Command.c = "CMD"
    <3>1. This \in Nat
      BY LineTyped DEF This
    <3> QED
      BY <1>6, <1>9, <3>1, TokFacts DEF Command
  <2>3. down' = <<>> /\ down[1].c = "CMD"
    BY <1>1, <2>1, <2>2, ShortFacts
  <2>4. up' = <<>> \/ One({"ACK", "NAK", "EOT"})'
    <3>1. ASSUME NEW x \in {"ACK", "NAK", "EOT"}, Says(<<Char(x)>>)
          PROVE  One({"ACK", "NAK", "EOT"})'
      <4>1. Char(x) \in Token /\ Char(x).c = x
        BY CharFacts DEF Control
      <4>2. up' = <<Char(x)>>
        BY <2>1, <3>1, <4>1, ShortFacts DEF Says
      <4> QED
        BY <4>1, <4>2 DEF One
    <3> QED
      BY <2>1, <2>3, <3>1, SlaveHears DEF SlaveCommanded
  <2> QED
    BY <1>1, <1>9, <2>3, <2>4 DEF LineInv
<1>10. CASE pc = "pollAck"
  <2>1. Asked("POLL")
    BY <1>1, <1>10 DEF LineInv
  <2>2. Rest(1)' => \E k \in 1..5 : Rest(k)'
    OBVIOUS
  <2>3. \/ Asked("POLL")'
        \/ /\ down' = <<>>
           /\ up' = <<>> \/ One({"ACK", "NAK", "EOT"})' \/ \E k \in 1..5 : Rest(k)'
    BY <1>5, <1>6, <1>10, <2>1, <2>2
  <2> QED
    BY <1>1, <1>10, <2>3 DEF LineInv
<1>11. CASE pc = "eot"
  BY <1>1, <1>11 DEF LineInv
<1>12. pc \in {"idle", "selAck", "drain", "cmdAck", "pollAck", "text", "crc",
               "eot"}
  BY DEF Typed, TypeOK
<1> QED
  BY <1>4, <1>7, <1>8, <1>9, <1>10, <1>11, <1>12

(* and the line loses or damages what it said. *)
LEMMA LineLine ==
  ASSUME Typed, LineInv, lates' = 0, Line
  PROVE  LineInv'
<1>1. /\ lates = 0 /\ pc' = pc /\ call' = call /\ log' = log /\ down' = down
      /\ hold' = hold /\ acked' = acked /\ up # <<>> /\ up' \in Seq(Token)
  BY LineCases
<1>2. \/ up' = Tail(up)
      \/ /\ Len(up') = Len(up) /\ up'[1] = Damaged(up[1])
         /\ \A i \in 2..Len(up) : up'[i] = up[i]
  BY LineCases
<1>3. /\ up \in Seq(Token) /\ Len(up) \in Nat /\ Len(up) >= 1
      /\ up[1] \in Token /\ Damaged(up[1]).c = up[1].c
      /\ Len(Tail(up)) = Len(up) - 1
      /\ \A i \in 1..(Len(up) - 1) : Tail(up)[i] = up[i + 1]
  BY <1>1, LineTyped, LenProperties, TailFacts, DamagedFacts
<1>4. ASSUME NEW k \in 1..6, Rest(k), call.s \in Slaves
      PROVE  \/ Rest(k)'
             \/ k \in 1..5 /\ Rest(k + 1)'
  BY <1>1, <1>2, <1>4, RestTail, RestDamaged
<1>5. ASSUME NEW C, One(C)
      PROVE  up' = <<>> \/ One(C)'
  <2>1. CASE up' = Tail(up)
    BY <1>3, <1>5, <2>1, TailOfOne DEF One
  <2>2. CASE Len(up') = Len(up) /\ up'[1] = Damaged(up[1])
    BY <1>3, <1>5, <2>2 DEF One
  <2> QED
    BY <1>2, <2>1, <2>2
<1>6. pc # "idle" => call.s \in Slaves
  BY DEF Typed, Call
<1>7. CASE pc = "selAck"
  <2>1. down = <<>> /\ \A i \in 1..Len(up) : up[i].c = "ACK" => Len(up) = 1
    BY <1>1, <1>7 DEF LineInv, Asked
  <2>2. ASSUME NEW i \in 1..Len(up'), up'[i].c = "ACK"
        PROVE  Len(up') = 1
    <3>1. CASE up' = Tail(up)
      <4>1. i + 1 \in 1..Len(up) /\ up'[i] = up[i + 1]
        BY <1>3, <2>2, <3>1
      <4>2. Len(up) = 1
        BY <2>1, <2>2, <4>1
      <4> QED
        BY <1>3, <4>1, <4>2
    <3>2. CASE /\ Len(up') = Len(up) /\ up'[1] = Damaged(up[1])
               /\ \A j \in 2..Len(up) : up'[j] = up[j]
      <4>1. up[i].c = "ACK" /\ i \in 1..Len(up)
        BY <1>3, <2>2, <3>2
      <4> QED
        BY <2>1, <3>2, <4>1
    <3> QED
      BY <1>2, <3>1, <3>2
  <2> QED
    BY <1>1, <1>7, <2>1, <2>2 DEF LineInv
<1>8. CASE pc = "cmdAck"
  <2>1. down = <<>> /\ One({"ACK", "NAK", "EOT"})
    BY <1>1, <1>8 DEF LineInv
  <2> QED
    BY <1>1, <1>5, <1>8, <2>1 DEF LineInv
<1>9. CASE pc = "pollAck"
  <2>1. /\ down = <<>>
        /\ One({"ACK", "NAK", "EOT"}) \/ \E k \in 1..5 : Rest(k)
    BY <1>1, <1>9 DEF LineInv, Asked
  <2>2. ASSUME NEW k \in 1..5, Rest(k)
        PROVE  up' = <<>> \/ \E j \in 1..5 : Rest(j)'
    <3>1. CASE k + 1 = 6 /\ Rest(k + 1)'
      <4>1. Len(up') = 0
        BY <3>1 DEF Rest
      <4> QED
        BY <1>1, <4>1, EmptySeq
    <3>2. k + 1 = 6 \/ k + 1 \in 1..5
      OBVIOUS
    <3> QED
      BY <1>4, <1>6, <1>9, <2>2, <3>1, <3>2
  <2>3. up' = <<>> \/ One({"ACK", "NAK", "EOT"})' \/ \E k \in 1..5 : Rest(k)'
    BY <1>5, <2>1, <2>2
  <2> QED
    BY <1>1, <1>9, <2>1, <2>3 DEF LineInv
<1>10. CASE pc \in {"text", "crc"}
  <2>1. down = <<>>
    BY <1>1, <1>10 DEF LineInv
  <2>2. PICK k \in 2..6 : Rest(k) /\ (pc = "crc" => k \in 5..6)
    BY <1>1, <1>10 DEF LineInv
  <2>3. PICK j \in 2..6 : Rest(j)' /\ (pc = "crc" => j \in 5..6)
    <3>1. Rest(k)' \/ (k \in 1..5 /\ Rest(k + 1)')
      BY <1>4, <1>6, <1>10, <2>2
    <3>2. k \in 1..5 => k + 1 \in 2..6 /\ (k \in 5..6 => k + 1 \in 5..6)
      OBVIOUS
    <3> QED
      BY <2>2, <3>1, <3>2
  <2> QED
    BY <1>1, <1>10, <2>1, <2>3 DEF LineInv
<1>11. CASE pc \in {"idle", "drain", "eot"}
  BY <1>1, <1>11 DEF LineInv
<1>12. pc \in {"idle", "selAck", "drain", "cmdAck", "pollAck", "text", "crc",
               "eot"}
  BY DEF Typed, TypeOK
<1> QED
  BY <1>7, <1>8, <1>9, <1>10, <1>11, <1>12

(* So it does at every step. *)
LEMMA LineStep ==
  ASSUME Typed, LineInv, FrameInv, Next
  PROVE  LineInv'
<1>1. CASE lates' = 0
  BY <1>1, StepCases, LineEnquires, LineEnds, LineReading, LineSlave, LineLine
  DEF EndsWithout, EndsWithText
<1>2. CASE lates' # 0
  BY <1>2 DEF LineInv
<1> QED
  BY <1>1, <1>2

----------------------------------------------------------------------------
(* The frame.                                                              *)

\* Before STX poll has kept nothing.
FrameEmpty == pc \notin {"text", "crc", "eot"} => frame = <<>>

(* Every call starts and ends that way. *)
LEMMA FrameEmptyStep ==
  ASSUME Typed, FrameEmpty, Next
  PROVE  FrameEmpty'
<1>1. CASE \/ Enquires("select", "SELECT", "selAck")
           \/ Enquires("poll", "POLL", "pollAck")
  BY <1>1 DEF FrameEmpty, Enquires
<1>2. CASE EndsWithout \/ EndsWithText
  BY <1>2 DEF FrameEmpty, EndsWithout, EndsWithText, Ends
<1>3. CASE SendsCommand \/ Drains \/ BeginsText \/ KeepsText \/ EndsText
           \/ Acknowledges
  BY <1>3 DEF FrameEmpty, SendsCommand, Drains, BeginsText, KeepsText,
     EndsText, Acknowledges, Reading
<1>4. CASE Slave
  BY <1>4, SlaveHears DEF FrameEmpty
<1>5. CASE Line
  BY <1>5, LineCases DEF FrameEmpty
<1> QED
  BY <1>1, <1>2, <1>3, <1>4, <1>5, StepCases

(* What comes first, while none is late: the address, *)
LEMMA KeptFirst ==
  ASSUME Typed, call.s \in Slaves, Rest(2), Kept(0), up # <<>>,
         frame' = Append(frame, up[1]), call' = call, acked' = acked
  PROVE  Kept(1)'
<1>1. /\ frame \in Seq(Token) /\ up[1] \in Token /\ Len(frame) \in Nat
      /\ Len(frame) <= 0
  BY LineTyped, TailFacts, LenProperties DEF Kept
<1>2. /\ Len(frame') = Len(frame) + 1
      /\ frame'[Len(frame) + 1] = up[1]
  BY <1>1, AppendProperties
<1>3. Len(frame') = 1 /\ frame'[1] = up[1]
  BY <1>1, <1>2
<1>4. acked[call.s] \in Nat /\ Heard(up[1], Message(call.s)[2])
  BY RestFacts
<1>5. Heard(frame'[1], Tok("ADDR", call.s, acked[call.s] + 1))
  BY <1>3, <1>4, MessageFacts
<1> QED
  BY <1>3, <1>5 DEF Kept

(* and the text. *)
LEMMA KeptSecond ==
  ASSUME Typed, call.s \in Slaves, Rest(3), Kept(1), up # <<>>,
         frame' = Append(frame, up[1]), call' = call, acked' = acked
  PROVE  Kept(2)'
<1>1. /\ frame \in Seq(Token) /\ up[1] \in Token /\ Len(frame) \in Nat
      /\ Len(frame) <= 1
  BY LineTyped, TailFacts, LenProperties DEF Kept
<1>2. /\ Len(frame') = Len(frame) + 1
      /\ frame'[Len(frame) + 1] = up[1]
      /\ \A i \in 1..Len(frame) : frame'[i] = frame[i]
  BY <1>1, AppendProperties
<1>3. acked[call.s] \in Nat /\ Heard(up[1], Message(call.s)[3])
  BY RestFacts
<1>4. Heard(up[1], Tok("TEXT", call.s, acked[call.s] + 1))
  BY <1>3, MessageFacts
<1>5. CASE Len(frame) = 0
  <2>1. Len(frame') = 1 /\ frame'[1] = up[1]
    BY <1>2, <1>5
  <2> QED
    BY <1>4, <2>1 DEF Kept
<1>6. CASE Len(frame) = 1
  <2>1. Len(frame') = 2 /\ frame'[1] = frame[1] /\ frame'[2] = up[1]
    BY <1>2, <1>6
  <2>2. Heard(frame[1], Tok("ADDR", call.s, acked[call.s] + 1))
    BY <1>6 DEF Kept
  <2> QED
    BY <1>4, <2>1, <2>2 DEF Kept
<1>7. Len(frame) = 0 \/ Len(frame) = 1
  BY <1>1, ShortLength
<1> QED
  BY <1>5, <1>6, <1>7

(* The line may lose one of them. *)
LEMMA KeptLess ==
  ASSUME Typed, NEW m \in 0..1, Kept(m),
         frame' = frame, call' = call, acked' = acked
  PROVE  Kept(m + 1)'
<1>1. Len(frame) \in Nat
  BY LineTyped, LenProperties
<1> QED
  BY <1>1 DEF Kept

(* Nothing else changes what is kept. *)
LEMMA KeptSame ==
  ASSUME NEW m, Kept(m), frame' = frame, call' = call, acked' = acked
  PROVE  Kept(m)'
BY DEF Kept

(* The master's reads keep it so, *)
LEMMA FrameReading ==
  ASSUME Typed, LineInv, FrameInv, FrameEmpty, lates' = 0,
         SendsCommand \/ Drains \/ BeginsText \/ KeepsText \/ EndsText
  PROVE  FrameInv'
<1>1. lates = 0 /\ lates' = lates
  BY DEF SendsCommand, Drains, BeginsText, KeepsText, EndsText, Reading
<1>2. CASE SendsCommand \/ Drains
  BY <1>2 DEF SendsCommand, Drains, Reading, FrameInv
<1>3. CASE BeginsText
  <2>1. frame' = frame /\ pc = "pollAck" /\ pc' = "text"
    BY <1>3 DEF BeginsText, Reading
  <2>2. frame' = <<>>
    BY <2>1 DEF FrameEmpty
  <2>3. \A m \in 0..2 : Len(up') = 4 - m => Kept(m)'
    <3>1. PICK k \in 1..5 : Rest(k)
      <4>1. up # <<>> /\ up[1].c = "STX"
        BY <1>3 DEF BeginsText, Reading, Is
      <4> QED
        BY <1>1, <2>1, <4>1 DEF LineInv, Asked, One
    <3>2. call.s \in Slaves /\ up # <<>> /\ up[1].c = "STX" /\ up' = Tail(up)
      BY <1>3 DEF BeginsText, Reading, Is, Typed, Call
    <3>3. k = 1
      BY <3>1, <3>2, RestFacts
    <3>4. Len(up') = 4
      BY <3>1, <3>2, <3>3, LineTyped, TailFacts DEF Rest
    <3>5. ASSUME NEW m \in 0..2, Len(up') = 4 - m
          PROVE  m = 0
      <4>1. 4 = 4 - m
        BY <3>4, <3>5
      <4> QED
        BY <4>1
    <3>6. Kept(0)'
      BY <2>2, EmptySeq DEF Kept
    <3> QED
      BY <3>5, <3>6
  <2> QED
    BY <2>1, <2>3 DEF FrameInv
<1>4. CASE KeepsText \/ EndsText
  <2>1. /\ pc = "text" /\ up # <<>> /\ up' = Tail(up)
        /\ call' = call /\ hold' = hold /\ acked' = acked
    BY <1>4 DEF KeepsText, EndsText, Reading, slave
  <2>2. call.s \in Slaves
    BY <2>1 DEF Typed, Call
  <2>3. PICK k \in 2..6 : Rest(k)
    BY <1>1, <2>1 DEF LineInv
  <2>4. /\ Len(up) = 6 - k /\ Len(up') = Len(up) - 1 /\ Len(up) >= 1
    BY <2>1, <2>3, LineTyped, TailFacts DEF Rest
  <2>5. \A m \in 0..2 : Len(up) = 4 - m => Kept(m)
    BY <1>1, <2>1 DEF FrameInv
  <2>6. CASE KeepsText
    <3>1. pc' = "text" /\ frame' = Append(frame, up[1])
      BY <2>6 DEF KeepsText, Reading
    <3>2. ASSUME NEW m \in 0..2, Len(up') = 4 - m
          PROVE  Kept(m)'
      <4>1. k = m + 1 /\ Len(up) = 5 - m
        BY <2>4, <3>2
      <4>2. CASE m = 1
        <5>1. Rest(2) /\ Kept(0)
          BY <2>3, <2>5, <4>1, <4>2
        <5>2. Kept(1)'
          BY <2>1, <2>2, <3>1, <5>1, KeptFirst
        <5> QED
          BY <4>2, <5>2
      <4>3. CASE m = 2
        <5>1. Rest(3) /\ Kept(1)
          BY <2>3, <2>5, <4>1, <4>3
        <5>2. Kept(2)'
          BY <2>1, <2>2, <3>1, <5>1, KeptSecond
        <5> QED
          BY <4>3, <5>2
      <4>4. m # 0
        BY <4>1
      <4> QED
        BY <4>2, <4>3, <4>4
    <3> QED
      BY <3>1, <3>2 DEF FrameInv
  <2>7. CASE EndsText
    <3>1. pc' = "crc" /\ frame' = frame /\ up[1].c = "ETX"
      BY <2>7 DEF EndsText, Reading, Is
    <3>2. k = 4
      BY <2>1, <2>2, <2>3, <3>1, RestFacts
    <3>3. Kept(2)
      BY <2>4, <2>5, <3>2
    <3>4. Kept(2)'
      BY <2>1, <3>1, <3>3, KeptSame
    <3> QED
      BY <3>1, <3>4 DEF FrameInv
  <2> QED
    BY <1>4, <2>6, <2>7
<1> QED
  BY <1>2, <1>3, <1>4

(* the message that is acknowledged is whole, *)
LEMMA FrameAcknowledges ==
  ASSUME Typed, LineInv, FrameInv, lates' = 0, Acknowledges
  PROVE  /\ lates = 0 /\ lates' = lates
         /\ call.s \in Slaves /\ call' = call /\ frame' = frame
         /\ pc = "crc" /\ pc' = "eot" /\ down = <<>> /\ up' = <<>>
         /\ frame[2].n = acked[call.s] + 1
         /\ FrameInv'
<1>1. /\ pc = "crc" /\ pc' = "eot" /\ Len(frame) > 1 /\ frame' = frame
      /\ call' = call /\ hold' = hold /\ acked' = acked
      /\ down' = Append(down, Char("ACK"))
  BY DEF Acknowledges, slave
<1>2. lates = 0 /\ lates' = lates
  BY LineTyped DEF Acknowledges, Ticks
<1>3. call.s \in Slaves
  BY <1>1 DEF Typed, Call
<1>4. Kept(2) /\ down = <<>>
  BY <1>1, <1>2 DEF FrameInv, LineInv
<1>5. PICK k \in 5..6 : Rest(k)
  BY <1>1, <1>2 DEF LineInv
<1>6. /\ hold = [s |-> call.s, st |-> "talking"] /\ Len(up) = 6 - k
      /\ acked[call.s] \in Nat /\ acked[call.s] < MaxAnswers
  BY <1>3, <1>5, RestFacts DEF Rest
<1>7. Len(frame) = 2
      /\ Heard(frame[2], Tok("TEXT", call.s, acked[call.s] + 1))
  <2>1. Len(frame) \in Nat /\ Len(frame) <= 2
    BY <1>4, LineTyped, LenProperties DEF Kept
  <2>2. Len(frame) = 2
    BY <1>1, <2>1, ShortLength
  <2> QED
    BY <1>4, <2>2 DEF Kept
<1>8. frame[2].n = acked[call.s] + 1
  <2>1. acked[call.s] + 1 \in Nat
    BY <1>6
  <2>2. /\ Tok("TEXT", call.s, acked[call.s] + 1) \in Token
        /\ Tok("TEXT", call.s, acked[call.s] + 1).n = acked[call.s] + 1
    BY <1>3, <2>1, TokFacts
  <2> QED
    BY <1>7, <2>2, DamagedFacts DEF Heard
<1>9. up' = <<>>
  <2>1. CASE up # <<>> /\ up' = Tail(up)
    <3>1. up \in Seq(Token) /\ Len(up) >= 1
      BY <2>1, LineTyped, TailFacts
    <3>2. Len(up) = 1
      BY <1>6, <3>1
    <3> QED
      BY <2>1, <3>1, <3>2, TailOfOne
  <2>2. CASE up' = up /\ up = <<>>
    BY <2>2
  <2> QED
    BY <1>2, <2>1, <2>2 DEF Acknowledges
<1>10. down' = <<Char("ACK")>>
  BY <1>1, <1>4, CharFacts, ShortFacts DEF Control
<1>11. frame[2].n \in 1..MaxAnswers
  BY <1>6, <1>8, LineTyped, SMTT(30)
<1>12. FrameInv'
  BY <1>1, <1>6, <1>7, <1>8, <1>9, <1>10, <1>11 DEF FrameInv
<1> QED
  BY <1>1, <1>2, <1>3, <1>4, <1>8, <1>9, <1>12

(* the slave that hears the acknowledgement counts it, *)
LEMMA FrameSlave ==
  ASSUME Typed, LineInv, FrameInv, lates' = 0, Slave
  PROVE  FrameInv'
<1>1. /\ lates = 0 /\ down # <<>> /\ down' = Tail(down)
      /\ pc' = pc /\ call' = call /\ frame' = frame
  BY SlaveHears
<1>2. pc # "text" /\ pc # "crc"
  BY <1>1 DEF LineInv
<1>3. CASE pc = "eot"
  <2>1. /\ Len(frame) = 2 /\ frame[2].n \in 1..MaxAnswers
        /\ Heard(frame[2], Tok("TEXT", call.s, frame[2].n))
        /\ frame[2].n = acked[call.s] + 1 /\ up = <<>>
        /\ down = <<Char("ACK")>> /\ hold = [s |-> call.s, st |-> "talking"]
    BY <1>1, <1>3 DEF FrameInv
  <2>2. Char("ACK") \in Token /\ Char("ACK").c = "ACK"
        /\ Char("EOT") \in Token /\ Char("EOT").c = "EOT"
    BY CharFacts DEF Control
  <2>3. down' = <<>> /\ down[1].c = "ACK"
    BY <1>1, <2>1, <2>2, ShortFacts
  <2>4. call.s \in Slaves /\ acked \in [Slaves -> 0..MaxAnswers]
    BY <1>3 DEF Typed, TypeOK, Call
  <2>5. CASE up' = up /\ acked' = acked
    BY <1>1, <1>3, <2>1, <2>3, <2>5 DEF FrameInv
  <2>6. CASE SlaveAcknowledged
    <3>1. /\ acked' = [acked EXCEPT ![call.s] = @ + 1]
          /\ up' = up \o <<Char("EOT")>>
      BY <2>1, <2>6 DEF SlaveAcknowledged, Says
    <3>2. acked'[call.s] = acked[call.s] + 1
      BY <2>4, <3>1
    <3>3. up' = <<Char("EOT")>>
      BY <2>1, <2>2, <3>1, ShortFacts
    <3>4. One({"EOT"})'
      BY <2>2, <3>3 DEF One
    <3> QED
      BY <1>1, <1>3, <2>1, <2>3, <3>2, <3>4 DEF FrameInv
  <2> QED
    BY <2>3, <2>5, <2>6, SlaveHears
<1>4. CASE pc # "eot"
  BY <1>1, <1>2, <1>4 DEF FrameInv
<1> QED
  BY <1>3, <1>4

(* and the line leaves it alone. *)
LEMMA FrameLine ==
  ASSUME Typed, LineInv, FrameInv, lates' = 0, Line
  PROVE  FrameInv'
<1>1. /\ lates = 0 /\ pc' = pc /\ call' = call /\ frame' = frame /\ down' = down
      /\ hold' = hold /\ acked' = acked /\ up # <<>>
  BY LineCases
<1>2. \/ up' = Tail(up)
      \/ Len(up') = Len(up) /\ up'[1] = Damaged(up[1])
  BY LineCases
<1>3. /\ up \in Seq(Token) /\ Len(up) \in Nat /\ Len(up) >= 1
      /\ up[1] \in Token /\ Damaged(up[1]).c = up[1].c
      /\ Len(Tail(up)) = Len(up) - 1
  BY <1>1, LineTyped, LenProperties, TailFacts, DamagedFacts
<1>4. CASE pc = "text"
  <2>1. PICK k \in 2..6 : Rest(k)
    BY <1>1, <1>4 DEF LineInv
  <2>2. Len(up) <= 4
    BY <2>1 DEF Rest
  <2>3. ASSUME NEW m \in 0..2, Len(up') = 4 - m
        PROVE  Kept(m)'
    <3>1. CASE Len(up') = Len(up)
      <4>1. Kept(m)
        BY <1>1, <1>4, <2>3, <3>1 DEF FrameInv
      <4> QED
        BY <1>1, <4>1, KeptSame
    <3>2. CASE Len(up') = Len(up) - 1
      <4>1. m - 1 \in 0..1 /\ Len(up) = 4 - (m - 1)
        BY <1>3, <2>2, <2>3, <3>2
      <4>2. m - 1 \in 0..2 /\ (m - 1) + 1 = m
        BY <4>1
      <4>3. Kept(m - 1)
        BY <1>1, <1>4, <4>1, <4>2 DEF FrameInv
      <4>4. Kept((m - 1) + 1)'
        BY <1>1, <4>1, <4>3, KeptLess
      <4> QED
        BY <4>2, <4>4
    <3> QED
      BY <1>2, <1>3, <3>1, <3>2
  <2> QED
    BY <1>1, <1>4, <2>3 DEF FrameInv
<1>5. CASE pc = "crc"
  <2>1. Kept(2)'
    BY <1>1, <1>5, KeptSame DEF FrameInv
  <2> QED
    BY <1>1, <1>5, <2>1 DEF FrameInv
<1>6. CASE pc = "eot"
  <2>1. One({"EOT"}) /\ frame[2].n = acked[call.s] /\ down = <<>>
    BY <1>1, <1>6 DEF FrameInv
  <2>2. up' = <<>> \/ One({"EOT"})'
    <3>1. CASE up' = Tail(up)
      BY <1>3, <2>1, <3>1, TailOfOne DEF One
    <3>2. CASE Len(up') = Len(up) /\ up'[1] = Damaged(up[1])
      BY <1>3, <2>1, <3>2 DEF One
    <3> QED
      BY <1>2, <3>1, <3>2
  <2> QED
    BY <1>1, <1>6, <2>1, <2>2 DEF FrameInv
<1>7. CASE pc \notin {"text", "crc", "eot"}
  BY <1>1, <1>7 DEF FrameInv
<1> QED
  BY <1>4, <1>5, <1>6, <1>7

(* So the frame holds part of a message at every step. *)
LEMMA FrameStep ==
  ASSUME Typed, LineInv, FrameInv, FrameEmpty, Next
  PROVE  FrameInv'
<1>1. CASE lates' # 0
  BY <1>1 DEF FrameInv
<1>2. CASE lates' = 0
  <2>1. CASE \/ Enquires("select", "SELECT", "selAck")
             \/ Enquires("poll", "POLL", "pollAck")
    BY <2>1 DEF FrameInv, Enquires
  <2>2. CASE EndsWithout \/ EndsWithText
    BY <2>2 DEF FrameInv, EndsWithout, EndsWithText, Ends
  <2> QED
    BY <1>2, <2>1, <2>2, StepCases, FrameReading, FrameAcknowledges,
       FrameSlave, FrameLine
<1> QED
  BY <1>1, <1>2

----------------------------------------------------------------------------
(* The commands.                                                           *)

(* A command is carried out no more often than it stands in executed, *)
LEMMA NeverExecuted ==
  ASSUME NEW i, \A j \in 1..Len(executed) : executed[j] # i
  PROVE  Executions(i) = 0
<1>1. {j \in 1..Len(executed) : executed[j] = i} = {}
  OBVIOUS
<1> QED
  BY <1>1, FS_EmptySet DEF Executions

(* once more when it is carried out, *)
LEMMA ExecutedOnce ==
  ASSUME Typed, NEW n \in 1..MaxCalls, executed' = Append(executed, n),
         \A j \in 1..Len(executed) : executed[j] # n
  PROVE  {j \in 1..Len(executed') : executed'[j] = n} = {Len(executed) + 1}
<1>1. executed \in Seq(1..MaxCalls) /\ Len(executed) \in Nat
  BY LenProperties DEF Typed, TypeOK
<1>2. /\ Len(executed') = Len(executed) + 1
      /\ executed'[Len(executed) + 1] = n
      /\ \A j \in 1..Len(executed) : executed'[j] = executed[j]
  BY <1>1, AppendProperties
<1>3. \A j \in 1..(Len(executed) + 1) :
        j \in 1..Len(executed) \/ j = Len(executed) + 1
  BY <1>1
<1>4. Len(executed) + 1 \in 1..Len(executed')
  BY <1>1, <1>2
<1> QED
  BY <1>2, <1>3, <1>4

(* while the count of the others stays. *)
LEMMA ExecutedOther ==
  ASSUME Typed, NEW n \in 1..MaxCalls, executed' = Append(executed, n),
         NEW i, i # n
  PROVE  {j \in 1..Len(executed') : executed'[j] = i}
           = {j \in 1..Len(executed) : executed[j] = i}
<1>1. executed \in Seq(1..MaxCalls) /\ Len(executed) \in Nat
  BY LenProperties DEF Typed, TypeOK
<1>2. /\ Len(executed') = Len(executed) + 1
      /\ executed'[Len(executed) + 1] = n
      /\ \A j \in 1..Len(executed) : executed'[j] = executed[j]
  BY <1>1, AppendProperties
<1>3. \A j \in 1..(Len(executed) + 1) :
        j \in 1..Len(executed) \/ j = Len(executed) + 1
  BY <1>1
<1>4. 1..Len(executed) \subseteq 1..Len(executed')
  BY <1>1, <1>2
<1> QED
  BY <1>2, <1>3, <1>4

(* The two, together, say of a slave's step what it does to the counts. *)
LEMMA CommandHeard ==
  ASSUME Typed, LineInv, CommandInv, lates' = 0, SlaveCommanded, Slave,
         pc = "cmdAck"
  PROVE  /\ down = <<Command>> /\ up = <<>> /\ down' = <<>>
         /\ \A j \in 1..Len(executed) : executed[j] < This
         /\ \/ /\ executed' = Append(executed, This)
               /\ up' = <<Char("ACK")>>
            \/ /\ executed' = executed
               /\ up' = <<Char("NAK")>> \/ up' = <<Char("EOT")>>
         /\ This \in 1..MaxCalls
<1>1. lates = 0 /\ down # <<>> /\ down' = Tail(down) /\ Head(down) = down[1]
  BY SlaveHears
<1>2. down = <<Command>> /\ up = <<>>
  BY <1>1 DEF LineInv
<1>3. Len(log) < MaxCalls /\ call \in Call
  BY DEF Typed
<1>4. This \in 1..MaxCalls /\ This \in Nat /\ call.s \in Slaves
  BY <1>3, LineTyped DEF This, Call
<1>5. Command \in Token /\ Command.n = This
  <2>1. This \in Nat /\ call.s \in Slaves
    BY <1>4
  <2> QED
    BY <2>1, TokFacts DEF Command
<1>6. down' = <<>> /\ Head(down).n = This
  BY <1>1, <1>2, <1>5, ShortFacts
<1>7. \A j \in 1..Len(executed) : executed[j] < This
  BY <1>1 DEF CommandInv
<1>8. \A x \in {"ACK", "NAK", "EOT"} : <<>> \o <<Char(x)>> = <<Char(x)>>
  <2> TAKE x \in {"ACK", "NAK", "EOT"}
  <2>1. Char(x) \in Token
    BY CharFacts DEF Control
  <2> QED
    BY <2>1, ShortFacts
<1> QED
  BY <1>2, <1>4, <1>6, <1>7, <1>8 DEF SlaveCommanded, Says

(* What has been carried out, at each step of a call, *)
LEMMA CommandEnds ==
  ASSUME Typed, CommandInv, lates' = 0, executed' = executed,
         Len(log') = Len(log) + 1, lates = 0, pc' # "cmdAck"
  PROVE  CommandInv'
<1>1. /\ executed \in Seq(1..MaxCalls) /\ Len(log) \in Nat
      /\ \A j \in 1..Len(executed) : executed[j] \in Nat
  <2>1. executed \in Seq(1..MaxCalls)
    BY DEF Typed, TypeOK
  <2>2. \A j \in 1..Len(executed) : executed[j] \in 1..MaxCalls
    BY <2>1, ElementOfSeq
  <2>3. Len(log) \in Nat
    BY LineTyped
  <2> QED
    BY <2>1, <2>2, <2>3
<1>2. \A j \in 1..Len(executed) : executed[j] <= Len(log) + 1
  BY <1>1 DEF CommandInv, This
<1>3. \A j \in 1..Len(executed) : executed[j] < (Len(log) + 1) + 1
  BY <1>1, <1>2
<1> QED
  BY <1>3 DEF CommandInv, This

(* and at every step. *)
LEMMA CommandStep ==
  ASSUME Typed, LineInv, FrameInv, CommandInv, Next
  PROVE  CommandInv'
<1>1. CASE lates' # 0
  BY <1>1 DEF CommandInv
<1>2. CASE lates' = 0
  <2>0. LineInv' /\ Typed'
    BY LineStep, TypedStep
  <2>1. CASE \/ Enquires("select", "SELECT", "selAck")
             \/ Enquires("poll", "POLL", "pollAck")
    <3>1. /\ lates = 0 /\ pc = "idle" /\ executed' = executed
          /\ pc' \in {"idle", "selAck", "pollAck"}
      BY <1>2, <2>1, LineTyped DEF Enquires, Ticks, slave
    <3>2. \/ log' = log
          \/ \E op, s, r : log' = Append(log, [op |-> op, s |-> s, r |-> r])
      BY <2>1 DEF Enquires, Logs
    <3>3. Len(log') = Len(log) \/ Len(log') = Len(log) + 1
      <4>1. log \in Seq([op: {"select", "poll"}, s: Slaves, r: Return])
            /\ log' \in Seq([op: {"select", "poll"}, s: Slaves, r: Return])
        BY <2>0 DEF Typed, TypeOK
      <4>2. \A e : Len(Append(log, e)) = Len(log) + 1
        BY <4>1
      <4> QED
        BY <3>2, <4>2
    <3>4. CASE Len(log') = Len(log)
      BY <3>1, <3>4 DEF CommandInv, This
    <3>5. CASE Len(log') = Len(log) + 1
      BY <1>2, <3>1, <3>5, CommandEnds
    <3> QED
      BY <3>3, <3>4, <3>5
  <2>2. CASE EndsWithout \/ EndsWithText
    <3>1. /\ lates = 0 /\ executed' = executed /\ pc' = "idle" /\ pc # "idle"
      BY <1>2, <2>2, LineTyped DEF EndsWithout, EndsWithText, Ends, Ticks, slave
    <3>2. Len(log') = Len(log) + 1
      <4>1. "chars" \in Return
        BY DEF Return
      <4> QED
        BY <2>2, <3>1, <4>1, Logged DEF EndsWithout, EndsWithText
    <3> QED
      BY <1>2, <3>1, <3>2, CommandEnds
  <2>3. CASE SendsCommand
    <3>1. /\ lates = 0 /\ executed' = executed /\ pc = "selAck" /\ log' = log
          /\ pc' = "cmdAck" /\ down' = Append(down, Command)
      BY <1>2, <2>3 DEF SendsCommand, Reading, slave
    <3>2. down' # <<>>
      <4>1. down \in Seq(Token) /\ down' \in Seq(Token) /\ Len(down) \in Nat
        BY <2>0, LenProperties DEF Typed, TypeOK
      <4>2. Len(down') = Len(down) + 1
        BY <3>1, <4>1
      <4> QED
        BY <4>1, <4>2, EmptySeq
    <3>3. up' = <<>>
      BY <1>2, <2>0, <3>1, <3>2 DEF LineInv
    <3> QED
      BY <3>1, <3>3 DEF CommandInv, This
  <2>4. CASE Drains \/ BeginsText \/ KeepsText \/ EndsText \/ Acknowledges
    <3>1. /\ lates = 0 /\ executed' = executed /\ log' = log
          /\ pc # "cmdAck" /\ pc' # "cmdAck"
      BY <1>2, <2>4, LineTyped DEF Drains, BeginsText, KeepsText, EndsText,
         Acknowledges, Reading, Ticks, slave
    <3> QED
      BY <3>1 DEF CommandInv, This
  <2>5. CASE Slave
    <3>1. /\ lates = 0 /\ pc' = pc /\ log' = log /\ down # <<>>
      BY <1>2, <2>5, SlaveHears
    <3>2. CASE executed' = executed /\ (pc = "cmdAck" => up' = <<>>)
      BY <3>1, <3>2 DEF CommandInv, This, Executions
    <3>3. CASE pc = "cmdAck" /\ SlaveCommanded
      <4>1. /\ down' = <<>> /\ \A j \in 1..Len(executed) : executed[j] < This
            /\ This \in 1..MaxCalls
        BY <1>2, <2>5, <3>3, CommandHeard
      <4>2. executed \in Seq(1..MaxCalls) /\ Len(executed) \in Nat
        BY LenProperties DEF Typed, TypeOK
      <4>3. /\ Char("ACK").c = "ACK" /\ Char("NAK").c = "NAK"
            /\ Char("EOT").c = "EOT"
        BY CharFacts DEF Control
      <4>4. This' = This
        BY <3>1 DEF This
      <4>5. \A j \in 1..Len(executed) : executed[j] # This
        BY <4>1, <4>2, ElementOfSeq
      <4>6. CASE executed' = Append(executed, This) /\ up' = <<Char("ACK")>>
        <5>1. {j \in 1..Len(executed') : executed'[j] = This}
                = {Len(executed) + 1}
          BY <4>1, <4>5, <4>6, ExecutedOnce
        <5>2. Cardinality({Len(executed) + 1}) = 1
          BY FS_Singleton
        <5>3. Executions(This)' = 1
          BY <4>4, <5>1, <5>2 DEF Executions
        <5>4. \A j \in 1..Len(executed') :
                executed'[j] < This \/ executed'[j] = This
          <6>1. /\ Len(executed') = Len(executed) + 1
                /\ executed'[Len(executed) + 1] = This
                /\ \A j \in 1..Len(executed) : executed'[j] = executed[j]
            BY <4>1, <4>2, <4>6, AppendProperties
          <6>2. \A j \in 1..(Len(executed) + 1) :
                  j \in 1..Len(executed) \/ j = Len(executed) + 1
            BY <4>2
          <6> QED
            BY <4>1, <6>1, <6>2
        <5>5. up'[1].c = "ACK"
          BY <4>3, <4>6
        <5> QED
          BY <3>1, <3>3, <4>1, <4>4, <5>3, <5>4, <5>5 DEF CommandInv
      <4>7. CASE /\ executed' = executed
                 /\ up' = <<Char("NAK")>> \/ up' = <<Char("EOT")>>
        <5>1. Executions(This) = 0
          BY <4>5, NeverExecuted
        <5>2. Executions(This)' = 0
          BY <4>4, <4>7, <5>1 DEF Executions
        <5>3. up'[1].c # "ACK"
          BY <4>3, <4>7
        <5> QED
          BY <4>1, <4>4, <4>7, <5>2, <5>3 DEF CommandInv
      <4> QED
        BY <1>2, <2>5, <3>3, <4>6, <4>7, CommandHeard
    <3>4. CASE pc # "cmdAck" /\ SlaveCommanded
      <4>1. down[1].c = "CMD"
        BY <2>5, <3>4, SlaveHears DEF SlaveCommanded, Hears, Is
      <4>2. \A n : Tok("POLL", call.s, n).c # "CMD" /\ Tok("SELECT", call.s, n).c # "CMD"
        BY DEF Tok
      <4>3. Char("EOT").c # "CMD" /\ Char("ACK").c # "CMD"
        BY DEF Tok, Char
      <4>4. pc \in {"idle", "selAck", "drain", "cmdAck", "pollAck", "text",
                    "crc", "eot"}
        BY DEF Typed, TypeOK
      <4> QED
        BY <3>1, <3>4, <4>1, <4>2, <4>3, <4>4 DEF LineInv, FrameInv, Asked
    <3>5. pc = "cmdAck" => up = <<>> /\ down[1].c = "CMD"
      <4> SUFFICES ASSUME pc = "cmdAck" PROVE up = <<>> /\ down[1].c = "CMD"
        OBVIOUS
      <4>1. up = <<>> /\ down = <<Command>>
        BY <3>1 DEF LineInv
      <4>2. Command.c = "CMD"
        BY DEF Command, Tok
      <4> QED
        BY <4>1, <4>2
    <3>6. ~SlaveCommanded => executed' = executed
                             /\ (pc = "cmdAck" => up' = up)
      BY <2>5, <3>5, SlaveHears DEF SlavePolled, SlaveSelected,
         SlaveAcknowledged
    <3> QED
      BY <3>2, <3>3, <3>4, <3>5, <3>6
  <2>6. CASE Line
    <3>1. /\ lates = 0 /\ pc' = pc /\ log' = log /\ executed' = executed
          /\ down' = down /\ up # <<>>
      BY <1>2, <2>6, LineCases
    <3>2. pc = "cmdAck" /\ up' # <<>> => up'[1].c = up[1].c
      <4> SUFFICES ASSUME pc = "cmdAck", up' # <<>> PROVE up'[1].c = up[1].c
        OBVIOUS
      <4>1. Len(up) = 1 /\ up \in Seq(Token)
        BY <3>1, LineTyped DEF LineInv, One
      <4>2. Tail(up) = <<>> /\ up[1] \in Token
        BY <4>1, TailOfOne, ElementOfSeq
      <4>3. up'[1] = Damaged(up[1])
        BY <2>6, <4>2, LineCases
      <4> QED
        BY <4>2, <4>3, DamagedFacts
    <3> QED
      BY <3>1, <3>2 DEF CommandInv, This, Executions
  <2> QED
    BY <2>1, <2>2, <2>3, <2>4, <2>5, <2>6, StepCases
<1> QED
  BY <1>1, <1>2

\* The results after which a command has not been carried out.
NotDone == {"SLAVE_BUSY", "SLAVE_CANNOT_UNDERSTAND_MESSAGE",
            "BAD_SELECT_COMMAND", "WRITE_FAILED"}

(* A step that ends no call keeps the outcomes, *)
LEMMA OutcomeSame ==
  ASSUME CommandOutcome, lates' = lates, log' = log,
         \A i \in 1..Len(log) : Executions(i)' = Executions(i)
  PROVE  CommandOutcome'
BY DEF CommandOutcome, Selects

(* and one that does adds one. *)
LEMMA OutcomeLogged ==
  ASSUME Typed, CommandOutcome, lates = 0, executed' = executed,
         NEW op, NEW s, NEW r,
         log' = Append(log, [op |-> op, s |-> s, r |-> r]),
         op = "select" /\ r = "chars" => Executions(This) = 1,
         op = "select" /\ r \in NotDone => Executions(This) = 0
  PROVE  CommandOutcome'
<1>1. log \in Seq([op: {"select", "poll"}, s: Slaves, r: Return])
      /\ Len(log) \in Nat
  BY LineTyped DEF Typed, TypeOK
<1>2. /\ Len(log') = Len(log) + 1
      /\ log'[Len(log) + 1] = [op |-> op, s |-> s, r |-> r]
      /\ \A i \in 1..Len(log) : log'[i] = log[i]
  BY <1>1, AppendProperties
<1>3. \A i : Executions(i)' = Executions(i)
  BY DEF Executions
<1>4. \A i \in 1..Len(log') : i \in 1..Len(log) \/ i = This
  BY <1>1, <1>2 DEF This
<1>5. ASSUME NEW i \in Selects({"chars"})'
      PROVE  Executions(i) = 1
  <2>1. i \in 1..Len(log') /\ log'[i].op = "select" /\ log'[i].r = "chars"
    BY DEF Selects
  <2>2. CASE i \in 1..Len(log)
    BY <1>2, <2>1, <2>2 DEF CommandOutcome, Selects
  <2>3. CASE i = This
    BY <1>2, <2>1, <2>3 DEF This
  <2> QED
    BY <1>4, <2>1, <2>2, <2>3
<1>6. ASSUME NEW i \in Selects(NotDone)'
      PROVE  Executions(i) = 0
  <2>1. i \in 1..Len(log') /\ log'[i].op = "select" /\ log'[i].r \in NotDone
    BY DEF Selects
  <2>2. CASE i \in 1..Len(log)
    BY <1>2, <2>1, <2>2 DEF CommandOutcome, Selects, NotDone
  <2>3. CASE i = This
    BY <1>2, <2>1, <2>3 DEF This
  <2> QED
    BY <1>4, <2>1, <2>2, <2>3
<1> QED
  BY <1>3, <1>5, <1>6 DEF CommandOutcome, NotDone

(* What a select returns agrees with what its slave did, at every step. *)
LEMMA OutcomeStep ==
  ASSUME Typed, LineInv, FrameInv, CommandInv, CommandOutcome, Next
  PROVE  CommandOutcome'
<1>1. CASE lates' # 0
  BY <1>1 DEF CommandOutcome
<1>2. CASE lates' = 0
  <2>0. ASSUME lates = 0, pc # "cmdAck"
        PROVE  Executions(This) = 0
    <3>1. executed \in Seq(1..MaxCalls) /\ This \in Nat
      BY LineTyped DEF Typed, TypeOK, This
    <3>2. \A j \in 1..Len(executed) : executed[j] < This
      BY <2>0 DEF CommandInv
    <3>3. \A j \in 1..Len(executed) : executed[j] # This
      BY <3>1, <3>2, ElementOfSeq
    <3> QED
      BY <3>3, NeverExecuted
  <2>1. CASE \/ Enquires("select", "SELECT", "selAck")
             \/ Enquires("poll", "POLL", "pollAck")
    <3>1. /\ lates = 0 /\ lates' = lates /\ pc = "idle" /\ executed' = executed
      BY <1>2, <2>1, LineTyped DEF Enquires, Ticks, slave
    <3>2. \/ log' = log
          \/ \E op, s : log' = Append(log, [op |-> op, s |-> s, r |-> "WRITE_FAILED"])
      BY <2>1 DEF Enquires, Logs
    <3>3. CASE log' = log
      BY <3>1, <3>3, OutcomeSame DEF Executions
    <3>4. ASSUME NEW op, NEW s,
                 log' = Append(log, [op |-> op, s |-> s, r |-> "WRITE_FAILED"])
          PROVE  CommandOutcome'
      BY <2>0, <3>1, <3>4, OutcomeLogged
    <3> QED
      BY <3>2, <3>3, <3>4
  <2>2. CASE EndsWithout
    <3>1. /\ lates = 0 /\ lates' = lates /\ executed' = executed
      BY <1>2, <2>2, LineTyped DEF EndsWithout, Ends, Ticks, slave
    <3>2. PICK r \in Return : Logs(call.op, call.s, r) /\ From(r)
      BY <2>2 DEF EndsWithout
    <3>3. r = "chars" => Executions(This) = 1
      BY <3>1, <3>2 DEF From, CommandInv, Is
    <3>4. r \in NotDone => Executions(This) = 0
      <4>1. CASE pc # "cmdAck"
        BY <2>0, <3>1, <4>1
      <4>2. CASE pc = "cmdAck"
        BY <3>1, <3>2, <4>2 DEF From, CommandInv, NotDone
      <4> QED
        BY <4>1, <4>2
    <3> QED
      BY <3>1, <3>2, <3>3, <3>4, OutcomeLogged DEF Logs
  <2>3. CASE EndsWithText
    <3>1. /\ lates = 0 /\ lates' = lates /\ executed' = executed
          /\ Logs(call.op, call.s, "chars") /\ pc = "eot"
      BY <1>2, <2>3, LineTyped DEF EndsWithText, Ends, Ticks, slave
    <3>2. call.op = "poll"
      BY <3>1 DEF Typed, PollReads
    <3> QED
      BY <3>1, <3>2, OutcomeLogged DEF Logs
  <2>4. CASE SendsCommand \/ Drains \/ BeginsText \/ KeepsText \/ EndsText
             \/ Acknowledges
    <3>1. /\ lates' = lates /\ executed' = executed /\ log' = log
      BY <1>2, <2>4, LineTyped DEF SendsCommand, Drains, BeginsText,
         KeepsText, EndsText, Acknowledges, Reading, Ticks, slave
    <3> QED
      BY <3>1, OutcomeSame DEF Executions
  <2>5. CASE Slave
    <3>1. /\ lates = 0 /\ lates' = lates /\ log' = log /\ down # <<>>
      BY <1>2, <2>5, SlaveHears
    <3>2. CASE executed' = executed
      BY <3>1, <3>2, OutcomeSame DEF Executions
    <3>3. CASE executed' # executed
      <4>1. SlaveCommanded
        BY <2>5, <3>3, SlaveHears DEF SlavePolled, SlaveSelected,
           SlaveAcknowledged
      <4>2. pc = "cmdAck"
        <5>1. down[1].c = "CMD"
          BY <2>5, <4>1, SlaveHears DEF SlaveCommanded, Hears, Is
        <5>2. \A n : /\ Tok("POLL", call.s, n).c # "CMD"
                     /\ Tok("SELECT", call.s, n).c # "CMD"
          BY DEF Tok
        <5>3. Char("EOT").c # "CMD" /\ Char("ACK").c # "CMD"
          BY DEF Tok, Char
        <5>4. pc \in {"idle", "selAck", "drain", "cmdAck", "pollAck", "text",
                      "crc", "eot"}
          BY DEF Typed, TypeOK
        <5> QED
          BY <3>1, <5>1, <5>2, <5>3, <5>4 DEF LineInv, FrameInv, Asked
      <4>3. executed' = Append(executed, This) /\ This \in 1..MaxCalls
        BY <1>2, <2>5, <3>3, <4>1, <4>2, CommandHeard
      <4>4. ASSUME NEW i \in 1..Len(log)
            PROVE  Executions(i)' = Executions(i)
        <5>1. i # This
          BY LineTyped DEF This
        <5> QED
          BY <4>3, <5>1, ExecutedOther DEF Executions
      <4> QED
        BY <3>1, <4>4, OutcomeSame
    <3> QED
      BY <3>2, <3>3
  <2>6. CASE Line
    <3>1. lates' = lates /\ log' = log /\ executed' = executed
      BY <2>6, LineCases
    <3> QED
      BY <3>1, OutcomeSame DEF Executions
  <2> QED
    BY <2>1, <2>2, <2>3, <2>4, <2>5, <2>6, StepCases
<1> QED
  BY <1>1, <1>2

\* The part of the invariant that says what is on its way.
LinkInv == Typed /\ LineInv /\ FrameInv /\ FrameEmpty

(* The invariant at the start, *)
LEMMA LinkInit == Init => LinkInv /\ CommandInv /\ CommandOutcome
<1> SUFFICES ASSUME Init PROVE LinkInv /\ CommandInv /\ CommandOutcome
  OBVIOUS
<1>1. Typed
  BY TypedInit
<1>2. LineInv /\ FrameInv /\ FrameEmpty
  BY DEF Init, LineInv, FrameInv, FrameEmpty
<1>3. CommandInv /\ CommandOutcome
  <2>1. Len(executed) = 0 /\ Len(log) = 0 /\ pc = "idle"
    BY EmptySeq DEF Init
  <2>2. CommandInv
    BY <2>1 DEF CommandInv
  <2>3. \A R : Selects(R) = {}
    BY <2>1 DEF Selects
  <2> QED
    BY <2>2, <2>3 DEF CommandOutcome
<1> QED
  BY <1>1, <1>2, <1>3 DEF LinkInv

(* at every step, *)
LEMMA LinkStep == LinkInv /\ [Next]_vars => LinkInv'
<1> SUFFICES ASSUME LinkInv, [Next]_vars PROVE LinkInv'
  OBVIOUS
<1>1. Typed'
  BY TypedStep DEF LinkInv
<1>2. CASE Next
  BY <1>1, <1>2, LineStep, FrameStep, FrameEmptyStep DEF LinkInv
<1>3. CASE UNCHANGED vars
  <2>1. /\ down' = down /\ up' = up /\ pc' = pc /\ call' = call
        /\ frame' = frame /\ log' = log /\ hold' = hold /\ acked' = acked
        /\ lates' = lates
    BY <1>3 DEF vars, line, master, slave
  <2>2. LineInv'
    BY <2>1 DEF LinkInv, LineInv, Asked, One, Rest, Message, Command, This
  <2>3. FrameInv' /\ FrameEmpty'
    BY <2>1 DEF LinkInv, FrameInv, FrameEmpty, Kept, One
  <2> QED
    BY <1>1, <2>2, <2>3 DEF LinkInv
<1> QED
  BY <1>2, <1>3

(* for the commands too. *)
LEMMA LinkCommandStep ==
  LinkInv /\ CommandInv /\ CommandOutcome /\ [Next]_vars
    => CommandInv' /\ CommandOutcome'
<1> SUFFICES ASSUME LinkInv, CommandInv, CommandOutcome, [Next]_vars
             PROVE  CommandInv' /\ CommandOutcome'
  OBVIOUS
<1>1. CASE Next
  BY <1>1, CommandStep, OutcomeStep DEF LinkInv
<1>2. CASE UNCHANGED vars
  <2>1. /\ down' = down /\ up' = up /\ pc' = pc /\ log' = log
        /\ executed' = executed /\ lates' = lates
    BY <1>2 DEF vars, line, master, slave
  <2>2. \A i : Executions(i)' = Executions(i)
    BY <2>1 DEF Executions
  <2>3. This' = This
    BY <2>1 DEF This
  <2>4. CommandInv'
    BY <2>1, <2>2, <2>3 DEF CommandInv
  <2>5. CommandOutcome'
    BY <2>1, <2>2, OutcomeSame
  <2> QED
    BY <2>4, <2>5
<1> QED
  BY <1>1, <1>2

(* While no answer is late, for any number of slaves and calls and whatever *)
(* the line loses or damages: a select that returns the length of its      *)
(* command has had it carried out exactly once, and one that returns busy, *)
(* not understood, bad command or write failed has not.                    *)
THEOREM CommandsAgree == Spec => []CommandOutcome
<1>1. Init => LinkInv /\ CommandInv /\ CommandOutcome
  BY LinkInit
<1>2. LinkInv /\ CommandInv /\ CommandOutcome /\ [Next]_vars
        => (LinkInv /\ CommandInv /\ CommandOutcome)'
  BY LinkStep, LinkCommandStep
<1> QED
  BY <1>1, <1>2, PTL DEF Spec

----------------------------------------------------------------------------
(* The answers.                                                            *)

(* The numbers the accounts are kept in. *)
LEMMA AccountTypes ==
  ASSUME Typed, NEW s \in Slaves
  PROVE  /\ acked[s] \in Nat /\ taken[s] \in Seq(Seq(Token))
         /\ Len(taken[s]) \in Nat
         /\ IsFiniteSet(Unconfirmed(s))
         /\ Cardinality(Unconfirmed(s)) \in Nat
         /\ \A i \in 1..Len(taken[s]) : taken[s][i][1].n \in Nat
<1>1. acked[s] \in Nat /\ taken[s] \in Seq(Seq(Token))
  BY LineTyped DEF Typed, TypeOK
<1>2. IsFiniteSet(1..Len(log))
  BY LineTyped, FS_Interval
<1>3. Unconfirmed(s) \subseteq 1..Len(log)
  BY DEF Unconfirmed
<1>4. IsFiniteSet(Unconfirmed(s)) /\ Cardinality(Unconfirmed(s)) \in Nat
  BY <1>2, <1>3, FS_Subset, FS_CardinalityType
<1>5. ASSUME NEW i \in 1..Len(taken[s])
      PROVE  taken[s][i][1].n \in Nat
  <2>1. taken[s][i] \in Seq(Token) /\ Len(taken[s][i]) >= 1
    BY <1>1, ElementOfSeq DEF Typed
  <2>2. taken[s][i][1] \in Token
    BY <2>1, ElementOfSeq, LenProperties
  <2> QED
    BY <2>2 DEF Token
<1> QED
  BY <1>1, <1>4, <1>5, LenProperties

(* What an entry of the log does to them. *)
LEMMA UnconfirmedLogged ==
  ASSUME Typed, NEW s \in Slaves, NEW op, NEW t, NEW r,
         log' = Append(log, [op |-> op, s |-> t, r |-> r])
  PROVE  /\ Cardinality(Unconfirmed(s)') \in Nat
         /\ Cardinality(Unconfirmed(s)) <= Cardinality(Unconfirmed(s)')
         /\ (/\ op = "poll" /\ t = s
             /\ r \in {"NO_ACK_FROM_SLAVE", "EOT_MISSING_FROM_SLAVE"})
              => Cardinality(Unconfirmed(s)')
                   = Cardinality(Unconfirmed(s)) + 1
<1>1. log \in Seq([op: {"select", "poll"}, s: Slaves, r: Return])
      /\ Len(log) \in Nat
  BY LineTyped DEF Typed, TypeOK
<1>2. /\ Len(log') = Len(log) + 1
      /\ log'[Len(log) + 1] = [op |-> op, s |-> t, r |-> r]
      /\ \A i \in 1..Len(log) : log'[i] = log[i]
  BY <1>1, AppendProperties
<1>3. \A i \in 1..Len(log') : i \in 1..Len(log) \/ i = This
  BY <1>1, <1>2 DEF This
<1>4. This \in 1..Len(log') /\ This \notin 1..Len(log)
      /\ 1..Len(log) \subseteq 1..Len(log')
  BY <1>1, <1>2 DEF This
<1>5. Unconfirmed(s) \subseteq Unconfirmed(s)'
  BY <1>2, <1>4 DEF Unconfirmed
<1>6. IsFiniteSet(Unconfirmed(s)) /\ IsFiniteSet(Unconfirmed(s)')
  <2>1. IsFiniteSet(Unconfirmed(s)) /\ Len(log') \in Nat
    BY <1>1, <1>2, AccountTypes
  <2>2. IsFiniteSet(1..Len(log'))
    BY <2>1, FS_Interval
  <2>3. Unconfirmed(s)' \subseteq 1..Len(log')
    BY DEF Unconfirmed
  <2> QED
    BY <2>1, <2>2, <2>3, FS_Subset
<1>7. Cardinality(Unconfirmed(s)) <= Cardinality(Unconfirmed(s)')
  BY <1>5, <1>6, FS_Subset
<1>8. ASSUME op = "poll", t = s,
             r \in {"NO_ACK_FROM_SLAVE", "EOT_MISSING_FROM_SLAVE"}
      PROVE  Cardinality(Unconfirmed(s)') = Cardinality(Unconfirmed(s)) + 1
  <2>1. This \notin Unconfirmed(s)
    BY <1>4 DEF Unconfirmed
  <2>2. This \in Unconfirmed(s)'
    BY <1>2, <1>4, <1>8 DEF Unconfirmed, This
  <2>3. \A i \in Unconfirmed(s)' : i \in Unconfirmed(s) \/ i = This
    BY <1>2, <1>3 DEF Unconfirmed
  <2>4. Unconfirmed(s)' = Unconfirmed(s) \cup {This}
    BY <1>5, <2>2, <2>3
  <2> QED
    BY <1>6, <2>1, <2>4, FS_AddElement
<1>9. Cardinality(Unconfirmed(s)') \in Nat
  BY <1>6, FS_CardinalityType
<1> QED
  BY <1>7, <1>8, <1>9

(* Where nothing is counted or handed out the accounts stay, *)
LEMMA AccountedSame ==
  ASSUME NEW s \in Slaves, Accounted(s), acked'[s] = acked[s],
         taken'[s] = taken[s], log' = log, Pending(s)' <=> Pending(s)
  PROVE  Accounted(s)'
<1>1. Unconfirmed(s)' = Unconfirmed(s)
  BY DEF Unconfirmed
<1> QED
  BY <1>1 DEF Accounted

(* and where a call ends without a text. *)
LEMMA AccountedLogged ==
  ASSUME Typed, NEW s \in Slaves, Accounted(s), acked'[s] = acked[s],
         taken'[s] = taken[s], ~Pending(s)',
         NEW op, NEW t, NEW r,
         log' = Append(log, [op |-> op, s |-> t, r |-> r]),
         Pending(s) =>
           /\ op = "poll" /\ t = s
           /\ r \in {"NO_ACK_FROM_SLAVE", "EOT_MISSING_FROM_SLAVE"}
  PROVE  Accounted(s)'
<1> DEFINE u == Cardinality(Unconfirmed(s))
           v == Cardinality(Unconfirmed(s)')
           n == Len(taken[s])
<1>1. u \in Nat /\ n \in Nat /\ acked[s] \in Nat
  BY AccountTypes
<1>2. v \in Nat
  BY UnconfirmedLogged
<1>3. u <= v /\ (Pending(s) => v = u + 1)
  BY UnconfirmedLogged
<1>4. n <= acked[s] /\ acked[s] <= n + u + (IF Pending(s) THEN 1 ELSE 0)
  BY DEF Accounted
<1>5. acked[s] <= n + v
  <2> HIDE DEF u, v, n
  <2>1. CASE Pending(s)
    BY <1>1, <1>2, <1>3, <1>4, <2>1
  <2>2. CASE ~Pending(s)
    BY <1>1, <1>2, <1>3, <1>4, <2>2
  <2> QED
    BY <2>1, <2>2
<1>6. n + v + 0 = n + v
  <2> HIDE DEF v, n
  <2> QED
    BY <1>1, <1>2
<1>7. Cardinality(Unconfirmed(s))' = v
  OBVIOUS
<1>8. /\ Len(taken'[s]) <= acked'[s]
      /\ acked'[s] <= Len(taken'[s]) + v + 0
  BY <1>4, <1>5, <1>6
<1>9. /\ \A i \in 1..Len(taken[s]) : taken[s][i][1].n <= acked[s]
      /\ \A i, j \in 1..Len(taken[s]) :
           i < j => taken[s][i][1].n < taken[s][j][1].n
  BY DEF Accounted
<1> QED
  BY <1>7, <1>8, <1>9 DEF Accounted

(* A text is handed out: the slave has counted it. *)
LEMMA AccountedTaken ==
  ASSUME Typed, FrameInv, lates = 0, EndsWithText,
         NEW t \in Slaves, t = call.s, Accounted(t)
  PROVE  Accounted(t)'
<1> DEFINE v == Cardinality(Unconfirmed(t)')
           u == Cardinality(Unconfirmed(t))
<1>1. /\ taken'[t] = Append(taken[t], Tail(frame))
      /\ Tail(frame)[1] = frame[2]
  BY TakenText
<1>2. pc = "eot" /\ up # <<>> /\ pc' = "idle" /\ acked' = acked
  BY DEF EndsWithText, Ends, slave
<1>3. frame[2].n = acked[t]
  BY <1>2 DEF FrameInv
<1>4. Pending(t)
  BY <1>2, <1>3 DEF Pending
<1>5. /\ acked[t] \in Nat /\ taken[t] \in Seq(Seq(Token))
      /\ Len(taken[t]) \in Nat /\ u \in Nat
      /\ \A i \in 1..Len(taken[t]) : taken[t][i][1].n \in Nat
  BY <1>1, AccountTypes
<1>6. u <= v /\ v \in Nat
  <2>1. log' = Append(log, [op |-> call.op, s |-> call.s, r |-> "chars"])
    BY DEF EndsWithText, Logs
  <2> QED
    BY <2>1, UnconfirmedLogged
<1>7. /\ Len(taken'[t]) = Len(taken[t]) + 1
      /\ taken'[t][Len(taken[t]) + 1] = Tail(frame)
      /\ \A i \in 1..Len(taken[t]) : taken'[t][i] = taken[t][i]
  <2>1. Tail(frame) \in Seq(Token)
    BY TakenText
  <2> QED
    BY <1>1, <1>5, <2>1, AppendProperties
<1>8. /\ Len(taken[t]) < acked[t]
      /\ acked[t] <= Len(taken[t]) + u + 1
      /\ \A i \in 1..Len(taken[t]) : taken[t][i][1].n < acked[t]
      /\ \A i, j \in 1..Len(taken[t]) :
           i < j => taken[t][i][1].n < taken[t][j][1].n
  BY <1>4 DEF Accounted
<1>9. /\ Len(taken'[t]) <= acked'[t]
      /\ acked'[t] <= Len(taken'[t]) + v + 0
  <2> HIDE DEF u, v
  <2> QED
    BY <1>2, <1>5, <1>6, <1>7, <1>8
<1>10. taken'[t][Len(taken[t]) + 1][1].n = acked[t]
  BY <1>1, <1>3, <1>7
<1>11. \A i \in 1..Len(taken'[t]) :
         i \in 1..Len(taken[t]) \/ i = Len(taken[t]) + 1
  BY <1>5, <1>7
<1>12. ASSUME NEW i \in 1..Len(taken'[t])
       PROVE  taken'[t][i][1].n <= acked'[t]
  <2>1. CASE i \in 1..Len(taken[t])
    <3>1. taken[t][i][1].n < acked[t] /\ taken[t][i][1].n \in Nat
      BY <1>5, <1>8, <2>1
    <3>2. taken'[t][i] = taken[t][i]
      BY <1>7, <2>1
    <3> QED
      BY <1>2, <1>5, <3>1, <3>2, SMTT(30)
  <2>2. CASE i = Len(taken[t]) + 1
    BY <1>2, <1>5, <1>10, <2>2
  <2> QED
    BY <1>11, <2>1, <2>2
<1>13. ASSUME NEW i \in 1..Len(taken'[t]), NEW j \in 1..Len(taken'[t]), i < j
       PROVE  taken'[t][i][1].n < taken'[t][j][1].n
  <2>1. i \in 1..Len(taken[t])
    BY <1>5, <1>7, <1>13
  <2>2. taken'[t][i] = taken[t][i] /\ taken[t][i][1].n < acked[t]
    BY <1>7, <1>8, <2>1
  <2>3. CASE j \in 1..Len(taken[t])
    <3>1. taken'[t][j] = taken[t][j]
      BY <1>7, <2>3
    <3> QED
      BY <1>8, <1>13, <2>1, <2>2, <2>3, <3>1
  <2>4. CASE j = Len(taken[t]) + 1
    BY <1>10, <2>2, <2>4
  <2> QED
    BY <1>11, <2>3, <2>4
<1>14. ~Pending(t)' /\ Cardinality(Unconfirmed(t))' = v
  BY <1>2 DEF Pending
<1> HIDE DEF v
<1> QED
  BY <1>9, <1>12, <1>13, <1>14 DEF Accounted

(* A slave counts an answer: poll has it, and has not handed it out. *)
LEMMA AccountedCounted ==
  ASSUME Typed, LineInv, FrameInv, lates = 0, Slave, SlaveAcknowledged,
         NEW s \in Slaves, Accounted(s)
  PROVE  Accounted(s)'
<1>1. /\ down # <<>> /\ pc' = pc /\ call' = call /\ frame' = frame
      /\ log' = log /\ taken' = taken /\ down[1].c = "ACK"
  BY SlaveHears DEF SlaveAcknowledged, Hears, Is
<1>2. pc = "eot"
  <2>1. \A n : /\ Tok("POLL", call.s, n).c # "ACK"
               /\ Tok("SELECT", call.s, n).c # "ACK"
    BY DEF Tok
  <2>2. Char("EOT").c # "ACK" /\ Command.c # "ACK"
    BY DEF Tok, Char, Command
  <2>3. pc \in {"idle", "selAck", "drain", "cmdAck", "pollAck", "text", "crc",
                "eot"}
    BY DEF Typed, TypeOK
  <2> QED
    BY <1>1, <2>1, <2>2, <2>3 DEF LineInv, Asked
<1>3. hold.s = call.s /\ frame[2].n = acked[call.s] + 1
  BY <1>1, <1>2 DEF FrameInv
<1>4. acked' = [acked EXCEPT ![call.s] = @ + 1]
  BY <1>3 DEF SlaveAcknowledged
<1>5. call.s \in Slaves /\ acked \in [Slaves -> 0..MaxAnswers]
  BY <1>2 DEF Typed, TypeOK, Call
<1>6. CASE s # call.s
  <2>1. acked'[s] = acked[s]
    BY <1>4, <1>5, <1>6
  <2>2. ~Pending(s) /\ ~Pending(s)'
    BY <1>1, <1>6 DEF Pending
  <2> QED
    BY <1>1, <2>1, <2>2, AccountedSame
<1>7. CASE s = call.s
  <2> DEFINE u == Cardinality(Unconfirmed(s))
             n == Len(taken[s])
  <2>1. /\ acked[s] \in Nat /\ u \in Nat /\ n \in Nat
        /\ \A i \in 1..Len(taken[s]) : taken[s][i][1].n \in Nat
    BY AccountTypes
  <2>2. acked'[s] = acked[s] + 1
    BY <1>4, <1>5, <1>7
  <2>3. ~Pending(s)
    BY <1>3, <1>7, <2>1 DEF Pending
  <2>4. Pending(s)'
    BY <1>1, <1>2, <1>3, <1>7, <2>2 DEF Pending
  <2>5. Cardinality(Unconfirmed(s))' = u
    BY <1>1 DEF Unconfirmed
  <2>6. /\ n <= acked[s] /\ acked[s] <= n + u + 0
        /\ \A i \in 1..Len(taken[s]) : taken[s][i][1].n <= acked[s]
        /\ \A i, j \in 1..Len(taken[s]) :
             i < j => taken[s][i][1].n < taken[s][j][1].n
    BY <2>3 DEF Accounted
  <2>7. /\ n <= acked[s] + 1 /\ acked[s] + 1 <= n + u + 1 /\ n < acked[s] + 1
    <3> HIDE DEF u, n
    <3> QED
      BY <2>1, <2>6
  <2>8. \A i \in 1..Len(taken[s]) :
          taken[s][i][1].n <= acked[s] + 1 /\ taken[s][i][1].n < acked[s] + 1
    BY <2>1, <2>6
  <2> HIDE DEF u
  <2> QED
    BY <1>1, <2>2, <2>4, <2>5, <2>6, <2>7, <2>8 DEF Accounted
<1> QED
  BY <1>6, <1>7

(* So the accounts hold at every step. *)
LEMMA AnswerStep ==
  ASSUME LinkInv, AnswerInv, Next
  PROVE  AnswerInv'
<1>0. Typed /\ LineInv /\ FrameInv
  BY DEF LinkInv
<1>1. CASE lates' # 0
  BY <1>1 DEF AnswerInv
<1>2. CASE lates' = 0
  <2>0. SUFFICES ASSUME lates = 0, NEW s \in Slaves, Accounted(s)
                 PROVE  Accounted(s)'
    <3>1. lates = 0 => AnswerInv'
      BY <1>2, <2>0 DEF AnswerInv
    <3>2. lates = 0
      <4>1. CASE Slave
        BY <1>0, <1>2, <4>1, SlaveHears
      <4>2. CASE Line
        BY <1>0, <1>2, <4>2, LineCases
      <4>3. CASE Ticks
        BY <1>0, <1>2, <4>3, LineTyped DEF Ticks
      <4> QED
        BY <1>0, <4>1, <4>2, <4>3, StepCases
        DEF Enquires, EndsWithout, EndsWithText, Ends, SendsCommand, Drains,
            BeginsText, KeepsText, EndsText, Acknowledges, Reading
    <3> QED
      BY <3>1, <3>2
  <2>1. ASSUME NEW op \in {"select", "poll"}, NEW enq, NEW l \in SelectReads \cup PollReads,
               l # "eot", Enquires(op, enq, l)
        PROVE  Accounted(s)'
    <3>1. /\ pc = "idle" /\ acked' = acked /\ taken' = taken
          /\ pc' = l \/ pc' = pc
      BY <2>1 DEF Enquires, slave
    <3>2. ~Pending(s) /\ ~Pending(s)'
      BY <2>1, <3>1 DEF Pending
    <3>3. \/ log' = log
          \/ \E t : log' = Append(log, [op |-> op, s |-> t, r |-> "WRITE_FAILED"])
      BY <2>1 DEF Enquires, Logs
    <3>4. CASE log' = log
      BY <2>0, <3>1, <3>2, <3>4, AccountedSame
    <3>5. ASSUME NEW t,
                 log' = Append(log, [op |-> op, s |-> t, r |-> "WRITE_FAILED"])
          PROVE  Accounted(s)'
      BY <1>0, <2>0, <3>1, <3>2, <3>5, AccountedLogged
    <3> QED
      BY <3>3, <3>4, <3>5
  <2>2. CASE EndsWithout
    <3>1. /\ pc' = "idle" /\ acked' = acked /\ taken' = taken
      BY <2>2 DEF EndsWithout, Ends, slave
    <3>2. PICK r \in Return : Logs(call.op, call.s, r) /\ From(r)
      BY <2>2 DEF EndsWithout
    <3>3. ~Pending(s)'
      BY <3>1 DEF Pending
    <3>4. Pending(s) =>
            /\ call.op = "poll" /\ call.s = s
            /\ r \in {"NO_ACK_FROM_SLAVE", "EOT_MISSING_FROM_SLAVE"}
      BY <1>0, <3>2 DEF Pending, From, Typed, PollReads
    <3>5. log' = Append(log, [op |-> call.op, s |-> call.s, r |-> r])
      BY <3>2 DEF Logs
    <3> QED
      BY <1>0, <2>0, <3>1, <3>3, <3>4, <3>5, AccountedLogged
  <2>3. CASE EndsWithText
    <3>1. CASE s = call.s
      BY <1>0, <2>0, <2>3, <3>1, AccountedTaken
    <3>2. CASE s # call.s
      <4>1. taken'[s] = taken[s]
        BY <1>0, <2>3, <3>2, TakenText
      <4>2. pc' = "idle" /\ acked' = acked
            /\ log' = Append(log, [op |-> call.op, s |-> call.s, r |-> "chars"])
        BY <2>3 DEF EndsWithText, Ends, Logs, slave
      <4>3. ~Pending(s) /\ ~Pending(s)'
        BY <3>2, <4>2 DEF Pending
      <4> QED
        BY <1>0, <2>0, <4>1, <4>2, <4>3, AccountedLogged
    <3> QED
      BY <3>1, <3>2
  <2>4. CASE SendsCommand \/ Drains \/ BeginsText \/ KeepsText \/ EndsText
    <3>1. /\ acked' = acked /\ taken' = taken /\ log' = log
          /\ pc # "eot" /\ pc' # "eot"
      BY <2>4 DEF SendsCommand, Drains, BeginsText, KeepsText, EndsText,
         Reading, slave
    <3>2. ~Pending(s) /\ ~Pending(s)'
      BY <3>1 DEF Pending
    <3> QED
      BY <2>0, <3>1, <3>2, AccountedSame
  <2>5. CASE Acknowledges
    <3>1. /\ acked' = acked /\ taken' = taken /\ log' = log
      BY <2>5 DEF Acknowledges, slave
    <3>2. /\ pc = "crc" /\ call' = call /\ frame' = frame
          /\ frame[2].n = acked[call.s] + 1 /\ call.s \in Slaves
      BY <1>0, <1>2, <2>5, FrameAcknowledges
    <3>3. acked[call.s] \in Nat
      BY <1>0, <3>2, AccountTypes
    <3>4. ~Pending(s) /\ ~Pending(s)'
      BY <3>1, <3>2, <3>3 DEF Pending
    <3> QED
      BY <2>0, <3>1, <3>4, AccountedSame
  <2>6. CASE Slave
    <3>1. CASE SlaveAcknowledged
      BY <1>0, <2>0, <2>6, <3>1, AccountedCounted
    <3>2. CASE ~SlaveAcknowledged
      <4>1. /\ acked' = acked /\ taken' = taken /\ log' = log
            /\ pc' = pc /\ call' = call /\ frame' = frame
        BY <1>0, <2>6, <3>2, SlaveHears DEF SlavePolled, SlaveSelected,
           SlaveCommanded
      <4>2. Pending(s)' <=> Pending(s)
        BY <4>1 DEF Pending
      <4> QED
        BY <2>0, <4>1, <4>2, AccountedSame
    <3> QED
      BY <3>1, <3>2
  <2>7. CASE Line
    <3>1. /\ acked' = acked /\ taken' = taken /\ log' = log
          /\ pc' = pc /\ call' = call /\ frame' = frame
      BY <1>0, <2>7, LineCases
    <3>2. Pending(s)' <=> Pending(s)
      BY <3>1 DEF Pending
    <3> QED
      BY <2>0, <3>1, <3>2, AccountedSame
  <2>8. ~Enquires("select", "SELECT", "selAck") \/ Accounted(s)'
    BY <2>1 DEF SelectReads
  <2>9. ~Enquires("poll", "POLL", "pollAck") \/ Accounted(s)'
    BY <2>1 DEF PollReads
  <2> QED
    BY <1>0, <2>2, <2>3, <2>4, <2>5, <2>6, <2>7, <2>8, <2>9, StepCases
<1> QED
  BY <1>1, <1>2

(* Between calls they are what AnswersAccounted says. *)
LEMMA AccountsMeanAnswers == LinkInv /\ AnswerInv => AnswersAccounted
<1> SUFFICES ASSUME LinkInv, AnswerInv, pc = "idle", lates = 0, NEW s \in Slaves
             PROVE  /\ Len(taken[s]) <= acked[s]
                    /\ acked[s] <= Len(taken[s]) + Cardinality(Unconfirmed(s))
                    /\ \A i, j \in 1..Len(taken[s]) :
                         i < j => taken[s][i][1].n < taken[s][j][1].n
  BY DEF AnswersAccounted
<1>1. Accounted(s) /\ ~Pending(s)
  BY DEF AnswerInv, Pending
<1>2. Len(taken[s]) \in Nat /\ Cardinality(Unconfirmed(s)) \in Nat
  BY AccountTypes DEF LinkInv
<1> QED
  BY <1>1, <1>2 DEF Accounted

(* While no answer is late, whatever the line loses or damages, between    *)
(* calls poll has handed out each text a slave counts as delivered exactly *)
(* once and in order, save those whose poll reported that the slave's last *)
(* word was missing: none is doubled and none lost without an error.       *)
THEOREM AnswersAgree == Spec => []AnswersAccounted
<1>1. Init => LinkInv /\ AnswerInv
  <2> SUFFICES ASSUME Init PROVE LinkInv /\ AnswerInv
    OBVIOUS
  <2>1. LinkInv
    BY LinkInit
  <2>2. ASSUME NEW s \in Slaves
        PROVE  Accounted(s)
    <3>1. /\ Len(taken[s]) = 0 /\ acked[s] = 0 /\ pc = "idle"
      BY EmptySeq DEF Init
    <3>2. Cardinality(Unconfirmed(s)) \in Nat
      BY <2>1, AccountTypes DEF LinkInv
    <3> QED
      BY <3>1, <3>2 DEF Accounted, Pending
  <2> QED
    BY <2>1, <2>2 DEF AnswerInv
<1>2. LinkInv /\ AnswerInv /\ [Next]_vars => (LinkInv /\ AnswerInv)'
  <2> SUFFICES ASSUME LinkInv, AnswerInv, [Next]_vars PROVE AnswerInv'
    BY LinkStep
  <2>1. CASE UNCHANGED vars
    <3>1. /\ pc' = pc /\ call' = call /\ frame' = frame /\ log' = log
          /\ acked' = acked /\ taken' = taken /\ lates' = lates
      BY <2>1 DEF vars, master, slave
    <3>2. ASSUME NEW s \in Slaves, Accounted(s) PROVE Accounted(s)'
      <4>1. Pending(s)' <=> Pending(s)
        BY <3>1 DEF Pending
      <4> QED
        BY <3>1, <3>2, <4>1, AccountedSame
    <3> QED
      BY <3>1, <3>2 DEF AnswerInv
  <2> QED
    BY <2>1, AnswerStep
<1> QED
  BY <1>1, <1>2, AccountsMeanAnswers, PTL DEF Spec

----------------------------------------------------------------------------
(* The texts, on a sound line.                                             *)

(* The tokens of an answer. *)
LEMMA PartFacts ==
  ASSUME NEW s \in Slaves, NEW n \in 1..MaxAnswers
  PROVE  /\ Part(s, n, 1) = Tok("ADDR", s, n) /\ Part(s, n, 2) = Tok("TEXT", s, n)
         /\ Part(s, n, 3) = Char("ETX")
         /\ Part(s, n, 1) \in Token /\ Part(s, n, 1).c = "ADDR"
         /\ Part(s, n, 1).s = s /\ Part(s, n, 1).ok
         /\ Part(s, n, 2) \in Token /\ Part(s, n, 2).c = "TEXT" /\ Part(s, n, 2).ok
         /\ Part(s, n, 3).c = "ETX" /\ Part(s, n, 3).ok
<1>1. n \in Nat
  BY ConstantsAssumption
<1>2. /\ Part(s, n, 1) = Tok("ADDR", s, n) /\ Part(s, n, 2) = Tok("TEXT", s, n)
      /\ Part(s, n, 3) = Char("ETX")
  BY DEF Part
<1>3. /\ Tok("ADDR", s, n) \in Token /\ Tok("ADDR", s, n).c = "ADDR"
      /\ Tok("ADDR", s, n).s = s /\ Tok("ADDR", s, n).ok
  BY <1>1, TokFacts
<1>4. /\ Tok("TEXT", s, n) \in Token /\ Tok("TEXT", s, n).c = "TEXT"
      /\ Tok("TEXT", s, n).ok
  BY <1>1, TokFacts
<1>5. Char("ETX").c = "ETX" /\ Char("ETX").ok
  BY CharFacts DEF Control
<1> QED
  BY <1>2, <1>3, <1>4, <1>5

(* What is left of a clean sequence is clean, *)
LEMMA CleanSuffix ==
  ASSUME NEW u \in Seq(Token), NEW v \in Seq(Token), Suffix(u, v), Clean(v)
  PROVE  Clean(u)
<1>1. PICK d \in Nat : Len(v) = Len(u) + d
  <2>1. Len(u) \in Nat /\ Len(v) \in Nat /\ Len(u) <= Len(v)
    BY LenProperties DEF Suffix
  <2>2. Len(v) - Len(u) \in Nat /\ Len(v) = Len(u) + (Len(v) - Len(u))
    BY <2>1
  <2> QED
    BY <2>2
<1>2. Len(u) \in Nat
  BY LenProperties
<1>3. \A i \in 1..Len(u) : u[i] = v[i + d] /\ i + d \in 1..Len(v)
  <2>1. Len(v) - Len(u) = d
    BY <1>1, <1>2
  <2> QED
    BY <1>1, <1>2, <2>1 DEF Suffix
<1>4. ASSUME NEW i \in 1..Len(u), u[i].c = "STX"
      PROVE  \E s \in Slaves, n \in 1..MaxAnswers : Begins(u, s, n, i + 1, 0)
  <2>1. v[i + d].c = "STX" /\ i + d \in 1..Len(v)
    BY <1>3, <1>4
  <2>2. PICK s \in Slaves, n \in 1..MaxAnswers : Begins(v, s, n, (i + d) + 1, 0)
    BY <2>1 DEF Clean
  <2>3. ASSUME NEW j \in 1..(3 - 0)
        PROVE  i + 1 + j - 1 <= Len(u) /\ u[i + 1 + j - 1] = Part(s, n, 0 + j)
    <3>1. /\ (i + d) + 1 + j - 1 <= Len(v)
          /\ v[(i + d) + 1 + j - 1] = Part(s, n, 0 + j)
      BY <2>2 DEF Begins
    <3>2. (i + d) + 1 + j - 1 = (i + j) + d /\ i + 1 + j - 1 = i + j
      OBVIOUS
    <3>3. i + j \in 1..Len(u)
      BY <1>1, <1>2, <3>1, <3>2
    <3>4. u[i + j] = v[(i + j) + d]
      BY <1>3, <3>3
    <3> QED
      BY <3>1, <3>2, <3>3, <3>4
  <2> QED
    BY <2>3 DEF Begins
<1>5. \A i \in 1..Len(u) : u[i].ok
  BY <1>3 DEF Clean
<1> QED
  BY <1>4, <1>5 DEF Clean

(* what is begun goes on when more is said, *)
LEMMA BeginsConcat ==
  ASSUME NEW u \in Seq(Token), NEW w \in Seq(Token), NEW s, NEW n,
         NEW i \in Nat \ {0}, NEW m \in 0..2, Begins(u, s, n, i, m)
  PROVE  Begins(u \o w, s, n, i, m)
<1>1. /\ Len(u) \in Nat /\ Len(w) \in Nat
      /\ Len(u \o w) = Len(u) + Len(w)
      /\ \A k \in 1..Len(u) : (u \o w)[k] = u[k]
  BY LenProperties, ConcatProperties
<1>2. ASSUME NEW j \in 1..(3 - m)
      PROVE  /\ i + j - 1 <= Len(u \o w)
             /\ (u \o w)[i + j - 1] = Part(s, n, m + j)
  <2>1. i + j - 1 <= Len(u) /\ u[i + j - 1] = Part(s, n, m + j)
    BY DEF Begins
  <2>2. i + j - 1 \in 1..Len(u)
    BY <1>1, <2>1
  <2> QED
    BY <1>1, <2>1, <2>2
<1> QED
  BY <1>2 DEF Begins

(* and two clean sequences make one. *)
LEMMA CleanConcat ==
  ASSUME NEW u \in Seq(Token), NEW w \in Seq(Token), Clean(u), Clean(w)
  PROVE  Clean(u \o w)
<1>1. /\ Len(u) \in Nat /\ Len(w) \in Nat
      /\ Len(u \o w) = Len(u) + Len(w)
      /\ \A k \in 1..Len(u) : (u \o w)[k] = u[k]
      /\ \A k \in 1..Len(w) : (u \o w)[Len(u) + k] = w[k]
  <2>1. /\ Len(u \o w) = Len(u) + Len(w)
        /\ \A k \in 1..(Len(u) + Len(w)) :
             (u \o w)[k] = IF k <= Len(u) THEN u[k] ELSE w[k - Len(u)]
    BY ConcatProperties
  <2>2. Len(u) \in Nat /\ Len(w) \in Nat
    BY LenProperties
  <2>3. ASSUME NEW k \in 1..Len(w)
        PROVE  (u \o w)[Len(u) + k] = w[k]
    <3>1. /\ Len(u) + k \in 1..(Len(u) + Len(w)) /\ ~(Len(u) + k <= Len(u))
          /\ (Len(u) + k) - Len(u) = k
      BY <2>2
    <3> QED
      BY <2>1, <3>1
  <2>4. ASSUME NEW k \in 1..Len(u)
        PROVE  (u \o w)[k] = u[k]
    BY <2>1, <2>2
  <2> QED
    BY <2>1, <2>2, <2>3, <2>4
<1>2. ASSUME NEW i \in 1..Len(u)
      PROVE  /\ (u \o w)[i].ok
             /\ (u \o w)[i].c = "STX" =>
                  \E s \in Slaves, n \in 1..MaxAnswers :
                    Begins(u \o w, s, n, i + 1, 0)
  <2>1. (u \o w)[i] = u[i] /\ u[i].ok
    BY <1>1 DEF Clean
  <2>2. ASSUME u[i].c = "STX"
        PROVE  \E s \in Slaves, n \in 1..MaxAnswers :
                 Begins(u \o w, s, n, i + 1, 0)
    <3>1. PICK s \in Slaves, n \in 1..MaxAnswers : Begins(u, s, n, i + 1, 0)
      BY <2>2 DEF Clean
    <3>2. i + 1 \in Nat \ {0} /\ 0 \in 0..2
      OBVIOUS
    <3>3. Begins(u \o w, s, n, i + 1, 0)
      BY <3>1, <3>2, BeginsConcat
    <3> QED
      BY <3>3
  <2> QED
    BY <2>1, <2>2
<1>3. ASSUME NEW k \in 1..Len(w)
      PROVE  /\ (u \o w)[Len(u) + k].ok
             /\ (u \o w)[Len(u) + k].c = "STX" =>
                  \E s \in Slaves, n \in 1..MaxAnswers :
                    Begins(u \o w, s, n, (Len(u) + k) + 1, 0)
  <2>1. (u \o w)[Len(u) + k] = w[k] /\ w[k].ok
    BY <1>1 DEF Clean
  <2>2. ASSUME w[k].c = "STX"
        PROVE  \E s \in Slaves, n \in 1..MaxAnswers :
                 Begins(u \o w, s, n, (Len(u) + k) + 1, 0)
    <3>1. PICK s \in Slaves, n \in 1..MaxAnswers : Begins(w, s, n, k + 1, 0)
      BY <2>2 DEF Clean
    <3>2. ASSUME NEW j \in 1..(3 - 0)
          PROVE  /\ (Len(u) + k) + 1 + j - 1 <= Len(u \o w)
                 /\ (u \o w)[(Len(u) + k) + 1 + j - 1] = Part(s, n, 0 + j)
      <4>1. k + 1 + j - 1 <= Len(w) /\ w[k + 1 + j - 1] = Part(s, n, 0 + j)
        BY <3>1 DEF Begins
      <4>2. /\ (Len(u) + k) + 1 + j - 1 = Len(u) + (k + j)
            /\ k + 1 + j - 1 = k + j
        BY <1>1
      <4>3. k + j \in 1..Len(w)
        BY <1>1, <4>1, <4>2
      <4>4. (u \o w)[Len(u) + (k + j)] = w[k + j]
        BY <1>1, <4>3
      <4>5. Len(u) + (k + j) <= Len(u \o w)
        BY <1>1, <4>3
      <4> QED
        BY <4>1, <4>2, <4>4, <4>5
    <3>3. Begins(u \o w, s, n, (Len(u) + k) + 1, 0)
      BY <3>2 DEF Begins
    <3> QED
      BY <3>3
  <2> QED
    BY <2>1, <2>2
<1>4. ASSUME NEW i \in 1..Len(u \o w)
      PROVE  i \in 1..Len(u) \/ \E k \in 1..Len(w) : i = Len(u) + k
  <2>1. CASE i > Len(u)
    <3>1. i - Len(u) \in 1..Len(w) /\ i = Len(u) + (i - Len(u))
      BY <1>1, <2>1
    <3> QED
      BY <3>1
  <2>2. CASE i <= Len(u)
    BY <1>1, <2>2
  <2> QED
    BY <1>1, <2>1, <2>2
<1> QED
  BY <1>2, <1>3, <1>4 DEF Clean

(* What a slave says is clean. *)
LEMMA SaidClean ==
  ASSUME Typed, NEW s \in Slaves
  PROVE  /\ \A c \in {"ACK", "NAK", "EOT"} : Clean(<<Char(c)>>)
         /\ acked[s] < MaxAnswers => Clean(Message(s))
<1>1. ASSUME NEW c \in {"ACK", "NAK", "EOT"}
      PROVE  Clean(<<Char(c)>>)
  <2>1. Char(c).c = c /\ Char(c).ok
    BY CharFacts DEF Control
  <2> QED
    BY <2>1 DEF Clean
<1>2. ASSUME acked[s] < MaxAnswers
      PROVE  Clean(Message(s))
  <2>1. acked[s] \in Nat
    BY SaidFacts
  <2>2. acked[s] + 1 \in 1..MaxAnswers
    BY <1>2, <2>1, LineTyped
  <2>3. /\ Len(Message(s)) = 5 /\ Message(s)[1] = Char("STX")
        /\ Message(s)[2] = Part(s, acked[s] + 1, 1)
        /\ Message(s)[3] = Part(s, acked[s] + 1, 2)
        /\ Message(s)[4] = Part(s, acked[s] + 1, 3)
        /\ Message(s)[5] = Tok("CRC", s, acked[s] + 1)
    BY <2>1, <2>2, MessageFacts, PartFacts
  <2>4. Begins(Message(s), s, acked[s] + 1, 2, 0)
    <3>1. ASSUME NEW j \in 1..(3 - 0)
          PROVE  /\ 2 + j - 1 <= 5
                 /\ Message(s)[2 + j - 1] = Part(s, acked[s] + 1, 0 + j)
      <4>1. j = 1 \/ j = 2 \/ j = 3
        OBVIOUS
      <4> QED
        BY <2>3, <4>1
    <3> QED
      BY <2>3, <3>1 DEF Begins
  <2>5. ASSUME NEW i \in 1..5
        PROVE  /\ Message(s)[i].ok
               /\ Message(s)[i].c = "STX" => i = 1
    <3>1. i = 1 \/ i = 2 \/ i = 3 \/ i = 4 \/ i = 5
      OBVIOUS
    <3>2. Char("STX").ok /\ Tok("CRC", s, acked[s] + 1).ok
          /\ Tok("CRC", s, acked[s] + 1).c = "CRC"
      BY DEF Tok, Char
    <3> QED
      BY <2>2, <2>3, <3>1, <3>2, PartFacts
  <2> QED
    BY <2>2, <2>3, <2>4, <2>5 DEF Clean
<1> QED
  BY <1>1, <1>2

(* An answer that goes on, read token by token: behind STX, *)
LEMMA BeginsBehind ==
  ASSUME NEW u \in Seq(Token), u # <<>>, NEW s, NEW n, Begins(u, s, n, 2, 0)
  PROVE  Begins(Tail(u), s, n, 1, 0)
<1>1. /\ Len(u) \in Nat /\ Len(Tail(u)) = Len(u) - 1
      /\ \A i \in 1..(Len(u) - 1) : Tail(u)[i] = u[i + 1]
  BY LenProperties, TailFacts
<1>2. ASSUME NEW j \in 1..(3 - 0)
      PROVE  1 + j - 1 <= Len(Tail(u)) /\ Tail(u)[1 + j - 1] = Part(s, n, 0 + j)
  <2>1. 2 + j - 1 <= Len(u) /\ u[2 + j - 1] = Part(s, n, 0 + j)
    BY DEF Begins
  <2>2. 2 + j - 1 = j + 1 /\ 1 + j - 1 = j
    OBVIOUS
  <2>3. j \in 1..(Len(u) - 1)
    BY <1>1, <2>1, <2>2
  <2>4. Tail(u)[j] = u[j + 1] /\ j <= Len(Tail(u))
    BY <1>1, <2>3
  <2> QED
    BY <2>1, <2>2, <2>4
<1> QED
  BY <1>2 DEF Begins

(* and behind a token of it. *)
LEMMA BeginsTail ==
  ASSUME NEW u \in Seq(Token), NEW s, NEW n, NEW m \in 0..2,
         Begins(u, s, n, 1, m)
  PROVE  /\ u # <<>> /\ u[1] = Part(s, n, m + 1)
         /\ m <= 1 => Begins(Tail(u), s, n, 1, m + 1)
<1>1. Len(u) >= 1 /\ u[1] = Part(s, n, m + 1)
  <2>1. 1 \in 1..(3 - m)
    OBVIOUS
  <2> QED
    BY <2>1 DEF Begins
<1>2. u # <<>>
  BY <1>1, EmptySeq
<1>3. /\ Len(u) \in Nat /\ Len(Tail(u)) = Len(u) - 1
      /\ \A i \in 1..(Len(u) - 1) : Tail(u)[i] = u[i + 1]
  BY <1>2, LenProperties, TailFacts
<1>4. ASSUME m <= 1, NEW j \in 1..(3 - (m + 1))
      PROVE  /\ 1 + j - 1 <= Len(Tail(u))
             /\ Tail(u)[1 + j - 1] = Part(s, n, (m + 1) + j)
  <2>1. j + 1 \in 1..(3 - m)
    OBVIOUS
  <2>2. 1 + (j + 1) - 1 <= Len(u) /\ u[1 + (j + 1) - 1] = Part(s, n, m + (j + 1))
    BY <2>1 DEF Begins
  <2>3. /\ 1 + (j + 1) - 1 = j + 1 /\ 1 + j - 1 = j
        /\ m + (j + 1) = (m + 1) + j
    OBVIOUS
  <2>4. j \in 1..(Len(u) - 1)
    BY <1>3, <2>2, <2>3
  <2>5. Tail(u)[j] = u[j + 1] /\ j <= Len(Tail(u))
    BY <1>3, <2>4
  <2> QED
    BY <2>2, <2>3, <2>5
<1> QED
  BY <1>1, <1>2, <1>4 DEF Begins

(* What the slaves say leaves up clean, and an answer that goes on. *)
LEMMA SlaveClean ==
  ASSUME Typed, Slave, Clean(up)
  PROVE  /\ up' \in Seq(Token) /\ Clean(up')
         /\ \A s, n : \A m \in 0..2 :
              Begins(up, s, n, 1, m) => Begins(up', s, n, 1, m)
<1>1. up \in Seq(Token)
  BY LineTyped
<1>2. ASSUME NEW w \in Seq(Token), Clean(w), Says(w)
      PROVE  /\ up' \in Seq(Token) /\ Clean(up')
             /\ \A s, n : \A m \in 0..2 :
                  Begins(up, s, n, 1, m) => Begins(up', s, n, 1, m)
  <2>1. up' = up \o w /\ up \o w \in Seq(Token)
    BY <1>1, <1>2, ConcatProperties DEF Says
  <2>2. Clean(up \o w)
    BY <1>1, <1>2, CleanConcat
  <2>3. ASSUME NEW s, NEW n, NEW m \in 0..2, Begins(up, s, n, 1, m)
        PROVE  Begins(up \o w, s, n, 1, m)
    BY <1>1, <2>3, BeginsConcat
  <2> QED
    BY <2>1, <2>2, <2>3
<1>3. ASSUME NEW c \in {"ACK", "NAK", "EOT"}
      PROVE  <<Char(c)>> \in Seq(Token) /\ Clean(<<Char(c)>>)
  <2>1. Char(c) \in Token /\ Char(c).c = c /\ Char(c).ok
    BY CharFacts DEF Control
  <2>2. Clean(<<Char(c)>>)
    BY <2>1 DEF Clean
  <2> QED
    BY <2>1, <2>2
<1>4. ASSUME NEW s \in Slaves, Talks(s)
      PROVE  Message(s) \in Seq(Token) /\ Clean(Message(s)) /\ Says(Message(s))
  BY <1>4, SaidFacts, SaidClean DEF Talks
<1>5. /\ Head(down) = down[1] /\ Sendable(down[1])
      /\ \/ up' = up
         \/ SlavePolled /\ down[1].c = "POLL"
         \/ SlaveSelected /\ down[1].c = "SELECT"
         \/ SlaveCommanded
         \/ SlaveAcknowledged
  BY SlaveHears, DownHeard
<1>6. CASE up' = up
  BY <1>1, <1>6
<1>7. CASE SlavePolled /\ down[1].c = "POLL"
  <2>1. Head(down).s \in Slaves
    BY <1>5, <1>7 DEF Sendable, Enquiry
  <2>2. Talks(Head(down).s) \/ \E c \in {"EOT", "ACK", "NAK"} : Says(<<Char(c)>>)
    BY <1>7 DEF SlavePolled
  <2> QED
    BY <1>2, <1>3, <1>4, <2>1, <2>2
<1>8. CASE SlaveSelected /\ down[1].c = "SELECT"
  <2>1. Head(down).s \in Slaves
    BY <1>5, <1>8 DEF Sendable, Enquiry
  <2>2. Talks(Head(down).s) \/ \E c \in {"EOT", "ACK", "NAK"} : Says(<<Char(c)>>)
    BY <1>8 DEF SlaveSelected
  <2> QED
    BY <1>2, <1>3, <1>4, <2>1, <2>2
<1>9. CASE SlaveCommanded \/ SlaveAcknowledged
  <2>1. \E c \in {"EOT", "ACK", "NAK"} : Says(<<Char(c)>>)
    BY <1>9 DEF SlaveCommanded, SlaveAcknowledged
  <2> QED
    BY <1>2, <1>3, <2>1
<1> QED
  BY <1>5, <1>6, <1>7, <1>8, <1>9

(* A sound line has been sound. *)
LEMMA FaultsCount ==
  ASSUME Typed, Next
  PROVE  /\ faults' = 0 => faults = 0 /\ ~Line
         /\ faults' <= 1 => faults <= 1
         /\ lates' = 0 => lates = 0
         /\ Line => faults' = faults + 1 /\ lates' = lates
<1>1. faults \in Nat /\ lates \in Nat
  BY LineTyped
<1>2. CASE Line
  <2>1. faults' = faults + 1 /\ lates' = lates
    BY <1>2, LineCases
  <2> QED
    BY <1>1, <1>2, <2>1
<1>3. CASE Slave
  <2>1. faults' = faults /\ lates' = lates
    BY <1>3, SlaveHears
  <2> QED
    BY <1>1, <1>2, <2>1
<1>4. CASE Ticks
  BY <1>1, <1>2, <1>4 DEF Ticks
<1>5. Line \/ Slave \/ Ticks
  BY StepCases
  DEF Enquires, EndsWithout, EndsWithText, Ends, SendsCommand, Drains,
      BeginsText, KeepsText, EndsText, Acknowledges, Reading
<1> QED
  BY <1>2, <1>3, <1>4, <1>5

(* Two at most. *)
LEMMA UpToTwo == \A n \in Nat : n <= 2 => n \in 0..2
OBVIOUS

(* What poll keeps of an answer is its next token. *)
LEMMA SoundKeeps ==
  ASSUME Typed, KeepsText, NEW s \in Slaves, NEW n \in 1..MaxAnswers,
         Len(frame) <= 2, Begins(up, s, n, 1, Len(frame)),
         \A i \in 1..Len(frame) : frame[i] = Part(s, n, i)
  PROVE  /\ Len(frame') <= 2 /\ Begins(up', s, n, 1, Len(frame'))
         /\ \A i \in 1..Len(frame') : frame'[i] = Part(s, n, i)
<1>1. /\ up # <<>> /\ up' = Tail(up) /\ frame' = Append(frame, up[1])
      /\ ~Is(up[1], "ETX")
  BY DEF KeepsText, Reading
<1>2. /\ up \in Seq(Token) /\ frame \in Seq(Token) /\ up[1] \in Token
      /\ Len(frame) \in Nat
  BY <1>1, LineTyped, TailFacts, LenProperties
<1>3. Len(frame) \in 0..2
  BY <1>2, UpToTwo
<1>4. up[1] = Part(s, n, Len(frame) + 1)
  BY <1>2, <1>3, BeginsTail
<1>5. Len(frame) <= 1
  <2>1. Len(frame) = 2 => Is(up[1], "ETX")
    BY <1>4, PartFacts DEF Is
  <2> QED
    BY <1>1, <1>3, <2>1
<1>6. Begins(up', s, n, 1, Len(frame) + 1)
  BY <1>1, <1>2, <1>3, <1>5, BeginsTail
<1>7. /\ Len(frame') = Len(frame) + 1 /\ frame'[Len(frame) + 1] = up[1]
      /\ \A i \in 1..Len(frame) : frame'[i] = frame[i]
  BY <1>1, <1>2, AppendProperties
<1>8. \A i \in 1..(Len(frame) + 1) : i \in 1..Len(frame) \/ i = Len(frame) + 1
  BY <1>2
<1>9. \A i \in 1..Len(frame') : frame'[i] = Part(s, n, i)
  BY <1>4, <1>7, <1>8
<1>10. Len(frame') <= 2
  BY <1>2, <1>5, <1>7
<1> QED
  BY <1>6, <1>7, <1>9, <1>10

(* ETX comes behind address and text. *)
LEMMA SoundEndsText ==
  ASSUME Typed, EndsText, NEW s \in Slaves, NEW n \in 1..MaxAnswers,
         Len(frame) <= 2, Begins(up, s, n, 1, Len(frame)),
         \A i \in 1..Len(frame) : frame[i] = Part(s, n, i)
  PROVE  frame = <<Part(s, n, 1), Part(s, n, 2)>>
<1>1. up # <<>> /\ up[1].c = "ETX"
  BY DEF EndsText, Reading, Is
<1>2. up \in Seq(Token) /\ frame \in Seq(Token) /\ Len(frame) \in Nat
  BY LineTyped, LenProperties
<1>3. Len(frame) \in 0..2
  BY <1>2, UpToTwo
<1>4. up[1] = Part(s, n, Len(frame) + 1)
  BY <1>2, <1>3, BeginsTail
<1>5. Len(frame) = 0 \/ Len(frame) = 1 \/ Len(frame) = 2
  BY <1>3
<1>6. Len(frame) = 2
  <2>1. CASE Len(frame) = 0
    BY <1>1, <1>4, <2>1, PartFacts
  <2>2. CASE Len(frame) = 1
    BY <1>1, <1>4, <2>2, PartFacts
  <2> QED
    BY <1>5, <2>1, <2>2
<1>7. frame[1] = Part(s, n, 1) /\ frame[2] = Part(s, n, 2)
  BY <1>6
<1>8. ASSUME NEW a \in Token, NEW b \in Token, frame[1] = a, frame[2] = b
      PROVE  frame = <<a, b>>
  <2>1. /\ <<a, b>> \in Seq(Token) /\ Len(<<a, b>>) = 2
        /\ <<a, b>>[1] = a /\ <<a, b>>[2] = b
    OBVIOUS
  <2>2. \A i \in 1..2 : i = 1 \/ i = 2
    OBVIOUS
  <2>3. \A i \in 1..Len(frame) : frame[i] = <<a, b>>[i]
    BY <1>6, <1>8, <2>1, <2>2
  <2> QED
    BY <1>2, <1>6, <2>1, <2>3, SeqEqual
<1> QED
  BY <1>7, <1>8, PartFacts

(* The poll of a sound line takes an answer as it was sent. *)
LEMMA SoundStep ==
  ASSUME Typed, FrameEmpty, SoundInv, Next
  PROVE  SoundInv'
<1> SUFFICES ASSUME faults' = 0 PROVE SoundInv'
  BY DEF SoundInv
<1>1. faults = 0 /\ ~Line
  BY FaultsCount
<1>2. up \in Seq(Token) /\ Clean(up)
  BY <1>1, LineTyped DEF SoundInv
<1>3. ASSUME up' \in Seq(Token), Suffix(up', up) PROVE Clean(up')
  BY <1>2, <1>3, CleanSuffix
<1>4. ASSUME up # <<>>, up' = Tail(up) PROVE Clean(up')
  BY <1>2, <1>3, <1>4, TailFacts
<1>5. CASE \/ Enquires("select", "SELECT", "selAck")
           \/ Enquires("poll", "POLL", "pollAck")
           \/ EndsWithout \/ EndsWithText
  <2>1. Drops /\ pc' \notin {"text", "crc", "eot"}
    BY <1>5 DEF Enquires, EndsWithout, EndsWithText, Ends
  <2> QED
    BY <1>3, <2>1 DEF SoundInv, Drops
<1>6. CASE SendsCommand \/ Drains
  <2>1. up # <<>> /\ up' = Tail(up) /\ pc' \notin {"text", "crc", "eot"}
    BY <1>6 DEF SendsCommand, Drains, Reading
  <2> QED
    BY <1>4, <2>1 DEF SoundInv
<1>7. CASE BeginsText
  <2>1. /\ up # <<>> /\ up' = Tail(up) /\ pc' = "text" /\ frame' = frame
        /\ up[1].c = "STX" /\ frame = <<>>
    BY <1>7 DEF BeginsText, Reading, Is, FrameEmpty
  <2>2. 1 \in 1..Len(up)
    BY <1>2, <2>1, TailFacts, LenProperties
  <2>3. PICK s \in Slaves, n \in 1..MaxAnswers : Begins(up, s, n, 1 + 1, 0)
    BY <1>2, <2>1, <2>2 DEF Clean
  <2>4. Begins(up', s, n, 1, 0)
    BY <1>2, <2>1, <2>3, BeginsBehind
  <2>5. Len(frame') = 0
    BY <2>1, EmptySeq
  <2> QED
    BY <1>4, <2>1, <2>4, <2>5 DEF SoundInv
<1>8. CASE KeepsText \/ EndsText
  <2>1. up # <<>> /\ up' = Tail(up) /\ pc = "text"
    BY <1>8 DEF KeepsText, EndsText, Reading
  <2>2. PICK s \in Slaves, n \in 1..MaxAnswers :
          /\ Len(frame) <= 2 /\ Begins(up, s, n, 1, Len(frame))
          /\ \A i \in 1..Len(frame) : frame[i] = Part(s, n, i)
    BY <1>1, <2>1 DEF SoundInv
  <2>3. CASE KeepsText
    <3>1. pc' = "text"
      BY <2>3 DEF KeepsText, Reading
    <3>2. /\ Len(frame') <= 2 /\ Begins(up', s, n, 1, Len(frame'))
          /\ \A i \in 1..Len(frame') : frame'[i] = Part(s, n, i)
      BY <2>2, <2>3, SoundKeeps
    <3> QED
      BY <1>4, <2>1, <3>1, <3>2 DEF SoundInv
  <2>4. CASE EndsText
    <3>1. pc' = "crc" /\ frame' = frame
      BY <2>4 DEF EndsText, Reading
    <3>2. frame = <<Part(s, n, 1), Part(s, n, 2)>>
      BY <2>2, <2>4, SoundEndsText
    <3> QED
      BY <1>4, <2>1, <3>1, <3>2 DEF SoundInv
  <2> QED
    BY <1>8, <2>3, <2>4
<1>9. CASE Acknowledges
  <2>1. /\ pc = "crc" /\ pc' = "eot" /\ frame' = frame /\ call' = call
        /\ Sender = call.s
    BY <1>9 DEF Acknowledges
  <2>2. Clean(up')
    BY <1>2, <1>4, <1>9 DEF Acknowledges
  <2>3. PICK s \in Slaves, n \in 1..MaxAnswers :
          frame = <<Part(s, n, 1), Part(s, n, 2)>>
    BY <1>1, <2>1 DEF SoundInv
  <2>4. frame # <<>> /\ Head(frame) = Part(s, n, 1)
    BY <2>3, PartFacts, ShortFacts
  <2>5. Sender = s
    BY <2>4, PartFacts DEF Sender, Is
  <2> QED
    BY <2>1, <2>2, <2>3, <2>5 DEF SoundInv
<1>10. CASE Slave
  <2>1. pc' = pc /\ call' = call /\ frame' = frame
    BY <1>10, SlaveHears
  <2>2. Clean(up')
    BY <1>2, <1>10, SlaveClean
  <2>3. ASSUME pc = "text"
        PROVE  \E s \in Slaves, n \in 1..MaxAnswers :
                 /\ Len(frame) <= 2 /\ Begins(up', s, n, 1, Len(frame))
                 /\ \A i \in 1..Len(frame) : frame[i] = Part(s, n, i)
    <3>1. PICK s \in Slaves, n \in 1..MaxAnswers :
            /\ Len(frame) <= 2 /\ Begins(up, s, n, 1, Len(frame))
            /\ \A i \in 1..Len(frame) : frame[i] = Part(s, n, i)
      BY <1>1, <2>3 DEF SoundInv
    <3>2. Len(frame) \in 0..2
      <4>1. Len(frame) \in Nat
        BY LineTyped, LenProperties
      <4> QED
        BY <3>1, <4>1, UpToTwo
    <3>3. Begins(up', s, n, 1, Len(frame))
      BY <1>2, <1>10, <3>1, <3>2, SlaveClean
    <3> QED
      BY <3>1, <3>3
  <2>4. pc \in {"crc", "eot"} =>
          \E s \in Slaves, n \in 1..MaxAnswers :
            /\ frame = <<Part(s, n, 1), Part(s, n, 2)>>
            /\ pc = "eot" => s = call.s
    BY <1>1 DEF SoundInv
  <2> QED
    BY <2>1, <2>2, <2>3, <2>4 DEF SoundInv
<1> QED
  BY <1>1, <1>5, <1>6, <1>7, <1>8, <1>9, <1>10, StepCases

----------------------------------------------------------------------------
(* The texts, when one token is damaged and none is late.                  *)

(* Behind a token of a message comes one that nothing has damaged yet. *)
LEMMA RestNext ==
  ASSUME Typed, call.s \in Slaves, NEW k \in 1..4, Rest(k), up' = Tail(up)
  PROVE  up # <<>> /\ up[1] \in Token /\ Len(up') = 5 - k /\ ~Bruised'
<1>1. up \in Seq(Token) /\ Len(up) = 6 - k
  BY LineTyped DEF Rest
<1>2. up # <<>>
  BY <1>1, EmptySeq
<1>3. /\ up[1] \in Token /\ Tail(up) \in Seq(Token) /\ Len(Tail(up)) = 5 - k
      /\ Tail(up)[1] = up[2]
  <2>1. /\ up[1] \in Token /\ Tail(up) \in Seq(Token)
        /\ Len(Tail(up)) = Len(up) - 1
        /\ \A i \in 1..(Len(up) - 1) : Tail(up)[i] = up[i + 1]
    BY <1>1, <1>2, TailFacts
  <2>2. 1 \in 1..(Len(up) - 1) /\ 1 + 1 = 2 /\ Len(up) - 1 = 5 - k
    BY <1>1
  <2> QED
    BY <2>1, <2>2
<1>4. up[2] = Message(call.s)[k + 1]
  <2>1. 2 \in 2..(6 - k) /\ 2 + k - 1 = k + 1
    OBVIOUS
  <2> QED
    BY <2>1, RestFacts
<1>5. Message(call.s)[k + 1].ok
  <2>1. acked[call.s] \in Nat
    BY SaidFacts
  <2>2. /\ Message(call.s)[2] = Tok("ADDR", call.s, acked[call.s] + 1)
        /\ Message(call.s)[3] = Tok("TEXT", call.s, acked[call.s] + 1)
        /\ Message(call.s)[4] = Char("ETX")
        /\ Message(call.s)[5] = Tok("CRC", call.s, acked[call.s] + 1)
    BY <2>1, MessageFacts
  <2>3. \A c, s, n : Tok(c, s, n).ok
    BY DEF Tok
  <2>4. k = 1 \/ k = 2 \/ k = 3 \/ k = 4
    OBVIOUS
  <2>5. k + 1 = 2 \/ k + 1 = 3 \/ k + 1 = 4 \/ k + 1 = 5
    BY <2>4
  <2> QED
    BY <2>2, <2>3, <2>5 DEF Char
<1>6. Tail(up) # <<>>
  <2>1. 5 - k # 0
    OBVIOUS
  <2> QED
    BY <1>3, <2>1, EmptySeq
<1>7. up'[1].ok /\ up' # <<>>
  BY <1>3, <1>4, <1>5, <1>6
<1> QED
  BY <1>2, <1>3, <1>7 DEF Bruised

(* What the frame has of damage: nothing at first, *)
LEMMA DamageBegins ==
  ASSUME LinkInv, lates = 0, lates' = 0, BeginsText
  PROVE  DamageInv'
<1>1. /\ pc = "pollAck" /\ pc' = "text" /\ up # <<>> /\ up[1].c = "STX"
      /\ up' = Tail(up) /\ frame' = frame
  BY DEF BeginsText, Reading, Is
<1>2. Typed /\ call.s \in Slaves /\ frame = <<>>
  BY <1>1 DEF LinkInv, Typed, Call, FrameEmpty
<1>3. PICK k \in 1..5 : Rest(k)
  BY <1>1 DEF LinkInv, LineInv, Asked, One
<1>4. k = 1
  BY <1>1, <1>2, <1>3, RestFacts
<1>5. ~Bruised'
  BY <1>1, <1>2, <1>3, <1>4, RestNext
<1>6. ~Wounded'
  <2>1. Len(frame') = 0
    BY <1>1, <1>2, EmptySeq
  <2> QED
    BY <2>1 DEF Wounded
<1> QED
  BY <1>1, <1>5, <1>6 DEF DamageInv

(* then that of the token it takes, *)
LEMMA DamageKeeps ==
  ASSUME LinkInv, DamageInv, lates = 0, lates' = 0, KeepsText \/ EndsText
  PROVE  DamageInv'
<1>1. /\ pc = "text" /\ up # <<>> /\ up' = Tail(up) /\ faults' = faults
  BY DEF KeepsText, EndsText, Reading
<1>2. /\ Typed /\ call.s \in Slaves /\ up \in Seq(Token)
      /\ frame \in Seq(Token) /\ Len(frame) \in Nat
  BY <1>1, LineTyped, LenProperties DEF LinkInv, Typed, Call
<1>3. PICK k \in 2..6 : Rest(k)
  BY <1>1 DEF LinkInv, LineInv
<1>4. Len(up) = 6 - k
  BY <1>3 DEF Rest
<1>5. CASE KeepsText
  <2>1. pc' = "text" /\ frame' = Append(frame, up[1])
    BY <1>5 DEF KeepsText, Reading
  <2>2. Len(up') = Len(up) - 1 /\ up[1] \in Token
    BY <1>1, <1>2, TailFacts
  <2>3. ASSUME Len(up') >= 2
        PROVE  k \in 1..4 /\ Len(up) >= 2
    <3>1. Len(up') = (6 - k) - 1
      BY <1>4, <2>2
    <3>2. ASSUME NEW l, l = (6 - k) - 1, l >= 2
          PROVE  k \in 1..4 /\ 6 - k >= 2
      BY <3>2
    <3> QED
      BY <1>4, <2>3, <3>1, <3>2
  <2>4. Wounded' => Wounded \/ ~up[1].ok
    <3>1. /\ Len(frame') = Len(frame) + 1 /\ frame'[Len(frame) + 1] = up[1]
          /\ \A i \in 1..Len(frame) : frame'[i] = frame[i]
      BY <1>2, <2>1, <2>2, AppendProperties
    <3>2. \A i \in 1..(Len(frame) + 1) :
            i \in 1..Len(frame) \/ i = Len(frame) + 1
      BY <1>2
    <3> QED
      BY <3>1, <3>2 DEF Wounded
  <2>5. ASSUME Len(up') >= 2
        PROVE  /\ ~Bruised'
               /\ Wounded' => faults >= 1
    <3>1. ~Bruised'
      BY <1>1, <1>2, <1>3, <2>3, <2>5, RestNext
    <3>2. Wounded \/ Bruised => faults >= 1
      BY <1>1, <2>3, <2>5 DEF DamageInv
    <3> QED
      BY <2>4, <3>1, <3>2 DEF Bruised
  <2> QED
    BY <1>1, <2>1, <2>5 DEF DamageInv
<1>6. CASE EndsText
  <2>1. pc' = "crc" /\ frame' = frame /\ up[1].c = "ETX"
    BY <1>6 DEF EndsText, Reading, Is
  <2>2. k = 4
    BY <1>1, <1>2, <1>3, <2>1, RestFacts
  <2>3. ~Bruised'
    BY <1>1, <1>2, <1>3, <2>2, RestNext
  <2>4. Wounded => faults >= 1
    BY <1>1, <1>4, <2>2 DEF DamageInv
  <2>5. Wounded' => Wounded
    BY <2>1 DEF Wounded
  <2> QED
    BY <1>1, <2>1, <2>3, <2>4, <2>5 DEF DamageInv
<1> QED
  BY <1>5, <1>6

(* and what the checksum lets pass. *)
LEMMA DamageAcknowledges ==
  ASSUME LinkInv, DamageInv, lates = 0, lates' = 0, Acknowledges
  PROVE  DamageInv'
<1>1. /\ pc = "crc" /\ pc' = "eot" /\ frame' = frame /\ faults' = faults
      /\ Len(frame) > 1
      /\ \/ Matches(up[1], frame)
         \/ up = <<>>
  BY DEF Acknowledges
<1>2. faults \in Nat /\ frame \in Seq(Token) /\ Len(frame) \in Nat
  BY LineTyped, LenProperties DEF LinkInv
<1>3. ASSUME Matches(up[1], frame)
      PROVE  frame[2].ok
  <2>1. frame[2] = Tok("TEXT", up[1].s, up[1].n)
    BY <1>3 DEF Matches
  <2> QED
    BY <2>1 DEF Tok
<1>4. ASSUME up = <<>>, faults <= 1
      PROVE  frame[2].ok
  <2>1. Bruised
    BY <1>4 DEF Bruised
  <2>2. ~Wounded
    <3>1. Wounded => faults >= 2
      BY <1>1, <2>1 DEF DamageInv
    <3> QED
      BY <1>2, <1>4, <3>1
  <2>3. 2 \in 1..Len(frame)
    BY <1>1, <1>2
  <2> QED
    BY <2>2, <2>3 DEF Wounded
<1> QED
  BY <1>1, <1>3, <1>4 DEF DamageInv

(* The line adds to it. *)
LEMMA DamageLine ==
  ASSUME LinkInv, DamageInv, lates = 0, Line
  PROVE  DamageInv'
<1>1. /\ up # <<>> /\ pc' = pc /\ frame' = frame /\ faults' = faults + 1
      /\ \/ up' = Tail(up)
         \/ Len(up') = Len(up)
  BY LineCases DEF LinkInv
<1>2. /\ up \in Seq(Token) /\ Len(up) \in Nat /\ Len(Tail(up)) = Len(up) - 1
      /\ faults \in Nat
  BY <1>1, LineTyped, LenProperties, TailFacts DEF LinkInv
<1>3. Len(up') >= 2 => Len(up) >= 2
  <2>1. Len(up') = Len(up) - 1 \/ Len(up') = Len(up)
    BY <1>1, <1>2
  <2> QED
    BY <1>2, <2>1
<1>4. Wounded' => Wounded
  BY <1>1 DEF Wounded
<1>5. ASSUME (pc = "text" /\ Len(up') >= 2) \/ pc = "crc"
      PROVE  /\ faults + 1 >= 1
             /\ Wounded' => faults + 1 >= 2
  <2>1. Wounded => faults >= 1
    BY <1>3, <1>5 DEF DamageInv
  <2>2. Wounded' => faults >= 1
    BY <1>4, <2>1
  <2> QED
    BY <1>2, <2>2
<1>6. pc = "eot" /\ faults + 1 <= 1 => frame[2].ok
  BY <1>2 DEF DamageInv
<1> QED
  BY <1>1, <1>5, <1>6 DEF DamageInv

(* So damage is counted at every step. *)
LEMMA DamageStep ==
  ASSUME LinkInv, DamageInv, Next
  PROVE  DamageInv'
<1> SUFFICES ASSUME lates' = 0 PROVE DamageInv'
  BY DEF DamageInv
<1>1. Typed
  BY DEF LinkInv
<1>2. lates = 0
  BY <1>1, FaultsCount
<1>3. CASE \/ Enquires("select", "SELECT", "selAck")
           \/ Enquires("poll", "POLL", "pollAck")
           \/ EndsWithout \/ EndsWithText \/ SendsCommand \/ Drains
  <2>1. pc' \notin {"text", "crc", "eot"}
    BY <1>3 DEF Enquires, EndsWithout, EndsWithText, Ends, SendsCommand,
       Drains, Reading
  <2> QED
    BY <2>1 DEF DamageInv
<1>4. CASE Slave
  <2>1. /\ down # <<>> /\ pc' = pc /\ frame' = frame /\ faults' = faults
    BY <1>1, <1>4, SlaveHears
  <2>2. pc # "text" /\ pc # "crc"
    BY <1>2, <2>1 DEF LinkInv, LineInv
  <2>3. pc = "eot" /\ faults <= 1 => frame[2].ok
    BY <1>2 DEF DamageInv
  <2> QED
    BY <2>1, <2>2, <2>3 DEF DamageInv
<1> QED
  BY <1>1, <1>2, <1>3, <1>4, StepCases, DamageBegins, DamageKeeps,
     DamageAcknowledges, DamageLine

(* The text that is handed out is one the slave sent, *)
LEMMA TextHandedOut ==
  ASSUME LinkInv, SoundInv, DamageInv, EndsWithText,
         faults = 0 \/ (faults = 1 /\ lates = 0)
  PROVE  \E n \in 1..MaxAnswers : Tail(frame) = <<Tok("TEXT", call.s, n)>>
<1>1. Typed /\ pc = "eot" /\ frame \in Seq(Token)
  BY LineTyped DEF LinkInv, EndsWithText
<1>2. CASE faults = 0
  <2>1. PICK s \in Slaves, n \in 1..MaxAnswers :
          frame = <<Part(s, n, 1), Part(s, n, 2)>> /\ s = call.s
    BY <1>1, <1>2 DEF SoundInv
  <2>2. Tail(frame) = <<Part(s, n, 2)>>
    BY <2>1, PartFacts, ShortFacts
  <2> QED
    BY <2>1, <2>2, PartFacts
<1>3. CASE faults = 1 /\ lates = 0
  <2>1. /\ Len(frame) = 2 /\ frame[2].n \in 1..MaxAnswers
        /\ Heard(frame[2], Tok("TEXT", call.s, frame[2].n))
    BY <1>1, <1>3 DEF LinkInv, FrameInv
  <2>2. frame[2].ok
    BY <1>1, <1>3 DEF DamageInv
  <2>3. frame[2] = Tok("TEXT", call.s, frame[2].n)
    <3>1. ~Damaged(Tok("TEXT", call.s, frame[2].n)).ok
      BY DEF Damaged, Tok
    <3> QED
      BY <2>1, <2>2, <3>1 DEF Heard
  <2>4. Tail(frame) = <<frame[2]>>
    <3>1. frame # <<>> /\ frame[2] \in Token
      <4>1. Len(frame) = 2
        BY <2>1
      <4>2. frame # <<>>
        BY <4>1, EmptySeq
      <4>3. 2 \in 1..Len(frame)
        BY <4>1
      <4> QED
        BY <1>1, <4>2, <4>3, ElementOfSeq
    <3>2. /\ Tail(frame) \in Seq(Token) /\ Len(Tail(frame)) = 1
          /\ Tail(frame)[1] = frame[2]
      BY <1>1, <1>3, <2>1, <3>1, TailFacts, TakenText
    <3>3. <<frame[2]>> \in Seq(Token) /\ Len(<<frame[2]>>) = 1
          /\ <<frame[2]>>[1] = frame[2]
      BY <3>1
    <3>4. \A i \in 1..1 : Tail(frame)[i] = <<frame[2]>>[i]
      BY <3>2, <3>3
    <3> QED
      BY <3>2, <3>3, <3>4, SeqEqual
  <2> QED
    BY <2>1, <2>3, <2>4
<1> QED
  BY <1>2, <1>3

(* only a poll that ends well hands one out, *)
LEMMA TakenSame ==
  ASSUME Typed, Next
  PROVE  taken' = taken \/ EndsWithText
<1>1. CASE Slave
  BY <1>1, SlaveHears
<1>2. CASE Line
  BY <1>2, LineCases
<1> QED
  BY <1>1, <1>2, StepCases
  DEF Enquires, EndsWithout, SendsCommand, Drains, BeginsText, KeepsText,
      EndsText, Acknowledges, Reading

(* and so every one is. *)
LEMMA UndamagedStep ==
  ASSUME LinkInv, SoundInv, DamageInv, UndamagedText, Next
  PROVE  UndamagedText'
<1> DEFINE Sent(s, t) == \E n \in 1..MaxAnswers : t = <<Tok("TEXT", s, n)>>
<1> SUFFICES ASSUME faults' = 0 \/ (faults' = 1 /\ lates' = 0),
                    NEW s \in Slaves, NEW i \in 1..Len(taken'[s])
             PROVE  Sent(s, taken'[s][i])
  BY DEF UndamagedText
<1>1. Typed
  BY DEF LinkInv
<1>2. faults = 0 \/ (faults = 1 /\ lates = 0)
  <2>1. faults \in Nat
    BY <1>1, LineTyped
  <2>2. faults' = 0 => faults = 0
    BY <1>1, FaultsCount
  <2>3. faults' <= 1 => faults <= 1
    BY <1>1, FaultsCount
  <2>4. lates' = 0 => lates = 0
    BY <1>1, FaultsCount
  <2>5. CASE faults' = 1 /\ lates' = 0
    <3>1. faults <= 1
      BY <2>3, <2>5
    <3> QED
      BY <2>1, <2>4, <2>5, <3>1
  <2> QED
    BY <2>2, <2>5
<1>3. \A t \in Slaves : \A j \in 1..Len(taken[t]) : Sent(t, taken[t][j])
  BY <1>2 DEF UndamagedText
<1>4. CASE taken' = taken
  BY <1>3, <1>4
<1>5. CASE EndsWithText
  <2>1. /\ call.s \in Slaves /\ Tail(frame) \in Seq(Token)
        /\ \A t \in Slaves \ {call.s} : taken'[t] = taken[t]
        /\ taken'[call.s] = Append(taken[call.s], Tail(frame))
    BY <1>1, <1>5, TakenText
  <2>2. Sent(call.s, Tail(frame))
    BY <1>2, <1>5, TextHandedOut
  <2>3. CASE s # call.s
    BY <1>3, <2>1, <2>3
  <2>4. CASE s = call.s
    <3>1. taken[s] \in Seq(Seq(Token)) /\ Len(taken[s]) \in Nat
      BY <1>1, LenProperties DEF Typed, TypeOK
    <3>2. /\ Len(taken'[s]) = Len(taken[s]) + 1
          /\ taken'[s][Len(taken[s]) + 1] = Tail(frame)
          /\ \A j \in 1..Len(taken[s]) : taken'[s][j] = taken[s][j]
      <4>1. taken'[s] = Append(taken[s], Tail(frame))
        BY <2>1, <2>4
      <4>2. /\ Len(Append(taken[s], Tail(frame))) = Len(taken[s]) + 1
            /\ Append(taken[s], Tail(frame))[Len(taken[s]) + 1] = Tail(frame)
            /\ \A j \in 1..Len(taken[s]) :
                 Append(taken[s], Tail(frame))[j] = taken[s][j]
        BY <2>1, <3>1, AppendProperties
      <4> QED
        BY <4>1, <4>2
    <3>3. i \in 1..Len(taken[s]) \/ i = Len(taken[s]) + 1
      BY <3>1, <3>2
    <3> QED
      BY <1>3, <2>2, <2>4, <3>2, <3>3
  <2> QED
    BY <2>3, <2>4
<1> QED
  BY <1>1, <1>4, <1>5, TakenSame

\* The invariant behind the texts.
TextInv == LinkInv /\ SoundInv /\ DamageInv /\ UndamagedText

(* It holds at the start, *)
LEMMA TextInit == Init => TextInv
<1> SUFFICES ASSUME Init PROVE TextInv
  OBVIOUS
<1>1. LinkInv
  BY LinkInit
<1>2. Len(up) = 0 /\ pc = "idle" /\ \A s \in Slaves : Len(taken[s]) = 0
  BY EmptySeq DEF Init
<1>3. SoundInv
  BY <1>2 DEF SoundInv, Clean
<1>4. DamageInv
  BY <1>2 DEF DamageInv
<1>5. UndamagedText
  BY <1>2 DEF UndamagedText
<1> QED
  BY <1>1, <1>3, <1>4, <1>5 DEF TextInv

(* and at every step. *)
LEMMA TextStep == TextInv /\ [Next]_vars => TextInv'
<1> SUFFICES ASSUME TextInv, [Next]_vars PROVE TextInv'
  OBVIOUS
<1>1. LinkInv /\ SoundInv /\ DamageInv /\ UndamagedText /\ LinkInv'
  BY LinkStep DEF TextInv
<1>2. CASE Next
  <2>1. SoundInv'
    BY <1>1, <1>2, SoundStep DEF LinkInv
  <2>2. DamageInv'
    BY <1>1, <1>2, DamageStep
  <2>3. UndamagedText'
    BY <1>1, <1>2, UndamagedStep
  <2> QED
    BY <1>1, <2>1, <2>2, <2>3 DEF TextInv
<1>3. CASE UNCHANGED vars
  <2>1. /\ up' = up /\ pc' = pc /\ call' = call /\ frame' = frame
        /\ taken' = taken /\ faults' = faults /\ lates' = lates
    BY <1>3 DEF vars, line, master
  <2>2. SoundInv'
    BY <1>1, <2>1 DEF SoundInv
  <2>3. DamageInv'
    BY <1>1, <2>1 DEF DamageInv, Wounded, Bruised
  <2>4. UndamagedText'
    BY <1>1, <2>1 DEF UndamagedText
  <2> QED
    BY <1>1, <2>2, <2>3, <2>4 DEF TextInv
<1> QED
  BY <1>2, <1>3

(* A text poll hands out as slave s's is one that s sent, undamaged, for   *)
(* any number of slaves: on a line without faults even when answers come   *)
(* so late that they meet the poll of another slave, and with one fault    *)
(* when none is late (OcemProtocol.cpp:178-230).                           *)
THEOREM TextsAgree == Spec => []UndamagedText
<1>1. TextInv => UndamagedText
  BY DEF TextInv
<1> QED
  BY <1>1, TextInit, TextStep, PTL DEF Spec
=============================================================================
