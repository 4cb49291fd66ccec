------------------------------ MODULE OcemLink ------------------------------
(***************************************************************************)
(* OcemProtocol::select and OcemProtocol::poll: one master and the slaves  *)
(* of a line, one transaction at a time.  The master's program is          *)
(* OcemProtocol.cpp; slaves and line are external, modelled from what      *)
(* the two functions expect of them.  The line is a queue of tokens in     *)
(* either direction; it may lose or damage one, and the master may give up *)
(* waiting for an answer that still comes.  A token is a character         *)
(* or, for address, text and checksum, what the characters stand for.      *)
(***************************************************************************)
EXTENDS Integers, Sequences, FiniteSets

CONSTANTS
  Slaves, NoSlave,
  MAX_ANSWER_SIZE,  \* max_answer_size, in tokens
  MaxCalls,         \* bound: calls the master makes
  MaxAnswers,       \* bound: answers a slave has to give
  MaxMishaps        \* bound: faults and lates together

ASSUME ConstantsAssumption ==
  /\ NoSlave \notin Slaves
  /\ MAX_ANSWER_SIZE \in Nat \ {0}
  /\ {MaxCalls, MaxAnswers, MaxMishaps} \subseteq Nat

VARIABLES
  down, up,     \* the line: tokens to the slaves, tokens to the master
  pc, call,     \* the read the master is in; its call
  frame,        \* poll's tmpbuf: what came after STX, up to ETX
  filled,       \* how much of tmpbuf is written, ETX and checksum included
  log,          \* the calls made and what each returned
  hold,         \* the slave that has the line, selected or talking
  executed,     \* the commands carried out, by number of the call
  acked,        \* per slave: the answers it counts as delivered
  taken,        \* per slave: the texts poll handed to the caller, in order
  faults,       \* slaves' tokens lost or damaged, writes that failed
  lates         \* timeouts and flushes that missed what still came

line   == <<down, up>>
master == <<pc, call, frame, filled, log, taken>>
slave  == <<hold, executed, acked>>
vars == <<line, master, slave, faults, lates>>

----------------------------------------------------------------------------
Control == {"ACK", "NAK", "EOT", "STX", "ETX"}
Enquiry == {"POLL", "SELECT"}     \* ENQ and slave + 0x40, ENQ and slave + 0x60

\* ok is FALSE once the line has damaged it: then it is another character,
\* but none of the control characters.
Token == [c: Control \cup Enquiry \cup {"CMD", "ADDR", "TEXT", "CRC"},
          s: Slaves \cup {NoSlave}, n: Nat, ok: BOOLEAN]

Tok(c, s, n) == [c |-> c, s |-> s, n |-> n, ok |-> TRUE]
Char(c) == Tok(c, NoSlave, 0)
Is(t, c) == t.c = c /\ t.ok

Failure == {"WRITE_FAILED", "NO_TRAFFIC", "POLL_ANSWER_CRC_FAILED",
  "MALFORMED_POLL_ANSWER", "UNEXPECTED_SLAVE_ANSWER",
  "EOT_MISSING_FROM_SLAVE", "NO_ACK_FROM_SLAVE", "ERROR_WRITING_ACK",
  "NO_ETX_MATCHED", "SLAVE_BUSY", "BAD_SELECT_COMMAND",
  "SLAVE_CANNOT_UNDERSTAND_MESSAGE"}
\* What a call returns: an error, 0, the number of characters sent or handed
\* out, or the character NAK, 21.
Return == Failure \cup {"0", "chars", "NAK"}
Positive(r) == r \in {"chars", "NAK"}

\* fits: a command that is not empty, a buffer as long as the answer.
Call == [op: {"select", "poll"}, s: Slaves, fits: BOOLEAN]
NoCall == [op |-> "none", s |-> NoSlave, fits |-> TRUE]

\* poll stops at the size of its buffer, save for the checksum: it goes one
\* past the end when ETX was the last character that fits
\* (OcemProtocol.cpp:142, 181, 192).
TypeOK ==
  /\ down \in Seq(Token) /\ up \in Seq(Token)
  /\ pc \in {"idle", "selAck", "drain", "cmdAck", "pollAck", "text", "crc",
             "eot"}
  /\ call \in Call \cup {NoCall}
  /\ frame \in Seq(Token) /\ filled \in 0..(MAX_ANSWER_SIZE + 1)
  /\ filled > MAX_ANSWER_SIZE => pc = "eot"
  /\ log \in Seq([op: {"select", "poll"}, s: Slaves, r: Return])
  /\ hold \in [s: Slaves \cup {NoSlave}, st: {"none", "selected", "talking"}]
  /\ executed \in Seq(1..MaxCalls)
  /\ acked \in [Slaves -> 0..MaxAnswers]
  /\ taken \in [Slaves -> Seq(Seq(Token))]
  /\ faults \in Nat /\ lates \in Nat /\ faults + lates <= MaxMishaps

NoHold == [s |-> NoSlave, st |-> "none"]

Init ==
  /\ down = <<>> /\ up = <<>>
  /\ pc = "idle" /\ call = NoCall /\ frame = <<>> /\ filled = 0 /\ log = <<>>
  /\ hold = NoHold /\ executed = <<>>
  /\ acked = [s \in Slaves |-> 0] /\ taken = [s \in Slaves |-> <<>>]
  /\ faults = 0 /\ lates = 0

----------------------------------------------------------------------------
(* What the master does on the channel.                                    *)

\* The number of the call, or of the next one.
This == Len(log) + 1

\* flush_read drops what has arrived of rest, not what is still on its way.
Flush(rest) == \E k \in 0..Len(rest) : up' = SubSeq(rest, k + 1, Len(rest))

Late == lates' = lates + 1

\* A read that returns 0: nothing comes any more, or it comes too late.
TimedOut == \/ up = <<>> /\ down = <<>> /\ UNCHANGED lates
            \/ (up # <<>> \/ down # <<>>) /\ Late

Fault == faults' = faults + 1

\* One write: it is done whole, or fails and nothing leaves.
Written(t) == down' = Append(down, t) /\ UNCHANGED faults
WriteFails == Fault /\ UNCHANGED down

\* sendAck(EOT): the outcome is not looked at.
SendEOT == Written(Char("EOT")) \/ WriteFails

Returns(r) ==
  /\ pc' = "idle" /\ call' = NoCall /\ frame' = <<>> /\ filled' = 0
  /\ log' = Append(log, [op |-> call.op, s |-> call.s, r |-> r])

Goto(l) == pc' = l /\ UNCHANGED <<call, frame, filled, log, taken>>

\* Mutant of FlushBefore: forgotten.
FlushBeforeForgotten == UNCHANGED <<up, lates>>

\* The flush_read that precedes ENQ: what it misses is late.
FlushBefore == Flush(up) /\ IF up' = <<>> THEN UNCHANGED lates ELSE Late

\* The start of either call: flush_read, then ENQ and the slave's address.
Enquire(op, enq, l) ==
  /\ pc = "idle" /\ Len(log) < MaxCalls
  /\ FlushBefore
  /\ \E s \in Slaves, fits \in BOOLEAN :
       \/ /\ Written(Tok(enq, s, 0))
          /\ call' = [op |-> op, s |-> s, fits |-> fits]
          /\ pc' = l /\ UNCHANGED <<frame, log>>
       \/ /\ WriteFails
          /\ log' = Append(log, [op |-> op, s |-> s, r |-> "WRITE_FAILED"])
          /\ UNCHANGED <<pc, call, frame>>
  /\ UNCHANGED <<filled, slave, taken>>

----------------------------------------------------------------------------
(* select.                                                                 *)

Select == Enquire("select", "SELECT", "selAck")

\* build_cmd: one token for STX, address, command, ETX and checksum.
Command == Tok("CMD", call.s, This)

\* A read at l that returns a token: what the code does with it.
Reads(l) == pc = l /\ up # <<>> /\ UNCHANGED <<slave, lates>>
Refused(t) == Is(t, "NAK") \/ Is(t, "EOT")
Refusal(t) == IF Is(t, "NAK") THEN "SLAVE_CANNOT_UNDERSTAND_MESSAGE"
              ELSE "SLAVE_BUSY"
\* waitAck knows the character; else it flushes.
Known(t) == \E c \in {"ACK", "NAK", "EOT", "STX"} : Is(t, c)

Selected ==
  /\ Reads("selAck")
  /\ LET t == Head(up) IN
     \/ /\ Is(t, "ACK") /\ up' = Tail(up)
        /\ \/ /\ call.fits
              /\ \/ Written(Command) /\ Goto("cmdAck")
                 \/ WriteFails /\ Returns("WRITE_FAILED") /\ UNCHANGED taken
           \/ /\ ~call.fits /\ Returns("BAD_SELECT_COMMAND")
              /\ UNCHANGED <<down, taken, faults>>
     \/ /\ Refused(t) /\ up' = Tail(up)
        /\ Returns(Refusal(t)) /\ UNCHANGED <<down, taken, faults>>
     \/ /\ Is(t, "STX") /\ up' = Tail(up)
        /\ Goto("drain") /\ UNCHANGED <<down, faults>>
     \/ /\ ~Known(t) /\ Flush(Tail(up))
        /\ Returns("UNEXPECTED_SLAVE_ANSWER") /\ UNCHANGED <<down, taken, faults>>

\* The loop that reads away a message nobody asked for.
Drain ==
  /\ Reads("drain")
  /\ IF Is(Head(up), "ETX")
     THEN /\ Flush(Tail(up)) /\ Returns("UNEXPECTED_SLAVE_ANSWER")
     ELSE up' = Tail(up) /\ UNCHANGED master
  /\ UNCHANGED <<down, taken, faults>>

Commanded ==
  /\ Reads("cmdAck")
  /\ LET t == Head(up) IN
     \/ /\ Is(t, "ACK") /\ up' = Tail(up) /\ Returns("chars")
     \/ /\ Refused(t) /\ up' = Tail(up) /\ Returns(Refusal(t))
     \/ /\ Is(t, "STX") /\ up' = Tail(up) /\ Returns("UNEXPECTED_SLAVE_ANSWER")
     \/ /\ ~Known(t) /\ Flush(Tail(up)) /\ Returns("UNEXPECTED_SLAVE_ANSWER")
  /\ UNCHANGED <<down, taken, faults>>

\* Mutant of SelectTimesOut: the loop goes on when a read returns 0.
SelectTimesOutButDrains ==
  /\ pc \in {"selAck", "cmdAck"} /\ TimedOut
  /\ IF pc = "cmdAck" THEN UNCHANGED up ELSE Flush(up)
  /\ Returns("UNEXPECTED_SLAVE_ANSWER")
  /\ UNCHANGED <<down, taken, slave, faults>>

\* No answer: the same error in the three reads, a flush in the first two.
SelectTimesOut ==
  /\ pc \in {"selAck", "drain", "cmdAck"} /\ TimedOut
  /\ IF pc = "cmdAck" THEN UNCHANGED up ELSE Flush(up)
  /\ Returns("UNEXPECTED_SLAVE_ANSWER")
  /\ UNCHANGED <<down, taken, slave, faults>>

----------------------------------------------------------------------------
(* poll.                                                                   *)

Poll == Enquire("poll", "POLL", "pollAck")

\* NAK is none of the characters poll looks for and no error either.
PollReturn(t) == CASE Is(t, "EOT") -> "NO_TRAFFIC"
                   [] Is(t, "ACK") -> "0"
                   [] Is(t, "NAK") -> "NAK"
                   [] OTHER -> "UNEXPECTED_SLAVE_ANSWER"

Polled ==
  /\ Reads("pollAck")
  /\ LET t == Head(up) IN
     IF Is(t, "STX") THEN up' = Tail(up) /\ Goto("text")
     ELSE /\ IF Known(t) THEN up' = Tail(up) ELSE Flush(Tail(up))
          /\ Returns(PollReturn(t)) /\ UNCHANGED taken
  /\ UNCHANGED <<down, faults>>

PollTimesOut ==
  /\ pc = "pollAck" /\ TimedOut /\ Returns("NO_ACK_FROM_SLAVE")
  /\ UNCHANGED <<line, taken, slave, faults>>

\* Mutant of Full: one byte late.
FullLate == filled > MAX_ANSWER_SIZE
Full == filled >= MAX_ANSWER_SIZE

\* The loop that reads the message, ETX included.
ReadText ==
  /\ Reads("text") /\ ~Full
  /\ up' = Tail(up) /\ filled' = filled + 1
  /\ IF Is(Head(up), "ETX") THEN pc' = "crc" /\ UNCHANGED frame
     ELSE frame' = Append(frame, Head(up)) /\ UNCHANGED pc
  /\ UNCHANGED <<call, log, taken, down, faults>>

\* The buffer is full or nothing comes: a message without terminator.
NoTerminator ==
  /\ pc = "text"
  /\ IF Full THEN UNCHANGED lates ELSE TimedOut
  /\ Flush(up) /\ SendEOT /\ Returns("MALFORMED_POLL_ANSWER")
  /\ UNCHANGED <<taken, slave>>

\* The checksum a slave sends stands for the address and text it covers; the
\* check finds every damage but that of a character's top bit, which is left
\* out (OcemFraming has it).
Matches(crc, f) ==
  /\ Is(crc, "CRC")
  /\ f = <<Tok("ADDR", crc.s, crc.n), Tok("TEXT", crc.s, crc.n)>>

\* Mutant of Sender: the address is not compared.
SenderIgnored == call.s
Sender == IF frame # <<>> /\ Is(Head(frame), "ADDR") THEN Head(frame).s
          ELSE NoSlave

\* What poll does with a message: crcOk is what the comparison says, rest
\* what is left on the line, n how much of tmpbuf is written.
Judge(crcOk, rest, n) ==
  IF Sender # call.s
  THEN Flush(rest) /\ SendEOT /\ Returns("UNEXPECTED_SLAVE_ANSWER")
  ELSE IF call.fits /\ crcOk /\ Len(frame) > 1
  THEN /\ up' = rest
       /\ \/ /\ Written(Char("ACK"))
             /\ pc' = "eot" /\ filled' = n /\ UNCHANGED <<call, frame, log>>
          \/ WriteFails /\ Returns("ERROR_WRITING_ACK")
  ELSE /\ SendEOT /\ Flush(rest)
       /\ Returns(CASE ~call.fits -> "NO_ETX_MATCHED"
                    [] call.fits /\ ~crcOk -> "POLL_ANSWER_CRC_FAILED"
                    [] OTHER -> "0")

\* The checksum goes behind ETX, even when that is past the end of tmpbuf:
\* then it is taken to be read back unchanged.  What else such a write may
\* do is out of the model.
ReadCrc ==
  /\ Reads("crc")
  /\ Judge(Matches(Head(up), frame), Tail(up), filled + 1) /\ UNCHANGED taken

\* The read returns 0, which the code does not take for a missing checksum:
\* the comparison is with whatever tmpbuf held.
MissCrc ==
  /\ pc = "crc" /\ TimedOut
  /\ \E crcOk \in BOOLEAN : Judge(crcOk, up, filled)
  /\ UNCHANGED <<slave, taken>>

\* The slave's last word, after ACK.
Confirmed ==
  /\ Reads("eot") /\ up' = Tail(up)
  /\ IF Is(Head(up), "EOT")
     THEN /\ taken' = [taken EXCEPT ![call.s] = Append(@, Tail(frame))]
          /\ Returns("chars")
     ELSE Returns("EOT_MISSING_FROM_SLAVE") /\ UNCHANGED taken
  /\ UNCHANGED <<down, faults>>

\* Mutant of NotConfirmed: no EOT within the timeout is as good as one.
NotConfirmedTaken ==
  /\ pc = "eot" /\ TimedOut /\ Returns("chars")
  /\ taken' = [taken EXCEPT ![call.s] = Append(@, Tail(frame))]
  /\ UNCHANGED <<line, slave, faults>>

NotConfirmed ==
  /\ pc = "eot" /\ TimedOut /\ Returns("NO_ACK_FROM_SLAVE")
  /\ UNCHANGED <<line, taken, slave, faults>>

Bounded == faults' + lates' <= MaxMishaps

Begin == (Select \/ Poll) /\ Bounded
Proceed ==
  /\ \/ Selected \/ Drain \/ Commanded \/ SelectTimesOut
     \/ Polled \/ PollTimesOut \/ ReadText \/ NoTerminator
     \/ ReadCrc \/ MissCrc \/ Confirmed \/ NotConfirmed
  /\ Bounded

----------------------------------------------------------------------------
(* The slaves and the line: external, as select and poll expect them.      *)

Message(s) == <<Char("STX"), Tok("ADDR", s, acked[s] + 1),
                Tok("TEXT", s, acked[s] + 1), Char("ETX"),
                Tok("CRC", s, acked[s] + 1)>>

Hears(c) == down # <<>> /\ Is(Head(down), c) /\ down' = Tail(down)
Says(toks) == up' = up \o toks
Holds(s, st) == hold' = [s |-> s, st |-> st]

\* It has something to say: its next answer, until the master acknowledges it.
Talks(s) == acked[s] < MaxAnswers /\ Says(Message(s)) /\ Holds(s, "talking")

SlavePolled ==
  /\ Hears("POLL")
  /\ \/ Talks(Head(down).s)
     \/ \E c \in {"EOT", "ACK", "NAK"} : Says(<<Char(c)>>) /\ hold' = NoHold
  /\ UNCHANGED <<executed, acked>>

SlaveSelected ==
  /\ Hears("SELECT")
  /\ \/ Says(<<Char("ACK")>>) /\ Holds(Head(down).s, "selected")
     \/ \E c \in {"EOT", "NAK"} : Says(<<Char(c)>>) /\ hold' = NoHold
     \/ Talks(Head(down).s)
  /\ UNCHANGED <<executed, acked>>

SlaveCommanded ==
  /\ Hears("CMD") /\ hold = [s |-> Head(down).s, st |-> "selected"]
  /\ hold' = NoHold
  /\ \/ Says(<<Char("ACK")>>) /\ executed' = Append(executed, Head(down).n)
     \/ \E c \in {"EOT", "NAK"} : Says(<<Char(c)>>) /\ UNCHANGED executed
  /\ UNCHANGED acked

SlaveAcknowledged ==
  /\ Hears("ACK") /\ hold.st = "talking"
  /\ acked' = [acked EXCEPT ![hold.s] = @ + 1]
  /\ Says(<<Char("EOT")>>) /\ hold' = NoHold
  /\ UNCHANGED executed

SlaveDismissed == Hears("EOT") /\ hold' = NoHold /\ UNCHANGED <<up, executed, acked>>

\* It is not meant, is off, or the line has lost or damaged the token.
SlaveSilent == down # <<>> /\ down' = Tail(down) /\ UNCHANGED <<up, slave>>

Slave ==
  /\ \/ SlavePolled \/ SlaveSelected \/ SlaveCommanded \/ SlaveAcknowledged
     \/ SlaveDismissed \/ SlaveSilent
  /\ UNCHANGED <<master, faults, lates>>

\* What the line does to a token of the slaves.  What it does to one of the
\* master shows as a slave's silence, or as NAK to a command.
Line ==
  /\ Fault /\ up # <<>>
  /\ up' \in {Tail(up), [up EXCEPT ![1].ok = FALSE]}
  /\ UNCHANGED <<master, slave, down, lates>>
  /\ Bounded

Next == Begin \/ Proceed \/ Slave \/ Line

\* A read ends, with a byte or by its timeout; a slave deals with what it hears.
Fairness == WF_vars(Proceed) /\ WF_vars(Slave)
Spec == Init /\ [][Next]_vars /\ Fairness

----------------------------------------------------------------------------
(* Correctness.                                                            *)

Executions(i) == Cardinality({j \in 1..Len(executed) : executed[j] = i})
Selects(R) == {i \in 1..Len(log) : log[i].op = "select" /\ log[i].r \in R}

\* While no answer is later than its timeout, whatever the line loses or
\* damages: a select that returns the length of the command has had it carried
\* out exactly once, and one that returns busy, not understood, bad command or
\* write failed, after which the scheduler sends the command again, has not
\* and will not have (OcemProtocol.cpp:341-424).
CommandOutcome ==
  lates = 0 =>
    /\ \A i \in Selects({"chars"}) : Executions(i) = 1
    /\ \A i \in Selects({"SLAVE_BUSY", "SLAVE_CANNOT_UNDERSTAND_MESSAGE",
                         "BAD_SELECT_COMMAND", "WRITE_FAILED"}) :
         Executions(i) = 0

Unconfirmed(s) == {i \in 1..Len(log) :
  log[i] \in [op: {"poll"}, s: {s},
              r: {"NO_ACK_FROM_SLAVE", "EOT_MISSING_FROM_SLAVE"}]}

\* While no answer is late: between calls, every text poll has handed out is
\* one the slave counts as delivered, and the slave counts no other, save
\* those whose poll ended without the slave's confirmation
\* (OcemProtocol.cpp:83-95, 224-230): none is doubled, none lost silently.
AnswersAccounted ==
  pc = "idle" /\ lates = 0 =>
    \A s \in Slaves :
      /\ Len(taken[s]) <= acked[s]
      /\ acked[s] <= Len(taken[s]) + Cardinality(Unconfirmed(s))
      /\ \A i, j \in 1..Len(taken[s]) : i < j => taken[s][i][1].n < taken[s][j][1].n

\* A text handed out as slave s's is one that s sent, undamaged: on a sound
\* line even when answers come so late that they meet the poll of another
\* slave, and with one fault when none is late.  Two faults are too many: a
\* lost checksum is not noticed (OcemProtocol.cpp:192).
UndamagedText ==
  faults = 0 \/ (faults = 1 /\ lates = 0) =>
    \A s \in Slaves : \A i \in 1..Len(taken[s]) :
      \E n \in 1..MaxAnswers : taken[s][i] = <<Tok("TEXT", s, n)>>

\* Every call comes back, whatever the line loses, damages or delays and
\* whatever the slaves do (OcemProtocol.cpp:138-249, 304-424).
EveryCallEnds == pc # "idle" ~> pc = "idle"

\* OcemProtocol.h:90: poll returns "the number of characters read or negative
\* for error".  So a positive result comes with a text.  The code returns the
\* character NAK, 21, as it is (OcemProtocol.cpp:170, 243-247).
PollCountsCharacters ==
  [][ \A s \in Slaves :
        Len(log') > Len(log) /\ log'[Len(log')].op = "poll"
          /\ log'[Len(log')].s = s /\ Positive(log'[Len(log')].r)
        => Len(taken'[s]) > Len(taken[s]) ]_vars
====
