---------------------------- MODULE HandleTable ----------------------------
(***************************************************************************)
(* The C wrapper: id2handle, indexed by the number in the device's name,   *)
(* and the calls that open, close and use what it holds.  Nothing here is  *)
(* locked.  The reads and writes a call makes are those of the rings; here *)
(* it matters which object it works on, and what happens to it meanwhile.  *)
(***************************************************************************)
EXTENDS ChannelLife

CONSTANTS
  Handles,     \* handle numbers
  Pool,        \* the channels popen_serial may create: memory, reused
  Opens,       \* per task: the handles it opens and closes
  NoChannel    \* 0 in id2handle

VARIABLES
  id2handle,   \* per handle: the channel
  alive,       \* the channels of Pool that are constructed
  handle,      \* per task: the number it was called with
  raced        \* tasks whose call overlaps an open or close of its handle

table == <<id2handle, alive, handle, raced>>

(* The handle number is forgotten with the other locals. *)
SomeHandle == CHOOSE n \in Handles : TRUE

TableInit ==
  /\ id2handle = [n \in Handles |-> NoChannel]
  /\ alive = {} /\ raced = {}
  /\ handle = [t \in Tasks |-> SomeHandle]

TableTypeOK ==
  /\ id2handle \in [Handles -> Pool \cup {NoChannel}]
  /\ alive \subseteq Pool /\ raced \subseteq Tasks
  /\ handle \in [Tasks -> Handles]

(* Some task is in popen_serial or pclose_serial of the handle. *)
FromTable(t)  == then[t] \in {"open", "reopen", "failed", "close", "delete"}
Controlled(n) == \E t \in Tasks : InControl(t) /\ FromTable(t) /\ handle[t] = n

(* The call returns. *)
Return(t) == Leave(t) /\ handle' = [handle EXCEPT ![t] = SomeHandle]

(* The calls on handle n that are under way are raced from now on. *)
Disturb(t, n) ==
  /\ handle' = [handle EXCEPT ![t] = n]
  /\ raced' = raced \cup {u \in Tasks : pc[u] = "io" /\ handle[u] = n}

(* popen_serial: what the handle had before is deleted first. *)
Popen(t, n) ==
  /\ pc[t] = "idle" /\ n \in Opens[t]
  /\ IF id2handle[n] # NoChannel
     THEN Enter(t, "close", id2handle[n], "reopen")
     ELSE Enter(t, "new", on[t], "open")
  /\ Disturb(t, n)
  /\ UNCHANGED <<channel, id2handle, alive>>

NewChannel(t) ==
  /\ pc[t] = "new"
  /\ \E ch \in Pool \ alive :
       /\ alive' = alive \cup {ch}
       /\ Construct(ch)
       /\ Enter(t, "open", ch, "open")
  /\ UNCHANGED <<id2handle, handle, raced>>

Opened(t) ==
  /\ pc[t] = "initOK" /\ then[t] = "open"
  /\ id2handle' = [id2handle EXCEPT ![handle[t]] = on[t]]
  /\ Return(t)
  /\ UNCHANGED <<channel, alive, raced>>

(* Mutant of OpenFailed: the channel is not deleted. *)
OpenFailedReturns(t) ==
  /\ pc[t] = "initFailed" /\ then[t] = "open"
  /\ Return(t)
  /\ UNCHANGED <<channel, id2handle, alive, raced>>

(* Mutant of OpenFailed: the handle is given out all the same. *)
OpenFailedKept(t) ==
  /\ pc[t] = "initFailed" /\ then[t] = "open"
  /\ id2handle' = [id2handle EXCEPT ![handle[t]] = on[t]]
  /\ Return(t)
  /\ UNCHANGED <<channel, alive, raced>>

(* The destructor calls deinit. *)
OpenFailed(t) ==
  /\ pc[t] = "initFailed" /\ then[t] = "open"
  /\ Enter(t, "close", on[t], "failed")
  /\ UNCHANGED <<channel, table>>

(* pclose_serial, of a handle that is open. *)
Pclose(t, n) ==
  /\ pc[t] = "idle" /\ n \in Opens[t] /\ id2handle[n] # NoChannel
  /\ Enter(t, "close", id2handle[n], "close")
  /\ Disturb(t, n)
  /\ UNCHANGED <<channel, id2handle, alive>>

(* After pclose_serial's deinit comes that of the destructor.              *)
Closed(t) ==
  /\ pc[t] = "deinited" /\ then[t] = "close"
  /\ Enter(t, "close", on[t], "delete")
  /\ UNCHANGED <<channel, table>>

Deleted(t) ==
  /\ pc[t] = "deinited" /\ then[t] \in {"reopen", "failed", "delete"}
  /\ alive' = alive \ {on[t]} /\ Destroy(on[t])
  /\ IF then[t] = "failed" THEN Return(t)
                           ELSE Goto(t, "forget") /\ UNCHANGED <<on, half, then, handle>>
  /\ UNCHANGED <<id2handle, raced>>

(* Mutant of Forget: pclose_serial leaves the handle as it is. *)
ForgetReopened(t) ==
  /\ pc[t] = "forget"
  /\ id2handle' = IF then[t] = "reopen" THEN [id2handle EXCEPT ![handle[t]] = NoChannel]
                                        ELSE id2handle
  /\ IF then[t] = "delete" THEN Return(t)
                           ELSE Goto(t, "new") /\ UNCHANGED <<on, half, then, handle>>
  /\ UNCHANGED <<channel, alive, raced>>

Forget(t) ==
  /\ pc[t] = "forget"
  /\ id2handle' = [id2handle EXCEPT ![handle[t]] = NoChannel]
  /\ IF then[t] = "delete" THEN Return(t)
                           ELSE Goto(t, "new") /\ UNCHANGED <<on, half, then, handle>>
  /\ UNCHANGED <<channel, alive, raced>>

(* A read, write, count or flush on an open handle: the table is looked up *)
(* once.                                                                   *)
Call(t, n) ==
  /\ pc[t] = "idle" /\ id2handle[n] # NoChannel
  /\ Enter(t, "io", id2handle[n], "call")
  /\ handle' = [handle EXCEPT ![t] = n]
  /\ raced' = IF Controlled(n) THEN raced \cup {t} ELSE raced
  /\ UNCHANGED <<channel, id2handle, alive>>

CallMoves(t) ==
  /\ pc[t] = "io"
  /\ \E h \in Half : Touch(on[t], h)
  /\ UNCHANGED <<task, table>>

CallReturns(t) ==
  /\ pc[t] = "io"
  /\ Return(t) /\ raced' = raced \ {t}
  /\ UNCHANGED <<channel, id2handle, alive>>

ControlStep(t) ==
  \/ NewChannel(t) \/ Opened(t) \/ OpenFailed(t)
  \/ Closed(t) \/ Deleted(t) \/ Forget(t)

TableStep(t) ==
  \/ \E n \in Handles : Popen(t, n) \/ Pclose(t, n) \/ Call(t, n)
  \/ ControlStep(t) \/ CallMoves(t) \/ CallReturns(t)
=============================================================================
