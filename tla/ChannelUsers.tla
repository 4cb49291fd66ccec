--------------------------- MODULE ChannelUsers ----------------------------
(***************************************************************************)
(* PosixSerialComm under all its users: the C wrapper's handles, and the   *)
(* protocols that share a channel.                                         *)
(***************************************************************************)
EXTENDS HandleTable, SharedChannel

(* Tasks may open handles at the same time, but a handle is one task's.    *)
ASSUME UsersAssumption ==
  /\ Pool \subseteq Channels /\ Shared \in Channels \ Pool /\ Master \in Tasks
  /\ NoChannel \notin Channels /\ Handles # {}
  /\ Protocols # {} /\ IsFiniteSet(Protocols)
  /\ Opens \in [Tasks -> SUBSET Handles]
  /\ \A t, u \in Tasks : t # u => Opens[t] \cap Opens[u] = {}

vars == <<channel, task, table, sharing>>

TypeOK ==
  /\ ChannelTypeOK /\ TableTypeOK /\ SharingTypeOK
  /\ pc \in [Tasks -> {"idle", "io", "new", "open", "configure", "create", "initOK",
                       "initFailed", "close", "free", "wake", "join", "deinited", "forget"}]

Init == ChannelInit /\ TableInit /\ SharingInit

Next ==
  \/ \E t \in Tasks : (InitStep(t) \/ DeinitStep(t)) /\ UNCHANGED <<table, sharing>>
  \/ ServiceStep /\ UNCHANGED <<table, sharing>>
  \/ \E t \in Tasks : TableStep(t) /\ UNCHANGED sharing
  \/ SharingStep /\ UNCHANGED table

Spec == Init /\ [][Next]_vars

(* The kernel schedules the tasks in a call and the service threads.  The  *)
(* reading thread's select has a timeout; nothing is assumed of the writing*)
(* one's, which has none.                                                  *)
Fairness ==
  /\ \A t \in Tasks :
       WF_vars((InitStep(t) \/ DeinitStep(t)) /\ UNCHANGED <<table, sharing>>)
  /\ \A ch \in Channels, h \in Half :
       WF_vars(/\ ~(h = "write" /\ Stuck(ch))
               /\ ServiceLoops(ch, h) \/ ServiceSleeps(ch, h)
               /\ UNCHANGED <<table, sharing>>)

FairSpec == Spec /\ Fairness

-----------------------------------------------------------------------------
(* A handle nobody is opening or closing is free or names a channel of its *)
(* own that works: popen_serial returned no handle without one, whichever  *)
(* step of init failed, but for pthread_create.  That failure is not seen: *)
(* the handle is given out and lacks the thread, although by its header    *)
(* popen_serial returns a negative number then.  Only a handle that is     *)
(* being closed or reopened may name the same channel: it is deleted       *)
(* before the table is told, and another popen_serial may have got the     *)
(* memory meanwhile.                                                       *)
HandlesServed ==
  \A n \in Handles :
    (~Controlled(n) /\ id2handle[n] # NoChannel) =>
      /\ ServedBut(id2handle[n], Uncreated(id2handle[n])) /\ id2handle[n] \in alive
      /\ \A k \in Handles \ {n} : id2handle[k] = id2handle[n] => Controlled(k)

(* What the header says: a handle nobody is opening or closing has a       *)
(* channel that works, with every thread, as popen_serial gives one out on *)
(* success and a negative number otherwise.  False of the code, in which   *)
(* init takes a pthread_create that failed for one that succeeded; true of *)
(* it where "create" is no way for init to fail (ChannelUsersProofs).      *)
HandleMeansSuccess ==
  \A n \in Handles :
    (~Controlled(n) /\ id2handle[n] # NoChannel) => Served(id2handle[n])

(* A call on a handle that nobody opens or closes meanwhile works on a     *)
(* live channel from its look at the table to its return; that channel has *)
(* its rings, and the threads that could be created.                       *)
CallsSafe ==
  \A t \in Tasks : (pc[t] = "io" /\ t \notin raced) =>
    ServedBut(on[t], Uncreated(on[t])) /\ on[t] \in alive

(* An open device, or a running thread, belongs to a handle, to a channel  *)
(* somebody is opening or closing, or to a protocol: no path through init, *)
(* deinit and the wrapper loses one.                                       *)
NothingLeaks ==
  \A ch \in Channels : (fd[ch] \/ \E h \in Half : Live(ch, h)) =>
    \/ \E n \in Handles : id2handle[n] = ch
    \/ \E t \in Tasks : InControl(t) /\ on[t] = ch
    \/ ch = Shared /\ holders # {}

(* A protocol whose init returned 0 has a channel that works, whatever the *)
(* other protocols on it did since.  Two failures init does not tell of    *)
(* are excepted: a thread that could not be created is lacking, and after  *)
(* an init that failed and left the device open, init returns 0 at once.   *)
ReadyIsServed ==
  (ready # {} /\ ~(InControl(Master) /\ on[Master] = Shared) /\ Shared \notin leftOpen)
    => ServedBut(Shared, Uncreated(Shared))

(* deinit returns, unless a service thread went to sleep after the         *)
(* broadcast that was to wake it, or the writing one is in its select.     *)
CloseReturns ==
  \A t \in Tasks : Deiniting(t) ~> (~Deiniting(t) \/ on[t] \in missed \/ Stuck(on[t]))
=============================================================================
