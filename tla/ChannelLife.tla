---------------------------- MODULE ChannelLife ----------------------------
(***************************************************************************)
(* The life of a PosixSerialComm: init opens the device, allocates the     *)
(* rings and creates the service threads (run_read, and run_write in the   *)
(* build with POSIX_WRITE_BUFFERING); deinit, also called by the           *)
(* destructor, takes it all down.  A task is a thread of the program that  *)
(* uses channels: a caller sends it into init or deinit by setting pc to   *)
(* "open" or "close" and goes on from "initOK", "initFailed" or            *)
(* "deinited"; then remembers on whose behalf.  The bytes are those of     *)
(* ReadBuffer and WriteBuffer: here a service thread just works, or finds  *)
(* its ring full (empty) and sleeps until a client signals.                *)
(***************************************************************************)
EXTENDS Integers, Sequences, FiniteSets

CONSTANTS
  Channels,    \* the PosixSerialComm objects
  Tasks,       \* the program's threads
  Halves,      \* <<"read">>, or with POSIX_WRITE_BUFFERING <<"write", "read">>
  Failures     \* the ways init may fail: "open", "param", "speed", "create"

ASSUME HalvesAssumption == Halves \in {<<"read">>, <<"write", "read">>}

VARIABLES
  fd,          \* per channel: the device is open
  ring,        \* per channel: the rings are allocated
  exit,        \* per channel: force_exit
  pid,         \* per channel and half: wpid, rpid are not 0
  service,     \* per channel and half: where its thread is
  leftOpen,    \* channels whose init failed with the device open
  missed,      \* channels with a thread that went to sleep after the broadcast
  pc, on, half, then   \* per task: its place, channel, half, and who called

channel == <<fd, ring, exit, pid, service, leftOpen, missed>>
task    == <<pc, on, half, then>>

Half == {Halves[i] : i \in DOMAIN Halves}

Construct(ch) ==
  /\ fd' = [fd EXCEPT ![ch] = FALSE] /\ ring' = [ring EXCEPT ![ch] = FALSE]
  /\ exit' = [exit EXCEPT ![ch] = FALSE]
  /\ pid' = [pid EXCEPT ![ch] = [h \in Half |-> FALSE]]
  /\ service' = [service EXCEPT ![ch] = [h \in Half |-> "none"]]
  /\ leftOpen' = leftOpen \ {ch} /\ missed' = missed \ {ch}

(* The memory of a channel goes back; a thread still in there stays.       *)
Destroy(ch) ==
  /\ exit' = [exit EXCEPT ![ch] = FALSE]
  /\ pid' = [pid EXCEPT ![ch] = [h \in Half |-> FALSE]]
  /\ service' = [service EXCEPT ![ch] = [h \in Half |->
                    IF @[h] \in {"failed", "done"} THEN "none" ELSE @[h]]]
  /\ leftOpen' = leftOpen \ {ch} /\ missed' = missed \ {ch}
  /\ UNCHANGED <<fd, ring>>

Goto(t, l) == pc' = [pc EXCEPT ![t] = l]

(* The task enters init or deinit of a channel, or a call on it. *)
Enter(t, l, ch, caller) ==
  /\ Goto(t, l)
  /\ on' = [on EXCEPT ![t] = ch] /\ then' = [then EXCEPT ![t] = caller]
  /\ UNCHANGED half

(* The locals of a call that is over are forgotten. *)
SomeChannel == CHOOSE ch \in Channels : TRUE
Leave(t) ==
  /\ Goto(t, "idle") /\ on' = [on EXCEPT ![t] = SomeChannel]
  /\ half' = [half EXCEPT ![t] = 1] /\ then' = [then EXCEPT ![t] = "none"]

ChannelInit ==
  /\ fd = [ch \in Channels |-> FALSE] /\ ring = [ch \in Channels |-> FALSE]
  /\ exit = [ch \in Channels |-> FALSE]
  /\ pid = [ch \in Channels |-> [h \in Half |-> FALSE]]
  /\ service = [ch \in Channels |-> [h \in Half |-> "none"]]
  /\ leftOpen = {} /\ missed = {}
  /\ pc = [t \in Tasks |-> "idle"]
  /\ on = [t \in Tasks |-> SomeChannel]
  /\ half = [t \in Tasks |-> 1] /\ then = [t \in Tasks |-> "none"]

-----------------------------------------------------------------------------
(* init. *)

(* init does nothing for a channel whose device is open. *)
OpenDevice(t) ==
  LET ch == on[t]
  IN  /\ pc[t] = "open"
      /\ \/ fd[ch] /\ Goto(t, "initOK") /\ UNCHANGED <<fd, pid>>
         \/ /\ ~fd[ch]
            /\ pid' = [pid EXCEPT ![ch] = [h \in Half |-> FALSE]]
            /\ \/ /\ "open" \in Failures
                  /\ Goto(t, "initFailed") /\ UNCHANGED fd
               \/ fd' = [fd EXCEPT ![ch] = TRUE] /\ Goto(t, "configure")
      /\ UNCHANGED <<ring, exit, service, leftOpen, missed, on, half, then>>

(* Every bad parameter closes the device again, but an unsupported speed   *)
(* (and a pty that cannot be granted) does not.                            *)
Configure(t) ==
  LET ch == on[t]
  IN  /\ pc[t] = "configure"
      /\ \/ /\ "param" \in Failures
            /\ fd' = [fd EXCEPT ![ch] = FALSE]
            /\ Goto(t, "initFailed") /\ UNCHANGED <<ring, exit, leftOpen, half>>
         \/ /\ "speed" \in Failures
            /\ leftOpen' = leftOpen \cup {ch}
            /\ Goto(t, "initFailed") /\ UNCHANGED <<fd, ring, exit, half>>
         \/ /\ exit' = [exit EXCEPT ![ch] = FALSE]
            /\ ring' = [ring EXCEPT ![ch] = TRUE]
            /\ half' = [half EXCEPT ![t] = 1]
            /\ Goto(t, "create") /\ UNCHANGED <<fd, leftOpen>>
      /\ UNCHANGED <<pid, service, missed, on, then>>

(* pthread_create reports failure with a positive number, and init tests   *)
(* for a negative one: it goes on, and what it finds in the pid is open.   *)
CreateThread(t) ==
  LET ch == on[t]
      h  == Halves[half[t]]
  IN  /\ pc[t] = "create"
      /\ \E made \in IF "create" \in Failures THEN BOOLEAN ELSE {TRUE} :
           /\ service' = [service EXCEPT ![ch][h] = IF made THEN "top" ELSE "failed"]
           /\ \E known \in BOOLEAN : /\ made => known
                                     /\ pid' = [pid EXCEPT ![ch][h] = known]
      /\ half' = [half EXCEPT ![t] = @ + 1]
      /\ Goto(t, IF half[t] < Len(Halves) THEN "create" ELSE "initOK")
      /\ UNCHANGED <<fd, ring, exit, leftOpen, missed, on, then>>

-----------------------------------------------------------------------------
(* deinit. *)

CloseDevice(t) ==
  /\ pc[t] = "close"
  /\ IF fd[on[t]]
     THEN /\ fd' = [fd EXCEPT ![on[t]] = FALSE]
          /\ leftOpen' = leftOpen \ {on[t]}
          /\ Goto(t, "free")
     ELSE Goto(t, "deinited") /\ UNCHANGED <<fd, leftOpen>>
  /\ UNCHANGED <<ring, exit, pid, service, missed, on, half, then>>

FreeRings(t) ==
  /\ pc[t] = "free"
  /\ ring' = [ring EXCEPT ![on[t]] = FALSE]
  /\ exit' = [exit EXCEPT ![on[t]] = TRUE]
  /\ half' = [half EXCEPT ![t] = 1] /\ Goto(t, "wake")
  /\ UNCHANGED <<fd, pid, service, leftOpen, missed, on, then>>

(* One thread is dealt with after the other. *)
NextHalf(t) ==
  /\ half' = [half EXCEPT ![t] = @ + 1]
  /\ Goto(t, IF half[t] < Len(Halves) THEN "wake" ELSE "deinited")

(* Mutant of WakeService: only the clients' condition is broadcast. *)
WakeServiceForgotten(t) ==
  LET ch == on[t]
      h  == Halves[half[t]]
  IN  /\ pc[t] = "wake"
      /\ \/ pid[ch][h] /\ Goto(t, "join") /\ UNCHANGED half
         \/ ~pid[ch][h] /\ NextHalf(t)
      /\ UNCHANGED <<channel, on, then>>

(* The broadcast does not take the mutex, so it reaches only a thread that *)
(* is asleep already, not one between its test and its wait.               *)
WakeService(t) ==
  LET ch == on[t]
      h  == Halves[half[t]]
  IN  /\ pc[t] = "wake"
      /\ \/ /\ pid[ch][h]
            /\ service' = [service EXCEPT ![ch][h] = IF @ = "asleep" THEN "woken" ELSE @]
            /\ Goto(t, "join") /\ UNCHANGED half
         \/ ~pid[ch][h] /\ NextHalf(t) /\ UNCHANGED service
      /\ UNCHANGED <<fd, ring, exit, pid, leftOpen, missed, on, then>>

JoinService(t) ==
  /\ pc[t] = "join" /\ service[on[t]][Halves[half[t]]] \in {"failed", "done"}
  /\ NextHalf(t)
  /\ UNCHANGED <<channel, on, then>>

-----------------------------------------------------------------------------
(* The service threads: the test of force_exit at the top of the loop, the *)
(* work, and a sleep when there is no room (nothing to send).              *)

ServiceLoops(ch, h) ==
  /\ \/ /\ service[ch][h] = "top"
        /\ service' = [service EXCEPT ![ch][h] = IF exit[ch] THEN "done" ELSE "working"]
     \/ /\ service[ch][h] = "working"
        /\ \E l \in {"top", "tested"} : service' = [service EXCEPT ![ch][h] = l]
     \/ /\ service[ch][h] = "woken"
        /\ service' = [service EXCEPT ![ch][h] = "top"]
  /\ UNCHANGED <<fd, ring, exit, pid, leftOpen, missed, task>>

(* Between the test and the wait the thread has the mutex. *)
ServiceSleeps(ch, h) ==
  LET joined == \E t \in Tasks : /\ pc[t] = "join" /\ on[t] = ch
                                 /\ Halves[half[t]] = h
  IN  /\ service[ch][h] = "tested"
      /\ service' = [service EXCEPT ![ch][h] = "asleep"]
      /\ missed' = IF joined THEN missed \cup {ch} ELSE missed
      /\ UNCHANGED <<fd, ring, exit, pid, leftOpen, task>>

(* A client moves bytes under the mutex and signals the thread. *)
Touch(ch, h) ==
  /\ service[ch][h] = "asleep"
  /\ service' = [service EXCEPT ![ch][h] = "woken"]
  /\ UNCHANGED <<fd, ring, exit, pid, leftOpen, missed>>

-----------------------------------------------------------------------------
InitStep(t)   == OpenDevice(t) \/ Configure(t) \/ CreateThread(t)
DeinitStep(t) == CloseDevice(t) \/ FreeRings(t) \/ WakeService(t) \/ JoinService(t)
ServiceStep   == \E ch \in Channels, h \in Half : ServiceLoops(ch, h) \/ ServiceSleeps(ch, h)

Live(ch, h)      == service[ch][h] \notin {"none", "failed", "done"}
Deiniting(t)     == pc[t] \in {"close", "free", "wake", "join"}
InControl(t)     == pc[t] \notin {"idle", "io"}

(* The halves of a channel whose thread pthread_create could not make,     *)
(* although init returned 0 and so did whoever called it.                  *)
Uncreated(ch) == {h \in Half : service[ch][h] = "failed"}

(* A channel that works: open, with rings, and a thread for each half; or  *)
(* for each half but those in lacking.                                     *)
ServedBut(ch, lacking) ==
  /\ fd[ch] /\ ring[ch] /\ ~exit[ch]
  /\ \A h \in Half \ lacking : Live(ch, h)

Served(ch) == ServedBut(ch, {})

(* The writing thread is in its select, which has no timeout: nothing ends *)
(* it if the tty takes no byte, or fd was closed meanwhile.                *)
Stuck(ch) == "write" \in Half /\ service[ch]["write"] = "working"

ChannelTypeOK ==
  /\ fd \in [Channels -> BOOLEAN] /\ ring \in [Channels -> BOOLEAN]
  /\ exit \in [Channels -> BOOLEAN]
  /\ pid \in [Channels -> [Half -> BOOLEAN]]
  /\ service \in [Channels -> [Half -> {"none", "failed", "top", "working", "tested",
                                        "asleep", "woken", "done"}]]
  /\ leftOpen \subseteq Channels /\ missed \subseteq Channels
  /\ on \in [Tasks -> Channels]
  /\ half \in [Tasks -> 1..(Len(Halves) + 1)]
=============================================================================
