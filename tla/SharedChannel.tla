--------------------------- MODULE SharedChannel ---------------------------
(***************************************************************************)
(* OcemProtocol's init, deinit and destructor.  The ChannelFactory gives   *)
(* every protocol on one device the same PosixSerialComm, so a protocol    *)
(* deinits the channel only when use_count tells that no other has it: the *)
(* factory keeps one reference and each protocol one.  The factory is not  *)
(* in the repository; it is taken to construct the channel for the first   *)
(* protocol and to drop it with the last.                                  *)
(***************************************************************************)
EXTENDS ChannelLife

CONSTANTS
  Protocols,   \* the protocol objects
  Shared,      \* their channel
  Master       \* the task that creates, inits, deinits and deletes them

VARIABLES
  holders,     \* the protocols that exist
  ready,       \* those whose last init returned 0
  proto        \* the protocol Master is working for

sharing == <<holders, ready, proto>>

SomeProtocol == CHOOSE p \in Protocols : TRUE
SharingInit == holders = {} /\ ready = {} /\ proto = SomeProtocol

SharingTypeOK == ready \subseteq holders /\ holders \subseteq Protocols /\ proto \in Protocols

MasterIdle == pc[Master] = "idle"

NewProtocol(p) ==
  /\ MasterIdle /\ p \notin holders
  /\ holders' = holders \cup {p}
  /\ IF holders = {} THEN Construct(Shared) ELSE UNCHANGED channel
  /\ UNCHANGED <<task, ready, proto>>

InitProtocol(p) ==
  /\ MasterIdle /\ p \in holders
  /\ proto' = p
  /\ Enter(Master, "open", Shared, "init")
  /\ UNCHANGED <<channel, holders, ready>>

ProtocolInited ==
  /\ then[Master] = "init" /\ pc[Master] \in {"initOK", "initFailed"}
  /\ ready' = IF pc[Master] = "initOK" THEN ready \cup {proto} ELSE ready \ {proto}
  /\ Leave(Master) /\ proto' = SomeProtocol
  /\ UNCHANGED <<channel, holders>>

(* Mutant of LastUser: one more user is taken for none. *)
LastUserOfTwo == Cardinality(holders) + 1 <= 3

(* use_count() <= 2 *)
LastUser == Cardinality(holders) + 1 <= 2

(* OcemProtocol::deinit, called as such or by the destructor. *)
DeinitProtocol(p, caller) ==
  /\ MasterIdle /\ p \in holders
  /\ proto' = p
  /\ Enter(Master, IF LastUser THEN "close" ELSE "deinited", Shared, caller)
  /\ UNCHANGED <<channel, holders, ready>>

ProtocolDeinited ==
  /\ pc[Master] = "deinited" /\ then[Master] \in {"deinit", "destroy"}
  /\ ready' = ready \ {proto}
  /\ holders' = IF then[Master] = "destroy" THEN holders \ {proto} ELSE holders
  /\ IF holders' = {} THEN Destroy(Shared) ELSE UNCHANGED channel
  /\ Leave(Master) /\ proto' = SomeProtocol

SharingStep ==
  \/ \E p \in Protocols : NewProtocol(p) \/ InitProtocol(p)
  \/ \E p \in Protocols : DeinitProtocol(p, "deinit") \/ DeinitProtocol(p, "destroy")
  \/ ProtocolInited \/ ProtocolDeinited
=============================================================================
