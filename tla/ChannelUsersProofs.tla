------------------------- MODULE ChannelUsersProofs -------------------------
(***************************************************************************)
(* Proofs about ChannelUsers: the safety properties of its runs, for all   *)
(* numbers of channels, tasks, handles and protocols, with and without the *)
(* write ring, and whatever fails in init.                                 *)
(***************************************************************************)
EXTENDS ChannelUsers, FiniteSetTheorems, TLAPS

(* A task is in init, in deinit, or between them and its caller.           *)
InsideAt  == {"open", "configure", "create", "initOK", "initFailed",
              "close", "free", "wake", "join", "deinited"}
Inside(t) == pc[t] \in InsideAt

InitAt   == {"open", "configure", "create", "initOK", "initFailed"}
DeinitAt == {"close", "free", "wake", "join", "deinited"}
ForProtocol(t) == then[t] \in {"init", "deinit", "destroy"}

ThenTypeOK ==
  then \in [Tasks -> {"none", "open", "reopen", "failed", "close", "delete", "call",
                      "init", "deinit", "destroy"}]

(* Who called, and for which handle or protocol.                           *)
Place(t) ==
  /\ then[t] = "none" <=> pc[t] = "idle"
  /\ then[t] = "call" <=> pc[t] = "io"
  /\ pc[t] = "new" => then[t] \in {"open", "reopen"}
  /\ pc[t] = "forget" => then[t] \in {"reopen", "delete"}
  /\ pc[t] \in InitAt => then[t] \in {"open", "init"}
  /\ pc[t] \in DeinitAt => then[t] \in {"reopen", "failed", "close", "delete", "deinit", "destroy"}
  /\ ForProtocol(t) => t = Master /\ on[t] = Shared /\ proto \in holders
  /\ FromTable(t) => handle[t] \in Opens[t]
  /\ FromTable(t) /\ Inside(t) => on[t] \in alive
  /\ pc[t] \in {"create", "wake", "join"} => half[t] \in 1..Len(Halves)

Places == ThenTypeOK /\ \A t \in Tasks : Place(t)

(* No two tasks are in init or deinit of one channel.                      *)
Alone == \A t, u \in Tasks : Inside(t) /\ Inside(u) /\ on[t] = on[u] => t = u

(* The channel of a handle has been deleted, but the table still has it.   *)
Dangling(n)  == \E t \in Tasks : pc[t] = "forget" /\ handle[t] = n
Names(n, ch) == id2handle[n] = ch /\ ~Dangling(n)

(* The table and the tasks that are changing it.                           *)
Emptied == \A t \in Tasks :
  /\ FromTable(t) /\ (pc[t] = "new" \/ (Inside(t) /\ then[t] \in {"open", "failed"})) =>
       id2handle[handle[t]] = NoChannel
  /\ Inside(t) /\ then[t] \in {"reopen", "close", "delete"} => id2handle[handle[t]] = on[t]

NamedOK(n, ch) ==
  /\ ch \in alive
  /\ \A k \in Handles \ {n} : ~Names(k, ch)
  /\ \A t \in Tasks : Inside(t) /\ on[t] = ch => handle[t] = n /\ FromTable(t)
  /\ Controlled(n) \/ (fd[ch] /\ ch \notin leftOpen)
Named == \A n \in Handles, ch \in Pool : Names(n, ch) => NamedOK(n, ch)

(* A call that nobody disturbs has looked up what the table still says.    *)
Undisturbed == \A t \in Tasks : pc[t] = "io" /\ t \notin raced =>
  ~Controlled(handle[t]) /\ id2handle[handle[t]] = on[t] /\ on[t] \in Pool

(* The halves a task in init or deinit has not come to yet, or is at.      *)
RestFrom(i) == {Halves[j] : j \in {k \in DOMAIN Halves : k >= i}}
Rest(t)     == RestFrom(half[t])

Bare(ch)    == \A h \in Half : ~Live(ch, h)
Running(ch) == ring[ch] /\ ~exit[ch] /\ \A h \in Half : Live(ch, h) \/ service[ch][h] = "failed"
Taking(t, ch, h) ==
  on[t] = ch /\ (pc[t] = "free" \/ (pc[t] \in {"wake", "join"} /\ h \in Rest(t)))

(* A thread that runs is known, and its device is open or somebody is in   *)
(* deinit to join it; an open device is used, left over or being set up.   *)
ThreadsOK(ch) ==
  /\ \A h \in Half : Live(ch, h) =>
       pid[ch][h] /\ (fd[ch] \/ \E t \in Tasks : Taking(t, ch, h))
  /\ fd[ch] => \/ Running(ch) \/ ch \in leftOpen
               \/ \E t \in Tasks : on[t] = ch /\ pc[t] \in {"configure", "create"}
  /\ ch \in leftOpen => fd[ch] /\ Bare(ch)
Threads == \A ch \in Channels : ThreadsOK(ch)

(* What a task in init or deinit finds in its channel.                     *)
PhaseOK(t) ==
  /\ pc[t] = "open" /\ then[t] = "open" => ~fd[on[t]]
  /\ pc[t] = "configure" => fd[on[t]] /\ Bare(on[t]) /\ on[t] \notin leftOpen
  /\ pc[t] = "create" =>
       /\ fd[on[t]] /\ ring[on[t]] /\ ~exit[on[t]] /\ on[t] \notin leftOpen
       /\ \A h \in Half : IF h \in Rest(t) THEN ~Live(on[t], h)
                          ELSE Live(on[t], h) \/ service[on[t]][h] = "failed"
  /\ pc[t] = "initOK" => fd[on[t]] /\ (then[t] = "open" => on[t] \notin leftOpen)
  /\ pc[t] \in {"free", "wake", "join"} => ~fd[on[t]]
  /\ pc[t] = "deinited" => ~fd[on[t]] \/ (ForProtocol(t) /\ holders # {proto})
Phases == \A t \in Tasks : PhaseOK(t)

Owned == \A ch \in Channels : fd[ch] \/ ~Bare(ch) =>
  \/ \E n \in Handles : Names(n, ch)
  \/ \E t \in Tasks : Inside(t) /\ on[t] = ch
  \/ ch = Shared /\ holders # {}

(* The protocols: only the last one's deinit reaches the channel.          *)
Readiness ==
  /\ ready # {} => fd[Shared] \/ (then[Master] \in {"deinit", "destroy"} /\ holders = {proto})
  /\ then[Master] = "init" /\ pc[Master] \in {"configure", "create", "initFailed"} => ready = {}
  /\ then[Master] \in {"deinit", "destroy"} /\ pc[Master] \in DeinitAt \ {"deinited"} =>
       holders = {proto}

(* The inductive invariant. *)
UsersInv ==
  /\ TypeOK /\ Places /\ Alone
  /\ Emptied /\ Named /\ Undisturbed
  /\ Threads /\ Phases /\ Owned /\ Readiness

-----------------------------------------------------------------------------
(* The members chosen for locals that are forgotten exist. *)
LEMMA SomeMembers == SomeHandle \in Handles /\ SomeProtocol \in Protocols /\ SomeChannel \in Channels
BY UsersAssumption DEF SomeHandle, SomeProtocol, SomeChannel

(* The halves are dealt with one after the other. *)
LEMMA RestOfHalves ==
  /\ Len(Halves) \in {1, 2} /\ RestFrom(1) = Half /\ RestFrom(Len(Halves) + 1) = {}
  /\ \A i \in 1..Len(Halves) : /\ Halves[i] \in Half /\ Halves[i] \in RestFrom(i)
                               /\ RestFrom(i + 1) = RestFrom(i) \ {Halves[i]}
<1>1. CASE Halves = <<"read">>
  <2>1. DOMAIN Halves = {1} /\ Len(Halves) = 1 /\ Halves[1] = "read"
    BY <1>1
  <2> QED
    BY <2>1 DEF RestFrom, Half
<1>2. CASE Halves = <<"write", "read">>
  <2>1. DOMAIN Halves = {1, 2} /\ Len(Halves) = 2 /\ Halves[1] = "write" /\ Halves[2] = "read"
    BY <1>2
  <2>2. RestFrom(1) = {"write", "read"} /\ RestFrom(2) = {"read"} /\ RestFrom(3) = {}
        /\ Half = {"write", "read"}
    BY <2>1 DEF RestFrom, Half
  <2> QED
    BY <2>1, <2>2
<1> QED
  BY <1>1, <1>2, HalvesAssumption

(* The invariant holds at the start: no channel is open, no task in a      *)
(* call.                                                                   *)
LEMMA InitUsers == Init => UsersInv
<1> SUFFICES ASSUME Init PROVE UsersInv
  OBVIOUS
<1> USE DEF Init, ChannelInit, TableInit, SharingInit
<1>1. \A t \in Tasks : pc[t] = "idle" /\ then[t] = "none" /\ half[t] = 1
  OBVIOUS
<1>2. \A ch \in Channels : ~fd[ch] /\ Bare(ch)
  BY DEF Bare, Live
<1>3. TypeOK
  <2>1. ChannelTypeOK
    BY SomeMembers, RestOfHalves DEF ChannelTypeOK
  <2>2. TableTypeOK /\ SharingTypeOK
    BY SomeMembers DEF TableTypeOK, SharingTypeOK
  <2> QED
    BY <2>1, <2>2 DEF TypeOK
<1>4. Places
  BY <1>1 DEF Places, ThenTypeOK, Place, FromTable, ForProtocol, InitAt, DeinitAt, Inside, InsideAt
<1>5. \A n \in Handles, ch \in Pool : ~Names(n, ch)
  BY UsersAssumption DEF Names
<1>6. Alone /\ Emptied /\ Named /\ Undisturbed
  BY <1>1, <1>5 DEF Alone, Inside, InsideAt, Emptied, FromTable, Named, Undisturbed
<1>7. Threads /\ Owned
  BY <1>2 DEF Threads, ThreadsOK, Bare, Owned
<1>8. Phases
  BY <1>1 DEF Phases, PhaseOK
<1>9. Readiness
  BY <1>1, UsersAssumption DEF Readiness
<1> QED
  BY <1>3, <1>4, <1>6, <1>7, <1>8, <1>9 DEF UsersInv

-----------------------------------------------------------------------------
(* Who is inside a channel. *)

(* No two tasks open or close one handle. *)
LEMMA HandlesApart ==
  ASSUME Places, NEW t \in Tasks, NEW u \in Tasks,
         FromTable(t), FromTable(u), handle[t] = handle[u]
  PROVE  t = u
BY UsersAssumption DEF Places, Place

(* A task inside works for a handle, on a channel that is alive, or for a  *)
(* protocol, on Shared.                                                    *)
LEMMA InsideFor ==
  ASSUME TypeOK, Places, NEW t \in Tasks, Inside(t)
  PROVE  \/ FromTable(t) /\ ~ForProtocol(t) /\ on[t] \in alive /\ on[t] # Shared
         \/ ForProtocol(t) /\ ~FromTable(t) /\ t = Master /\ on[t] = Shared
<1>1. pc[t] \in InitAt \/ pc[t] \in DeinitAt
  BY DEF Inside, InsideAt, InitAt, DeinitAt
<1>2. FromTable(t) \/ ForProtocol(t)
  BY <1>1 DEF Places, Place, FromTable, ForProtocol
<1>3. ~(FromTable(t) /\ ForProtocol(t))
  BY DEF FromTable, ForProtocol
<1>4. FromTable(t) => on[t] \in alive /\ on[t] # Shared
  BY UsersAssumption DEF Places, Place, TypeOK, TableTypeOK
<1>5. ForProtocol(t) => t = Master /\ on[t] = Shared
  BY DEF Places, Place
<1> QED
  BY <1>2, <1>3, <1>4, <1>5

(* Somebody is about to clear a dangling handle. *)
LEMMA DanglingControlled ==
  ASSUME Places, NEW n \in Handles, Dangling(n)
  PROVE  Controlled(n)
BY DEF Dangling, Controlled, Places, Place, InControl, FromTable

-----------------------------------------------------------------------------
(* Steps of init and deinit: the task stays inside, and only its channel   *)
(* changes.                                                                *)

SameChannel(ch) ==
  /\ fd'[ch] = fd[ch] /\ ring'[ch] = ring[ch] /\ exit'[ch] = exit[ch]
  /\ pid'[ch] = pid[ch] /\ service'[ch] = service[ch]
  /\ ch \in leftOpen' <=> ch \in leftOpen

PhaseStep(t, l) ==
  /\ pc' = [pc EXCEPT ![t] = l]
  /\ UNCHANGED <<on, then, table, sharing>>
  /\ \A u \in Tasks \ {t} : half'[u] = half[u]
  /\ \A ch \in Channels \ {on[t]} : SameChannel(ch)

(* What a task finds stays true while its channel and its own place stay. *)
LEMMA SamePhase ==
  ASSUME NEW u \in Tasks, on[u] \in Channels, PhaseOK(u), SameChannel(on[u]),
         pc'[u] = pc[u], on'[u] = on[u], then'[u] = then[u], half'[u] = half[u],
         ForProtocol(u) => UNCHANGED <<holders, proto>>
  PROVE  PhaseOK(u)'
<1>1. Rest(u)' = Rest(u) /\ ForProtocol(u)' = ForProtocol(u)
  BY DEF Rest, RestFrom, ForProtocol
<1>2. \A h \in Half : Live(on[u], h)' <=> Live(on[u], h)
  BY DEF Live, SameChannel
<1>3. Bare(on[u])' <=> Bare(on[u])
  BY <1>2 DEF Bare
<1> QED
  BY <1>1, <1>2, <1>3 DEF PhaseOK, SameChannel

(* The invariant holds after a step inside if it holds of the channel and  *)
(* the task.                                                               *)
LEMMA PhaseKeeps ==
  ASSUME UsersInv, NEW t \in Tasks, NEW l \in InsideAt, NEW ch \in Channels, on[t] = ch,
         Inside(t), PhaseStep(t, l),
         pc[t] \notin {"initOK", "initFailed", "deinited"},
         pc[t] \in InitAt <=> l \in InitAt,
         ChannelTypeOK', l \in {"create", "wake", "join"} => half'[t] \in 1..Len(Halves),
         ThreadsOK(ch)', PhaseOK(t)',
         ForProtocol(t) /\ ready # {} =>
           /\ fd'[Shared] \/ (then[t] # "init" /\ holders = {proto})
           /\ then[t] = "init" => l \notin {"configure", "create", "initFailed"}
  PROVE  UsersInv'
<1>0. /\ TypeOK /\ Places /\ Alone /\ Emptied /\ Named /\ Undisturbed /\ Threads /\ Phases
      /\ Owned /\ Readiness
  BY DEF UsersInv
<1>1. /\ pc'[t] = l /\ \A u \in Tasks \ {t} : pc'[u] = pc[u] /\ half'[u] = half[u]
      /\ on' = on /\ then' = then /\ handle' = handle /\ id2handle' = id2handle /\ alive' = alive
      /\ raced' = raced /\ holders' = holders /\ ready' = ready /\ proto' = proto
  BY <1>0 DEF PhaseStep, TypeOK, table, sharing
<1>2. \A u \in Tasks : /\ Inside(u)' <=> Inside(u)
                       /\ InControl(u)' <=> InControl(u)
                       /\ FromTable(u)' <=> FromTable(u)
                       /\ ForProtocol(u)' <=> ForProtocol(u)
                       /\ pc'[u] = "forget" <=> pc[u] = "forget"
                       /\ pc'[u] = "new" <=> pc[u] = "new"
                       /\ pc'[u] = "io" <=> pc[u] = "io"
  BY <1>1 DEF Inside, InControl, FromTable, ForProtocol, InsideAt
<1>3. \A n \in Handles : /\ Controlled(n)' <=> Controlled(n)
                         /\ Dangling(n)' <=> Dangling(n)
                         /\ \A c \in Channels : Names(n, c)' <=> Names(n, c)
  BY <1>1, <1>2 DEF Controlled, Dangling, Names
<1>4. TypeOK'
  BY <1>0, <1>1 DEF TypeOK, TableTypeOK, SharingTypeOK, InsideAt, PhaseStep
<1>5. Places'
  <2>1. Place(t)'
    <3>1. Place(t) /\ FromTable(t)' = FromTable(t) /\ ForProtocol(t)' = ForProtocol(t)
      BY <1>0, <1>1 DEF Places, FromTable, ForProtocol
    <3>2. pc[t] \in InitAt \/ pc[t] \in DeinitAt
      BY DEF Inside, InsideAt, InitAt, DeinitAt
    <3>3. (l \in InitAt /\ pc[t] \in InitAt) \/ (l \in DeinitAt /\ pc[t] \in DeinitAt)
      BY <3>2 DEF InsideAt, InitAt, DeinitAt
    <3> QED
      BY <1>1, <3>1, <3>3 DEF Place, Inside, InsideAt, InitAt, DeinitAt
  <2>2. \A u \in Tasks \ {t} : Place(u)'
    BY <1>0, <1>1 DEF Places, Place, FromTable, ForProtocol, Inside
  <2> QED
    BY <1>0, <1>1, <2>1, <2>2 DEF Places, ThenTypeOK
<1>6. Alone'
  BY <1>0, <1>1, <1>2 DEF Alone
<1>7. Emptied'
  BY <1>0, <1>1, <1>2 DEF Emptied
<1>8. Named'
  <2> SUFFICES ASSUME NEW n \in Handles, NEW c \in Pool, Names(n, c)' PROVE NamedOK(n, c)'
    BY DEF Named
  <2>1. NamedOK(n, c) /\ c \in Channels
    BY <1>0, <1>3, UsersAssumption DEF Named
  <2>2. Controlled(n) \/ (c # ch /\ fd[c] /\ c \notin leftOpen)
    BY <1>0, <2>1 DEF NamedOK, Controlled, InControl, Inside, InsideAt
  <2>3. Controlled(n) \/ (fd'[c] /\ c \notin leftOpen')
    BY <2>1, <2>2 DEF PhaseStep, SameChannel
  <2> QED
    BY <1>1, <1>2, <1>3, <2>1, <2>3 DEF NamedOK
<1>9. Undisturbed'
  BY <1>0, <1>1, <1>2, <1>3 DEF Undisturbed, TypeOK, TableTypeOK
<1>10. Threads'
  <2> SUFFICES ASSUME NEW c \in Channels, c # ch PROVE ThreadsOK(c)'
    BY DEF Threads
  <2>1. ThreadsOK(c) /\ SameChannel(c)
    BY <1>0 DEF Threads, PhaseStep
  <2>2. \A u \in Tasks, h \in Half : Taking(u, c, h) => Taking(u, c, h)'
    BY <1>1 DEF Taking, Rest, RestFrom
  <2>3. \A u \in Tasks : on[u] = c /\ pc[u] \in {"configure", "create"} =>
                           on'[u] = c /\ pc'[u] \in {"configure", "create"}
    BY <1>1
  <2>4. \A h \in Half : /\ Live(c, h)' <=> Live(c, h)
                        /\ service'[c][h] = service[c][h] /\ pid'[c][h] = pid[c][h]
    BY <2>1 DEF SameChannel, Live
  <2>5. (Bare(c)' <=> Bare(c)) /\ (Running(c)' <=> Running(c))
    BY <2>1, <2>4 DEF Bare, Running, SameChannel
  <2> QED
    BY <2>1, <2>2, <2>3, <2>4, <2>5 DEF ThreadsOK, SameChannel
<1>11. Phases'
  <2> SUFFICES ASSUME NEW u \in Tasks, u # t PROVE PhaseOK(u)'
    BY DEF Phases
  <2>1. CASE on[u] # ch
    <3>1. on[u] \in Channels /\ PhaseOK(u)
      BY <1>0 DEF TypeOK, ChannelTypeOK, Phases
    <3>2. SameChannel(on[u])
      BY <2>1, <3>1 DEF PhaseStep
    <3> QED
      BY <1>1, <3>1, <3>2, SamePhase
  <2>2. CASE on[u] = ch
    <3>1. ~Inside(u)
      BY <1>0, <2>2 DEF Alone
    <3> QED
      BY <1>1, <3>1 DEF PhaseOK, Inside, InsideAt
  <2> QED
    BY <2>1, <2>2
<1>12. Owned'
  <2> SUFFICES ASSUME NEW c \in Channels, (fd[c] \/ ~Bare(c))'
               PROVE  (\/ \E n \in Handles : Names(n, c)
                       \/ \E u \in Tasks : Inside(u) /\ on[u] = c
                       \/ c = Shared /\ holders # {})'
    BY DEF Owned
  <2>1. CASE c = ch
    BY <1>1, <1>2, <2>1
  <2>2. CASE c # ch
    <3>1. SameChannel(c)
      BY <2>2 DEF PhaseStep
    <3>2. fd[c] \/ ~Bare(c)
      BY <3>1 DEF SameChannel, Bare, Live
    <3> QED
      BY <1>0, <1>1, <1>2, <1>3, <3>2 DEF Owned
  <2> QED
    BY <2>1, <2>2
<1>13. Readiness'
  <2>1. CASE ForProtocol(t)
    <3>1. t = Master
      BY <1>0, <2>1 DEF Places, Place
    <3>2. pc[t] \in DeinitAt \/ l \in InitAt
      BY DEF Inside, InsideAt, InitAt, DeinitAt
    <3> QED
      BY <1>0, <1>1, <2>1, <3>1, <3>2 DEF Readiness, ForProtocol, DeinitAt, InitAt
  <2>2. CASE ~ForProtocol(t)
    <3>1. on[t] # Shared
      BY <1>0, <2>2, InsideFor
    <3>2. fd'[Shared] = fd[Shared]
      BY <3>1, UsersAssumption DEF PhaseStep, SameChannel
    <3>3. t # Master \/ then[Master] \notin {"init", "deinit", "destroy"}
      BY <2>2 DEF ForProtocol
    <3> QED
      BY <1>0, <1>1, <3>2, <3>3, UsersAssumption DEF Readiness
  <2> QED
    BY <2>1, <2>2
<1> QED
  BY <1>4, <1>5, <1>6, <1>7, <1>8, <1>9, <1>10, <1>11, <1>12, <1>13 DEF UsersInv

(* What the invariant says to the one task inside a channel, and what it   *)
(* has to keep.                                                            *)
LEMMA OwnChannel ==
  ASSUME UsersInv, NEW t \in Tasks, NEW ch \in Channels, on[t] = ch, Inside(t)
  PROVE  /\ \A h \in Half : Live(ch, h) => pid[ch][h] /\ (fd[ch] \/ Taking(t, ch, h))
         /\ fd[ch] => Running(ch) \/ ch \in leftOpen \/ pc[t] \in {"configure", "create"}
         /\ ch \in leftOpen => fd[ch] /\ Bare(ch)
         /\ PhaseOK(t)
<1>1. ThreadsOK(ch) /\ PhaseOK(t) /\ Alone
  BY DEF UsersInv, Threads, Phases
<1>2. \A u \in Tasks : Inside(u) /\ on[u] = ch => u = t
  BY <1>1 DEF Alone
<1>3. \A u \in Tasks, h \in Half : Taking(u, ch, h) => u = t
  BY <1>2 DEF Taking, Inside, InsideAt
<1>4. \A u \in Tasks : on[u] = ch /\ pc[u] \in {"configure", "create"} => u = t
  BY <1>2 DEF Inside, InsideAt
<1> QED
  BY <1>1, <1>3, <1>4 DEF ThreadsOK

(* What holds while a protocol is ready and Master is inside for one. *)
LEMMA ForProtocolReady ==
  ASSUME UsersInv, NEW t \in Tasks, Inside(t), ForProtocol(t), ready # {}
  PROVE  /\ fd[Shared] \/ (then[t] # "init" /\ holders = {proto})
         /\ then[t] = "init" => pc[t] \notin {"configure", "create", "initFailed"} /\ fd[Shared]
BY DEF UsersInv, Readiness, Places, Place, ForProtocol

(* init opens the device, finds it open, or fails to. *)
LEMMA OpenDeviceKeeps ==
  ASSUME UsersInv, NEW t \in Tasks, OpenDevice(t), UNCHANGED <<table, sharing>>
  PROVE  UsersInv'
<1> DEFINE ch == on[t]
<1>0. TypeOK /\ ChannelTypeOK /\ ch \in Channels
  BY DEF UsersInv, TypeOK, ChannelTypeOK
<1>1. /\ Inside(t) /\ pc[t] = "open"
      /\ UNCHANGED <<ring, exit, service, leftOpen, on, half, then, table, sharing>>
  BY DEF OpenDevice, Inside, InsideAt
<1>2. ForProtocol(t) => ch = Shared
  BY <1>0, <1>1, InsideFor DEF UsersInv
<1>3. /\ \A h \in Half : Live(ch, h) => pid[ch][h] /\ fd[ch]
      /\ fd[ch] => Running(ch) \/ ch \in leftOpen
      /\ ch \in leftOpen => fd[ch] /\ Bare(ch)
      /\ then[t] = "open" => ~fd[ch]
  BY <1>0, <1>1, OwnChannel DEF Taking, PhaseOK
<1>4. ForProtocol(t) /\ ready # {} => fd[Shared] \/ (then[t] # "init" /\ holders = {proto})
  BY <1>1, ForProtocolReady
<1>5. then[t] \in {"open", "init"}
  BY <1>1 DEF UsersInv, Places, Place, InitAt
<1>6. CASE fd[ch] /\ pc' = [pc EXCEPT ![t] = "initOK"] /\ UNCHANGED <<fd, pid>>
  <2>1. PhaseStep(t, "initOK") /\ pc'[t] = "initOK"
    BY <1>0, <1>1, <1>6 DEF PhaseStep, SameChannel, TypeOK
  <2>2. ChannelTypeOK'
    BY <1>0, <1>1, <1>6 DEF OpenDevice, ChannelTypeOK
  <2>3. ThreadsOK(ch)'
    BY <1>1, <1>3, <1>6 DEF ThreadsOK, Running, Bare, Live
  <2>4. PhaseOK(t)'
    BY <1>1, <1>3, <1>6, <2>1 DEF PhaseOK
  <2> QED
    BY <1>0, <1>1, <1>2, <1>6, <2>1, <2>2, <2>3, <2>4, PhaseKeeps DEF InitAt, InsideAt
<1>7. ASSUME NEW l \in {"initFailed", "configure"}, NEW open \in BOOLEAN,
             ~fd[ch], pid' = [pid EXCEPT ![ch] = [h \in Half |-> FALSE]],
             pc' = [pc EXCEPT ![t] = l], fd' = [fd EXCEPT ![ch] = open],
             open = (l = "configure")
      PROVE  UsersInv'
  <2>1. PhaseStep(t, l) /\ pc'[t] = l
    BY <1>0, <1>1, <1>7 DEF PhaseStep, SameChannel, TypeOK, ChannelTypeOK
  <2>2. ChannelTypeOK'
    BY <1>0, <1>1, <1>7 DEF OpenDevice, ChannelTypeOK
  <2>3. Bare(ch)' /\ ch \notin leftOpen' /\ fd'[ch] = (l = "configure")
    BY <1>0, <1>1, <1>3, <1>7 DEF Bare, Live, ChannelTypeOK
  <2>4. ThreadsOK(ch)'
    BY <1>1, <2>1, <2>3 DEF ThreadsOK, Bare
  <2>5. PhaseOK(t)'
    BY <1>1, <2>1, <2>3 DEF PhaseOK
  <2>6. ~(ForProtocol(t) /\ ready # {})
    BY <1>2, <1>4, <1>5, <1>7 DEF ForProtocol
  <2> QED
    BY <1>0, <1>1, <2>1, <2>2, <2>4, <2>5, <2>6, PhaseKeeps DEF InitAt, InsideAt
<1>8. \/ fd[ch] /\ pc' = [pc EXCEPT ![t] = "initOK"] /\ UNCHANGED <<fd, pid>>
      \/ /\ ~fd[ch] /\ pid' = [pid EXCEPT ![ch] = [h \in Half |-> FALSE]]
         /\ \/ pc' = [pc EXCEPT ![t] = "initFailed"] /\ fd' = [fd EXCEPT ![ch] = FALSE]
            \/ pc' = [pc EXCEPT ![t] = "configure"] /\ fd' = [fd EXCEPT ![ch] = TRUE]
  BY <1>0 DEF OpenDevice, Goto, ChannelTypeOK
<1> QED
  BY <1>6, <1>7, <1>8

(* init sets the parameters and the rings, or fails. *)
LEMMA ConfigureKeeps ==
  ASSUME UsersInv, NEW t \in Tasks, Configure(t), UNCHANGED <<table, sharing>>
  PROVE  UsersInv'
<1> DEFINE ch == on[t]
<1>0. TypeOK /\ ChannelTypeOK /\ ch \in Channels
  BY DEF UsersInv, TypeOK, ChannelTypeOK
<1>1. /\ Inside(t) /\ pc[t] = "configure"
      /\ UNCHANGED <<pid, service, on, then, table, sharing>>
  BY DEF Configure, Inside, InsideAt
<1>2. Bare(ch) /\ fd[ch] /\ ch \notin leftOpen
  BY <1>0, <1>1, OwnChannel DEF PhaseOK
<1>3. then[t] \in {"open", "init"} /\ ~(ForProtocol(t) /\ ready # {})
  BY <1>1, ForProtocolReady DEF UsersInv, Places, Place, InitAt, ForProtocol
<1>4. Bare(ch)'
  BY <1>1, <1>2 DEF Bare, Live
<1>5. CASE /\ pc' = [pc EXCEPT ![t] = "initFailed"] /\ fd' = [fd EXCEPT ![ch] = FALSE]
           /\ UNCHANGED <<ring, exit, leftOpen, half>>
  <2>1. PhaseStep(t, "initFailed") /\ pc'[t] = "initFailed" /\ fd'[ch] = FALSE
    BY <1>0, <1>1, <1>5 DEF PhaseStep, SameChannel, TypeOK, ChannelTypeOK
  <2>2. ChannelTypeOK'
    BY <1>0, <1>1, <1>5 DEF ChannelTypeOK, Configure
  <2>3. ThreadsOK(ch)'
    BY <1>1, <1>2, <1>4, <1>5, <2>1 DEF ThreadsOK, Bare
  <2>4. PhaseOK(t)'
    BY <2>1 DEF PhaseOK
  <2> QED
    BY <1>0, <1>1, <1>3, <2>1, <2>2, <2>3, <2>4, PhaseKeeps DEF InitAt, InsideAt
<1>6. CASE /\ pc' = [pc EXCEPT ![t] = "initFailed"] /\ leftOpen' = leftOpen \cup {ch}
           /\ UNCHANGED <<fd, ring, exit, half>>
  <2>1. PhaseStep(t, "initFailed") /\ pc'[t] = "initFailed"
    BY <1>0, <1>1, <1>6 DEF PhaseStep, SameChannel, TypeOK, ChannelTypeOK
  <2>2. ChannelTypeOK'
    BY <1>0, <1>1, <1>6 DEF ChannelTypeOK, Configure
  <2>3. ThreadsOK(ch)'
    BY <1>1, <1>2, <1>4, <1>6, <2>1 DEF ThreadsOK, Bare
  <2>4. PhaseOK(t)'
    BY <2>1 DEF PhaseOK
  <2> QED
    BY <1>0, <1>1, <1>3, <2>1, <2>2, <2>3, <2>4, PhaseKeeps DEF InitAt, InsideAt
<1>7. CASE /\ pc' = [pc EXCEPT ![t] = "create"] /\ exit' = [exit EXCEPT ![ch] = FALSE]
           /\ ring' = [ring EXCEPT ![ch] = TRUE] /\ half' = [half EXCEPT ![t] = 1]
           /\ UNCHANGED <<fd, leftOpen>>
  <2>1. PhaseStep(t, "create") /\ pc'[t] = "create" /\ half'[t] = 1
    BY <1>0, <1>1, <1>7 DEF PhaseStep, SameChannel, TypeOK, ChannelTypeOK
  <2>2. ChannelTypeOK'
    BY <1>0, <1>1, <1>7, RestOfHalves DEF ChannelTypeOK, Configure
  <2>3. ThreadsOK(ch)'
    BY <1>1, <1>2, <1>4, <1>7, <2>1 DEF ThreadsOK, Bare
  <2>4. Rest(t)' = Half
    BY <2>1, RestOfHalves DEF Rest, RestFrom
  <2>5. ring'[ch] /\ ~exit'[ch]
    BY <1>0, <1>7 DEF ChannelTypeOK
  <2>6. PhaseOK(t)'
    BY <1>1, <1>2, <1>4, <1>7, <2>1, <2>4, <2>5 DEF PhaseOK, Bare
  <2> QED
    BY <1>0, <1>1, <1>3, <2>1, <2>2, <2>3, <2>6, PhaseKeeps, RestOfHalves, SMTT(30)
    DEF InitAt, InsideAt
<1> QED
  BY <1>5, <1>6, <1>7 DEF Configure, Goto

(* init creates a thread, or fails to and does not see it. *)
LEMMA CreateThreadKeeps ==
  ASSUME UsersInv, NEW t \in Tasks, CreateThread(t), UNCHANGED <<table, sharing>>
  PROVE  UsersInv'
<1> DEFINE ch == on[t]
           i == half[t]
           l == IF i < Len(Halves) THEN "create" ELSE "initOK"
<1>0. TypeOK /\ ChannelTypeOK /\ ch \in Channels
  BY DEF UsersInv, TypeOK, ChannelTypeOK
<1>1. /\ Inside(t) /\ pc[t] = "create"
      /\ UNCHANGED <<fd, ring, exit, leftOpen, missed, on, then, table, sharing>>
  BY DEF CreateThread, Inside, InsideAt
<1>2. i \in 1..Len(Halves)
  BY <1>1 DEF UsersInv, Places, Place
<1>3. Halves[i] \in Half /\ RestFrom(i + 1) = RestFrom(i) \ {Halves[i]} /\ Len(Halves) \in {1, 2}
  BY <1>2, RestOfHalves
<1>4. PICK made \in BOOLEAN, known \in BOOLEAN :
        /\ made => known
        /\ service' = [service EXCEPT ![ch][Halves[i]] = IF made THEN "top" ELSE "failed"]
        /\ pid' = [pid EXCEPT ![ch][Halves[i]] = known]
  BY DEF CreateThread
<1>5. /\ half' = [half EXCEPT ![t] = i + 1] /\ pc' = [pc EXCEPT ![t] = l]
  BY DEF CreateThread, Goto
<1>6. half'[t] = i + 1 /\ pc'[t] = l /\ Rest(t) = RestFrom(i) /\ Rest(t)' = RestFrom(i + 1)
  BY <1>0, <1>5 DEF TypeOK, ChannelTypeOK, Rest, RestFrom
<1>7. /\ \A h \in Half : /\ h # Halves[i] => service'[ch][h] = service[ch][h] /\ pid'[ch][h] = pid[ch][h]
                         /\ h = Halves[i] => /\ service'[ch][h] = IF made THEN "top" ELSE "failed"
                                             /\ pid'[ch][h] = known
      /\ \A c \in Channels \ {ch} : service'[c] = service[c] /\ pid'[c] = pid[c]
  BY <1>0, <1>3, <1>4 DEF ChannelTypeOK
<1>8. /\ \A h \in Half : Live(ch, h) => pid[ch][h]
      /\ fd[ch] /\ ring[ch] /\ ~exit[ch] /\ ch \notin leftOpen
      /\ \A h \in Half : IF h \in RestFrom(i) THEN ~Live(ch, h)
                         ELSE Live(ch, h) \/ service[ch][h] = "failed"
  BY <1>0, <1>1, <1>6, OwnChannel DEF PhaseOK
<1>9. then[t] \in {"open", "init"} /\ ~(ForProtocol(t) /\ ready # {})
  BY <1>1, ForProtocolReady DEF UsersInv, Places, Place, InitAt, ForProtocol
<1>10. \A h \in Half : /\ Live(ch, h)' => pid'[ch][h]
                       /\ IF h \in RestFrom(i + 1) THEN ~Live(ch, h)'
                          ELSE Live(ch, h)' \/ service'[ch][h] = "failed"
  <2> TAKE h \in Half
  <2>1. CASE h = Halves[i]
    BY <1>1, <1>3, <1>4, <1>7, <2>1 DEF Live
  <2>2. CASE h # Halves[i]
    <3>1. Live(ch, h)' = Live(ch, h) /\ pid'[ch][h] = pid[ch][h] /\ service'[ch][h] = service[ch][h]
      BY <1>1, <1>7, <2>2 DEF Live
    <3>2. h \in RestFrom(i + 1) <=> h \in RestFrom(i)
      BY <1>3, <2>2
    <3> QED
      BY <1>8, <3>1, <3>2
  <2> QED
    BY <2>1, <2>2
<1>11. PhaseStep(t, l)
  BY <1>0, <1>1, <1>5, <1>7 DEF PhaseStep, SameChannel, TypeOK, ChannelTypeOK
<1>12. ChannelTypeOK'
  <2>1. half' \in [Tasks -> 1..(Len(Halves) + 1)]
    BY <1>0, <1>2, <1>3, <1>5 DEF ChannelTypeOK
  <2>2. /\ pid' \in [Channels -> [Half -> BOOLEAN]]
        /\ service' \in [Channels -> [Half -> {"none", "failed", "top", "working", "tested",
                                               "asleep", "woken", "done"}]]
    BY <1>0, <1>3, <1>4 DEF ChannelTypeOK
  <2> QED
    BY <1>0, <1>1, <2>1, <2>2 DEF ChannelTypeOK
<1>13. i = Len(Halves) => Running(ch)'
  BY <1>1, <1>8, <1>10, RestOfHalves DEF Running
<1>14. i < Len(Halves) \/ i = Len(Halves)
  BY <1>2, <1>3
<1>15. ThreadsOK(ch)'
  BY <1>1, <1>6, <1>8, <1>10, <1>13, <1>14 DEF ThreadsOK
<1>16. PhaseOK(t)'
  BY <1>1, <1>6, <1>8, <1>10 DEF PhaseOK
<1>17. l = "create" => half'[t] \in 1..Len(Halves)
  BY <1>2, <1>3, <1>6
<1>18. l \in InitAt /\ l \notin {"wake", "join"} /\ l \in InsideAt
  BY DEF InitAt, InsideAt
<1> HIDE DEF l
<1> QED
  BY <1>0, <1>1, <1>9, <1>11, <1>12, <1>15, <1>16, <1>17, <1>18, PhaseKeeps DEF InitAt

(* deinit closes the device, or finds nothing to close. *)
LEMMA CloseDeviceKeeps ==
  ASSUME UsersInv, NEW t \in Tasks, CloseDevice(t), UNCHANGED <<table, sharing>>
  PROVE  UsersInv'
<1> DEFINE ch == on[t]
<1>0. TypeOK /\ ChannelTypeOK /\ ch \in Channels
  BY DEF UsersInv, TypeOK, ChannelTypeOK
<1>1. /\ Inside(t) /\ pc[t] = "close"
      /\ UNCHANGED <<ring, exit, pid, service, missed, on, half, then, table, sharing>>
  BY DEF CloseDevice, Inside, InsideAt
<1>2. /\ \A h \in Half : Live(ch, h) => pid[ch][h] /\ fd[ch]
      /\ ch \in leftOpen => fd[ch]
  BY <1>0, <1>1, OwnChannel DEF Taking
<1>3. then[t] # "init"
  BY <1>1 DEF UsersInv, Places, Place, DeinitAt
<1>4. ForProtocol(t) => holders = {proto}
  BY <1>1, <1>3 DEF UsersInv, Readiness, Places, Place, ForProtocol, DeinitAt
<1>5. CASE /\ fd[ch] /\ fd' = [fd EXCEPT ![ch] = FALSE] /\ leftOpen' = leftOpen \ {ch}
           /\ pc' = [pc EXCEPT ![t] = "free"]
  <2>1. PhaseStep(t, "free") /\ pc'[t] = "free" /\ fd'[ch] = FALSE
    BY <1>0, <1>1, <1>5 DEF PhaseStep, SameChannel, TypeOK, ChannelTypeOK
  <2>2. ChannelTypeOK'
    BY <1>0, <1>1, <1>5 DEF ChannelTypeOK
  <2>3. \A h \in Half : Taking(t, ch, h)'
    BY <1>1, <2>1 DEF Taking
  <2>4. ThreadsOK(ch)'
    BY <1>1, <1>2, <1>5, <2>1, <2>3 DEF ThreadsOK, Live
  <2>5. PhaseOK(t)'
    BY <1>1, <2>1 DEF PhaseOK
  <2> QED
    BY <1>0, <1>1, <1>3, <1>4, <2>1, <2>2, <2>4, <2>5, PhaseKeeps DEF InitAt, InsideAt
<1>6. CASE ~fd[ch] /\ pc' = [pc EXCEPT ![t] = "deinited"] /\ UNCHANGED <<fd, leftOpen>>
  <2>1. PhaseStep(t, "deinited") /\ pc'[t] = "deinited"
    BY <1>0, <1>1, <1>6 DEF PhaseStep, SameChannel, TypeOK, ChannelTypeOK
  <2>2. ChannelTypeOK'
    BY <1>0, <1>1, <1>6 DEF ChannelTypeOK
  <2>3. ThreadsOK(ch)'
    BY <1>1, <1>2, <1>6 DEF ThreadsOK, Live
  <2>4. PhaseOK(t)'
    BY <1>1, <1>6, <2>1 DEF PhaseOK
  <2> QED
    BY <1>0, <1>1, <1>3, <1>4, <2>1, <2>2, <2>3, <2>4, PhaseKeeps DEF InitAt, InsideAt
<1> QED
  BY <1>5, <1>6 DEF CloseDevice, Goto

(* deinit frees the rings and sets force_exit. *)
LEMMA FreeRingsKeeps ==
  ASSUME UsersInv, NEW t \in Tasks, FreeRings(t), UNCHANGED <<table, sharing>>
  PROVE  UsersInv'
<1> DEFINE ch == on[t]
<1>0. TypeOK /\ ChannelTypeOK /\ ch \in Channels
  BY DEF UsersInv, TypeOK, ChannelTypeOK
<1>1. /\ Inside(t) /\ pc[t] = "free"
      /\ ring' = [ring EXCEPT ![ch] = FALSE] /\ exit' = [exit EXCEPT ![ch] = TRUE]
      /\ half' = [half EXCEPT ![t] = 1] /\ pc' = [pc EXCEPT ![t] = "wake"]
      /\ UNCHANGED <<fd, pid, service, leftOpen, missed, on, then, table, sharing>>
  BY DEF FreeRings, Inside, InsideAt, Goto
<1>2. /\ \A h \in Half : Live(ch, h) => pid[ch][h]
      /\ ch \notin leftOpen /\ ~fd[ch]
  BY <1>0, <1>1, OwnChannel DEF PhaseOK
<1>3. then[t] # "init"
  BY <1>1 DEF UsersInv, Places, Place, DeinitAt
<1>4. ForProtocol(t) => holders = {proto}
  BY <1>1, <1>3 DEF UsersInv, Readiness, Places, Place, ForProtocol, DeinitAt
<1>5. PhaseStep(t, "wake") /\ pc'[t] = "wake" /\ half'[t] = 1
  BY <1>0, <1>1 DEF PhaseStep, SameChannel, TypeOK, ChannelTypeOK
<1>11. Rest(t)' = Half
  BY <1>5, RestOfHalves DEF Rest, RestFrom
<1>6. ChannelTypeOK'
  BY <1>0, <1>1, RestOfHalves DEF ChannelTypeOK
<1>7. ThreadsOK(ch)'
  BY <1>1, <1>2, <1>5, <1>11 DEF ThreadsOK, Live, Taking
<1>8. PhaseOK(t)'
  BY <1>1, <1>2, <1>5 DEF PhaseOK
<1>14. 1 \in 1..Len(Halves)
  BY RestOfHalves
<1>9. half'[t] \in 1..Len(Halves)
  BY <1>5, <1>14
<1>10. "wake" \in InsideAt /\ "wake" \notin InitAt /\ pc[t] \notin InitAt
  BY <1>1 DEF InsideAt, InitAt
<1>12. ForProtocol(t) /\ ready # {} =>
         /\ fd'[Shared] \/ (then[t] # "init" /\ holders = {proto})
         /\ then[t] = "init" => "wake" \notin {"configure", "create", "initFailed"}
  BY <1>3, <1>4
<1>13. Inside(t) /\ pc[t] \notin {"initOK", "initFailed", "deinited"} /\ on' = on
  BY <1>1
<1> QED
  BY <1>0, <1>5, <1>6, <1>7, <1>8, <1>9, <1>10, <1>12, <1>13, PhaseKeeps

(* One half is done, and the next one's turn has come. *)
LEMMA NextHalfKeeps ==
  ASSUME UsersInv, NEW t \in Tasks, pc[t] \in {"wake", "join"}, NextHalf(t),
         ~Live(on[t], Halves[half[t]]),
         UNCHANGED <<channel, on, then, table, sharing>>
  PROVE  UsersInv'
<1> DEFINE ch == on[t]
           i == half[t]
           l == IF i < Len(Halves) THEN "wake" ELSE "deinited"
<1>0. TypeOK /\ ChannelTypeOK /\ ch \in Channels
  BY DEF UsersInv, TypeOK, ChannelTypeOK
<1>1. /\ Inside(t) /\ pc' = [pc EXCEPT ![t] = l] /\ half' = [half EXCEPT ![t] = i + 1]
      /\ UNCHANGED <<fd, ring, exit, pid, service, leftOpen, missed, on, then, table, sharing>>
  BY DEF NextHalf, Goto, channel, Inside, InsideAt
<1>2. i \in 1..Len(Halves)
  BY DEF UsersInv, Places, Place
<1>3. /\ Halves[i] \in Half /\ RestFrom(i + 1) = RestFrom(i) \ {Halves[i]}
      /\ Len(Halves) \in {1, 2} /\ RestFrom(Len(Halves) + 1) = {}
  BY <1>2, RestOfHalves
<1>4. half'[t] = i + 1 /\ pc'[t] = l /\ Rest(t) = RestFrom(i) /\ Rest(t)' = RestFrom(i + 1)
  BY <1>0, <1>1 DEF TypeOK, ChannelTypeOK, Rest, RestFrom
<1>5. /\ \A h \in Half : Live(ch, h) => pid[ch][h] /\ h \in RestFrom(i)
      /\ ~fd[ch] /\ ch \notin leftOpen
  BY <1>0, <1>1, <1>4, OwnChannel DEF PhaseOK, Taking
<1>6. \A h \in Half : Live(ch, h)' => pid'[ch][h] /\ h \in RestFrom(i + 1)
  <2>1. \A h \in Half : Live(ch, h)' = Live(ch, h) /\ pid'[ch][h] = pid[ch][h]
    BY <1>1 DEF Live
  <2> QED
    BY <1>3, <1>5, <2>1
<1>7. PhaseStep(t, l)
  BY <1>0, <1>1 DEF PhaseStep, SameChannel, TypeOK, ChannelTypeOK
<1>8. half' \in [Tasks -> 1..(Len(Halves) + 1)]
  BY <1>0, <1>1, <1>2, <1>3 DEF ChannelTypeOK
<1>9. ChannelTypeOK'
  BY <1>0, <1>1, <1>8 DEF ChannelTypeOK
<1>10. i < Len(Halves) \/ i = Len(Halves)
  BY <1>2, <1>3
<1>11. ThreadsOK(ch)'
  BY <1>1, <1>3, <1>4, <1>5, <1>6, <1>10 DEF ThreadsOK, Taking
<1>12. PhaseOK(t)'
  BY <1>1, <1>4, <1>5 DEF PhaseOK
<1>13. l = "wake" => half'[t] \in 1..Len(Halves)
  BY <1>2, <1>3, <1>4
<1>14. then[t] # "init"
  BY DEF UsersInv, Places, Place, DeinitAt
<1>15. ForProtocol(t) => holders = {proto}
  BY <1>14 DEF UsersInv, Readiness, Places, Place, ForProtocol, DeinitAt
<1>16. /\ l \in InsideAt /\ l \notin InitAt /\ l \notin {"create", "join"} /\ pc[t] \notin InitAt
       /\ pc[t] \notin {"initOK", "initFailed", "deinited"}
  BY DEF InitAt, InsideAt
<1> HIDE DEF l
<1> QED
  BY <1>0, <1>1, <1>7, <1>9, <1>11, <1>12, <1>13, <1>14, <1>15, <1>16, PhaseKeeps

(* deinit broadcasts to the thread of a half, or skips one that was not    *)
(* created.                                                                *)
LEMMA WakeServiceKeeps ==
  ASSUME UsersInv, NEW t \in Tasks, WakeService(t), UNCHANGED <<table, sharing>>
  PROVE  UsersInv'
<1> DEFINE ch == on[t]
           i == half[t]
<1>0. TypeOK /\ ChannelTypeOK /\ ch \in Channels
  BY DEF UsersInv, TypeOK, ChannelTypeOK
<1>1. /\ Inside(t) /\ pc[t] = "wake" /\ UNCHANGED <<fd, ring, exit, pid, leftOpen, missed, on, then>>
  BY DEF WakeService, Inside, InsideAt
<1>2. i \in 1..Len(Halves) /\ Halves[i] \in Half
  BY <1>1, RestOfHalves DEF UsersInv, Places, Place
<1>3. /\ \A h \in Half : Live(ch, h) => pid[ch][h] /\ h \in Rest(t)
      /\ ~fd[ch] /\ ch \notin leftOpen
  BY <1>0, <1>1, OwnChannel DEF PhaseOK, Taking
<1>4. CASE ~pid[ch][Halves[i]] /\ NextHalf(t) /\ UNCHANGED service
  BY <1>1, <1>2, <1>3, <1>4, NextHalfKeeps DEF channel
<1>5. CASE /\ service' = [service EXCEPT ![ch][Halves[i]] = IF @ = "asleep" THEN "woken" ELSE @]
           /\ pc' = [pc EXCEPT ![t] = "join"] /\ UNCHANGED half
  <2>1. service' \in [Channels -> [Half -> {"none", "failed", "top", "working", "tested",
                                            "asleep", "woken", "done"}]]
    BY <1>0, <1>2, <1>5 DEF ChannelTypeOK
  <2>2. /\ \A c \in Channels \ {ch} : service'[c] = service[c]
        /\ \A h \in Half : \/ service'[ch][h] = service[ch][h]
                           \/ service[ch][h] = "asleep" /\ service'[ch][h] = "woken"
    BY <1>0, <1>2, <1>5 DEF ChannelTypeOK
  <2>3. PhaseStep(t, "join") /\ pc'[t] = "join"
    BY <1>0, <1>1, <1>5, <2>2 DEF PhaseStep, SameChannel, TypeOK, ChannelTypeOK
  <2>4. ChannelTypeOK'
    BY <1>0, <1>1, <1>5, <2>1 DEF ChannelTypeOK
  <2>5. \A h \in Half : Live(ch, h)' <=> Live(ch, h)
    BY <1>1, <2>2 DEF Live
  <2>6. Rest(t)' = Rest(t)
    BY <1>5 DEF Rest, RestFrom
  <2>7. ThreadsOK(ch)'
    BY <1>1, <1>3, <2>3, <2>5, <2>6 DEF ThreadsOK, Taking
  <2>8. PhaseOK(t)'
    BY <1>1, <1>3, <2>3 DEF PhaseOK
  <2>9. then[t] # "init"
    BY <1>1 DEF UsersInv, Places, Place, DeinitAt
  <2>10. ForProtocol(t) => holders = {proto}
    BY <1>1, <2>9 DEF UsersInv, Readiness, Places, Place, ForProtocol, DeinitAt
  <2>11. "join" \in InsideAt /\ "join" \notin InitAt /\ pc[t] \notin InitAt
    BY <1>1 DEF InsideAt, InitAt
  <2> QED
    BY <1>0, <1>1, <1>2, <1>5, <2>3, <2>4, <2>7, <2>8, <2>9, <2>10, <2>11, PhaseKeeps
<1> QED
  BY <1>4, <1>5 DEF WakeService, Goto

(* deinit has joined the thread of a half. *)
LEMMA JoinServiceKeeps ==
  ASSUME UsersInv, NEW t \in Tasks, JoinService(t), UNCHANGED <<table, sharing>>
  PROVE  UsersInv'
BY NextHalfKeeps DEF JoinService, Live, channel

-----------------------------------------------------------------------------
(* The service threads, and the clients that signal them: a thread ends    *)
(* only once deinit has told it to.                                        *)

(* A thread that stays alive, or ends because force_exit is set. *)
LEMMA ServiceKeeps ==
  ASSUME UsersInv, NEW ch \in Channels, NEW h \in Half, Live(ch, h),
         NEW l \in {"top", "working", "tested", "asleep", "woken", "done"},
         l = "done" => exit[ch],
         service' = [service EXCEPT ![ch][h] = l], missed' \subseteq Channels,
         UNCHANGED <<fd, ring, exit, pid, leftOpen, task, table, sharing>>
  PROVE  UsersInv'
<1>0. /\ TypeOK /\ ChannelTypeOK /\ Places /\ Alone /\ Emptied /\ Named /\ Undisturbed /\ Threads
      /\ Phases /\ Owned /\ Readiness
  BY DEF UsersInv, TypeOK
<1>1. /\ UNCHANGED <<fd, ring, exit, pid, leftOpen>> /\ UNCHANGED <<pc, on, half, then>>
      /\ UNCHANGED <<id2handle, alive, handle, raced>> /\ UNCHANGED <<holders, ready, proto>>
  BY DEF task, table, sharing
<1>2. /\ service'[ch][h] = l
      /\ \A c \in Channels, k \in Half : c # ch \/ k # h => service'[c][k] = service[c][k]
  BY <1>0 DEF ChannelTypeOK
<1>3. fd[ch] => l # "done"
  <2> SUFFICES ASSUME fd[ch], exit[ch] PROVE FALSE
    OBVIOUS
  <2>1. ThreadsOK(ch) /\ ~Running(ch) /\ ~Bare(ch)
    BY <1>0 DEF Threads, Running, Bare
  <2>2. PICK u \in Tasks : on[u] = ch /\ pc[u] \in {"configure", "create"}
    BY <2>1 DEF ThreadsOK
  <2>3. PhaseOK(u)
    BY <1>0 DEF Phases
  <2> QED
    BY <2>1, <2>2, <2>3 DEF PhaseOK
<1>4. \A c \in Channels, k \in Half :
        /\ Live(c, k)' => Live(c, k)
        /\ fd[c] => (Live(c, k)' <=> Live(c, k))
        /\ service[c][k] = "failed" => service'[c][k] = "failed"
  <2> TAKE c \in Channels, k \in Half
  <2>1. CASE c = ch /\ k = h
    BY <1>2, <1>3, <2>1 DEF Live
  <2>2. CASE c # ch \/ k # h
    <3>1. service'[c][k] = service[c][k]
      BY <1>2, <2>2
    <3> QED
      BY <3>1 DEF Live
  <2> QED
    BY <2>1, <2>2
<1>5. \A c \in Channels : (fd[c] /\ Bare(c)) => Bare(c)'
  BY <1>4 DEF Bare
<1>6. TypeOK'
  <2>1. service' \in [Channels -> [Half -> {"none", "failed", "top", "working", "tested",
                                            "asleep", "woken", "done"}]]
    BY <1>0 DEF ChannelTypeOK
  <2> QED
    BY <1>0, <1>1, <2>1 DEF TypeOK, ChannelTypeOK, TableTypeOK, SharingTypeOK
<1>7. Places' /\ Alone' /\ Emptied' /\ Undisturbed'
  BY <1>0, <1>1 DEF Places, ThenTypeOK, Place, ForProtocol, FromTable, Inside, Alone, Emptied,
    Undisturbed, Controlled, InControl
<1>8. Named'
  BY <1>0, <1>1 DEF Named, Names, NamedOK, Dangling, Inside, FromTable, Controlled, InControl
<1>9. Threads'
  <2> SUFFICES ASSUME NEW c \in Channels PROVE ThreadsOK(c)'
    BY DEF Threads
  <2>1. ThreadsOK(c)
    BY <1>0 DEF Threads
  <2>2. fd[c] /\ Running(c) => Running(c)'
    BY <1>1, <1>4 DEF Running
  <2>3. \A u \in Tasks, k \in Half : Taking(u, c, k)' <=> Taking(u, c, k)
    BY <1>1 DEF Taking, Rest, RestFrom
  <2> QED
    BY <1>1, <1>4, <1>5, <2>1, <2>2, <2>3 DEF ThreadsOK
<1>10. Phases'
  <2> SUFFICES ASSUME NEW u \in Tasks PROVE PhaseOK(u)'
    BY DEF Phases
  <2>1. PhaseOK(u) /\ on[u] \in Channels
    BY <1>0 DEF Phases, ChannelTypeOK
  <2>2. Rest(u)' = Rest(u)
    BY <1>1 DEF Rest, RestFrom
  <2>3. fd[on[u]] /\ Bare(on[u]) => Bare(on[u])'
    <3>1. PICK c \in Channels : c = on[u]
      BY <2>1
    <3> QED
      BY <1>1, <1>5, <3>1 DEF Bare, Live
  <2>4. \A k \in Half : /\ fd[on[u]] => (Live(on[u], k)' <=> Live(on[u], k))
                        /\ service[on[u]][k] = "failed" => service'[on[u]][k] = "failed"
    BY <1>1, <1>4, <2>1 DEF Live
  <2> QED
    BY <1>1, <2>1, <2>2, <2>3, <2>4 DEF PhaseOK, ForProtocol
<1>11. Owned'
  <2>1. \A c \in Channels : (fd[c] \/ ~Bare(c))' => fd[c] \/ ~Bare(c)
    BY <1>1, <1>4 DEF Bare
  <2> QED
    BY <1>0, <1>1, <2>1 DEF Owned, Names, Dangling, Inside
<1>12. Readiness'
  BY <1>0, <1>1 DEF Readiness
<1> QED
  BY <1>6, <1>7, <1>8, <1>9, <1>10, <1>11, <1>12 DEF UsersInv

(* The steps of the service threads. *)
LEMMA ServiceStepKeeps ==
  ASSUME UsersInv, ServiceStep, UNCHANGED <<table, sharing>>
  PROVE  UsersInv'
<1>0. ChannelTypeOK
  BY DEF UsersInv, TypeOK
<1>1. ASSUME NEW ch \in Channels, NEW h \in Half, ServiceLoops(ch, h) PROVE UsersInv'
  <2>1. Live(ch, h) /\ UNCHANGED <<fd, ring, exit, pid, leftOpen, task>> /\ missed' \subseteq Channels
    BY <1>0, <1>1 DEF ServiceLoops, Live, ChannelTypeOK
  <2>2. \E l \in {"top", "working", "tested", "asleep", "woken", "done"} :
          (l = "done" => exit[ch]) /\ service' = [service EXCEPT ![ch][h] = l]
    BY <1>1 DEF ServiceLoops
  <2> QED
    BY <2>1, <2>2, ServiceKeeps
<1>2. ASSUME NEW ch \in Channels, NEW h \in Half, ServiceSleeps(ch, h) PROVE UsersInv'
  <2>1. /\ Live(ch, h) /\ UNCHANGED <<fd, ring, exit, pid, leftOpen, task>>
        /\ missed' \subseteq Channels /\ service' = [service EXCEPT ![ch][h] = "asleep"]
    BY <1>0, <1>2 DEF ServiceSleeps, Live, ChannelTypeOK
  <2> QED
    BY <2>1, ServiceKeeps
<1> QED
  BY <1>1, <1>2 DEF ServiceStep

(* A call on a handle signals a thread. *)
LEMMA CallMovesKeeps ==
  ASSUME UsersInv, NEW t \in Tasks, CallMoves(t), UNCHANGED sharing
  PROVE  UsersInv'
<1>0. ChannelTypeOK
  BY DEF UsersInv, TypeOK
<1>1. PICK h \in Half : Touch(on[t], h)
  BY DEF CallMoves
<1>2. PICK ch \in Channels : ch = on[t]
  BY <1>0 DEF ChannelTypeOK
<1>3. /\ Live(ch, h) /\ service' = [service EXCEPT ![ch][h] = "woken"] /\ missed' \subseteq Channels
      /\ UNCHANGED <<fd, ring, exit, pid, leftOpen, task, table>>
  BY <1>0, <1>1, <1>2 DEF Touch, CallMoves, Live, ChannelTypeOK
<1> QED
  BY <1>3, ServiceKeeps

-----------------------------------------------------------------------------
(* The C wrapper's steps that leave the channels alone. *)

TaskStep(t) ==
  \A u \in Tasks \ {t} : /\ pc'[u] = pc[u] /\ on'[u] = on[u] /\ half'[u] = half[u]
                         /\ then'[u] = then[u] /\ handle'[u] = handle[u]

TableStill(t) == TaskStep(t) /\ UNCHANGED <<channel, alive, sharing>>

(* Where the other tasks are does not change. *)
LEMMA OtherTasks ==
  ASSUME NEW t \in Tasks, TaskStep(t)
  PROVE  \A u \in Tasks \ {t} :
           /\ Inside(u)' <=> Inside(u)
           /\ InControl(u)' <=> InControl(u)
           /\ FromTable(u)' <=> FromTable(u)
           /\ ForProtocol(u)' <=> ForProtocol(u)
           /\ Rest(u)' = Rest(u)
BY DEF TaskStep, Inside, InControl, FromTable, ForProtocol, Rest, RestFrom

(* What a step that changes no channel keeps, when the task is at no work  *)
(* on one.                                                                 *)
LEMMA TableKeeps ==
  ASSUME UsersInv, NEW t \in Tasks, TableStill(t), TypeOK', ThenTypeOK', Place(t)',
         pc[t] \notin {"configure", "create", "free", "wake", "join"},
         pc'[t] \notin {"configure", "create", "free", "wake", "join"},
         PhaseOK(t)', ~ForProtocol(t), ~ForProtocol(t)'
  PROVE  Places' /\ Threads' /\ Phases' /\ Readiness'
<1>0. /\ TypeOK /\ ChannelTypeOK /\ Places /\ Threads /\ Phases /\ Readiness
  BY DEF UsersInv, TypeOK
<1>1. /\ UNCHANGED <<fd, ring, exit, pid, service, leftOpen>> /\ UNCHANGED <<holders, ready, proto>>
      /\ UNCHANGED alive
      /\ \A u \in Tasks \ {t} : /\ pc'[u] = pc[u] /\ on'[u] = on[u] /\ half'[u] = half[u]
                                /\ then'[u] = then[u] /\ handle'[u] = handle[u]
  BY DEF TableStill, TaskStep, channel, sharing
<1>2. \A u \in Tasks \ {t} : /\ Inside(u)' <=> Inside(u)
                             /\ FromTable(u)' <=> FromTable(u)
                             /\ ForProtocol(u)' <=> ForProtocol(u)
                             /\ Rest(u)' = Rest(u)
  BY OtherTasks DEF TableStill
<1>3. Places'
  <2>1. \A u \in Tasks \ {t} : Place(u)'
    BY <1>0, <1>1, <1>2 DEF Places, Place
  <2> QED
    BY <2>1 DEF Places
<1>4. Threads'
  <2> SUFFICES ASSUME NEW ch \in Channels PROVE ThreadsOK(ch)'
    BY DEF Threads
  <2>1. ThreadsOK(ch)
    BY <1>0 DEF Threads
  <2>2. \A u \in Tasks, h \in Half : Taking(u, ch, h) => Taking(u, ch, h)'
    BY <1>1, <1>2 DEF Taking
  <2>3. \A u \in Tasks : on[u] = ch /\ pc[u] \in {"configure", "create"} =>
                           on'[u] = ch /\ pc'[u] \in {"configure", "create"}
    BY <1>1
  <2>4. (Bare(ch)' <=> Bare(ch)) /\ (Running(ch)' <=> Running(ch))
        /\ \A h \in Half : Live(ch, h)' <=> Live(ch, h)
    BY <1>1 DEF Bare, Running, Live
  <2> QED
    BY <1>1, <2>1, <2>2, <2>3, <2>4 DEF ThreadsOK
<1>5. Phases'
  <2> SUFFICES ASSUME NEW u \in Tasks, u # t PROVE PhaseOK(u)'
    BY DEF Phases
  <2>1. PhaseOK(u) /\ on[u] \in Channels
    BY <1>0 DEF Phases, ChannelTypeOK
  <2>2. SameChannel(on[u])
    BY <1>1 DEF SameChannel
  <2> QED
    BY <1>1, <2>1, <2>2, SamePhase
<1>6. Readiness'
  <2>1. (then'[Master] = then[Master] /\ pc'[Master] = pc[Master]) \/ t = Master
    BY <1>1, UsersAssumption
  <2> QED
    BY <1>0, <1>1, <2>1 DEF Readiness, ForProtocol
<1> QED
  BY <1>3, <1>4, <1>5, <1>6

(* A handle of its own that an idle task opens or closes is still.         *)
LEMMA OwnHandle ==
  ASSUME UsersInv, NEW t \in Tasks, pc[t] = "idle", NEW n \in Opens[t]
  PROVE  n \in Handles /\ ~Controlled(n) /\ ~Dangling(n) /\ ~FromTable(t) /\ ~ForProtocol(t)
<1>1. n \in Handles
  BY UsersAssumption
<1>2. then[t] = "none"
  BY DEF UsersInv, Places, Place
<1>3. ~Controlled(n)
  <2> SUFFICES ASSUME NEW u \in Tasks, InControl(u), FromTable(u), handle[u] = n PROVE FALSE
    BY DEF Controlled
  <2>1. n \in Opens[u] /\ u # t
    BY <1>2 DEF UsersInv, Places, Place, FromTable
  <2> QED
    BY <2>1, UsersAssumption
<1>4. ~Dangling(n)
  BY <1>1, <1>3, DanglingControlled DEF UsersInv
<1> QED
  BY <1>1, <1>2, <1>3, <1>4 DEF FromTable, ForProtocol

(* popen_serial of an open handle, and pclose_serial. *)
LEMMA CloseHandleKeeps ==
  ASSUME UsersInv, NEW t \in Tasks, NEW n \in Handles, n \in Opens[t], pc[t] = "idle",
         id2handle[n] # NoChannel, NEW caller \in {"reopen", "close"},
         Enter(t, "close", id2handle[n], caller), Disturb(t, n),
         UNCHANGED <<channel, id2handle, alive, sharing>>
  PROVE  UsersInv'
<1>0. /\ TypeOK /\ ChannelTypeOK /\ TableTypeOK /\ Places /\ Alone /\ Emptied /\ Named
      /\ Undisturbed /\ Threads /\ Phases /\ Owned /\ Readiness
  BY DEF UsersInv, TypeOK
<1>1. ~Controlled(n) /\ ~Dangling(n) /\ ~FromTable(t) /\ ~ForProtocol(t)
  BY OwnHandle
<1>2. PICK c \in Pool : c = id2handle[n]
  BY <1>0 DEF TableTypeOK
<1>3. NamedOK(n, c) /\ c \in Channels /\ c # Shared /\ Names(n, c)
  BY <1>0, <1>1, <1>2, UsersAssumption DEF Named, Names
<1>4. /\ pc' = [pc EXCEPT ![t] = "close"] /\ on' = [on EXCEPT ![t] = c]
      /\ then' = [then EXCEPT ![t] = caller] /\ half' = half
      /\ handle' = [handle EXCEPT ![t] = n]
      /\ raced' = raced \cup {u \in Tasks : pc[u] = "io" /\ handle[u] = n}
  BY <1>2 DEF Enter, Goto, Disturb
<1>5. TaskStep(t) /\ pc'[t] = "close" /\ on'[t] = c /\ then'[t] = caller /\ handle'[t] = n
  BY <1>0, <1>4 DEF TaskStep, TypeOK, ChannelTypeOK, TableTypeOK, Places, ThenTypeOK
<1>6. TypeOK' /\ ThenTypeOK'
  BY <1>0, <1>3, <1>4 DEF TypeOK, ChannelTypeOK, TableTypeOK, SharingTypeOK, channel, sharing,
    Places, ThenTypeOK
<1>7. /\ Inside(t)' /\ FromTable(t)' /\ ~ForProtocol(t)' /\ InControl(t)' /\ ~Inside(t)
      /\ ~InControl(t)
  BY <1>5 DEF Inside, InsideAt, FromTable, ForProtocol, InControl
<1>8. Place(t)'
  BY <1>3, <1>5, <1>7 DEF Place, NamedOK, InitAt, DeinitAt
<1>9. PhaseOK(t)'
  BY <1>5 DEF PhaseOK
<1>10. Places' /\ Threads' /\ Phases' /\ Readiness'
  BY <1>1, <1>5, <1>6, <1>7, <1>8, <1>9, TableKeeps DEF TableStill
<1>11. \A u \in Tasks \ {t} : ~(Inside(u) /\ on[u] = c)
  <2> SUFFICES ASSUME NEW u \in Tasks \ {t}, Inside(u), on[u] = c PROVE FALSE
    OBVIOUS
  <2>1. handle[u] = n /\ FromTable(u) /\ InControl(u)
    BY <1>3 DEF NamedOK, Inside, InsideAt, InControl
  <2> QED
    BY <1>1, <2>1 DEF Controlled
<1>12. \A u \in Tasks \ {t} : /\ Inside(u)' <=> Inside(u)
                              /\ InControl(u)' <=> InControl(u)
                              /\ FromTable(u)' <=> FromTable(u)
                              /\ pc'[u] = pc[u] /\ on'[u] = on[u] /\ then'[u] = then[u]
                              /\ handle'[u] = handle[u]
  BY <1>5, OtherTasks DEF TaskStep
<1>13. /\ \A k \in Handles : /\ Controlled(k)' <=> Controlled(k) \/ k = n
                             /\ Dangling(k)' <=> Dangling(k)
                             /\ id2handle'[k] = id2handle[k]
  <2>1. \A k \in Handles : Controlled(k)' <=> Controlled(k) \/ k = n
    BY <1>5, <1>7, <1>12 DEF Controlled
  <2>2. \A k \in Handles : Dangling(k)' <=> Dangling(k)
    BY <1>5, <1>12 DEF Dangling
  <2> QED
    BY <2>1, <2>2
<1>14. \A k \in Handles, ch \in Channels : Names(k, ch)' <=> Names(k, ch)
  BY <1>13 DEF Names
<1>15. Alone'
  BY <1>0, <1>5, <1>11, <1>12 DEF Alone
<1>16. Emptied'
  BY <1>0, <1>2, <1>5, <1>12 DEF Emptied
<1>17. Named'
  <2> SUFFICES ASSUME NEW k \in Handles, NEW ch \in Pool, Names(k, ch)' PROVE NamedOK(k, ch)'
    BY DEF Named
  <2>1. NamedOK(k, ch) /\ Names(k, ch) /\ ch \in Channels
    BY <1>0, <1>14, UsersAssumption DEF Named
  <2>2. ch = c => k = n
    BY <1>3, <2>1 DEF NamedOK
  <2>3. \A u \in Tasks : Inside(u)' /\ on'[u] = ch => handle'[u] = k /\ FromTable(u)'
    BY <1>5, <1>7, <1>12, <2>1, <2>2 DEF NamedOK
  <2> QED
    BY <1>13, <1>14, <2>1, <2>3 DEF NamedOK, channel
<1>18. Undisturbed'
  BY <1>0, <1>4, <1>5, <1>12, <1>13 DEF Undisturbed, TableTypeOK
<1>19. Owned'
  <2>1. \A ch \in Channels : Bare(ch)' <=> Bare(ch)
    BY DEF Bare, Live, channel
  <2> QED
    BY <1>0, <1>7, <1>12, <1>14, <2>1 DEF Owned, channel, sharing
<1> QED
  BY <1>6, <1>10, <1>15, <1>16, <1>17, <1>18, <1>19 DEF UsersInv

(* A task that is in no open or close before, and in no channel after.     *)
LEMMA OutsideKeeps ==
  ASSUME UsersInv, NEW t \in Tasks, TableStill(t), UNCHANGED id2handle, TypeOK', ThenTypeOK',
         Place(t)', pc[t] \in {"idle", "io"}, pc'[t] \in {"idle", "io", "new"}, ~ForProtocol(t)',
         pc'[t] = "new" => id2handle[handle'[t]] = NoChannel, Undisturbed'
  PROVE  UsersInv'
<1>0. /\ TypeOK /\ Places /\ Alone /\ Emptied /\ Named /\ Owned
  BY DEF UsersInv
<1>1. /\ ~ForProtocol(t) /\ ~Inside(t) /\ ~Inside(t)' /\ ~InControl(t)
  BY <1>0 DEF Places, Place, ForProtocol, Inside, InsideAt, InControl
<1>2. PhaseOK(t)'
  BY DEF PhaseOK
<1>3. Places' /\ Threads' /\ Phases' /\ Readiness'
  BY <1>1, <1>2, TableKeeps
<1>4. /\ UNCHANGED <<fd, service, leftOpen>> /\ UNCHANGED holders /\ UNCHANGED alive
      /\ \A u \in Tasks \ {t} : /\ Inside(u)' <=> Inside(u)
                                /\ InControl(u)' <=> InControl(u)
                                /\ FromTable(u)' <=> FromTable(u)
                                /\ pc'[u] = pc[u] /\ on'[u] = on[u] /\ then'[u] = then[u]
                                /\ handle'[u] = handle[u]
  BY OtherTasks DEF TableStill, TaskStep, channel, sharing
<1>5. \A k \in Handles : /\ Controlled(k) => Controlled(k)'
                         /\ Dangling(k)' <=> Dangling(k)
  <2>1. \A k \in Handles : Controlled(k) => Controlled(k)'
    BY <1>1, <1>4 DEF Controlled
  <2>2. \A k \in Handles : Dangling(k)' <=> Dangling(k)
    BY <1>4 DEF Dangling
  <2> QED
    BY <2>1, <2>2
<1>6. \A k \in Handles, ch \in Channels : Names(k, ch)' <=> Names(k, ch)
  BY <1>5 DEF Names
<1>7. Alone'
  BY <1>0, <1>1, <1>4 DEF Alone
<1>8. Emptied'
  BY <1>0, <1>1, <1>4 DEF Emptied
<1>9. Named'
  <2> SUFFICES ASSUME NEW k \in Handles, NEW ch \in Pool, Names(k, ch)' PROVE NamedOK(k, ch)'
    BY DEF Named
  <2>1. NamedOK(k, ch) /\ ch \in Channels
    BY <1>0, <1>6, UsersAssumption DEF Named
  <2> QED
    BY <1>1, <1>4, <1>5, <1>6, <2>1 DEF NamedOK
<1>10. Owned'
  <2>1. \A ch \in Channels : Bare(ch)' <=> Bare(ch)
    BY <1>4 DEF Bare, Live
  <2> QED
    BY <1>0, <1>1, <1>4, <1>6, <2>1 DEF Owned
<1> QED
  BY <1>3, <1>7, <1>8, <1>9, <1>10 DEF UsersInv

(* popen_serial of a handle that is free. *)
LEMMA NewHandleKeeps ==
  ASSUME UsersInv, NEW t \in Tasks, NEW n \in Handles, n \in Opens[t], pc[t] = "idle",
         id2handle[n] = NoChannel, Enter(t, "new", on[t], "open"), Disturb(t, n),
         UNCHANGED <<channel, id2handle, alive, sharing>>
  PROVE  UsersInv'
<1>0. /\ TypeOK /\ ChannelTypeOK /\ TableTypeOK /\ Places /\ Undisturbed
  BY DEF UsersInv, TypeOK
<1>1. /\ pc' = [pc EXCEPT ![t] = "new"] /\ on' = [on EXCEPT ![t] = on[t]]
      /\ then' = [then EXCEPT ![t] = "open"] /\ half' = half
      /\ handle' = [handle EXCEPT ![t] = n]
      /\ raced' = raced \cup {u \in Tasks : pc[u] = "io" /\ handle[u] = n}
  BY DEF Enter, Goto, Disturb
<1>2. TaskStep(t) /\ pc'[t] = "new" /\ then'[t] = "open" /\ handle'[t] = n
  BY <1>0, <1>1 DEF TaskStep, TypeOK, ChannelTypeOK, TableTypeOK, Places, ThenTypeOK
<1>3. TypeOK' /\ ThenTypeOK'
  BY <1>0, <1>1 DEF TypeOK, ChannelTypeOK, TableTypeOK, SharingTypeOK, channel, sharing,
    Places, ThenTypeOK
<1>4. Place(t)' /\ ~ForProtocol(t)'
  BY <1>2 DEF Place, ForProtocol, FromTable, Inside, InsideAt, InitAt, DeinitAt
<1>5. \A u \in Tasks \ {t} : /\ InControl(u)' <=> InControl(u)
                             /\ FromTable(u)' <=> FromTable(u)
                             /\ pc'[u] = pc[u] /\ on'[u] = on[u] /\ handle'[u] = handle[u]
  BY <1>2, OtherTasks DEF TaskStep
<1>6. \A k \in Handles : Controlled(k)' => Controlled(k) \/ k = n
  BY <1>2, <1>5 DEF Controlled
<1>7. Undisturbed'
  BY <1>0, <1>1, <1>2, <1>5, <1>6 DEF Undisturbed, TableTypeOK
<1> QED
  BY <1>2, <1>3, <1>4, <1>7, OutsideKeeps DEF TableStill

(* popen_serial starts. *)
LEMMA PopenKeeps ==
  ASSUME UsersInv, NEW t \in Tasks, NEW n \in Handles, Popen(t, n), UNCHANGED sharing
  PROVE  UsersInv'
BY NewHandleKeeps, CloseHandleKeeps DEF Popen

(* pclose_serial starts. *)
LEMMA PcloseKeeps ==
  ASSUME UsersInv, NEW t \in Tasks, NEW n \in Handles, Pclose(t, n), UNCHANGED sharing
  PROVE  UsersInv'
BY CloseHandleKeeps DEF Pclose

(* A read, write, count or flush looks up its handle. *)
LEMMA CallKeeps ==
  ASSUME UsersInv, NEW t \in Tasks, NEW n \in Handles, Call(t, n), UNCHANGED sharing
  PROVE  UsersInv'
<1>0. /\ TypeOK /\ ChannelTypeOK /\ TableTypeOK /\ Places /\ Undisturbed
  BY DEF UsersInv, TypeOK
<1>1. /\ pc[t] = "idle" /\ pc' = [pc EXCEPT ![t] = "io"] /\ on' = [on EXCEPT ![t] = id2handle[n]]
      /\ then' = [then EXCEPT ![t] = "call"] /\ half' = half
      /\ handle' = [handle EXCEPT ![t] = n]
      /\ raced' = IF Controlled(n) THEN raced \cup {t} ELSE raced
      /\ UNCHANGED <<channel, id2handle, alive, sharing>>
  BY DEF Call, Enter, Goto
<1>2. id2handle[n] \in Pool /\ id2handle[n] \in Channels
  BY <1>0, UsersAssumption DEF TableTypeOK, Call
<1>3. TaskStep(t) /\ pc'[t] = "io" /\ then'[t] = "call" /\ handle'[t] = n /\ on'[t] = id2handle[n]
  BY <1>0, <1>1 DEF TaskStep, TypeOK, ChannelTypeOK, TableTypeOK, Places, ThenTypeOK
<1>4. TypeOK' /\ ThenTypeOK'
  BY <1>0, <1>1, <1>2 DEF TypeOK, ChannelTypeOK, TableTypeOK, SharingTypeOK, channel, sharing,
    Places, ThenTypeOK
<1>5. Place(t)' /\ ~ForProtocol(t)' /\ ~InControl(t)'
  BY <1>3 DEF Place, ForProtocol, FromTable, Inside, InsideAt, InitAt, DeinitAt, InControl
<1>6. \A u \in Tasks \ {t} : /\ InControl(u)' <=> InControl(u)
                             /\ FromTable(u)' <=> FromTable(u)
                             /\ pc'[u] = pc[u] /\ on'[u] = on[u] /\ handle'[u] = handle[u]
  BY <1>3, OtherTasks DEF TaskStep
<1>7. \A k \in Handles : Controlled(k)' => Controlled(k)
  BY <1>5, <1>6 DEF Controlled
<1>8. Undisturbed'
  BY <1>0, <1>1, <1>2, <1>3, <1>6, <1>7 DEF Undisturbed, TableTypeOK
<1> QED
  BY <1>1, <1>3, <1>4, <1>5, <1>8, OutsideKeeps DEF TableStill

(* A read, write, count or flush returns. *)
LEMMA CallReturnsKeeps ==
  ASSUME UsersInv, NEW t \in Tasks, CallReturns(t), UNCHANGED sharing
  PROVE  UsersInv'
<1>0. /\ TypeOK /\ ChannelTypeOK /\ TableTypeOK /\ Places /\ Undisturbed
  BY DEF UsersInv, TypeOK
<1>1. /\ pc[t] = "io" /\ pc' = [pc EXCEPT ![t] = "idle"] /\ on' = [on EXCEPT ![t] = SomeChannel]
      /\ then' = [then EXCEPT ![t] = "none"] /\ half' = [half EXCEPT ![t] = 1]
      /\ handle' = [handle EXCEPT ![t] = SomeHandle]
      /\ raced' = raced \ {t}
      /\ UNCHANGED <<channel, id2handle, alive, sharing>>
  BY DEF CallReturns, Return, Leave, Goto
<1>2. 1 \in 1..(Len(Halves) + 1)
  BY RestOfHalves
<1>3. TaskStep(t) /\ pc'[t] = "idle" /\ then'[t] = "none"
  BY <1>0, <1>1 DEF TaskStep, TypeOK, ChannelTypeOK, TableTypeOK, Places, ThenTypeOK
<1>4. TypeOK' /\ ThenTypeOK'
  BY <1>0, <1>1, <1>2, SomeMembers DEF TypeOK, ChannelTypeOK, TableTypeOK, SharingTypeOK, channel,
    sharing, Places, ThenTypeOK
<1>5. Place(t)' /\ ~ForProtocol(t)' /\ ~InControl(t)'
  BY <1>3 DEF Place, ForProtocol, FromTable, Inside, InsideAt, InitAt, DeinitAt, InControl
<1>6. \A u \in Tasks \ {t} : /\ InControl(u)' <=> InControl(u)
                             /\ FromTable(u)' <=> FromTable(u)
                             /\ pc'[u] = pc[u] /\ on'[u] = on[u] /\ handle'[u] = handle[u]
  BY <1>3, OtherTasks DEF TaskStep
<1>7. \A k \in Handles : Controlled(k)' => Controlled(k)
  BY <1>5, <1>6 DEF Controlled
<1>8. Undisturbed'
  BY <1>0, <1>1, <1>3, <1>6, <1>7 DEF Undisturbed, TableTypeOK
<1> QED
  BY <1>1, <1>3, <1>4, <1>5, <1>8, OutsideKeeps DEF TableStill

(* The destructor's deinit follows a failed init, or pclose_serial's own.  *)
LEMMA DestructorKeeps ==
  ASSUME UsersInv, NEW t \in Tasks, NEW caller,
         \/ pc[t] = "initFailed" /\ then[t] = "open" /\ caller = "failed"
         \/ pc[t] = "deinited" /\ then[t] = "close" /\ caller = "delete",
         Enter(t, "close", on[t], caller), UNCHANGED <<channel, table, sharing>>
  PROVE  UsersInv'
<1>0. /\ TypeOK /\ ChannelTypeOK /\ TableTypeOK /\ Places /\ Alone /\ Emptied /\ Named
      /\ Undisturbed /\ Threads /\ Phases /\ Owned /\ Readiness
  BY DEF UsersInv, TypeOK
<1>1. /\ pc' = [pc EXCEPT ![t] = "close"] /\ on' = on /\ half' = half
      /\ then' = [then EXCEPT ![t] = caller]
      /\ handle' = handle /\ id2handle' = id2handle /\ alive' = alive /\ raced' = raced
  BY <1>0 DEF Enter, Goto, ChannelTypeOK, table
<1>2. TaskStep(t) /\ pc'[t] = "close" /\ on'[t] = on[t] /\ then'[t] = caller
      /\ handle'[t] = handle[t]
  BY <1>0, <1>1 DEF TaskStep, TypeOK, Places, ThenTypeOK
<1>3. TypeOK' /\ ThenTypeOK'
  BY <1>0, <1>1 DEF TypeOK, ChannelTypeOK, TableTypeOK, SharingTypeOK, channel, sharing,
    Places, ThenTypeOK
<1>4. /\ Inside(t) /\ Inside(t)' /\ FromTable(t) /\ FromTable(t)' /\ InControl(t) /\ InControl(t)'
      /\ ~ForProtocol(t) /\ ~ForProtocol(t)'
  BY <1>2 DEF Inside, InsideAt, FromTable, ForProtocol, InControl
<1>5. Place(t)'
  <2>1. handle[t] \in Opens[t] /\ on[t] \in alive
    BY <1>0, <1>4 DEF Places, Place
  <2> QED
    BY <1>1, <1>2, <1>4, <2>1 DEF Place, InitAt, DeinitAt
<1>6. PhaseOK(t)'
  BY <1>2 DEF PhaseOK
<1>7. Places' /\ Threads' /\ Phases' /\ Readiness'
  BY <1>1, <1>2, <1>3, <1>4, <1>5, <1>6, TableKeeps DEF TableStill
<1>8. \A u \in Tasks : /\ Inside(u)' <=> Inside(u)
                       /\ InControl(u)' <=> InControl(u)
                       /\ FromTable(u)' <=> FromTable(u)
                       /\ on'[u] = on[u] /\ handle'[u] = handle[u]
  <2>1. \A u \in Tasks \ {t} : /\ Inside(u)' <=> Inside(u)
                               /\ InControl(u)' <=> InControl(u)
                               /\ FromTable(u)' <=> FromTable(u)
    BY <1>2, OtherTasks
  <2> QED
    BY <1>1, <1>4, <2>1
<1>9. \A u \in Tasks \ {t} : pc'[u] = pc[u] /\ then'[u] = then[u]
  BY <1>2 DEF TaskStep
<1>10. \A k \in Handles : /\ Controlled(k)' <=> Controlled(k)
                          /\ Dangling(k)' <=> Dangling(k)
  <2>1. \A k \in Handles : Controlled(k)' <=> Controlled(k)
    BY <1>8 DEF Controlled
  <2>2. \A k \in Handles : Dangling(k)' <=> Dangling(k)
    BY <1>1, <1>2, <1>9 DEF Dangling
  <2> QED
    BY <2>1, <2>2
<1>11. \A k \in Handles, ch \in Channels : Names(k, ch)' <=> Names(k, ch)
  BY <1>1, <1>10 DEF Names
<1>12. Alone'
  BY <1>0, <1>8 DEF Alone
<1>13. Emptied'
  BY <1>0, <1>1, <1>2, <1>4, <1>8, <1>9 DEF Emptied
<1>14. Named'
  <2> SUFFICES ASSUME NEW k \in Handles, NEW ch \in Pool, Names(k, ch)' PROVE NamedOK(k, ch)'
    BY DEF Named
  <2>1. NamedOK(k, ch) /\ ch \in Channels
    BY <1>0, <1>11, UsersAssumption DEF Named
  <2> QED
    BY <1>1, <1>8, <1>10, <1>11, <2>1 DEF NamedOK, channel
<1>15. Undisturbed'
  BY <1>0, <1>1, <1>2, <1>9, <1>10 DEF Undisturbed, TableTypeOK
<1>16. Owned'
  <2>1. \A ch \in Channels : Bare(ch)' <=> Bare(ch)
    BY DEF Bare, Live, channel
  <2> QED
    BY <1>0, <1>8, <1>11, <2>1 DEF Owned, channel, sharing
<1> QED
  BY <1>3, <1>7, <1>12, <1>13, <1>14, <1>15, <1>16 DEF UsersInv

(* popen_serial deletes a channel whose init failed. *)
LEMMA OpenFailedKeeps ==
  ASSUME UsersInv, NEW t \in Tasks, OpenFailed(t), UNCHANGED sharing
  PROVE  UsersInv'
BY DestructorKeeps DEF OpenFailed

(* pclose_serial goes on from deinit to the destructor. *)
LEMMA ClosedKeeps ==
  ASSUME UsersInv, NEW t \in Tasks, Closed(t), UNCHANGED sharing
  PROVE  UsersInv'
BY DestructorKeeps DEF Closed

(* popen_serial stores the channel and returns the handle. *)
LEMMA OpenedKeeps ==
  ASSUME UsersInv, NEW t \in Tasks, Opened(t), UNCHANGED sharing
  PROVE  UsersInv'
<1>0. /\ TypeOK /\ ChannelTypeOK /\ TableTypeOK /\ Places /\ Alone /\ Emptied /\ Named
      /\ Undisturbed /\ Threads /\ Phases /\ Owned /\ Readiness
  BY DEF UsersInv, TypeOK
<1>n. PICK n \in Handles : n = handle[t]
  BY <1>0 DEF TableTypeOK
<1>1. /\ pc[t] = "initOK" /\ then[t] = "open"
      /\ pc' = [pc EXCEPT ![t] = "idle"] /\ on' = [on EXCEPT ![t] = SomeChannel]
      /\ half' = [half EXCEPT ![t] = 1] /\ then' = [then EXCEPT ![t] = "none"]
      /\ handle' = [handle EXCEPT ![t] = SomeHandle]
      /\ id2handle' = [id2handle EXCEPT ![n] = on[t]]
      /\ UNCHANGED <<channel, alive, raced, sharing>>
  BY <1>n DEF Opened, Return, Leave, Goto
<1>2. /\ Inside(t) /\ FromTable(t) /\ ~ForProtocol(t) /\ InControl(t)
  BY <1>1 DEF Inside, InsideAt, FromTable, ForProtocol, InControl
<1>3. PICK c \in Pool : c = on[t]
  BY <1>0, <1>2, InsideFor DEF TableTypeOK
<1>4. /\ c \in Channels /\ c # Shared /\ c \in alive /\ fd[c] /\ c \notin leftOpen
      /\ n \in Handles /\ n \in Opens[t] /\ id2handle[n] = NoChannel
  <2>1. PhaseOK(t) /\ c \in alive
    BY <1>0, <1>2, <1>3, InsideFor DEF Phases
  <2>2. id2handle[n] = NoChannel /\ n \in Handles /\ n \in Opens[t]
    BY <1>0, <1>1, <1>2, <1>n DEF Emptied, TableTypeOK, Places, Place
  <2> QED
    BY <1>1, <1>3, <2>1, <2>2, UsersAssumption DEF PhaseOK
<1>5. 1 \in 1..(Len(Halves) + 1)
  BY RestOfHalves
<1>6. TaskStep(t) /\ pc'[t] = "idle" /\ then'[t] = "none"
  BY <1>0, <1>1 DEF TaskStep, TypeOK, ChannelTypeOK, TableTypeOK, Places, ThenTypeOK
<1>7. TypeOK' /\ ThenTypeOK'
  <2>1. id2handle' \in [Handles -> Pool \cup {NoChannel}]
    BY <1>0, <1>1, <1>3 DEF TableTypeOK
  <2> QED
    BY <1>0, <1>1, <1>5, <2>1, SomeMembers DEF TypeOK, ChannelTypeOK, TableTypeOK, SharingTypeOK,
      channel, sharing, Places, ThenTypeOK
<1>8. Place(t)' /\ ~ForProtocol(t)' /\ ~InControl(t)' /\ ~Inside(t)'
  BY <1>6 DEF Place, ForProtocol, FromTable, Inside, InsideAt, InitAt, DeinitAt, InControl
<1>9. PhaseOK(t)'
  BY <1>6 DEF PhaseOK
<1>10. Places' /\ Threads' /\ Phases' /\ Readiness'
  BY <1>1, <1>2, <1>6, <1>7, <1>8, <1>9, TableKeeps DEF TableStill
<1>11. \A u \in Tasks \ {t} : /\ Inside(u)' <=> Inside(u)
                              /\ InControl(u)' <=> InControl(u)
                              /\ FromTable(u)' <=> FromTable(u)
                              /\ pc'[u] = pc[u] /\ on'[u] = on[u] /\ then'[u] = then[u]
                              /\ handle'[u] = handle[u]
  BY <1>6, OtherTasks DEF TaskStep
<1>12. \A u \in Tasks \ {t} : FromTable(u) => handle[u] # n
  BY <1>0, <1>2, <1>n, HandlesApart
<1>13. \A u \in Tasks \ {t} : ~(Inside(u) /\ on[u] = c)
  BY <1>0, <1>2, <1>3 DEF Alone
<1>14. \A k \in Handles \ {n} : ~Names(k, c)
  BY <1>0, <1>2, <1>3, <1>n DEF Named, NamedOK
<1>15. /\ id2handle'[n] = c /\ \A k \in Handles \ {n} : id2handle'[k] = id2handle[k]
  BY <1>0, <1>1, <1>3 DEF TableTypeOK
<1>16. \A k \in Handles : /\ Controlled(k)' => Controlled(k)
                          /\ k # n => (Controlled(k)' <=> Controlled(k))
                          /\ Dangling(k)' <=> Dangling(k)
  <2>1. \A k \in Handles : /\ Controlled(k)' => Controlled(k)
                           /\ k # n => (Controlled(k)' <=> Controlled(k))
    BY <1>8, <1>11, <1>n DEF Controlled
  <2>2. \A k \in Handles : Dangling(k)' <=> Dangling(k)
    BY <1>1, <1>6, <1>11 DEF Dangling
  <2> QED
    BY <2>1, <2>2
<1>17. ~Dangling(n)
  <2> SUFFICES ASSUME NEW u \in Tasks, pc[u] = "forget", handle[u] = n PROVE FALSE
    BY DEF Dangling
  <2>1. FromTable(u) /\ u # t
    BY <1>0, <1>1 DEF Places, Place, FromTable
  <2> QED
    BY <1>12, <2>1
<1>18. /\ \A k \in Handles \ {n}, ch \in Channels : Names(k, ch)' <=> Names(k, ch)
       /\ \A ch \in Channels : Names(n, ch)' <=> ch = c
       /\ \A ch \in Pool : ~Names(n, ch)
  <2>1. \A k \in Handles \ {n}, ch \in Channels : Names(k, ch)' <=> Names(k, ch)
    BY <1>15, <1>16 DEF Names
  <2>3. \A ch \in Channels : Names(n, ch)' <=> ch = c
    BY <1>15, <1>16, <1>17, <1>4 DEF Names
  <2>4. \A ch \in Pool : ~Names(n, ch)
    BY <1>4, UsersAssumption DEF Names
  <2> QED
    BY <2>1, <2>3, <2>4
<1>19. Alone'
  BY <1>0, <1>8, <1>11 DEF Alone
<1>20. Emptied'
  <2>1. \A u \in Tasks \ {t} : FromTable(u) => id2handle'[handle[u]] = id2handle[handle[u]]
    BY <1>0, <1>12, <1>15 DEF TableTypeOK
  <2>2. \A u \in Tasks : then[u] \in {"reopen", "close", "delete"} => FromTable(u)
    BY DEF FromTable
  <2>3. pc'[t] # "new" /\ ~Inside(t)'
    BY <1>6, <1>8
  <2> QED
    BY <1>0, <1>11, <2>1, <2>2, <2>3 DEF Emptied
<1>21. Named'
  <2> SUFFICES ASSUME NEW k \in Handles, NEW ch \in Pool, Names(k, ch)' PROVE NamedOK(k, ch)'
    BY DEF Named
  <2>0. ch \in Channels
    BY UsersAssumption
  <2>1. CASE k = n
    <3>1. ch = c
      BY <1>18, <2>0, <2>1
    <3>2. \A j \in Handles \ {k} : ~Names(j, ch)'
      BY <1>14, <1>18, <2>0, <2>1, <3>1
    <3>3. \A u \in Tasks : ~(Inside(u)' /\ on'[u] = ch)
      BY <1>8, <1>11, <1>13, <3>1
    <3> QED
      BY <1>1, <1>4, <3>1, <3>2, <3>3 DEF NamedOK, channel
  <2>2. CASE k # n
    <3>1. NamedOK(k, ch)
      BY <1>0, <1>18, <2>0, <2>2 DEF Named
    <3>2. ch # c
      BY <1>2, <1>3, <1>n, <2>2, <3>1 DEF NamedOK
    <3>3. \A j \in Handles \ {k} : ~Names(j, ch)'
      BY <1>18, <2>0, <3>1, <3>2 DEF NamedOK
    <3>4. \A u \in Tasks : Inside(u)' /\ on'[u] = ch => handle'[u] = k /\ FromTable(u)'
      BY <1>8, <1>11, <3>1 DEF NamedOK
    <3>5. Controlled(k)' <=> Controlled(k)
      BY <1>16, <2>2
    <3> QED
      BY <1>1, <3>1, <3>3, <3>4, <3>5 DEF NamedOK, channel
  <2> QED
    BY <2>1, <2>2
<1>22. Undisturbed'
  <2> SUFFICES ASSUME NEW u \in Tasks, pc'[u] = "io", u \notin raced'
               PROVE  (/\ ~Controlled(handle[u])
                       /\ id2handle[handle[u]] = on[u] /\ on[u] \in Pool)'
    BY DEF Undisturbed
  <2>1. u # t /\ pc[u] = "io" /\ u \notin raced /\ handle'[u] = handle[u] /\ on'[u] = on[u]
    BY <1>1, <1>6, <1>11
  <2>2. PICK k \in Handles : k = handle[u]
    BY <1>0 DEF TableTypeOK
  <2>3. ~Controlled(k) /\ id2handle[k] = on[u] /\ on[u] \in Pool
    BY <1>0, <2>1, <2>2 DEF Undisturbed
  <2>4. k # n
    BY <1>2, <1>n, <2>3 DEF Controlled
  <2>5. Controlled(handle[u])' => Controlled(k)'
    BY <2>1, <2>2 DEF Controlled
  <2>6. ~Controlled(handle[u])'
    BY <1>16, <2>3, <2>5
  <2> QED
    BY <1>15, <2>1, <2>2, <2>3, <2>4, <2>6
<1>23. Owned'
  <2>1. \A ch \in Channels : Bare(ch)' <=> Bare(ch)
    BY <1>1 DEF Bare, Live, channel
  <2> SUFFICES ASSUME NEW ch \in Channels, (fd[ch] \/ ~Bare(ch))'
               PROVE  (\/ \E k \in Handles : Names(k, ch)
                       \/ \E u \in Tasks : Inside(u) /\ on[u] = ch
                       \/ ch = Shared /\ holders # {})'
    BY DEF Owned
  <2>2. fd[ch] \/ ~Bare(ch)
    BY <1>1, <2>1 DEF channel
  <2>3. CASE ch = c
    BY <1>4, <1>18, <2>3
  <2>4. CASE ch # c
    <3>1. \A u \in Tasks : Inside(u) /\ on[u] = ch => Inside(u)' /\ on'[u] = ch
      BY <1>3, <1>11, <2>4
    <3>2. \A k \in Handles : Names(k, ch) => Names(k, ch)'
      BY <1>4, <1>18, <2>4, UsersAssumption DEF Names
    <3>3. holders' = holders
      BY <1>1 DEF sharing
    <3> QED
      BY <1>0, <2>2, <3>1, <3>2, <3>3 DEF Owned
  <2> QED
    BY <2>3, <2>4
<1> QED
  BY <1>7, <1>10, <1>19, <1>20, <1>21, <1>22, <1>23 DEF UsersInv

(* The table is told that the channel is gone. *)
LEMMA ForgetKeeps ==
  ASSUME UsersInv, NEW t \in Tasks, Forget(t), UNCHANGED sharing
  PROVE  UsersInv'
<1>0. /\ TypeOK /\ ChannelTypeOK /\ TableTypeOK /\ Places /\ Alone /\ Emptied /\ Named
      /\ Undisturbed /\ Threads /\ Phases /\ Owned /\ Readiness
  BY DEF UsersInv, TypeOK
<1>1. PICK n \in Handles : n = handle[t]
  BY <1>0 DEF TableTypeOK
<1>2. /\ pc[t] = "forget" /\ then[t] \in {"reopen", "delete"}
      /\ id2handle' = [id2handle EXCEPT ![n] = NoChannel]
      /\ UNCHANGED <<channel, alive, raced, sharing>>
  BY <1>0, <1>1 DEF Forget, Places, Place
<1>3. \/ /\ then[t] = "delete" /\ pc' = [pc EXCEPT ![t] = "idle"]
         /\ on' = [on EXCEPT ![t] = SomeChannel] /\ half' = [half EXCEPT ![t] = 1]
         /\ then' = [then EXCEPT ![t] = "none"] /\ handle' = [handle EXCEPT ![t] = SomeHandle]
      \/ /\ then[t] = "reopen" /\ pc' = [pc EXCEPT ![t] = "new"]
         /\ UNCHANGED <<on, half, then, handle>>
  BY <1>2 DEF Forget, Return, Leave, Goto
<1>4. /\ FromTable(t) /\ ~ForProtocol(t) /\ InControl(t) /\ ~Inside(t)
  BY <1>2 DEF Inside, InsideAt, FromTable, ForProtocol, InControl
<1>5. 1 \in 1..(Len(Halves) + 1)
  BY RestOfHalves
<1>6. TaskStep(t) /\ \/ pc'[t] = "idle" /\ then'[t] = "none"
                     \/ pc'[t] = "new" /\ then'[t] = "reopen" /\ handle'[t] = n
  <2>1. CASE then[t] = "delete"
    BY <1>0, <1>2, <1>3, <2>1
       DEF TaskStep, TypeOK, ChannelTypeOK, TableTypeOK, Places, ThenTypeOK
  <2>2. CASE then[t] = "reopen"
    BY <1>0, <1>1, <1>2, <1>3, <2>2 DEF TaskStep, TypeOK
  <2> QED
    BY <1>2, <2>1, <2>2
<1>7. TypeOK' /\ ThenTypeOK'
  <2>1. id2handle' \in [Handles -> Pool \cup {NoChannel}] /\ alive' = alive /\ raced' = raced
    BY <1>0, <1>2 DEF TableTypeOK
  <2>2. SharingTypeOK'
    BY <1>0, <1>2 DEF TypeOK, SharingTypeOK, sharing
  <2>3. CASE then[t] = "delete"
    <3>1. on' \in [Tasks -> Channels] /\ half' \in [Tasks -> 1..(Len(Halves) + 1)]
      BY <1>0, <1>3, <1>5, <2>3, SomeMembers DEF ChannelTypeOK
    <3>2. handle' \in [Tasks -> Handles] /\ ThenTypeOK'
      BY <1>0, <1>3, <2>3, SomeMembers DEF TableTypeOK, Places, ThenTypeOK
    <3> QED
      BY <1>0, <1>2, <1>3, <2>1, <2>2, <2>3, <3>1, <3>2
         DEF TypeOK, ChannelTypeOK, TableTypeOK, channel
  <2>4. CASE then[t] = "reopen"
    BY <1>0, <1>2, <1>3, <2>1, <2>2, <2>4
       DEF TypeOK, ChannelTypeOK, TableTypeOK, channel, Places, ThenTypeOK
  <2> QED
    BY <1>2, <2>3, <2>4
<1>8. ~ForProtocol(t)' /\ ~Inside(t)'
  BY <1>6 DEF ForProtocol, Inside, InsideAt
<1>9. Place(t)'
  <2>1. n \in Opens[t]
    BY <1>0, <1>1, <1>4 DEF Places, Place
  <2> QED
    BY <1>6, <1>8, <2>1 DEF Place, FromTable, InitAt, DeinitAt
<1>10. PhaseOK(t)'
  BY <1>6 DEF PhaseOK
<1>11. Places' /\ Threads' /\ Phases' /\ Readiness'
  <2>1. pc'[t] \in {"idle", "new"}
    BY <1>6
  <2> QED
    BY <1>2, <1>4, <1>6, <1>7, <1>8, <1>9, <1>10, <2>1, TableKeeps DEF TableStill
<1>12. \A u \in Tasks \ {t} : /\ Inside(u)' <=> Inside(u)
                              /\ InControl(u)' <=> InControl(u)
                              /\ FromTable(u)' <=> FromTable(u)
                              /\ pc'[u] = pc[u] /\ on'[u] = on[u] /\ then'[u] = then[u]
                              /\ handle'[u] = handle[u]
  BY <1>6, OtherTasks DEF TaskStep
<1>13. \A u \in Tasks \ {t} : FromTable(u) => handle[u] # n
  BY <1>0, <1>1, <1>4, HandlesApart
<1>14. id2handle'[n] = NoChannel /\ \A k \in Handles \ {n} : id2handle'[k] = id2handle[k]
  BY <1>0, <1>2 DEF TableTypeOK
<1>15. Dangling(n) /\ Controlled(n)
  BY <1>1, <1>2, <1>4 DEF Dangling, Controlled
<1>16. \A k \in Handles \ {n} : /\ Controlled(k)' <=> Controlled(k)
                                /\ Dangling(k)' <=> Dangling(k)
  <2>1. FromTable(t)' => handle'[t] = n
    BY <1>6 DEF FromTable
  <2>2. \A k \in Handles \ {n} : Controlled(k)' <=> Controlled(k)
    BY <1>1, <1>12, <2>1 DEF Controlled
  <2>3. pc'[t] # "forget"
    BY <1>6
  <2>4. \A k \in Handles \ {n} : Dangling(k)' <=> Dangling(k)
    BY <1>1, <1>12, <2>3 DEF Dangling
  <2> QED
    BY <2>2, <2>4
<1>17. \A k \in Handles, ch \in Channels : Names(k, ch)' <=> Names(k, ch)
  <2>1. \A ch \in Channels : ~Names(n, ch)' /\ ~Names(n, ch)
    BY <1>14, <1>15, UsersAssumption DEF Names
  <2>2. \A k \in Handles \ {n}, ch \in Channels : Names(k, ch)' <=> Names(k, ch)
    BY <1>14, <1>16 DEF Names
  <2> QED
    BY <2>1, <2>2
<1>18. Alone'
  BY <1>0, <1>8, <1>12 DEF Alone
<1>19. Emptied'
  <2>1. \A u \in Tasks \ {t} : FromTable(u) => id2handle'[handle[u]] = id2handle[handle[u]]
    BY <1>0, <1>13, <1>14 DEF TableTypeOK
  <2>2. \A u \in Tasks : then[u] \in {"reopen", "close", "delete"} => FromTable(u)
    BY DEF FromTable
  <2>3. pc'[t] = "new" => id2handle'[handle'[t]] = NoChannel
    BY <1>6, <1>14
  <2> QED
    BY <1>0, <1>8, <1>12, <2>1, <2>2, <2>3 DEF Emptied
<1>20. Named'
  <2> SUFFICES ASSUME NEW k \in Handles, NEW ch \in Pool, Names(k, ch)' PROVE NamedOK(k, ch)'
    BY DEF Named
  <2>1. NamedOK(k, ch) /\ ch \in Channels /\ k # n
    BY <1>0, <1>15, <1>17, UsersAssumption DEF Named, Names
  <2>2. \A u \in Tasks : Inside(u)' /\ on'[u] = ch => handle'[u] = k /\ FromTable(u)'
    BY <1>8, <1>12, <2>1 DEF NamedOK
  <2> QED
    BY <1>2, <1>16, <1>17, <2>1, <2>2 DEF NamedOK, channel
<1>21. Undisturbed'
  <2> SUFFICES ASSUME NEW u \in Tasks, pc'[u] = "io", u \notin raced'
               PROVE  (/\ ~Controlled(handle[u])
                       /\ id2handle[handle[u]] = on[u] /\ on[u] \in Pool)'
    BY DEF Undisturbed
  <2>1. u # t /\ pc[u] = "io" /\ u \notin raced /\ handle'[u] = handle[u] /\ on'[u] = on[u]
    BY <1>2, <1>6, <1>12
  <2>2. PICK k \in Handles : k = handle[u]
    BY <1>0 DEF TableTypeOK
  <2>3. ~Controlled(k) /\ id2handle[k] = on[u] /\ on[u] \in Pool /\ k # n
    BY <1>0, <1>15, <2>1, <2>2 DEF Undisturbed
  <2>4. Controlled(handle[u])' => Controlled(k)'
    BY <2>1, <2>2 DEF Controlled
  <2>5. ~Controlled(handle[u])'
    BY <1>16, <2>3, <2>4
  <2> QED
    BY <1>14, <2>1, <2>2, <2>3, <2>5
<1>22. Owned'
  <2>1. \A ch \in Channels : Bare(ch)' <=> Bare(ch)
    BY <1>2 DEF Bare, Live, channel
  <2>2. \A u \in Tasks, ch \in Channels : Inside(u) /\ on[u] = ch => Inside(u)' /\ on'[u] = ch
    BY <1>4, <1>12
  <2> QED
    BY <1>0, <1>2, <1>17, <2>1, <2>2 DEF Owned, channel, sharing
<1> QED
  BY <1>7, <1>11, <1>18, <1>19, <1>20, <1>21, <1>22 DEF UsersInv

-----------------------------------------------------------------------------
(* A channel is constructed, or deleted. *)

(* What a step keeps that constructs or deletes a channel nobody else is   *)
(* inside.                                                                 *)
LEMMA TurnoverKeeps ==
  ASSUME UsersInv, NEW t \in Tasks, NEW ch \in Pool, TaskStep(t), UNCHANGED sharing,
         TypeOK', ThenTypeOK', Place(t)', PhaseOK(t)', ~ForProtocol(t), ~ForProtocol(t)',
         pc[t] \notin {"configure", "create", "free", "wake", "join"},
         pc'[t] \notin {"configure", "create", "free", "wake", "join"},
         \A u \in Tasks \ {t} : ~(Inside(u) /\ on[u] = ch),
         \A c \in Channels \ {ch} : SameChannel(c),
         ~fd'[ch], ch \notin leftOpen', Bare(ch)', alive \ {ch} \subseteq alive'
  PROVE  Places' /\ Threads' /\ Phases' /\ Readiness'
<1>0. /\ TypeOK /\ ChannelTypeOK /\ Places /\ Threads /\ Phases /\ Readiness
  BY DEF UsersInv, TypeOK
<1>1. /\ holders' = holders /\ ready' = ready /\ proto' = proto
      /\ \A u \in Tasks \ {t} : /\ pc'[u] = pc[u] /\ on'[u] = on[u] /\ half'[u] = half[u]
                                /\ then'[u] = then[u] /\ handle'[u] = handle[u]
  BY DEF TaskStep, sharing
<1>2. \A u \in Tasks \ {t} : /\ Inside(u)' <=> Inside(u)
                             /\ FromTable(u)' <=> FromTable(u)
                             /\ ForProtocol(u)' <=> ForProtocol(u)
                             /\ Rest(u)' = Rest(u)
  BY OtherTasks
<1>3. Places'
  <2> SUFFICES ASSUME NEW u \in Tasks \ {t} PROVE Place(u)'
    BY DEF Places
  <2>1. Place(u)
    BY <1>0 DEF Places
  <2>2. FromTable(u)' /\ Inside(u)' => on'[u] \in alive'
    BY <1>1, <1>2, <2>1 DEF Place
  <2> QED
    BY <1>1, <1>2, <2>1, <2>2 DEF Place
<1>4. Threads'
  <2> SUFFICES ASSUME NEW c \in Channels PROVE ThreadsOK(c)'
    BY DEF Threads
  <2>1. CASE c = ch
    BY <2>1 DEF ThreadsOK, Bare
  <2>2. CASE c # ch
    <3>1. ThreadsOK(c) /\ SameChannel(c)
      BY <1>0, <2>2 DEF Threads
    <3>2. \A u \in Tasks, h \in Half : Taking(u, c, h) => Taking(u, c, h)'
      BY <1>1, <1>2 DEF Taking
    <3>3. \A u \in Tasks : on[u] = c /\ pc[u] \in {"configure", "create"} =>
                             on'[u] = c /\ pc'[u] \in {"configure", "create"}
      BY <1>1
    <3>4. \A h \in Half : /\ Live(c, h)' <=> Live(c, h)
                          /\ service'[c][h] = service[c][h] /\ pid'[c][h] = pid[c][h]
      BY <3>1 DEF SameChannel, Live
    <3>5. (Bare(c)' <=> Bare(c)) /\ (Running(c)' <=> Running(c))
      BY <3>1, <3>4 DEF Bare, Running, SameChannel
    <3> QED
      BY <3>1, <3>2, <3>3, <3>4, <3>5 DEF ThreadsOK, SameChannel
  <2> QED
    BY <2>1, <2>2
<1>5. Phases'
  <2> SUFFICES ASSUME NEW u \in Tasks, u # t PROVE PhaseOK(u)'
    BY DEF Phases
  <2>1. CASE on[u] = ch
    <3>1. ~Inside(u)'
      BY <1>2, <2>1
    <3> QED
      BY <3>1 DEF PhaseOK, Inside, InsideAt
  <2>2. CASE on[u] # ch
    <3>1. PhaseOK(u) /\ on[u] \in Channels /\ SameChannel(on[u])
      BY <1>0, <2>2 DEF Phases, ChannelTypeOK
    <3> QED
      BY <1>1, <3>1, SamePhase
  <2> QED
    BY <2>1, <2>2
<1>6. Readiness'
  <2>1. fd'[Shared] = fd[Shared]
    BY UsersAssumption DEF SameChannel
  <2>2. (then'[Master] = then[Master] /\ pc'[Master] = pc[Master]) \/ t = Master
    BY <1>1, UsersAssumption
  <2> QED
    BY <1>0, <1>1, <2>1, <2>2 DEF Readiness, ForProtocol
<1> QED
  BY <1>3, <1>4, <1>5, <1>6

(* popen_serial creates a channel. *)
LEMMA NewChannelKeeps ==
  ASSUME UsersInv, NEW t \in Tasks, NewChannel(t), UNCHANGED sharing
  PROVE  UsersInv'
<1>0. /\ TypeOK /\ ChannelTypeOK /\ TableTypeOK /\ Places /\ Alone /\ Emptied /\ Named
      /\ Undisturbed /\ Threads /\ Phases /\ Owned /\ Readiness
  BY DEF UsersInv, TypeOK
<1>1. PICK ch \in Pool \ alive :
        /\ alive' = alive \cup {ch} /\ Construct(ch) /\ Enter(t, "open", ch, "open")
  BY DEF NewChannel
<1>2. /\ pc[t] = "new" /\ pc' = [pc EXCEPT ![t] = "open"] /\ on' = [on EXCEPT ![t] = ch]
      /\ then' = [then EXCEPT ![t] = "open"] /\ half' = half
      /\ id2handle' = id2handle /\ handle' = handle /\ raced' = raced
      /\ then[t] \in {"open", "reopen"} /\ ch \in Channels /\ ch # Shared
  BY <1>0, <1>1, UsersAssumption, ZenonT(40) DEF NewChannel, Enter, Goto, Places, Place
<1>3. /\ TaskStep(t) /\ pc'[t] = "open" /\ then'[t] = "open" /\ on'[t] = ch
      /\ handle'[t] = handle[t]
  BY <1>0, <1>2 DEF TaskStep, TypeOK, ChannelTypeOK, TableTypeOK, Places, ThenTypeOK
<1>4. /\ FromTable(t) /\ ~ForProtocol(t) /\ InControl(t) /\ ~Inside(t)
      /\ FromTable(t)' /\ ~ForProtocol(t)' /\ InControl(t)' /\ Inside(t)'
  BY <1>2, <1>3 DEF Inside, InsideAt, FromTable, ForProtocol, InControl
<1>5. \A u \in Tasks : ~(Inside(u) /\ on[u] = ch)
  BY <1>0, <1>1, <1>2, InsideFor
<1>6. \A k \in Handles : ~Names(k, ch)
  BY <1>0, <1>1 DEF Named, NamedOK
<1>7. ChannelTypeOK'
  <2>1. pid' \in [Channels -> [Half -> BOOLEAN]]
    BY <1>0, <1>1 DEF Construct, ChannelTypeOK
  <2>2. service' \in [Channels -> [Half -> {"none", "failed", "top", "working", "tested",
                                            "asleep", "woken", "done"}]]
    BY <1>0, <1>1 DEF Construct, ChannelTypeOK
  <2> QED
    BY <1>0, <1>1, <1>2, <2>1, <2>2 DEF Construct, ChannelTypeOK
<1>8. TypeOK' /\ ThenTypeOK'
  BY <1>0, <1>1, <1>2, <1>7 DEF TypeOK, TableTypeOK, SharingTypeOK, sharing, Places, ThenTypeOK
<1>9. /\ ~fd'[ch] /\ ch \notin leftOpen' /\ \A h \in Half : service'[ch][h] = "none"
      /\ \A c \in Channels \ {ch} : SameChannel(c)
  BY <1>0, <1>1, <1>2 DEF Construct, ChannelTypeOK, SameChannel
<1>10. Bare(ch)'
  BY <1>9 DEF Bare, Live
<1>11. PhaseOK(t)'
  BY <1>3, <1>9 DEF PhaseOK
<1>12. Place(t)'
  <2>1. handle[t] \in Opens[t] /\ ch \in alive'
    BY <1>0, <1>1, <1>4 DEF Places, Place
  <2> QED
    BY <1>3, <1>4, <2>1 DEF Place, InitAt, DeinitAt
<1>13. Places' /\ Threads' /\ Phases' /\ Readiness'
  <2>1. pc[t] \notin {"configure", "create", "free", "wake", "join"}
        /\ pc'[t] \notin {"configure", "create", "free", "wake", "join"}
        /\ alive \ {ch} \subseteq alive' /\ ch \in Pool
    BY <1>1, <1>2, <1>3
  <2> QED
    BY <1>3, <1>4, <1>5, <1>8, <1>9, <1>10, <1>11, <1>12, <2>1, TurnoverKeeps
<1>14. \A u \in Tasks \ {t} : /\ Inside(u)' <=> Inside(u)
                              /\ InControl(u)' <=> InControl(u)
                              /\ FromTable(u)' <=> FromTable(u)
                              /\ pc'[u] = pc[u] /\ on'[u] = on[u] /\ then'[u] = then[u]
                              /\ handle'[u] = handle[u]
  BY <1>3, OtherTasks DEF TaskStep
<1>15. \A k \in Handles : /\ Controlled(k)' <=> Controlled(k)
                          /\ Dangling(k)' <=> Dangling(k)
  <2>1. \A k \in Handles : Controlled(k)' <=> Controlled(k)
    BY <1>3, <1>4, <1>14 DEF Controlled
  <2>2. \A k \in Handles : Dangling(k)' <=> Dangling(k)
    BY <1>2, <1>3, <1>14 DEF Dangling
  <2> QED
    BY <2>1, <2>2
<1>16. \A k \in Handles, c \in Channels : Names(k, c)' <=> Names(k, c)
  BY <1>2, <1>15 DEF Names
<1>17. Alone'
  BY <1>0, <1>3, <1>5, <1>14 DEF Alone
<1>18. Emptied'
  <2>1. id2handle[handle[t]] = NoChannel
    BY <1>0, <1>2, <1>4 DEF Emptied
  <2> QED
    BY <1>0, <1>2, <1>3, <1>14, <2>1 DEF Emptied
<1>19. Named'
  <2> SUFFICES ASSUME NEW k \in Handles, NEW c \in Pool, Names(k, c)' PROVE NamedOK(k, c)'
    BY DEF Named
  <2>1. NamedOK(k, c) /\ c \in Channels /\ c # ch
    BY <1>0, <1>6, <1>16, UsersAssumption DEF Named
  <2>2. \A u \in Tasks : Inside(u)' /\ on'[u] = c => handle'[u] = k /\ FromTable(u)'
    BY <1>3, <1>14, <2>1 DEF NamedOK
  <2>3. SameChannel(c) /\ c \in alive'
    BY <1>1, <1>9, <2>1 DEF NamedOK
  <2> QED
    BY <1>15, <1>16, <2>1, <2>2, <2>3 DEF NamedOK, SameChannel
<1>20. Undisturbed'
  <2> SUFFICES ASSUME NEW u \in Tasks, pc'[u] = "io", u \notin raced'
               PROVE  (/\ ~Controlled(handle[u])
                       /\ id2handle[handle[u]] = on[u] /\ on[u] \in Pool)'
    BY DEF Undisturbed
  <2>1. u # t /\ pc[u] = "io" /\ u \notin raced /\ handle'[u] = handle[u] /\ on'[u] = on[u]
    BY <1>2, <1>3, <1>14
  <2>2. PICK k \in Handles : k = handle[u]
    BY <1>0 DEF TableTypeOK
  <2>3. ~Controlled(k) /\ id2handle[k] = on[u] /\ on[u] \in Pool
    BY <1>0, <2>1, <2>2 DEF Undisturbed
  <2>4. Controlled(handle[u])' => Controlled(k)'
    BY <2>1, <2>2 DEF Controlled
  <2> QED
    BY <1>2, <1>15, <2>1, <2>2, <2>3, <2>4
<1>21. Owned'
  <2> SUFFICES ASSUME NEW c \in Channels, (fd[c] \/ ~Bare(c))'
               PROVE  (\/ \E k \in Handles : Names(k, c)
                       \/ \E u \in Tasks : Inside(u) /\ on[u] = c
                       \/ c = Shared /\ holders # {})'
    BY DEF Owned
  <2>1. c # ch
    BY <1>9, <1>10
  <2>2. SameChannel(c)
    BY <1>9, <2>1
  <2>3. fd[c] \/ ~Bare(c)
    BY <2>2 DEF SameChannel, Bare, Live
  <2>4. \A u \in Tasks : Inside(u) /\ on[u] = c => Inside(u)' /\ on'[u] = c
    BY <1>4, <1>14
  <2> QED
    BY <1>0, <1>16, <2>3, <2>4 DEF Owned, sharing
<1> QED
  BY <1>8, <1>13, <1>17, <1>18, <1>19, <1>20, <1>21 DEF UsersInv

(* What is left of a channel that is destroyed. *)
LEMMA DestroyTyped ==
  ASSUME ChannelTypeOK, NEW ch \in Channels, Destroy(ch)
  PROVE  /\ fd' \in [Channels -> BOOLEAN] /\ ring' \in [Channels -> BOOLEAN]
         /\ exit' \in [Channels -> BOOLEAN] /\ pid' \in [Channels -> [Half -> BOOLEAN]]
         /\ service' \in [Channels -> [Half -> {"none", "failed", "top", "working", "tested",
                                                "asleep", "woken", "done"}]]
         /\ leftOpen' \subseteq Channels /\ missed' \subseteq Channels
         /\ ch \notin leftOpen' /\ fd'[ch] = fd[ch]
         /\ \A h \in Half : Live(ch, h)' => Live(ch, h)
         /\ \A c \in Channels \ {ch} : SameChannel(c)
<1>1. pid' \in [Channels -> [Half -> BOOLEAN]]
  BY DEF Destroy, ChannelTypeOK
<1> DEFINE S == {"none", "failed", "top", "working", "tested", "asleep", "woken", "done"}
           new == [h \in Half |-> IF service[ch][h] \in {"failed", "done"} THEN "none"
                                  ELSE service[ch][h]]
<1>2. service' = [service EXCEPT ![ch] = new]
  BY DEF Destroy
<1>3. new \in [Half -> S]
  BY DEF ChannelTypeOK
<1>4. service' \in [Channels -> [Half -> S]]
  BY <1>2, <1>3 DEF ChannelTypeOK
<1>5. \A h \in Half : service'[ch][h] = IF service[ch][h] \in {"failed", "done"} THEN "none"
                                        ELSE service[ch][h]
  BY <1>2 DEF ChannelTypeOK
<1>6. \A h \in Half : Live(ch, h)' => Live(ch, h)
  BY <1>5 DEF Live
<1>7. \A c \in Channels \ {ch} : SameChannel(c)
  BY <1>2 DEF Destroy, SameChannel, ChannelTypeOK
<1> QED
  BY <1>1, <1>4, <1>6, <1>7 DEF Destroy, ChannelTypeOK

(* The channel has been deleted, its handle not cleared yet. *)
LEMMA DeletedKeeps ==
  ASSUME UsersInv, NEW t \in Tasks, Deleted(t), UNCHANGED sharing
  PROVE  UsersInv'
<1>0. /\ TypeOK /\ ChannelTypeOK /\ TableTypeOK /\ Places /\ Alone /\ Emptied /\ Named
      /\ Undisturbed /\ Threads /\ Phases /\ Owned /\ Readiness
  BY DEF UsersInv, TypeOK
<1>1. PICK n \in Handles : n = handle[t]
  BY <1>0 DEF TableTypeOK
<1>2. pc[t] = "deinited" /\ then[t] \in {"reopen", "failed", "delete"}
  BY DEF Deleted
<1>3. /\ FromTable(t) /\ ~ForProtocol(t) /\ InControl(t) /\ Inside(t)
  BY <1>2 DEF Inside, InsideAt, FromTable, ForProtocol, InControl
<1>4. PICK ch \in Pool : ch = on[t] /\ ch \in Channels /\ ch # Shared
  BY <1>0, <1>3, InsideFor, UsersAssumption DEF TableTypeOK
<1>5. /\ alive' = alive \ {ch} /\ Destroy(ch)
      /\ id2handle' = id2handle /\ raced' = raced
  BY <1>4 DEF Deleted
<1>6. \/ /\ then[t] = "failed" /\ pc' = [pc EXCEPT ![t] = "idle"]
         /\ on' = [on EXCEPT ![t] = SomeChannel] /\ half' = [half EXCEPT ![t] = 1]
         /\ then' = [then EXCEPT ![t] = "none"] /\ handle' = [handle EXCEPT ![t] = SomeHandle]
      \/ /\ then[t] \in {"reopen", "delete"} /\ pc' = [pc EXCEPT ![t] = "forget"]
         /\ UNCHANGED <<on, half, then, handle>>
  BY <1>2 DEF Deleted, Return, Leave, Goto
<1>7. 1 \in 1..(Len(Halves) + 1)
  BY RestOfHalves
<1>8. TaskStep(t) /\ \/ then[t] = "failed" /\ pc'[t] = "idle" /\ then'[t] = "none"
                     \/ /\ then[t] \in {"reopen", "delete"} /\ pc'[t] = "forget"
                        /\ then'[t] = then[t] /\ handle'[t] = n
  <2>1. CASE then[t] = "failed"
    BY <1>0, <1>2, <1>6, <2>1
       DEF TaskStep, TypeOK, ChannelTypeOK, TableTypeOK, Places, ThenTypeOK
  <2>2. CASE then[t] # "failed"
    BY <1>0, <1>1, <1>2, <1>6, <2>2 DEF TaskStep, TypeOK
  <2> QED
    BY <2>1, <2>2
<1>9. TypeOK' /\ ThenTypeOK'
  <2>1. TableTypeOK' <=> handle' \in [Tasks -> Handles]
    BY <1>0, <1>5 DEF TableTypeOK
  <2>2. SharingTypeOK'
    BY <1>0 DEF TypeOK, SharingTypeOK, sharing
  <2>3. ChannelTypeOK' <=> on' \in [Tasks -> Channels] /\ half' \in [Tasks -> 1..(Len(Halves) + 1)]
    BY <1>0, <1>4, <1>5, DestroyTyped DEF ChannelTypeOK
  <2>4. CASE then[t] = "failed"
    <3>1. on' \in [Tasks -> Channels] /\ half' \in [Tasks -> 1..(Len(Halves) + 1)]
      BY <1>0, <1>6, <1>7, <2>4, SomeMembers DEF ChannelTypeOK
    <3>2. handle' \in [Tasks -> Handles] /\ ThenTypeOK'
      BY <1>0, <1>6, <2>4, SomeMembers DEF TableTypeOK, Places, ThenTypeOK
    <3> QED
      BY <1>0, <1>2, <1>6, <2>1, <2>2, <2>3, <2>4, <3>1, <3>2 DEF TypeOK
  <2>5. CASE then[t] # "failed"
    BY <1>0, <1>2, <1>6, <2>1, <2>2, <2>3, <2>5
       DEF TypeOK, ChannelTypeOK, TableTypeOK, Places, ThenTypeOK
  <2> QED
    BY <2>4, <2>5
<1>10. ~ForProtocol(t)' /\ ~Inside(t)'
  BY <1>2, <1>8 DEF ForProtocol, Inside, InsideAt
<1>11. Place(t)'
  <2>1. n \in Opens[t]
    BY <1>0, <1>1, <1>3 DEF Places, Place
  <2> QED
    BY <1>8, <1>10, <2>1 DEF Place, FromTable, InitAt, DeinitAt
<1>12. PhaseOK(t)'
  BY <1>8 DEF PhaseOK
<1>13. ~fd[ch] /\ Bare(ch)
  <2>1. PhaseOK(t) /\ \A h \in Half : Live(ch, h) => fd[ch] \/ Taking(t, ch, h)
    BY <1>3, <1>4, OwnChannel
  <2> QED
    BY <1>2, <1>3, <1>4, <2>1 DEF PhaseOK, Taking, Bare
<1>14. /\ ~fd'[ch] /\ ch \notin leftOpen' /\ Bare(ch)'
       /\ \A c \in Channels \ {ch} : SameChannel(c)
  BY <1>0, <1>4, <1>5, <1>13, DestroyTyped DEF Bare
<1>15. \A u \in Tasks \ {t} : ~(Inside(u) /\ on[u] = ch)
  BY <1>0, <1>3, <1>4 DEF Alone
<1>16. Places' /\ Threads' /\ Phases' /\ Readiness'
  <2>1. pc[t] \notin {"configure", "create", "free", "wake", "join"}
        /\ pc'[t] \notin {"configure", "create", "free", "wake", "join"}
        /\ alive \ {ch} \subseteq alive'
    BY <1>2, <1>5, <1>8
  <2> QED
    BY <1>3, <1>8, <1>9, <1>10, <1>11, <1>12, <1>14, <1>15, <2>1, TurnoverKeeps
<1>17. \A u \in Tasks \ {t} : /\ Inside(u)' <=> Inside(u)
                              /\ InControl(u)' <=> InControl(u)
                              /\ FromTable(u)' <=> FromTable(u)
                              /\ pc'[u] = pc[u] /\ on'[u] = on[u] /\ then'[u] = then[u]
                              /\ handle'[u] = handle[u]
  BY <1>8, OtherTasks DEF TaskStep
<1>18. \A k \in Handles \ {n} : /\ Controlled(k)' <=> Controlled(k)
                                /\ Dangling(k)' <=> Dangling(k)
  <2>1. (FromTable(t)' \/ pc'[t] = "forget") => handle'[t] = n
    BY <1>8 DEF FromTable
  <2>2. \A k \in Handles \ {n} : Controlled(k)' <=> Controlled(k)
    BY <1>1, <1>17, <2>1 DEF Controlled
  <2>3. \A k \in Handles \ {n} : Dangling(k)' <=> Dangling(k)
    BY <1>1, <1>17, <2>1 DEF Dangling
  <2> QED
    BY <2>2, <2>3
<1>19. Controlled(n)
  BY <1>1, <1>3 DEF Controlled
<1>20. \A c \in Channels : ~Names(n, c)' /\ (Names(n, c) => c = ch)
  <2>1. CASE then[t] = "failed"
    <3>1. id2handle[n] = NoChannel
      BY <1>0, <1>1, <1>3, <2>1 DEF Emptied
    <3> QED
      BY <1>5, <3>1, UsersAssumption DEF Names
  <2>2. CASE then[t] # "failed"
    <3>1. id2handle[n] = ch
      BY <1>0, <1>1, <1>2, <1>3, <1>4, <2>2 DEF Emptied
    <3>2. pc'[t] = "forget" /\ handle'[t] = n
      BY <1>2, <1>8, <2>2
    <3>3. Dangling(n)'
      BY <3>2 DEF Dangling
    <3> QED
      BY <3>1, <3>3 DEF Names
  <2> QED
    BY <2>1, <2>2
<1>21. \A k \in Handles \ {n} : ~Names(k, ch) /\ \A c \in Channels : Names(k, c)' <=> Names(k, c)
  <2>1. \A k \in Handles \ {n} : ~Names(k, ch)
    BY <1>0, <1>1, <1>3, <1>4 DEF Named, NamedOK
  <2>2. \A k \in Handles \ {n}, c \in Channels : Names(k, c)' <=> Names(k, c)
    BY <1>5, <1>18 DEF Names
  <2> QED
    BY <2>1, <2>2
<1>22. Alone'
  BY <1>0, <1>10, <1>17 DEF Alone
<1>23. Emptied'
  BY <1>0, <1>5, <1>8, <1>10, <1>17 DEF Emptied
<1>24. Named'
  <2> SUFFICES ASSUME NEW k \in Handles, NEW c \in Pool, Names(k, c)' PROVE NamedOK(k, c)'
    BY DEF Named
  <2>1. NamedOK(k, c) /\ c \in Channels /\ k # n /\ c # ch
    BY <1>0, <1>20, <1>21, UsersAssumption DEF Named
  <2>2. \A u \in Tasks : Inside(u)' /\ on'[u] = c => handle'[u] = k /\ FromTable(u)'
    BY <1>10, <1>17, <2>1 DEF NamedOK
  <2>3. SameChannel(c) /\ c \in alive'
    BY <1>5, <1>14, <2>1 DEF NamedOK
  <2>4. \A j \in Handles \ {k} : ~Names(j, c)'
    BY <1>20, <1>21, <2>1 DEF NamedOK
  <2>5. Controlled(k)' <=> Controlled(k)
    BY <1>18, <2>1
  <2> QED
    BY <2>1, <2>2, <2>3, <2>4, <2>5 DEF NamedOK, SameChannel
<1>25. Undisturbed'
  <2> SUFFICES ASSUME NEW u \in Tasks, pc'[u] = "io", u \notin raced'
               PROVE  (/\ ~Controlled(handle[u])
                       /\ id2handle[handle[u]] = on[u] /\ on[u] \in Pool)'
    BY DEF Undisturbed
  <2>1. u # t /\ pc[u] = "io" /\ u \notin raced /\ handle'[u] = handle[u] /\ on'[u] = on[u]
    BY <1>5, <1>8, <1>17
  <2>2. PICK k \in Handles : k = handle[u]
    BY <1>0 DEF TableTypeOK
  <2>3. ~Controlled(k) /\ id2handle[k] = on[u] /\ on[u] \in Pool /\ k # n
    BY <1>0, <1>19, <2>1, <2>2 DEF Undisturbed
  <2>4. Controlled(handle[u])' => Controlled(k)'
    BY <2>1, <2>2 DEF Controlled
  <2> QED
    BY <1>5, <1>18, <2>1, <2>2, <2>3, <2>4
<1>26. Owned'
  <2> SUFFICES ASSUME NEW c \in Channels, (fd[c] \/ ~Bare(c))'
               PROVE  (\/ \E k \in Handles : Names(k, c)
                       \/ \E u \in Tasks : Inside(u) /\ on[u] = c
                       \/ c = Shared /\ holders # {})'
    BY DEF Owned
  <2>1. c # ch
    BY <1>14
  <2>2. SameChannel(c)
    BY <1>14, <2>1
  <2>3. fd[c] \/ ~Bare(c)
    BY <2>2 DEF SameChannel, Bare, Live
  <2>4. \A u \in Tasks : Inside(u) /\ on[u] = c => Inside(u)' /\ on'[u] = c
    BY <1>4, <1>17, <2>1
  <2>5. \A k \in Handles : Names(k, c) => Names(k, c)'
    BY <1>20, <1>21, <2>1
  <2>6. holders' = holders
    BY DEF sharing
  <2> QED
    BY <1>0, <2>3, <2>4, <2>5, <2>6 DEF Owned
<1> QED
  BY <1>9, <1>16, <1>22, <1>23, <1>24, <1>25, <1>26 DEF UsersInv

(* All steps of the C wrapper. *)
LEMMA TableStepKeeps ==
  ASSUME UsersInv, NEW t \in Tasks, TableStep(t), UNCHANGED sharing
  PROVE  UsersInv'
BY PopenKeeps, PcloseKeeps, CallKeeps, NewChannelKeeps, OpenedKeeps, OpenFailedKeeps, ClosedKeeps,
   DeletedKeeps, ForgetKeeps, CallMovesKeeps, CallReturnsKeeps DEF TableStep, ControlStep

-----------------------------------------------------------------------------
(* The protocols: Master's steps between its calls of init and deinit. *)

(* The invariant holds after a step of Master for a protocol if it holds   *)
(* of Shared.                                                              *)
LEMMA SharingKeeps ==
  ASSUME UsersInv, TaskStep(Master), UNCHANGED table, TypeOK', ThenTypeOK',
         Place(Master)', PhaseOK(Master)', ~FromTable(Master), ~FromTable(Master)',
         pc[Master] \notin {"configure", "create", "free", "wake", "join", "io", "forget"},
         pc'[Master] \notin {"configure", "create", "free", "wake", "join", "io", "forget"},
         \A c \in Channels \ {Shared} : SameChannel(c),
         Inside(Master)' => on'[Master] = Shared,
         ThreadsOK(Shared)', Readiness',
         (fd[Shared] \/ ~Bare(Shared))' => Inside(Master)' \/ holders' # {}
  PROVE  UsersInv'
<1>0. /\ TypeOK /\ ChannelTypeOK /\ TableTypeOK /\ Places /\ Alone /\ Emptied /\ Named
      /\ Undisturbed /\ Threads /\ Phases /\ Owned
  BY DEF UsersInv, TypeOK
<1>1. /\ id2handle' = id2handle /\ alive' = alive /\ handle' = handle /\ raced' = raced
      /\ \A u \in Tasks \ {Master} : /\ pc'[u] = pc[u] /\ on'[u] = on[u] /\ half'[u] = half[u]
                                     /\ then'[u] = then[u]
      /\ Master \in Tasks /\ Shared \in Channels /\ Shared \notin Pool
  BY UsersAssumption DEF TaskStep, table
<1>2. \A u \in Tasks \ {Master} : /\ Inside(u)' <=> Inside(u)
                                  /\ InControl(u)' <=> InControl(u)
                                  /\ FromTable(u)' <=> FromTable(u)
                                  /\ Rest(u)' = Rest(u)
  BY <1>1, OtherTasks
<1>3. \A u \in Tasks \ {Master} : ~ForProtocol(u) /\ ~ForProtocol(u)'
                                  /\ (Inside(u) => on[u] # Shared)
  BY <1>0, <1>1, InsideFor DEF Places, Place, ForProtocol
<1>4. Inside(Master) => on[Master] = Shared
  BY <1>0, <1>1, InsideFor
<1>5. \A k \in Handles : /\ Controlled(k)' <=> Controlled(k)
                         /\ Dangling(k)' <=> Dangling(k)
  <2>1. \A k \in Handles : Controlled(k)' <=> Controlled(k)
    BY <1>1, <1>2 DEF Controlled
  <2>2. \A k \in Handles : Dangling(k)' <=> Dangling(k)
    BY <1>1 DEF Dangling
  <2> QED
    BY <2>1, <2>2
<1>6. \A k \in Handles, c \in Channels : Names(k, c)' <=> Names(k, c)
  BY <1>1, <1>5 DEF Names
<1>7. Places'
  <2> SUFFICES ASSUME NEW u \in Tasks \ {Master} PROVE Place(u)'
    BY DEF Places
  <2>1. Place(u)
    BY <1>0 DEF Places
  <2> QED
    BY <1>1, <1>2, <1>3, <2>1 DEF Place
<1>8. Alone'
  BY <1>0, <1>1, <1>2, <1>3 DEF Alone
<1>9. Emptied'
  <2>1. Inside(Master)' => then'[Master] \notin {"open", "failed", "reopen", "close", "delete"}
    BY DEF FromTable
  <2> QED
    BY <1>0, <1>1, <1>2, <2>1 DEF Emptied
<1>10. Named'
  <2> SUFFICES ASSUME NEW k \in Handles, NEW c \in Pool, Names(k, c)' PROVE NamedOK(k, c)'
    BY DEF Named
  <2>1. NamedOK(k, c) /\ c \in Channels /\ c # Shared /\ SameChannel(c)
    BY <1>0, <1>1, <1>6, UsersAssumption DEF Named
  <2>2. \A u \in Tasks : Inside(u)' /\ on'[u] = c => handle'[u] = k /\ FromTable(u)'
    BY <1>1, <1>2, <2>1 DEF NamedOK
  <2> QED
    BY <1>1, <1>5, <1>6, <2>1, <2>2 DEF NamedOK, SameChannel
<1>11. Undisturbed'
  BY <1>0, <1>1, <1>5 DEF Undisturbed, TableTypeOK
<1>12. Threads'
  <2> SUFFICES ASSUME NEW c \in Channels \ {Shared} PROVE ThreadsOK(c)'
    BY DEF Threads
  <2>1. ThreadsOK(c) /\ SameChannel(c)
    BY <1>0 DEF Threads
  <2>2. \A u \in Tasks, h \in Half : Taking(u, c, h) => Taking(u, c, h)'
    BY <1>1, <1>2 DEF Taking
  <2>3. \A u \in Tasks : on[u] = c /\ pc[u] \in {"configure", "create"} =>
                           on'[u] = c /\ pc'[u] \in {"configure", "create"}
    BY <1>1
  <2>4. \A h \in Half : /\ Live(c, h)' <=> Live(c, h)
                        /\ service'[c][h] = service[c][h] /\ pid'[c][h] = pid[c][h]
    BY <2>1 DEF SameChannel, Live
  <2>5. (Bare(c)' <=> Bare(c)) /\ (Running(c)' <=> Running(c))
    BY <2>1, <2>4 DEF Bare, Running, SameChannel
  <2> QED
    BY <2>1, <2>2, <2>3, <2>4, <2>5 DEF ThreadsOK, SameChannel
<1>13. Phases'
  <2> SUFFICES ASSUME NEW u \in Tasks \ {Master} PROVE PhaseOK(u)'
    BY DEF Phases
  <2>1. CASE Inside(u)
    <3>1. PhaseOK(u) /\ on[u] \in Channels /\ SameChannel(on[u]) /\ ~ForProtocol(u)
      BY <1>0, <1>3, <2>1 DEF Phases, ChannelTypeOK
    <3> QED
      BY <1>1, <3>1, SamePhase
  <2>2. CASE ~Inside(u)
    BY <1>1, <2>2 DEF PhaseOK, Inside, InsideAt
  <2> QED
    BY <2>1, <2>2
<1>14. Owned'
  <2> SUFFICES ASSUME NEW c \in Channels, (fd[c] \/ ~Bare(c))'
               PROVE  (\/ \E k \in Handles : Names(k, c)
                       \/ \E u \in Tasks : Inside(u) /\ on[u] = c
                       \/ c = Shared /\ holders # {})'
    BY DEF Owned
  <2>1. CASE c = Shared
    BY <1>1, <2>1
  <2>2. CASE c # Shared
    <3>1. SameChannel(c)
      BY <2>2
    <3>2. fd[c] \/ ~Bare(c)
      BY <3>1 DEF SameChannel, Bare, Live
    <3>3. \A u \in Tasks : Inside(u) /\ on[u] = c => Inside(u)' /\ on'[u] = c
      BY <1>1, <1>2, <1>4, <2>2
    <3> QED
      BY <1>0, <1>6, <2>2, <3>2, <3>3 DEF Owned
  <2> QED
    BY <2>1, <2>2
<1> QED
  BY <1>7, <1>8, <1>9, <1>10, <1>11, <1>12, <1>13, <1>14 DEF UsersInv

(* The threads of the shared channel, when a step does not touch them.     *)
LEMMA SharedStill ==
  ASSUME UsersInv, TaskStep(Master), UNCHANGED channel,
         pc[Master] \notin {"configure", "create", "free", "wake", "join"}
  PROVE  /\ ThreadsOK(Shared)' /\ (Bare(Shared)' <=> Bare(Shared))
         /\ \A c \in Channels : SameChannel(c)
<1>1. ThreadsOK(Shared)
  BY UsersAssumption DEF UsersInv, Threads
<1>2. \A u \in Tasks \ {Master} : pc'[u] = pc[u] /\ on'[u] = on[u] /\ Rest(u)' = Rest(u)
  BY UsersAssumption, OtherTasks DEF TaskStep
<1>3. \A u \in Tasks, h \in Half : Taking(u, Shared, h) => Taking(u, Shared, h)'
  BY <1>2 DEF Taking
<1>4. \A u \in Tasks : on[u] = Shared /\ pc[u] \in {"configure", "create"} =>
                         on'[u] = Shared /\ pc'[u] \in {"configure", "create"}
  BY <1>2
<1>5. /\ (Bare(Shared)' <=> Bare(Shared)) /\ (Running(Shared)' <=> Running(Shared))
      /\ \A h \in Half : Live(Shared, h)' <=> Live(Shared, h)
      /\ UNCHANGED <<fd, ring, exit, pid, service, leftOpen>>
  BY DEF Bare, Running, Live, channel
<1>6. ThreadsOK(Shared)'
  BY <1>1, <1>3, <1>4, <1>5 DEF ThreadsOK
<1> QED
  BY <1>5, <1>6 DEF SameChannel

(* use_count tells whether anybody else has the channel. *)
LEMMA LastUserAlone ==
  ASSUME TypeOK, NEW p \in holders
  PROVE  LastUser <=> holders = {p}
<1>1. IsFiniteSet(holders) /\ {p} \in SUBSET holders
  BY FS_Subset, UsersAssumption DEF TypeOK, SharingTypeOK
<1>2. Cardinality({p}) = 1
  BY FS_Singleton
<1>3. /\ 1 <= Cardinality(holders) /\ Cardinality(holders) \in Nat
      /\ Cardinality(holders) = 1 => holders = {p}
  BY <1>1, <1>2, FS_Subset, FS_CardinalityType
<1>4. Cardinality(holders) + 1 <= 2 <=> Cardinality(holders) = 1
  BY <1>3
<1> QED
  BY <1>2, <1>3, <1>4 DEF LastUser

(* An idle Master is in no channel. *)
LEMMA IdleMaster ==
  ASSUME UsersInv, MasterIdle
  PROVE  /\ Master \in Tasks /\ pc[Master] = "idle" /\ then[Master] = "none"
         /\ ~FromTable(Master) /\ ~ForProtocol(Master) /\ ~Inside(Master)
         /\ ready # {} => fd[Shared]
<1>1. Master \in Tasks /\ pc[Master] = "idle" /\ then[Master] = "none"
  BY UsersAssumption DEF UsersInv, Places, Place, MasterIdle
<1> QED
  BY <1>1 DEF UsersInv, Readiness, FromTable, ForProtocol, Inside, InsideAt

(* A protocol is created, the channel with the first. *)
LEMMA NewProtocolKeeps ==
  ASSUME UsersInv, NEW p \in Protocols, NewProtocol(p), UNCHANGED table
  PROVE  UsersInv'
<1>0. /\ TypeOK /\ ChannelTypeOK /\ Places /\ Phases
  BY DEF UsersInv, TypeOK
<1>1. /\ pc' = pc /\ on' = on /\ half' = half /\ then' = then /\ handle' = handle
      /\ ready' = ready /\ proto' = proto /\ holders' = holders \cup {p}
  BY DEF NewProtocol, task, table
<1>2. /\ Master \in Tasks /\ pc[Master] = "idle" /\ then[Master] = "none"
      /\ ~FromTable(Master) /\ ~ForProtocol(Master) /\ ~Inside(Master)
      /\ ready # {} => fd[Shared]
  BY IdleMaster DEF NewProtocol
<1>3. Shared \in Channels
  BY UsersAssumption
<1>4. TaskStep(Master) /\ ~FromTable(Master)' /\ ThenTypeOK' /\ PhaseOK(Master)'
  BY <1>0, <1>1, <1>2 DEF TaskStep, FromTable, Places, ThenTypeOK, PhaseOK
<1>5. Place(Master)'
  BY <1>1, <1>2 DEF Place, FromTable, ForProtocol, Inside, InsideAt, InitAt, DeinitAt
<1>6. SharingTypeOK'
  BY <1>0, <1>1 DEF TypeOK, SharingTypeOK
<1>7. /\ ChannelTypeOK' /\ ThreadsOK(Shared)' /\ \A c \in Channels \ {Shared} : SameChannel(c)
      /\ ready' # {} => fd'[Shared]
  <2>1. CASE holders = {}
    <3>1. Construct(Shared) /\ ready = {}
      BY <1>0, <2>1 DEF NewProtocol, TypeOK, SharingTypeOK
    <3>2. pid' \in [Channels -> [Half -> BOOLEAN]]
      BY <1>0, <3>1 DEF Construct, ChannelTypeOK
    <3>3. service' \in [Channels -> [Half -> {"none", "failed", "top", "working", "tested",
                                              "asleep", "woken", "done"}]]
      BY <1>0, <3>1 DEF Construct, ChannelTypeOK
    <3>4. ChannelTypeOK'
      BY <1>0, <1>1, <3>1, <3>2, <3>3 DEF Construct, ChannelTypeOK
    <3>5. /\ ~fd'[Shared] /\ Shared \notin leftOpen' /\ \A h \in Half : service'[Shared][h] = "none"
          /\ \A c \in Channels \ {Shared} : SameChannel(c)
      BY <1>0, <1>3, <3>1 DEF Construct, ChannelTypeOK, SameChannel
    <3>6. ThreadsOK(Shared)'
      BY <3>5 DEF ThreadsOK, Live
    <3> QED
      BY <1>1, <3>1, <3>4, <3>5, <3>6
  <2>2. CASE holders # {}
    <3>1. UNCHANGED channel
      BY <2>2 DEF NewProtocol
    <3> QED
      BY <1>0, <1>1, <1>2, <1>4, <3>1, SharedStill DEF ChannelTypeOK, channel
  <2> QED
    BY <2>1, <2>2
<1>8. TypeOK'
  BY <1>0, <1>1, <1>6, <1>7 DEF TypeOK, TableTypeOK, table
<1>9. Readiness'
  BY <1>1, <1>2, <1>7 DEF Readiness
<1>10. ~Inside(Master)' /\ holders' # {}
       /\ pc'[Master] \notin {"configure", "create", "free", "wake", "join", "io", "forget"}
  BY <1>1, <1>2 DEF Inside
<1> QED
  BY <1>2, <1>4, <1>5, <1>7, <1>8, <1>9, <1>10, SharingKeeps

(* Master calls init or deinit, or goes past deinit. *)
LEMMA ProtocolCallKeeps ==
  ASSUME UsersInv, MasterIdle, NEW p \in holders, NEW l, NEW caller,
         \/ l = "open" /\ caller = "init"
         \/ l = "close" /\ caller \in {"deinit", "destroy"} /\ holders = {p}
         \/ l = "deinited" /\ caller \in {"deinit", "destroy"} /\ holders # {p},
         proto' = p, Enter(Master, l, Shared, caller),
         UNCHANGED <<channel, holders, ready, table>>
  PROVE  UsersInv'
<1>0. /\ TypeOK /\ ChannelTypeOK /\ Places /\ Phases
  BY DEF UsersInv, TypeOK
<1>1. /\ pc' = [pc EXCEPT ![Master] = l] /\ on' = [on EXCEPT ![Master] = Shared]
      /\ then' = [then EXCEPT ![Master] = caller] /\ half' = half /\ handle' = handle
      /\ holders' = holders /\ ready' = ready /\ Shared \in Channels
  BY UsersAssumption DEF Enter, Goto, table
<1>2. /\ Master \in Tasks /\ pc[Master] = "idle" /\ then[Master] = "none"
      /\ ~FromTable(Master) /\ (ready # {} => fd[Shared])
  BY IdleMaster
<1>3. /\ TaskStep(Master) /\ pc'[Master] = l /\ then'[Master] = caller
      /\ on'[Master] = Shared
  BY <1>0, <1>1, <1>2 DEF TaskStep, TypeOK, ChannelTypeOK, Places, ThenTypeOK
<1>4. /\ Inside(Master)' /\ ~FromTable(Master)' /\ ForProtocol(Master)'
      /\ l \in {"open", "close", "deinited"}
  BY <1>3 DEF Inside, InsideAt, FromTable, ForProtocol
<1>5. ThenTypeOK' /\ ChannelTypeOK'
  BY <1>0, <1>1 DEF Places, ThenTypeOK, ChannelTypeOK, channel
<1>6. TypeOK'
  <2>1. SharingTypeOK'
    BY <1>0, <1>1 DEF TypeOK, SharingTypeOK
  <2>2. TableTypeOK'
    BY <1>0 DEF TypeOK, TableTypeOK, table
  <2> QED
    BY <1>0, <1>1, <1>4, <1>5, <2>1, <2>2 DEF TypeOK
<1>7. PhaseOK(Master)'
  BY <1>1, <1>3, <1>4 DEF PhaseOK
<1>8. Place(Master)'
  BY <1>1, <1>3, <1>4 DEF Place, InitAt, DeinitAt
<1>9. ThreadsOK(Shared)' /\ \A c \in Channels : SameChannel(c)
  BY <1>2, <1>3, SharedStill
<1>10. Readiness'
  <2>1. fd' = fd
    BY DEF channel
  <2> QED
    BY <1>1, <1>2, <1>3, <2>1 DEF Readiness, DeinitAt
<1>11. /\ pc[Master] \notin {"configure", "create", "free", "wake", "join", "io", "forget"}
       /\ pc'[Master] \notin {"configure", "create", "free", "wake", "join", "io", "forget"}
  BY <1>2, <1>3, <1>4
<1> QED
  BY <1>2, <1>3, <1>4, <1>5, <1>6, <1>7, <1>8, <1>9, <1>10, <1>11, SharingKeeps

(* A protocol inits the channel. *)
LEMMA InitProtocolKeeps ==
  ASSUME UsersInv, NEW p \in Protocols, InitProtocol(p), UNCHANGED table
  PROVE  UsersInv'
BY ProtocolCallKeeps DEF InitProtocol

(* A protocol deinits the channel, if it is the last. *)
LEMMA DeinitProtocolKeeps ==
  ASSUME UsersInv, NEW p \in Protocols, NEW caller \in {"deinit", "destroy"},
         DeinitProtocol(p, caller), UNCHANGED table
  PROVE  UsersInv'
<1>1. p \in holders /\ MasterIdle /\ proto' = p /\ UNCHANGED <<channel, holders, ready, table>>
  BY DEF DeinitProtocol
<1>2. LastUser <=> holders = {p}
  BY <1>1, LastUserAlone DEF UsersInv
<1>3. CASE LastUser
  <2>1. Enter(Master, "close", Shared, caller)
    BY <1>3 DEF DeinitProtocol
  <2> QED
    BY <1>1, <1>2, <1>3, <2>1, ProtocolCallKeeps
<1>4. CASE ~LastUser
  <2>1. Enter(Master, "deinited", Shared, caller)
    BY <1>4 DEF DeinitProtocol
  <2> QED
    BY <1>1, <1>2, <1>4, <2>1, ProtocolCallKeeps
<1> QED
  BY <1>3, <1>4

(* Master has come back from init or deinit. *)
LEMMA BackFromChannel ==
  ASSUME UsersInv, then[Master] \in {"init", "deinit", "destroy"}, Leave(Master),
         pc[Master] \notin {"configure", "create", "free", "wake", "join"},
         handle' = handle, proto' = SomeProtocol
  PROVE  /\ Master \in Tasks /\ Shared \in Channels /\ on[Master] = Shared
         /\ proto \in holders /\ proto \in Protocols /\ ForProtocol(Master) /\ PhaseOK(Master)
         /\ ~FromTable(Master) /\ TaskStep(Master) /\ ThenTypeOK'
         /\ pc' \in [Tasks -> {"idle", "io", "new", "open", "configure", "create", "initOK",
                               "initFailed", "close", "free", "wake", "join", "deinited", "forget"}]
         /\ on' \in [Tasks -> Channels] /\ half' \in [Tasks -> 1..(Len(Halves) + 1)]
         /\ proto' \in Protocols
         /\ pc'[Master] = "idle" /\ then'[Master] = "none"
         /\ ~Inside(Master)' /\ ~FromTable(Master)' /\ Place(Master)' /\ PhaseOK(Master)'
<1>0. /\ TypeOK /\ ChannelTypeOK /\ Places /\ Phases
  BY DEF UsersInv, TypeOK
<1>1. /\ pc' = [pc EXCEPT ![Master] = "idle"] /\ on' = [on EXCEPT ![Master] = SomeChannel]
      /\ half' = [half EXCEPT ![Master] = 1] /\ then' = [then EXCEPT ![Master] = "none"]
      /\ 1 \in 1..(Len(Halves) + 1) /\ Master \in Tasks /\ Shared \in Channels
  BY UsersAssumption, RestOfHalves DEF Leave, Goto
<1>2. /\ on[Master] = Shared /\ proto \in holders /\ proto \in Protocols /\ ForProtocol(Master)
      /\ PhaseOK(Master) /\ ~FromTable(Master)
  BY <1>0, <1>1 DEF ForProtocol, FromTable, Places, Place, Phases, TypeOK, SharingTypeOK
<1>3. TaskStep(Master) /\ pc'[Master] = "idle" /\ then'[Master] = "none" /\ ThenTypeOK'
  BY <1>0, <1>1 DEF TaskStep, TypeOK, Places, ThenTypeOK
<1>4. /\ pc' \in [Tasks -> {"idle", "io", "new", "open", "configure", "create", "initOK",
                            "initFailed", "close", "free", "wake", "join", "deinited", "forget"}]
      /\ on' \in [Tasks -> Channels] /\ half' \in [Tasks -> 1..(Len(Halves) + 1)]
      /\ proto' \in Protocols
  BY <1>0, <1>1, SomeMembers DEF TypeOK, ChannelTypeOK
<1>5. ~Inside(Master)' /\ ~FromTable(Master)' /\ Place(Master)' /\ PhaseOK(Master)'
  BY <1>3 DEF Inside, InsideAt, FromTable, Place, ForProtocol, InitAt, DeinitAt, PhaseOK
<1> QED
  BY <1>1, <1>2, <1>3, <1>4, <1>5

(* A protocol is told how init ended. *)
LEMMA ProtocolInitedKeeps ==
  ASSUME UsersInv, ProtocolInited, UNCHANGED table
  PROVE  UsersInv'
<1>0. /\ TypeOK /\ ChannelTypeOK /\ Readiness
  BY DEF UsersInv, TypeOK
<1>1. /\ then[Master] = "init" /\ pc[Master] \in {"initOK", "initFailed"}
      /\ ready' = IF pc[Master] = "initOK" THEN ready \cup {proto} ELSE ready \ {proto}
      /\ Leave(Master) /\ proto' = SomeProtocol /\ handle' = handle
      /\ UNCHANGED channel /\ holders' = holders
  BY DEF ProtocolInited, table
<1>2. /\ Master \in Tasks /\ Shared \in Channels /\ on[Master] = Shared
      /\ proto \in holders /\ proto \in Protocols /\ ForProtocol(Master) /\ PhaseOK(Master)
      /\ ~FromTable(Master) /\ TaskStep(Master) /\ ThenTypeOK'
      /\ pc' \in [Tasks -> {"idle", "io", "new", "open", "configure", "create", "initOK",
                            "initFailed", "close", "free", "wake", "join", "deinited", "forget"}]
      /\ on' \in [Tasks -> Channels] /\ half' \in [Tasks -> 1..(Len(Halves) + 1)]
      /\ proto' \in Protocols
      /\ pc'[Master] = "idle" /\ then'[Master] = "none"
      /\ ~Inside(Master)' /\ ~FromTable(Master)' /\ Place(Master)' /\ PhaseOK(Master)'
  BY <1>1, BackFromChannel
<1>3. TypeOK'
  <2>1. SharingTypeOK'
    BY <1>0, <1>1, <1>2 DEF TypeOK, SharingTypeOK
  <2>2. TableTypeOK'
    BY <1>0 DEF TypeOK, TableTypeOK, table
  <2>3. ChannelTypeOK'
    BY <1>0, <1>1, <1>2 DEF ChannelTypeOK, channel
  <2> QED
    BY <1>2, <2>1, <2>2, <2>3 DEF TypeOK
<1>4. ThreadsOK(Shared)' /\ \A c \in Channels : SameChannel(c)
  BY <1>1, <1>2, SharedStill
<1>5. ready' # {} => fd'[Shared]
  <2>1. fd' = fd
    BY <1>1 DEF channel
  <2>2. pc[Master] = "initOK" => fd[Shared]
    BY <1>2 DEF PhaseOK
  <2>3. pc[Master] = "initFailed" => ready = {}
    BY <1>0, <1>1 DEF Readiness
  <2> QED
    BY <1>1, <2>1, <2>2, <2>3
<1>6. Readiness'
  BY <1>2, <1>5 DEF Readiness
<1>7. holders' # {}
      /\ pc[Master] \notin {"configure", "create", "free", "wake", "join", "io", "forget"}
      /\ pc'[Master] \notin {"configure", "create", "free", "wake", "join", "io", "forget"}
  BY <1>1, <1>2
<1> QED
  BY <1>2, <1>3, <1>4, <1>6, <1>7, SharingKeeps

(* A protocol has deinited, or is gone, the channel with the last. *)
LEMMA ProtocolDeinitedKeeps ==
  ASSUME UsersInv, ProtocolDeinited, UNCHANGED table
  PROVE  UsersInv'
<1>0. /\ TypeOK /\ ChannelTypeOK /\ Readiness
  BY DEF UsersInv, TypeOK
<1>1. /\ then[Master] \in {"deinit", "destroy"} /\ pc[Master] = "deinited"
      /\ ready' = ready \ {proto}
      /\ holders' = IF then[Master] = "destroy" THEN holders \ {proto} ELSE holders
      /\ Leave(Master) /\ proto' = SomeProtocol /\ handle' = handle
      /\ holders' = {} => Destroy(Shared)
      /\ holders' # {} => UNCHANGED channel
  BY DEF ProtocolDeinited, table
<1>2. /\ Master \in Tasks /\ Shared \in Channels /\ on[Master] = Shared
      /\ proto \in holders /\ proto \in Protocols /\ ForProtocol(Master) /\ PhaseOK(Master)
      /\ ~FromTable(Master) /\ TaskStep(Master) /\ ThenTypeOK'
      /\ pc' \in [Tasks -> {"idle", "io", "new", "open", "configure", "create", "initOK",
                            "initFailed", "close", "free", "wake", "join", "deinited", "forget"}]
      /\ on' \in [Tasks -> Channels] /\ half' \in [Tasks -> 1..(Len(Halves) + 1)]
      /\ proto' \in Protocols
      /\ pc'[Master] = "idle" /\ then'[Master] = "none"
      /\ ~Inside(Master)' /\ ~FromTable(Master)' /\ Place(Master)' /\ PhaseOK(Master)'
  BY <1>1, BackFromChannel
<1>3. ~fd[Shared] \/ holders # {proto}
  BY <1>1, <1>2 DEF PhaseOK
<1>4. SharingTypeOK'
  BY <1>0, <1>1, <1>2 DEF TypeOK, SharingTypeOK
<1>5. ready' # {} => fd[Shared] /\ holders' # {}
  <2>1. ready' # {} => ready # {} /\ holders # {proto} /\ holders' # {}
    BY <1>0, <1>1, <1>2 DEF TypeOK, SharingTypeOK
  <2> QED
    BY <1>0, <2>1 DEF Readiness
<1>6. /\ ChannelTypeOK' /\ ThreadsOK(Shared)' /\ \A c \in Channels \ {Shared} : SameChannel(c)
      /\ holders' = {} => ~(fd[Shared] \/ ~Bare(Shared))'
      /\ fd'[Shared] = fd[Shared]
  <2>1. CASE holders' = {}
    <3>1. holders = {proto} /\ Destroy(Shared)
      BY <1>1, <1>2, <2>1
    <3>2. ~fd[Shared] /\ Bare(Shared)
      <4>1. ~fd[Shared]
        BY <1>3, <3>1
      <4>2. Inside(Master) /\ \A h \in Half : ~Taking(Master, Shared, h)
        BY <1>1 DEF Inside, InsideAt, Taking
      <4>3. \A h \in Half : Live(Shared, h) => fd[Shared] \/ Taking(Master, Shared, h)
        BY <1>2, <4>2, OwnChannel
      <4> QED
        BY <4>1, <4>2, <4>3 DEF Bare
    <3>3. /\ fd'[Shared] = fd[Shared] /\ Bare(Shared)' /\ Shared \notin leftOpen'
          /\ \A c \in Channels \ {Shared} : SameChannel(c)
      BY <1>0, <1>2, <3>1, <3>2, DestroyTyped DEF Bare
    <3>4. ThreadsOK(Shared)'
      BY <3>2, <3>3 DEF ThreadsOK, Bare
    <3>5. ChannelTypeOK'
      BY <1>0, <1>2, <3>1, DestroyTyped DEF ChannelTypeOK
    <3> QED
      BY <3>2, <3>3, <3>4, <3>5
  <2>2. CASE holders' # {}
    <3>1. UNCHANGED channel
      BY <1>1, <2>2
    <3>2. ThreadsOK(Shared)' /\ \A c \in Channels : SameChannel(c)
      BY <1>1, <1>2, <3>1, SharedStill
    <3>3. ChannelTypeOK'
      BY <1>0, <1>2, <3>1 DEF ChannelTypeOK, channel
    <3> QED
      BY <2>2, <3>1, <3>2, <3>3 DEF channel
  <2> QED
    BY <2>1, <2>2
<1>7. TypeOK'
  <2>1. TableTypeOK'
    BY <1>0 DEF TypeOK, TableTypeOK, table
  <2> QED
    BY <1>2, <1>4, <1>6, <2>1 DEF TypeOK
<1>8. Readiness'
  BY <1>2, <1>5, <1>6 DEF Readiness
<1>9. /\ pc[Master] \notin {"configure", "create", "free", "wake", "join", "io", "forget"}
      /\ pc'[Master] \notin {"configure", "create", "free", "wake", "join", "io", "forget"}
  BY <1>1, <1>2
<1> QED
  BY <1>2, <1>6, <1>7, <1>8, <1>9, SharingKeeps

(* All steps of Master for the protocols. *)
LEMMA SharingStepKeeps ==
  ASSUME UsersInv, SharingStep, UNCHANGED table
  PROVE  UsersInv'
BY NewProtocolKeeps, InitProtocolKeeps, DeinitProtocolKeeps, ProtocolInitedKeeps,
   ProtocolDeinitedKeeps DEF SharingStep

-----------------------------------------------------------------------------
(* The invariant is inductive: whatever order the tasks, the service       *)
(* threads and the protocols take their steps in.                          *)
THEOREM UsersInvariant == Spec => []UsersInv
<1>1. Init => UsersInv
  BY InitUsers
<1>2. UsersInv /\ [Next]_vars => UsersInv'
  <2> SUFFICES ASSUME UsersInv, [Next]_vars PROVE UsersInv'
    OBVIOUS
  <2>1. ASSUME NEW t \in Tasks, InitStep(t) \/ DeinitStep(t), UNCHANGED <<table, sharing>>
        PROVE  UsersInv'
    BY <2>1, OpenDeviceKeeps, ConfigureKeeps, CreateThreadKeeps, CloseDeviceKeeps, FreeRingsKeeps,
       WakeServiceKeeps, JoinServiceKeeps DEF InitStep, DeinitStep
  <2>2. CASE ServiceStep /\ UNCHANGED <<table, sharing>>
    BY <2>2, ServiceStepKeeps
  <2>3. CASE \E t \in Tasks : TableStep(t) /\ UNCHANGED sharing
    BY <2>3, TableStepKeeps
  <2>4. CASE SharingStep /\ UNCHANGED table
    BY <2>4, SharingStepKeeps
  <2>5. CASE UNCHANGED vars
    <3>1. UNCHANGED <<fd, ring, exit, pid, service, leftOpen, missed, pc, on, half, then,
                      id2handle, alive, handle, raced, holders, ready, proto>>
      BY <2>5 DEF vars, channel, task, table, sharing
    <3>2. /\ TypeOK' /\ Places' /\ Alone' /\ Emptied' /\ Named' /\ Undisturbed'
      BY <3>1 DEF UsersInv, TypeOK, ChannelTypeOK, TableTypeOK, SharingTypeOK, Places, ThenTypeOK,
        Place, ForProtocol, FromTable, Inside, Alone, Emptied, Named, NamedOK, Names, Dangling,
        Controlled, InControl, Undisturbed
    <3>3. /\ Threads' /\ Phases' /\ Owned' /\ Readiness'
      BY <3>1 DEF UsersInv, Threads, ThreadsOK, Live, Taking, Rest, RestFrom, Running, Bare, Phases,
        PhaseOK, ForProtocol, Owned, Names, Dangling, Inside, Readiness
    <3> QED
      BY <3>2, <3>3 DEF UsersInv
  <2> QED
    BY <2>1, <2>2, <2>3, <2>4, <2>5 DEF Next
<1> QED
  BY <1>1, <1>2, PTL DEF Spec

(* Every variable keeps its type; above all, pc stays at a place of init,  *)
(* deinit or the wrapper's calls.                                          *)
THEOREM TypeCorrect == Spec => []TypeOK
<1>1. UsersInv => TypeOK
  BY DEF UsersInv
<1> QED
  BY <1>1, UsersInvariant, PTL

(* An open channel outside init and deinit works, but for one whose init   *)
(* failed with the device open; what it may lack are the threads that could*)
(* not be created.                                                         *)
LEMMA OpenIsServed ==
  ASSUME UsersInv, NEW ch \in Channels, fd[ch], ch \notin leftOpen,
         \A t \in Tasks : ~(Inside(t) /\ on[t] = ch)
  PROVE  ServedBut(ch, Uncreated(ch))
<1>1. ThreadsOK(ch)
  BY DEF UsersInv, Threads
<1>2. \A t \in Tasks : ~(on[t] = ch /\ pc[t] \in {"configure", "create"})
  BY DEF Inside, InsideAt
<1> QED
  BY <1>1, <1>2 DEF ThreadsOK, Running, ServedBut, Uncreated

(* What the invariant says of a handle that nobody controls. *)
LEMMA InvServesHandles == UsersInv => HandlesServed
<1> SUFFICES ASSUME UsersInv, NEW n \in Handles, ~Controlled(n), id2handle[n] # NoChannel
             PROVE  /\ ServedBut(id2handle[n], Uncreated(id2handle[n]))
                    /\ id2handle[n] \in alive
                    /\ \A k \in Handles \ {n} : id2handle[k] = id2handle[n] => Controlled(k)
  BY DEF HandlesServed
<1>1. PICK ch \in Pool : ch = id2handle[n]
  BY DEF UsersInv, TypeOK, TableTypeOK
<1>2. Names(n, ch) /\ ch \in Channels
  BY <1>1, DanglingControlled, UsersAssumption DEF UsersInv, Names
<1>3. NamedOK(n, ch)
  BY <1>2 DEF UsersInv, Named
<1>4. \A t \in Tasks : ~(Inside(t) /\ on[t] = ch)
  <2> SUFFICES ASSUME NEW t \in Tasks, Inside(t), on[t] = ch PROVE FALSE
    OBVIOUS
  <2>1. handle[t] = n /\ FromTable(t) /\ InControl(t)
    BY <1>3 DEF NamedOK, Inside, InsideAt, InControl
  <2> QED
    BY <2>1 DEF Controlled
<1>5. ServedBut(ch, Uncreated(ch))
  BY <1>2, <1>3, <1>4, OpenIsServed DEF NamedOK
<1>6. \A k \in Handles \ {n} : id2handle[k] = ch => Controlled(k)
  BY <1>3, DanglingControlled DEF UsersInv, NamedOK, Names
<1> QED
  BY <1>1, <1>3, <1>5, <1>6 DEF NamedOK

(* A handle that nobody is opening or closing is free or names a channel   *)
(* of its own that works (HandlesServed), whichever step of init failed,   *)
(* but for a thread that pthread_create could not make, which it lacks:    *)
(* popen_serial gives out no other, and pclose_serial leaves none behind.  *)
THEOREM HandlesNameChannels == Spec => []HandlesServed
BY UsersInvariant, InvServesHandles, PTL

(* No thread is lacking where pthread_create does not fail: only init puts *)
(* a half there.                                                           *)
AllCreated == "create" \notin Failures => \A ch \in Channels, h \in Half : service[ch][h] # "failed"

LEMMA NoneFails == UsersInv /\ AllCreated /\ [Next]_vars => AllCreated'
<1> SUFFICES ASSUME UsersInv, [Next]_vars, "create" \notin Failures,
                    \A c \in Channels, k \in Half : service[c][k] # "failed",
                    NEW ch \in Channels, NEW h \in Half
             PROVE  service'[ch][h] # "failed"
  BY DEF AllCreated
<1> USE DEF channel, task
<1>1. /\ service \in [Channels -> [Half -> {"none", "failed", "top", "working", "tested",
                                            "asleep", "woken", "done"}]]
      /\ on \in [Tasks -> Channels]
  BY DEF UsersInv, TypeOK, ChannelTypeOK
<1>2. ASSUME NEW c \in Channels, Construct(c) PROVE service'[ch][h] # "failed"
  BY <1>1, <1>2 DEF Construct
<1>3. ASSUME NEW c \in Channels, Destroy(c) PROVE service'[ch][h] # "failed"
  BY <1>1, <1>3 DEF Destroy
<1>4. ASSUME NEW t \in Tasks, InitStep(t) \/ DeinitStep(t) PROVE service'[ch][h] # "failed"
  <2>1. CASE CreateThread(t)
    BY <1>1, <2>1 DEF CreateThread
  <2>2. CASE WakeService(t)
    BY <1>1, <2>2 DEF WakeService
  <2>3. CASE UNCHANGED service
    BY <2>3
  <2> QED
    BY <1>4, <2>1, <2>2, <2>3 DEF InitStep, DeinitStep, OpenDevice, Configure, CloseDevice,
      FreeRings, JoinService
<1>5. CASE ServiceStep
  <2>1. PICK c \in Channels, k \in Half : ServiceLoops(c, k) \/ ServiceSleeps(c, k)
    BY <1>5 DEF ServiceStep
  <2>2. \E l \in {"top", "working", "tested", "asleep", "done"} :
          service' = [service EXCEPT ![c][k] = l]
    BY <2>1 DEF ServiceLoops, ServiceSleeps
  <2> QED
    BY <1>1, <2>2
<1>6. ASSUME NEW t \in Tasks, TableStep(t) PROVE service'[ch][h] # "failed"
  <2>1. ASSUME ControlStep(t) PROVE service'[ch][h] # "failed"
    BY <1>1, <1>2, <1>3, <2>1, UsersAssumption DEF ControlStep, NewChannel, Opened, OpenFailed,
      Closed, Deleted, Forget
  <2>2. ASSUME CallMoves(t) PROVE service'[ch][h] # "failed"
    BY <1>1, <2>2 DEF CallMoves, Touch
  <2> QED
    BY <1>6, <2>1, <2>2 DEF TableStep, Popen, Pclose, Call, CallReturns
<1>7. CASE SharingStep
  BY <1>2, <1>3, <1>7, UsersAssumption DEF SharingStep, NewProtocol, InitProtocol,
    DeinitProtocol, ProtocolInited, ProtocolDeinited
<1> QED
  BY <1>4, <1>5, <1>6, <1>7 DEF Next, vars

(* Where pthread_create never fails, a handle that nobody is opening or    *)
(* closing means what the header says (HandleMeansSuccess): a channel with *)
(* its device open, its rings and every service thread, whichever other    *)
(* step of init fails.  The error it hides is the only one.                *)
THEOREM HandlesMeanSuccess == ASSUME "create" \notin Failures PROVE Spec => []HandleMeansSuccess
<1>1. Init => AllCreated
  BY DEF Init, ChannelInit, AllCreated
<1>2. UsersInv /\ AllCreated => HandleMeansSuccess
  <2> SUFFICES ASSUME UsersInv, AllCreated, NEW n \in Handles, ~Controlled(n),
                      id2handle[n] # NoChannel
               PROVE  Served(id2handle[n])
    BY DEF HandleMeansSuccess
  <2>1. ServedBut(id2handle[n], Uncreated(id2handle[n]))
    BY InvServesHandles DEF HandlesServed
  <2>2. id2handle[n] \in Channels
    BY UsersAssumption DEF UsersInv, TypeOK, TableTypeOK
  <2>3. Uncreated(id2handle[n]) = {}
    BY <2>2 DEF AllCreated, Uncreated
  <2> QED
    BY <2>1, <2>3 DEF Served
<1> QED
  BY <1>1, <1>2, NoneFails, UsersInvariant, PTL DEF Spec

(* A read, write, count or flush whose handle nobody opens or closes while *)
(* it runs works on a live channel throughout (CallsSafe), with its rings  *)
(* and the threads that could be created.                                  *)
THEOREM CallsOnLiveChannels == Spec => []CallsSafe
<1>1. UsersInv => CallsSafe
  <2> SUFFICES ASSUME UsersInv, NEW t \in Tasks, pc[t] = "io", t \notin raced
               PROVE  ServedBut(on[t], Uncreated(on[t])) /\ on[t] \in alive
    BY DEF CallsSafe
  <2>1. PICK n \in Handles : n = handle[t]
    BY DEF UsersInv, TypeOK, TableTypeOK
  <2>2. ~Controlled(n) /\ id2handle[n] = on[t] /\ on[t] \in Pool
    BY <2>1 DEF UsersInv, Undisturbed
  <2>3. id2handle[n] # NoChannel
    BY <2>2, UsersAssumption
  <2> QED
    BY <2>2, <2>3, InvServesHandles DEF HandlesServed
<1> QED
  BY <1>1, UsersInvariant, PTL

(* No path through init, deinit, the wrapper and the protocols loses an    *)
(* open device or a running thread (NothingLeaks).                         *)
THEOREM DevicesOwned == Spec => []NothingLeaks
<1>1. UsersInv => NothingLeaks
  <2> SUFFICES ASSUME UsersInv, NEW ch \in Channels, fd[ch] \/ \E h \in Half : Live(ch, h)
               PROVE  \/ \E n \in Handles : id2handle[n] = ch
                      \/ \E t \in Tasks : InControl(t) /\ on[t] = ch
                      \/ ch = Shared /\ holders # {}
    BY DEF NothingLeaks
  <2>1. \/ \E n \in Handles : Names(n, ch)
        \/ \E t \in Tasks : Inside(t) /\ on[t] = ch
        \/ ch = Shared /\ holders # {}
    BY DEF UsersInv, Owned, Bare
  <2>2. \A t \in Tasks : Inside(t) => InControl(t)
    BY DEF Inside, InsideAt, InControl
  <2> QED
    BY <2>1, <2>2 DEF Names
<1> QED
  BY <1>1, UsersInvariant, PTL

(* A protocol whose init returned 0 has a channel that works, whatever the *)
(* other protocols on it did since (ReadyIsServed): use_count keeps deinit *)
(* from the channel until the last of them.  It may lack a thread that     *)
(* could not be created.                                                   *)
THEOREM ReadyProtocolsServed == Spec => []ReadyIsServed
<1>1. UsersInv => ReadyIsServed
  <2> SUFFICES ASSUME UsersInv, ready # {}, ~(InControl(Master) /\ on[Master] = Shared),
                      Shared \notin leftOpen
               PROVE  ServedBut(Shared, Uncreated(Shared))
    BY DEF ReadyIsServed
  <2>1. Master \in Tasks /\ Shared \in Channels
    BY UsersAssumption
  <2>2. \A t \in Tasks : ~(Inside(t) /\ on[t] = Shared)
    <3> SUFFICES ASSUME NEW t \in Tasks, Inside(t), on[t] = Shared PROVE FALSE
      OBVIOUS
    <3>1. t = Master
      BY InsideFor DEF UsersInv
    <3> QED
      BY <3>1 DEF Inside, InsideAt, InControl
  <2>3. fd[Shared]
    <3>1. ASSUME then[Master] \in {"deinit", "destroy"} PROVE FALSE
      <4>1. pc[Master] \notin {"idle", "io"} /\ on[Master] = Shared
        BY <2>1, <3>1 DEF UsersInv, Places, Place, ForProtocol
      <4> QED
        BY <4>1 DEF InControl
    <3> QED
      BY <3>1 DEF UsersInv, Readiness
  <2> QED
    BY <2>1, <2>2, <2>3, OpenIsServed
<1> QED
  BY <1>1, UsersInvariant, PTL
=============================================================================
