-------------------------- MODULE SchedulersProofs --------------------------
(***************************************************************************)
(* Proofs about Schedulers: the safety properties of its run, for all sets *)
(* of slaves and of workers.                                               *)
(***************************************************************************)
EXTENDS Schedulers, TLAPS

USE DEF Place

(* A thread that is alive is the one stop would join, or a lost one.       *)
ThreadKnown == \A w \in Workers \ lost : at[w] # "none" => w = rpid
AllLost     == \A w \in Workers \ lost : at[w] = "none"

(* Who does not run has been joined, or start has given up on it.          *)
CFQControl ==
  /\ locked => pc \in {"joinLocked", "unlock"}
  /\ ~run /\ pc \notin {"starting", "join", "joinLocked"} => AllLost
  /\ op = "deinit" /\ pc # "join" => AllLost
  /\ pc \in {"all", "more"} => op = "deinit"
  /\ ~initialized => pc = "idle" /\ AllLost
  /\ started => run

CFQPasses ==
  /\ \A w \in Workers : at[w] \in {"none", "created", "top", "lock"} =>
       list[w] = {} /\ dangling[w] = {}
  /\ \A w \in Workers \ lost : dangling[w] \subseteq {"unregister"}

(* stop always joins; what runs at the end of deinit was started again for *)
(* slaves it missed.                                                       *)
BufferedControl ==
  /\ started = FALSE
  /\ locked => pc \in {"joinLocked", "delete", "starting", "unlock"} /\ op # "start"
  /\ pc \in {"joinLocked", "delete"} => op \in {"unregister", "deinit"}
  /\ pc \in {"delete", "all"} => AllLost
  /\ pc \in {"all", "more"} => op = "deinit"
  /\ pc # "idle" => initialized \/ op = "deinit"
  /\ op = "deinit" /\ pc \in {"unlock", "more"} /\ registered = {} => AllLost
  /\ op = "deinit" /\ pc = "starting" => registered # {}
  /\ pc = "idle" /\ ~initialized /\ registered = {} => AllLost

BufferedPasses ==
  /\ \A w \in Workers : at[w] \in {"none", "created", "top"} =>
       todo[w] = {} /\ dangling[w] = {}
  /\ \A w \in Workers \ lost : dangling[w] = {}

(* The inductive invariant. *)
LifeInv ==
  /\ TypeOK /\ ThreadKnown
  /\ class = "cfq" => CFQControl /\ CFQPasses
  /\ class = "buffered" => BufferedControl /\ BufferedPasses

-----------------------------------------------------------------------------
(* The invariant holds at the start. *)
LEMMA InitLife == Init => LifeInv
<1> SUFFICES ASSUME Init PROVE LifeInv
  OBVIOUS
<1>1. SomeSlave \in Slaves
  BY LifeAssumption DEF SomeSlave
<1>2. Alive = {}
  BY DEF Init, LifeInit, Alive
<1>3. TypeOK
  BY <1>1, <1>2 DEF Init, LifeInit, TypeOK, LifeTypeOK, C!CFQTypeOK, C!CFQInit,
    B!BufferedInit
<1>4. ThreadKnown /\ AllLost
  BY DEF Init, LifeInit, ThreadKnown, AllLost
<1> QED
  BY <1>3, <1>4 DEF Init, LifeInit, LifeInv, CFQControl, CFQPasses,
    BufferedControl, BufferedPasses, C!CFQInit, B!BufferedInit

-----------------------------------------------------------------------------
(* The CFQ scheduler. *)

(* The scheduler of the class is CFQ. *)
CFQInv == TypeOK /\ ThreadKnown /\ CFQControl /\ CFQPasses

(* unRegisterSlave of the CFQ scheduler, whoever calls it. *)
LEMMA CFQUnRegisterKeeps ==
  ASSUME CFQInv, NEW s \in Slaves, NEW o, NEW back, C!UnRegisterSlave(s, o, back),
         UNCHANGED class,
         \/ o = "unregister" /\ back = "idle" /\ pc = "idle" /\ initialized
         \/ o = "deinit" /\ back = "more" /\ pc \in {"all", "more"}
  PROVE  CFQInv'
<1>0. TypeOK /\ ThreadKnown /\ CFQControl /\ CFQPasses
  BY DEF CFQInv
<1>1. o \in {"unregister", "deinit"} /\ (o = "deinit" => AllLost)
  BY <1>0 DEF CFQControl
<1>2. /\ UNCHANGED <<arg, at, todo, cur, lost, overtaken, list, class>>
      /\ UNCHANGED <<rpid, initialized>> /\ ~locked
  BY DEF C!UnRegisterSlave, C!object
<1>3. ThreadKnown' /\ (AllLost => AllLost')
  BY <1>0, <1>2 DEF ThreadKnown, AllLost
<1>4. CASE s \notin registered
  <2>1. UNCHANGED <<object, pc, op, dangling, started>>
    BY <1>4 DEF C!UnRegisterSlave, C!object, object
  <2> QED
    BY <1>0, <1>2, <1>3, <2>1 DEF CFQInv, TypeOK, LifeTypeOK, C!CFQTypeOK,
      Alive, CFQControl, CFQPasses, object, AllLost
<1>5. CASE s \in registered
  <2>1. /\ registered' = registered \ {s}
        /\ dangling' = [w \in Workers |-> IF s \in list[w] THEN dangling[w] \cup {o} ELSE dangling[w]]
    BY <1>5 DEF C!UnRegisterSlave, C!Delete
  <2>2. registered' \subseteq Slaves /\ dangling' \in [Workers -> SUBSET {"unregister", "deinit"}]
    BY <1>0, <1>1, <2>1 DEF TypeOK, LifeTypeOK
  <2>3. CFQPasses'
    BY <1>0, <1>1, <1>2, <2>1 DEF CFQPasses, AllLost
  <2>4. /\ \/ run /\ run' = FALSE /\ started' = FALSE /\ locked' = TRUE
           \/ ~run /\ run' = FALSE /\ started' = FALSE /\ locked' = FALSE
           \/ run' = run /\ started' = started /\ locked' = FALSE
        /\ \/ locked' /\ pc' = "joinLocked" /\ op' = o
           \/ ~locked' /\ pc' = back /\ op' = (IF back = "idle" THEN "none" ELSE o)
    BY <1>0, <1>2, <1>5 DEF C!UnRegisterSlave, C!StopThen, C!Enter, TypeOK,
      LifeTypeOK
  <2>7. \/ locked' /\ pc' = "joinLocked" /\ op' = o
        \/ ~locked' /\ pc' = "idle" /\ op' = "none" /\ pc = "idle" /\ initialized
        \/ ~locked' /\ pc' = "more" /\ op' = "deinit" /\ o = "deinit"
    BY <2>4
  <2>5. TypeOK'
    <3>1. /\ pc' \in {"idle", "more", "joinLocked"} /\ op' \in {"none", "unregister", "deinit"}
          /\ run' \in BOOLEAN /\ started' \in BOOLEAN /\ locked' \in BOOLEAN
          /\ locked' => pc' = "joinLocked"
      BY <1>0, <1>1, <2>4, <2>7 DEF TypeOK, LifeTypeOK, C!CFQTypeOK
    <3>2. Alive' = Alive
      BY <1>2 DEF Alive
    <3>3. LifeTypeOK'
      BY <1>0, <1>2, <2>2, <3>1, <3>2 DEF TypeOK, LifeTypeOK
    <3> QED
      BY <1>0, <1>2, <3>1, <3>3 DEF TypeOK, C!CFQTypeOK
  <2>6. CFQControl'
    BY <1>0, <1>1, <1>2, <1>3, <2>4, <2>7 DEF CFQControl
  <2> QED
    BY <1>3, <2>3, <2>5, <2>6 DEF CFQInv
<1> QED
  BY <1>4, <1>5

(* The calls of the CFQ scheduler. *)
LEMMA CFQCallKeeps ==
  ASSUME LifeInv, CFQ(C!CFQCalls)
  PROVE  LifeInv'
<1> USE DEF CFQ
<1>1. SomeSlave \in Slaves
  BY LifeAssumption DEF SomeSlave
<1>0. TypeOK /\ ThreadKnown /\ CFQControl /\ CFQPasses
  BY DEF LifeInv
<1>9. SUFFICES CFQInv'
  BY DEF LifeInv, CFQInv
<1>2. ASSUME C!InitObject, UNCHANGED <<list, started>> PROVE CFQInv'
  BY <1>0, <1>2 DEF C!InitObject, TypeOK, LifeTypeOK, C!CFQTypeOK, ThreadKnown,
    AllLost, Alive, CFQInv, CFQControl, CFQPasses, C!control, C!worker
<1>3. ASSUME NEW s \in Slaves, C!RegisterSlave(s) PROVE CFQInv'
  BY <1>0, <1>3 DEF C!RegisterSlave, C!Called, TypeOK, LifeTypeOK, C!CFQTypeOK,
    ThreadKnown, AllLost, Alive, CFQInv, CFQControl, CFQPasses, C!control,
    C!worker, C!cfq
<1>4. ASSUME C!Stop PROVE CFQInv'
  BY <1>0, <1>4 DEF C!Stop, C!StopThen, C!Enter, C!Called, TypeOK, LifeTypeOK,
    C!CFQTypeOK, ThreadKnown, AllLost, Alive, CFQInv, CFQControl, CFQPasses,
    C!control, C!worker, C!cfq
<1>5. ASSUME C!Deinit PROVE CFQInv'
  BY <1>0, <1>5 DEF C!Deinit, C!StopThen, C!Enter, C!Called, TypeOK, LifeTypeOK,
    C!CFQTypeOK, ThreadKnown, AllLost, Alive, CFQInv, CFQControl, CFQPasses,
    C!control, C!worker, C!cfq
<1>6. ASSUME C!Start PROVE CFQInv'
  BY <1>0, <1>6, ZenonT(40) DEF C!Start, C!Create, C!Enter, C!Called, C!Alive, TypeOK,
    LifeTypeOK, C!CFQTypeOK, ThreadKnown, AllLost, Alive, CFQInv, CFQControl,
    CFQPasses, C!control, C!worker, C!cfq
<1>7. ASSUME NEW s \in Slaves, C!Unregister(s) PROVE CFQInv'
  BY <1>0, <1>7, CFQUnRegisterKeeps DEF C!Unregister, C!Called, CFQInv
<1> QED
  BY <1>2, <1>3, <1>4, <1>5, <1>6, <1>7 DEF C!CFQCalls, C!cfq

(* The calls of the CFQ scheduler go on and return. *)
LEMMA CFQReturnKeeps ==
  ASSUME LifeInv, CFQ(C!CFQReturns)
  PROVE  LifeInv'
<1> USE DEF CFQ
<1>1. SomeSlave \in Slaves
  BY LifeAssumption DEF SomeSlave
<1>0. TypeOK /\ ThreadKnown /\ CFQControl /\ CFQPasses
  BY DEF LifeInv
<1>9. SUFFICES CFQInv'
  BY DEF LifeInv, CFQInv
<1>2. ASSUME C!StartSucceeds PROVE CFQInv'
  BY <1>0, <1>1, <1>2 DEF C!StartSucceeds, C!Return, C!SomeSlave, SomeSlave,
    TypeOK, LifeTypeOK, C!CFQTypeOK, ThreadKnown, AllLost, Alive, CFQInv,
    CFQControl, CFQPasses, C!object, C!worker
<1>3. ASSUME C!StartGivesUp PROVE CFQInv'
  BY <1>0, <1>1, <1>3 DEF C!StartGivesUp, C!Return, C!SomeSlave, SomeSlave,
    TypeOK, LifeTypeOK, C!CFQTypeOK, ThreadKnown, AllLost, Alive, CFQInv,
    CFQControl, CFQPasses, C!object, C!worker, C!cfq, C!Alive
<1>4. ASSUME C!Joined PROVE CFQInv'
  BY <1>0, <1>1, <1>4, LifeAssumption, ZenonT(40) DEF C!Joined, C!Return, C!Enter,
    C!Joining, C!JoinEnds, C!Alive, C!SomeSlave, SomeSlave, TypeOK, LifeTypeOK,
    C!CFQTypeOK, ThreadKnown, AllLost, Alive, CFQInv, CFQControl, CFQPasses,
    C!object, C!worker, C!cfq
<1>5. ASSUME C!UnRegisterAll PROVE CFQInv'
  BY <1>0, <1>5, CFQUnRegisterKeeps DEF C!UnRegisterAll, CFQInv, TypeOK,
    LifeTypeOK
<1>6. ASSUME C!Unlock, UNCHANGED C!cfq PROVE CFQInv'
  BY <1>0, <1>1, <1>6 DEF C!Unlock, C!Return, C!Enter, C!SomeSlave, SomeSlave,
    TypeOK, LifeTypeOK, C!CFQTypeOK, ThreadKnown, AllLost, Alive, CFQInv,
    CFQControl, CFQPasses, C!worker, C!cfq
<1>7. ASSUME C!Deinited, UNCHANGED C!cfq PROVE CFQInv'
  BY <1>0, <1>1, <1>7 DEF C!Deinited, C!Return, C!SomeSlave, SomeSlave, TypeOK,
    LifeTypeOK, C!CFQTypeOK, ThreadKnown, AllLost, Alive, CFQInv, CFQControl,
    CFQPasses, C!worker, C!cfq
<1> QED
  BY <1>2, <1>3, <1>4, <1>5, <1>6, <1>7 DEF C!CFQReturns

(* The schedule threads of the CFQ scheduler. *)
LEMMA CFQWorkerKeeps ==
  ASSUME LifeInv, NEW w \in Workers, CFQ(C!CFQWorker(w))
  PROVE  LifeInv'
<1> USE DEF CFQ
<1>1. SomeSlave \in Slaves
  BY LifeAssumption DEF SomeSlave
<1>0. TypeOK /\ ThreadKnown /\ CFQControl /\ CFQPasses
  BY DEF LifeInv
<1>9. SUFFICES CFQInv'
  BY DEF LifeInv, CFQInv
<1>2. ASSUME C!Begins(w), UNCHANGED C!cfq PROVE CFQInv'
  BY <1>0, <1>2 DEF C!Begins, C!Goto, C!Joining, TypeOK, LifeTypeOK,
    C!CFQTypeOK, ThreadKnown, AllLost, Alive, CFQInv, CFQControl, CFQPasses,
    C!control, C!cfq
<1>3. ASSUME C!TransactionOver(w), UNCHANGED C!cfq PROVE CFQInv'
  <2>1. /\ at[w] \in {"select", "endless", "poll"}
        /\ at' = [at EXCEPT ![w] = IF at[w] = "poll" THEN "read" ELSE "write"]
        /\ todo' = [todo EXCEPT ![w] = todo[w] \ {cur[w]}]
        /\ cur' = [cur EXCEPT ![w] = SomeSlave]
        /\ UNCHANGED <<object, control, dangling, lost, overtaken, list, started>>
    BY <1>3 DEF C!TransactionOver, C!Goto, C!SomeSlave, SomeSlave, C!object,
      C!control, C!cfq, object, control
  <2>2. at' \in [Workers -> Place]
    <3>1. at[w] = "poll" \/ at[w] # "poll"
      BY <2>1
    <3> QED
      BY <1>0, <2>1, <3>1 DEF TypeOK, LifeTypeOK
  <2>3. \A v \in Workers :
          at'[v] = at[v] \/ (at'[v] \in {"write", "read"} /\ at[v] \in {"select", "endless", "poll"})
    BY <1>0, <2>1 DEF TypeOK, LifeTypeOK
  <2>4. Alive' = Alive
    BY <2>3 DEF Alive
  <2>5. todo' \in [Workers -> SUBSET Slaves] /\ cur' \in [Workers -> Slaves]
    BY <1>0, <1>1, <2>1 DEF TypeOK, LifeTypeOK
  <2>6. TypeOK'
    BY <1>0, <2>1, <2>2, <2>4, <2>5 DEF TypeOK, LifeTypeOK, C!CFQTypeOK, object,
      control
  <2> QED
    BY <1>0, <2>1, <2>3, <2>6 DEF ThreadKnown, AllLost, CFQInv, CFQControl,
      CFQPasses, object, control
<1>4. ASSUME C!TopOfLoop(w) PROVE CFQInv'
  <2>1. /\ at[w] = "top"
        /\ UNCHANGED <<run, rpid, initialized, registered, control, todo, cur, dangling,
                       overtaken, list, started>>
        /\ \/ run /\ at' = [at EXCEPT ![w] = "lock"] /\ UNCHANGED <<locked, lost>>
           \/ /\ ~run /\ at' = [at EXCEPT ![w] = "none"] /\ lost' = lost \ {w}
              /\ locked' = FALSE
    BY <1>4 DEF C!TopOfLoop, C!Goto, C!Ends, C!control, C!cfq, control
  <2>2. /\ at' \in [Workers -> Place]
        /\ lost' \subseteq Alive'
    BY <1>0, <2>1 DEF TypeOK, LifeTypeOK, Alive
  <2>5. UNCHANGED <<pc, op, arg>> /\ (locked' = locked \/ locked' = FALSE)
    BY <2>1 DEF control
  <2>3. TypeOK'
    <3>1. locked' \in BOOLEAN /\ (locked' => pc' \in {"joinLocked", "delete", "starting", "unlock"})
      <4>1. CASE locked' = FALSE
        BY <4>1
      <4>2. CASE locked' = locked
        BY <1>0, <2>5, <4>2 DEF TypeOK, LifeTypeOK
      <4> QED
        BY <2>5, <4>1, <4>2
    <3> QED
      BY <1>0, <2>1, <2>2, <2>5, <3>1 DEF TypeOK, LifeTypeOK, C!CFQTypeOK
  <2>4. \A v \in Workers :
          \/ at'[v] = at[v] /\ (v \in lost' <=> v \in lost)
          \/ at'[v] = "none" /\ at[v] = "top"
          \/ at'[v] = "lock" /\ at[v] = "top" /\ (v \in lost' <=> v \in lost)
    <3>1. CASE run /\ at' = [at EXCEPT ![w] = "lock"] /\ UNCHANGED <<locked, lost>>
      BY <1>0, <2>1, <3>1 DEF TypeOK, LifeTypeOK
    <3>2. CASE at' = [at EXCEPT ![w] = "none"] /\ lost' = lost \ {w}
      BY <1>0, <2>1, <3>2 DEF TypeOK, LifeTypeOK
    <3> QED
      BY <2>1, <3>1, <3>2
  <2>6. ThreadKnown' /\ (AllLost => AllLost')
    BY <1>0, <2>1, <2>4 DEF ThreadKnown, AllLost
  <2>7. CFQPasses'
    BY <1>0, <2>1, <2>4 DEF CFQPasses
  <2> QED
    BY <1>0, <2>1, <2>3, <2>5, <2>6, <2>7 DEF CFQInv, CFQControl
<1>5. ASSUME C!CopyMap(w) PROVE CFQInv'
  BY <1>0, <1>5 DEF C!CopyMap, C!Goto, TypeOK, LifeTypeOK, C!CFQTypeOK,
    ThreadKnown, AllLost, Alive, CFQInv, CFQControl, CFQPasses, C!control,
    C!object
<1>6. ASSUME C!StartReads(w) PROVE CFQInv'
  BY <1>0, <1>6 DEF C!StartReads, C!Goto, TypeOK, LifeTypeOK, C!CFQTypeOK,
    ThreadKnown, AllLost, Alive, CFQInv, CFQControl, CFQPasses, C!control,
    C!object, C!cfq
<1>7. ASSUME C!CycleOver(w) PROVE CFQInv'
  BY <1>0, <1>7 DEF C!CycleOver, C!Goto, TypeOK, LifeTypeOK, C!CFQTypeOK,
    ThreadKnown, AllLost, Alive, CFQInv, CFQControl, CFQPasses, C!control,
    C!object
<1>8. ASSUME NEW s \in Slaves, C!Visit(w, s) PROVE CFQInv'
  BY <1>0, <1>8 DEF C!Visit, C!Goto, C!PassesOver, C!TalksTo, TypeOK,
    LifeTypeOK, C!CFQTypeOK, ThreadKnown, AllLost, Alive, CFQInv, CFQControl,
    CFQPasses, C!control, C!object, C!cfq
<1> QED
  BY <1>2, <1>3, <1>4, <1>5, <1>6, <1>7, <1>8 DEF C!CFQWorker

-----------------------------------------------------------------------------
(* The buffered scheduler. *)

BufferedInv == TypeOK /\ ThreadKnown /\ BufferedControl /\ BufferedPasses

(* unRegisterSlave of the Buffered scheduler, whoever calls it. *)
LEMMA BufferedUnRegisterKeeps ==
  ASSUME BufferedInv, NEW s \in Slaves, NEW o, B!UnRegisterSlave(s, o),
         UNCHANGED <<class, list, started>>,
         \/ o = "unregister" /\ pc = "idle" /\ initialized
         \/ o = "deinit" /\ pc \in {"all", "more"}
  PROVE  BufferedInv'
<1>1. TypeOK'
  BY DEF BufferedInv, B!UnRegisterSlave, B!Enter, TypeOK, LifeTypeOK,
    C!CFQTypeOK, Alive, B!worker
<1> QED
  BY <1>1 DEF BufferedInv, B!UnRegisterSlave, B!Enter, TypeOK, LifeTypeOK,
    ThreadKnown, AllLost, BufferedControl, BufferedPasses, B!worker

(* The calls of the Buffered scheduler. *)
LEMMA BufferedCallKeeps ==
  ASSUME LifeInv, Buffered(B!BufferedCalls)
  PROVE  LifeInv'
<1> USE DEF Buffered
<1>0. BufferedInv
  BY DEF LifeInv, BufferedInv
<1>9. SUFFICES BufferedInv'
  BY DEF LifeInv, BufferedInv
<1>2. ASSUME B!InitObject PROVE BufferedInv'
  BY <1>0, <1>2 DEF B!InitObject, BufferedInv, TypeOK, LifeTypeOK, C!CFQTypeOK,
    ThreadKnown, AllLost, Alive, BufferedControl, BufferedPasses, B!control,
    B!worker
<1>3. ASSUME NEW s \in Slaves, B!RegisterSlave(s) PROVE BufferedInv'
  BY <1>0, <1>3 DEF B!RegisterSlave, B!Called, B!Walking, BufferedInv, TypeOK, LifeTypeOK,
    C!CFQTypeOK, ThreadKnown, AllLost, Alive, BufferedControl, BufferedPasses,
    B!control
<1>4. ASSUME B!Stop PROVE BufferedInv'
  BY <1>0, <1>4 DEF B!Stop, B!Enter, B!Called, BufferedInv, TypeOK, LifeTypeOK,
    C!CFQTypeOK, ThreadKnown, AllLost, Alive, BufferedControl, BufferedPasses,
    B!worker
<1>5. ASSUME B!Deinit PROVE BufferedInv'
  BY <1>0, <1>5 DEF B!Deinit, B!Enter, BufferedInv, TypeOK, LifeTypeOK,
    C!CFQTypeOK, ThreadKnown, AllLost, Alive, BufferedControl, BufferedPasses,
    B!worker
<1>6. ASSUME B!Start PROVE BufferedInv'
  BY <1>0, <1>6 DEF B!Start, B!Create, B!Enter, B!Called, B!Alive, BufferedInv,
    TypeOK, LifeTypeOK, C!CFQTypeOK, ThreadKnown, AllLost, Alive,
    BufferedControl, BufferedPasses
<1>7. ASSUME NEW s \in Slaves, B!Unregister(s) PROVE BufferedInv'
  BY <1>0, <1>7, BufferedUnRegisterKeeps DEF B!Unregister, B!Called
<1> QED
  BY <1>2, <1>3, <1>4, <1>5, <1>6, <1>7 DEF B!BufferedCalls

(* The calls of the Buffered scheduler go on and return. *)
LEMMA BufferedReturnKeeps ==
  ASSUME LifeInv, Buffered(B!BufferedReturns)
  PROVE  LifeInv'
<1> USE DEF Buffered
<1>1. SomeSlave \in Slaves
  BY LifeAssumption DEF SomeSlave
<1>0. BufferedInv
  BY DEF LifeInv, BufferedInv
<1>9. SUFFICES BufferedInv'
  BY DEF LifeInv, BufferedInv
<1>2. ASSUME B!Started PROVE BufferedInv'
  BY <1>0, <1>1, <1>2 DEF B!Started, B!Return, B!Enter, B!SomeSlave, SomeSlave,
    BufferedInv, TypeOK, LifeTypeOK, C!CFQTypeOK, ThreadKnown, AllLost, Alive,
    BufferedControl, BufferedPasses, B!object, B!worker
<1>3. ASSUME B!Joined PROVE BufferedInv'
  BY <1>0, <1>1, <1>3, LifeAssumption DEF B!Joined, B!Return, B!Enter,
    B!Joining, B!JoinEnds, B!Alive, B!SomeSlave, SomeSlave, BufferedInv, TypeOK,
    LifeTypeOK, C!CFQTypeOK, ThreadKnown, AllLost, Alive, BufferedControl,
    BufferedPasses, B!object, B!worker
<1>4. ASSUME B!UnRegisterAll PROVE BufferedInv'
  BY <1>0, <1>4, BufferedUnRegisterKeeps DEF B!UnRegisterAll, BufferedInv,
    TypeOK, LifeTypeOK
<1>5. ASSUME B!DeleteQueues PROVE BufferedInv'
  <2>1. /\ pc = "delete" /\ AllLost /\ locked' = locked
        /\ registered' = registered \ {arg}
        /\ dangling' = [w \in Workers |-> IF arg \in todo[w] THEN dangling[w] \cup {op}
                                                            ELSE dangling[w]]
        /\ UNCHANGED <<run, initialized, arg, todo, cur, lost, overtaken, class, list, started>>
    BY <1>0, <1>5 DEF B!DeleteQueues, B!Delete, B!Holders, BufferedInv,
      BufferedControl
  <2>2. op' = op /\ (IF registered' # {} THEN pc' = "starting" ELSE pc' = "unlock")
    BY <1>5 DEF B!DeleteQueues, B!Enter
  <2>3. \/ UNCHANGED <<at, rpid>>
        \/ /\ rpid' \in Workers /\ at[rpid'] = "none" /\ at' = [at EXCEPT ![rpid'] = "created"]
           /\ registered' # {}
    <3>1. CASE registered' # {} /\ Alive # Workers /\ rpid' = CHOOSE w \in Workers : w \notin Alive
      BY <1>5, <3>1 DEF B!DeleteQueues, B!Create, B!Enter, B!Alive, Alive
    <3> QED
      BY <1>5, <3>1 DEF B!DeleteQueues, B!Create, B!Enter, B!Alive, Alive
  <2>4. at' \in [Workers -> Place]
    BY <1>0, <2>3 DEF BufferedInv, TypeOK, LifeTypeOK
  <2>5. \A w \in lost : at'[w] = at[w] /\ at[w] # "none"
    BY <1>0, <2>3 DEF BufferedInv, TypeOK, LifeTypeOK, Alive
  <2>6. op \in {"unregister", "deinit"}
    BY <1>0, <2>1 DEF BufferedInv, BufferedControl
  <2>7. /\ registered' \subseteq Slaves
        /\ dangling' \in [Workers -> SUBSET {"unregister", "deinit"}]
        /\ rpid' \in Workers \cup {NoWorker}
    BY <1>0, <2>1, <2>3, <2>6 DEF BufferedInv, TypeOK, LifeTypeOK
  <2>8. lost' \subseteq Alive'
    BY <1>0, <2>1, <2>5 DEF BufferedInv, TypeOK, LifeTypeOK, Alive
  <2>9. pc' \in {"starting", "unlock"} /\ op' = op
    BY <2>2
  <2>10. TypeOK'
    BY <1>0, <2>1, <2>4, <2>7, <2>8, <2>9 DEF BufferedInv, TypeOK, LifeTypeOK,
      C!CFQTypeOK
  <2>11. ThreadKnown' /\ (registered' = {} => AllLost')
    BY <1>0, <2>1, <2>3 DEF BufferedInv, TypeOK, LifeTypeOK, ThreadKnown,
      AllLost
  <2>12. BufferedPasses'
    BY <1>0, <2>1, <2>3, <2>4 DEF BufferedInv, TypeOK, LifeTypeOK,
      BufferedPasses, AllLost
  <2>13. BufferedControl'
    BY <1>0, <2>1, <2>2, <2>6, <2>11 DEF BufferedInv, BufferedControl
  <2> QED
    BY <2>10, <2>11, <2>12, <2>13 DEF BufferedInv
<1>6. ASSUME B!Unlock PROVE BufferedInv'
  BY <1>0, <1>1, <1>6 DEF B!Unlock, B!Return, B!Enter, B!SomeSlave, SomeSlave,
    BufferedInv, TypeOK, LifeTypeOK, C!CFQTypeOK, ThreadKnown, AllLost, Alive,
    BufferedControl, BufferedPasses, B!worker
<1>7. ASSUME B!Deinited PROVE BufferedInv'
  BY <1>0, <1>1, <1>7 DEF B!Deinited, B!Return, B!SomeSlave, SomeSlave,
    BufferedInv, TypeOK, LifeTypeOK, C!CFQTypeOK, ThreadKnown, AllLost, Alive,
    BufferedControl, BufferedPasses, B!worker
<1> QED
  BY <1>2, <1>3, <1>4, <1>5, <1>6, <1>7 DEF B!BufferedReturns

(* The schedule threads of the Buffered scheduler. *)
LEMMA BufferedWorkerKeeps ==
  ASSUME LifeInv, NEW w \in Workers, Buffered(B!BufferedWorker(w))
  PROVE  LifeInv'
<1> USE DEF Buffered
<1>1. SomeSlave \in Slaves
  BY LifeAssumption DEF SomeSlave
<1>0. BufferedInv
  BY DEF LifeInv, BufferedInv
<1>9. SUFFICES BufferedInv'
  BY DEF LifeInv, BufferedInv
<1>2. ASSUME B!Begins(w) PROVE BufferedInv'
  BY <1>0, <1>2 DEF B!Begins, B!Goto, B!Joining, BufferedInv, TypeOK,
    LifeTypeOK, C!CFQTypeOK, ThreadKnown, AllLost, Alive, BufferedControl,
    BufferedPasses, B!control
<1>3. ASSUME B!TransactionOver(w) PROVE BufferedInv'
  <2>1. /\ at[w] \in {"select", "endless", "poll"}
        /\ at' = [at EXCEPT ![w] = IF at[w] = "poll" THEN "read" ELSE "write"]
        /\ todo' = [todo EXCEPT ![w] = todo[w] \ {cur[w]}]
        /\ cur' = [cur EXCEPT ![w] = SomeSlave]
        /\ UNCHANGED <<object, control, dangling, lost, overtaken, list, started, class>>
    BY <1>3 DEF B!TransactionOver, B!Goto, B!SomeSlave, SomeSlave, B!object,
      B!control, object, control
  <2>2. at' \in [Workers -> Place]
    <3>1. at[w] = "poll" \/ at[w] # "poll"
      BY <2>1
    <3> QED
      BY <1>0, <2>1, <3>1 DEF BufferedInv, TypeOK, LifeTypeOK
  <2>3. \A v \in Workers :
          \/ at'[v] = at[v] /\ todo'[v] = todo[v]
          \/ at'[v] \in {"write", "read"} /\ at[v] \in {"select", "endless", "poll"}
    BY <1>0, <2>1 DEF BufferedInv, TypeOK, LifeTypeOK
  <2>4. Alive' = Alive
    BY <2>3 DEF Alive
  <2>5. todo' \in [Workers -> SUBSET Slaves] /\ cur' \in [Workers -> Slaves]
    BY <1>0, <1>1, <2>1 DEF BufferedInv, TypeOK, LifeTypeOK
  <2>6. TypeOK'
    BY <1>0, <2>1, <2>2, <2>4, <2>5 DEF BufferedInv, TypeOK, LifeTypeOK,
      C!CFQTypeOK, object, control
  <2> QED
    BY <1>0, <2>1, <2>3, <2>6 DEF BufferedInv, ThreadKnown, AllLost,
      BufferedControl, BufferedPasses, object, control
<1>4. ASSUME B!TopOfLoop(w) PROVE BufferedInv'
  BY <1>0, <1>4 DEF B!TopOfLoop, B!Goto, B!Ends, BufferedInv, TypeOK,
    LifeTypeOK, C!CFQTypeOK, ThreadKnown, AllLost, Alive, BufferedControl,
    BufferedPasses, B!control, B!object
<1>5. ASSUME B!StartReads(w) PROVE BufferedInv'
  BY <1>0, <1>5 DEF B!StartReads, B!Goto, BufferedInv, TypeOK, LifeTypeOK,
    C!CFQTypeOK, ThreadKnown, AllLost, Alive, BufferedControl, BufferedPasses,
    B!control, B!object
<1>6. ASSUME B!CycleOver(w) PROVE BufferedInv'
  BY <1>0, <1>6 DEF B!CycleOver, B!Goto, BufferedInv, TypeOK, LifeTypeOK,
    C!CFQTypeOK, ThreadKnown, AllLost, Alive, BufferedControl, BufferedPasses,
    B!control, B!object
<1>7. ASSUME NEW s \in Slaves, B!Visit(w, s) PROVE BufferedInv'
  BY <1>0, <1>7 DEF B!Visit, B!Goto, B!PassesOver, B!TalksTo, B!Waits, BufferedInv,
    TypeOK, LifeTypeOK, C!CFQTypeOK, ThreadKnown, AllLost, Alive,
    BufferedControl, BufferedPasses, B!control, B!object
<1> QED
  BY <1>2, <1>3, <1>4, <1>5, <1>6, <1>7 DEF B!BufferedWorker

-----------------------------------------------------------------------------
(* The invariant is inductive: whatever order the calls and the threads    *)
(* take their steps in, with either scheduler.                             *)
THEOREM LifeInvariant == Spec => []LifeInv
<1>1. Init => LifeInv
  BY InitLife
<1>2. LifeInv /\ [Next]_vars => LifeInv'
  <2> SUFFICES ASSUME LifeInv, [Next]_vars PROVE LifeInv'
    OBVIOUS
  <2>1. CASE CFQ(C!CFQStep)
    BY <2>1, CFQCallKeeps, CFQReturnKeeps, CFQWorkerKeeps DEF CFQ, C!CFQStep
  <2>2. CASE Buffered(B!BufferedStep)
    BY <2>2, BufferedCallKeeps, BufferedReturnKeeps, BufferedWorkerKeeps DEF
      Buffered, B!BufferedStep
  <2>3. CASE UNCHANGED vars
    BY <2>3 DEF vars, life, object, control, worker, LifeInv, TypeOK,
      LifeTypeOK, C!CFQTypeOK, Alive, ThreadKnown, AllLost, CFQControl,
      CFQPasses, BufferedControl, BufferedPasses
  <2> QED
    BY <2>1, <2>2, <2>3 DEF Next
<1> QED
  BY <1>1, <1>2, PTL DEF Spec

(* Every variable keeps its type; above all, the threads and the caller    *)
(* stay at places of the code.                                             *)
THEOREM TypeCorrect == Spec => []TypeOK
<1>1. LifeInv => TypeOK
  BY DEF LifeInv
<1> QED
  BY <1>1, LifeInvariant, PTL

(* A schedule thread is the one stop would join, and none outlives deinit, *)
(* in whatever order the program calls init, start, stop, registerSlave,   *)
(* unRegisterSlave and deinit of either class, and however late the thread *)
(* of a start sets run: but for the threads that OneThread excepts.        *)
THEOREM OneThreadAlive == Spec => []OneThread
<1>1. LifeInv => OneThread
  BY DEF LifeInv, OneThread, TypeOK, LifeTypeOK, Alive, ThreadKnown, AllLost,
    CFQControl, BufferedControl
<1> QED
  BY <1>1, LifeInvariant, PTL

(* Between a start of the CFQ scheduler that returned 0 and the next stop, *)
(* unRegisterSlave of the last slave or deinit, run is set.                *)
THEOREM StartedStays == Spec => []StartedRuns
<1>1. LifeInv => StartedRuns
  BY DEF LifeInv, StartedRuns, TypeOK, CFQControl, BufferedControl
<1> QED
  BY <1>1, LifeInvariant, PTL

(* No thread of the buffered scheduler ever holds a queue that is deleted, *)
(* and one of the CFQ scheduler only a queue that unRegisterSlave deleted. *)
THEOREM QueuesSafe == Spec => []QueuesOutlive
<1>1. LifeInv => QueuesOutlive
  BY DEF LifeInv, QueuesOutlive, TypeOK, CFQPasses, BufferedPasses
<1> QED
  BY <1>1, LifeInvariant, PTL
=============================================================================
