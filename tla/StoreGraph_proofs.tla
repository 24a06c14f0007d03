-------------------------- MODULE StoreGraph_proofs --------------------------
(***************************************************************************)
(* TLAPS proofs about StoreGraph: the store's maps keep their types, no    *)
(* channel outlives its device, no writer passes the device cap, the       *)
(* reconcile fan-out respects its semaphore, and the graph at rest is the  *)
(* daemon's but for the named races, for every set of addresses, channels  *)
(* and tasks and every cap.                                                *)
(***************************************************************************)
EXTENDS StoreGraph, FiniteSetTheorems, SequenceTheorems, TLAPS

Pushes == [op : {"created", "restored", "removed"}, addr : Addresses]

(* What a reconcile task may be in, by program counter.                     *)
TaskStates ==
    {IdleTask}
      \cup [pc : {"queued", "asked"}, addr : Addresses]
      \cup [pc : {"detail", "more"}, addr : Addresses, numbers : SUBSET Channels]
      \cup [pc : {"more", "points"}, addr : Addresses, number : Channels,
            numbers : SUBSET Channels]

(* A pairing table, the daemon's own or the one a snapshot carries.         *)
IsPairing(p) ==
    /\ DOMAIN p \subseteq Addresses
    /\ \A a \in DOMAIN p : p[a] \subseteq Channels

(* The inputs of the store's operations keep their types.                   *)
InputsOK ==
    /\ IsPairing(paired)
    /\ pushes \in Seq(Pushes)
    /\ walk.pc = "answered" => IsPairing(walk.snapshot)

TasksOK == rec \in [Tasks -> TaskStates] /\ FanOutBounded

StoreOK ==
    /\ devices \subseteq Addresses
    /\ channels \subseteq Keys
    /\ points \subseteq Keys
    /\ ChannelsHaveDevices
    /\ CapHolds

(* The inductive invariant: what the store promises, and the types of what  *)
(* its writers hand it.                                                     *)
GraphInv == StoreOK /\ TasksOK /\ InputsOK /\ announced \subseteq Addresses

-----------------------------------------------------------------------------
(***************************************************************************)
(* The operations of the store.                                            *)
(***************************************************************************)

(* The device map is finite, so its size is a number.                       *)
LEMMA DevicesFinite ==
    ASSUME StoreOK
    PROVE  IsFiniteSet(devices) /\ Cardinality(devices) \in Nat
BY GraphAssumption, FS_Subset, FS_CardinalityType DEF StoreOK

(* _can_admit_device keeps the map within its cap.                          *)
LEMMA AdmitOne ==
    ASSUME StoreOK, NEW a \in Addresses, CanAdmit(a)
    PROVE  Cardinality(devices \cup {a}) <= MaxDevices
<1>1. IsFiniteSet(devices) /\ Cardinality(devices) \in Nat
    BY DevicesFinite
<1>2. Cardinality(devices \cup {a}) = IF a \in devices THEN Cardinality(devices)
                                                       ELSE Cardinality(devices) + 1
    BY <1>1, FS_AddElement
<1> QED BY <1>1, <1>2, GraphAssumption DEF CanAdmit, StoreOK, CapHolds

(* apply_device_created keeps the store's promises.                         *)
LEMMA StubKeepsStore ==
    ASSUME StoreOK, NEW a \in Addresses, CreateStub(a)
    PROVE  StoreOK'
<1>1. CASE CanAdmit(a)
    <2>1. devices' = devices \cup {a} /\ channels' = channels /\ points' = points
        BY <1>1 DEF CreateStub
    <2>2. CapHolds'
        BY <1>1, <2>1, AdmitOne DEF CapHolds
    <2> QED BY <2>1, <2>2 DEF StoreOK, ChannelsHaveDevices, Keys
<1>2. CASE ~CanAdmit(a)
    BY <1>2 DEF CreateStub, StoreOK, ChannelsHaveDevices, CapHolds, Keys
<1> QED BY <1>1, <1>2

(* apply_device_removed keeps the store's promises.                         *)
LEMMA RemovalKeepsStore ==
    ASSUME StoreOK, NEW a \in Addresses, RemoveDevice(a)
    PROVE  StoreOK'
<1>1. /\ devices' = devices \ {a}
      /\ channels' = channels \ Of(a, channels)
      /\ points' \subseteq points
    BY DEF RemoveDevice
<1>2. CapHolds'
    <2>1. Cardinality(devices') <= Cardinality(devices) /\ Cardinality(devices') \in Nat
        BY <1>1, DevicesFinite, FS_Subset, FS_CardinalityType
    <2> QED BY <2>1, DevicesFinite, GraphAssumption DEF StoreOK, CapHolds
<1>3. ChannelsHaveDevices'
    BY <1>1 DEF StoreOK, ChannelsHaveDevices, Of
<1> QED BY <1>1, <1>2, <1>3 DEF StoreOK, Keys

(* attach_device_detail keeps the store's promises.                         *)
LEMMA DetailKeepsStore ==
    ASSUME StoreOK, NEW a \in Addresses, NEW numbers \in SUBSET Channels,
           AttachDetail(a, numbers)
    PROVE  StoreOK'
<1>1. CASE ~CanAdmit(a)
    BY <1>1 DEF AttachDetail, storeVars, StoreOK, ChannelsHaveDevices, CapHolds, Keys
<1>2. CASE CanAdmit(a)
    <2>1. /\ devices' = devices \cup {a}
          /\ channels' \subseteq channels \cup ({a} \X numbers)
          /\ points' \subseteq points
        BY <1>2 DEF AttachDetail, KeysOf
    <2>2. CapHolds'
        BY <1>2, <2>1, AdmitOne DEF CapHolds
    <2>3. ChannelsHaveDevices' /\ channels' \subseteq Keys
        BY <2>1 DEF StoreOK, ChannelsHaveDevices, Keys
    <2> QED BY <2>1, <2>2, <2>3 DEF StoreOK, Keys
<1> QED BY <1>1, <1>2

(* attach_channel_data_points touches the data points only.                 *)
LEMMA PointsKeepStore ==
    ASSUME StoreOK, NEW a \in Addresses, NEW number \in Channels, AttachPoints(a, number)
    PROVE  StoreOK'
BY DEF AttachPoints, StoreOK, ChannelsHaveDevices, CapHolds, Keys

(* load_snapshot and the attachments that follow keep the store's promises: *)
(* the loop admits no more devices than there is room for.                  *)
LEMMA SnapshotKeepsStore ==
    ASSUME StoreOK, InputsOK, SnapshotAttached
    PROVE  StoreOK'
<1> DEFINE inSnap == DOMAIN walk.snapshot
           keys   == UNION {KeysOf(a, walk.snapshot[a]) : a \in inSnap}
<1>1. IsPairing(walk.snapshot)
    BY DEF SnapshotAttached, InputsOK
<1>2. keys \subseteq Keys /\ \A k \in keys : k[1] \in inSnap
    BY <1>1 DEF IsPairing, KeysOf, Keys
<1>3. PICK admitted \in SUBSET (inSnap \ devices) :
        /\ Cardinality(admitted) = Admits(Cardinality(inSnap \ devices))
        /\ devices' = devices \cup admitted
        /\ channels' = {k \in channels : k[1] \notin admitted \cup (inSnap \cap devices)}
                         \cup {k \in keys : k[1] \in admitted \cup (inSnap \cap devices)}
        /\ points' \subseteq points \cup keys
    BY DEF SnapshotAttached
<1>4. /\ IsFiniteSet(inSnap \ devices) /\ Cardinality(inSnap \ devices) \in Nat
      /\ IsFiniteSet(admitted) /\ Cardinality(admitted) \in Nat
    <2>1. inSnap \ devices \in SUBSET Addresses /\ admitted \in SUBSET Addresses
        BY <1>1 DEF IsPairing
    <2> QED BY <2>1, GraphAssumption, FS_Subset, FS_CardinalityType
<1>5. CapHolds'
    <2>1. IsFiniteSet(devices) /\ Cardinality(devices) \in Nat
        BY DevicesFinite
    <2>2. devices \cap admitted = {}
        OBVIOUS
    <2>3. Cardinality(devices') = Cardinality(devices) + Cardinality(admitted)
        <3>1. Cardinality(devices \cup admitted) =
                Cardinality(devices) + Cardinality(admitted) - Cardinality(devices \cap admitted)
            BY <1>4, <2>1, FS_Union
        <3> QED BY <1>3, <1>4, <2>1, <2>2, <3>1, FS_EmptySet
    <2>4. Cardinality(devices) <= MaxDevices
        BY DEF StoreOK, CapHolds
    <2> QED BY <1>3, <1>4, <2>1, <2>3, <2>4, GraphAssumption DEF Admits, CapHolds
<1>6. ChannelsHaveDevices'
    BY <1>2, <1>3 DEF StoreOK, ChannelsHaveDevices
<1>7. devices' \subseteq Addresses /\ channels' \subseteq Keys /\ points' \subseteq Keys
    BY <1>1, <1>2, <1>3 DEF StoreOK, IsPairing
<1> QED BY <1>5, <1>6, <1>7 DEF StoreOK, Keys

-----------------------------------------------------------------------------
(***************************************************************************)
(* The reconcile tasks.                                                    *)
(***************************************************************************)

(* A task that moves on without taking a slot keeps the fan-out bounded.    *)
LEMMA TaskMoves ==
    ASSUME TasksOK, NEW t \in Tasks, NEW r \in TaskStates,
           rec' = [rec EXCEPT ![t] = r],
           r.pc \in {"idle", "queued"} \/ rec[t].pc \notin {"idle", "queued"}
    PROVE  TasksOK'
<1>1. rec' \in [Tasks -> TaskStates]
    BY DEF TasksOK
<1>2. Running' \in SUBSET Running
    BY DEF Running, TasksOK
<1>3. /\ IsFiniteSet(Running) /\ Cardinality(Running) \in Nat
      /\ Cardinality(Running') \in Nat /\ Cardinality(Running') <= Cardinality(Running)
    <2>1. Running \in SUBSET Tasks
        BY DEF Running
    <2> QED BY <1>2, <2>1, GraphAssumption, FS_Subset, FS_CardinalityType
<1>4. FanOutBounded'
    BY <1>3, GraphAssumption DEF FanOutBounded, TasksOK
<1> QED BY <1>1, <1>4 DEF TasksOK

(* Entering the semaphore keeps the fan-out bounded.                        *)
LEMMA SlotTaken ==
    ASSUME TasksOK, NEW t \in Tasks, TakeSlot(t)
    PROVE  TasksOK'
<1>1. rec[t].pc = "queued" /\ rec[t] \in TaskStates /\ Cardinality(Running) < Slots
    BY DEF TakeSlot, TasksOK
<1>2. rec[t] \in [pc : {"queued", "asked"}, addr : Addresses]
    BY <1>1 DEF TaskStates, IdleTask
<1>3. [rec[t] EXCEPT !.pc = "asked"] \in TaskStates
    BY <1>2 DEF TaskStates
<1>4. rec' = [rec EXCEPT ![t] = [rec[t] EXCEPT !.pc = "asked"]]
    BY DEF TakeSlot
<1>5. rec' \in [Tasks -> TaskStates]
    BY <1>3, <1>4 DEF TasksOK
<1>6. Running' = Running \cup {t}
    BY <1>2, <1>4, <1>5 DEF Running, TasksOK
<1>7. IsFiniteSet(Running) /\ Cardinality(Running) \in Nat
    <2>1. Running \in SUBSET Tasks
        BY DEF Running
    <2> QED BY <2>1, GraphAssumption, FS_Subset, FS_CardinalityType
<1>8. Cardinality(Running') <= Cardinality(Running) + 1
    BY <1>6, <1>7, FS_AddElement
<1>9. Cardinality(Running') \in Nat
    BY <1>6, <1>7, FS_AddElement, FS_CardinalityType
<1> QED BY <1>1, <1>5, <1>7, <1>8, <1>9, GraphAssumption DEF TasksOK, FanOutBounded

(* Moving on after an answer: the record of the task stays well formed.     *)
LEMMA MoreIsTask ==
    ASSUME TasksOK, NEW t \in Tasks, rec[t].pc \in {"detail", "points"}
    PROVE  [rec[t] EXCEPT !.pc = "more"] \in TaskStates
<1>1. rec[t] \in TaskStates
    BY DEF TasksOK
<1>2. \/ rec[t] \in [pc : {"detail", "more"}, addr : Addresses, numbers : SUBSET Channels]
      \/ rec[t] \in [pc : {"more", "points"}, addr : Addresses, number : Channels,
                     numbers : SUBSET Channels]
    BY <1>1 DEF TaskStates, IdleTask
<1> QED BY <1>2 DEF TaskStates

(* What a task beyond its first answer knows.                               *)
LEMMA TaskFields ==
    ASSUME TasksOK, NEW t \in Tasks
    PROVE  /\ rec[t].pc # "idle" => rec[t].addr \in Addresses
           /\ rec[t].pc \in {"detail", "more", "points"} => rec[t].numbers \in SUBSET Channels
           /\ rec[t].pc = "points" => rec[t].number \in Channels
           /\ rec[t].pc \in {"idle", "queued", "asked", "detail", "more", "points"}
<1>1. rec[t] \in TaskStates
    BY DEF TasksOK
<1> QED BY <1>1 DEF TaskStates, IdleTask

-----------------------------------------------------------------------------
(***************************************************************************)
(* The inductive step, one step per action.                                *)
(***************************************************************************)
(* The empty store of LoomStore.__init__ satisfies the invariant.           *)
LEMMA GraphInitInv == GraphInit => GraphInv
<1> SUFFICES ASSUME GraphInit PROVE GraphInv
    OBVIOUS
<1> USE DEF GraphInit
<1>1. StoreOK
    BY FS_EmptySet, GraphAssumption DEF StoreOK, ChannelsHaveDevices, CapHolds
<1>2. TasksOK
    <2>1. rec \in [Tasks -> TaskStates]
        BY DEF TaskStates
    <2>2. Running = {}
        BY DEF Running, IdleTask
    <2> QED BY <2>1, <2>2, FS_EmptySet, GraphAssumption DEF TasksOK, FanOutBounded
<1>3. InputsOK
    <2>1. IsPairing(paired)
        BY DEF IsPairing
    <2>2. pushes \in Seq(Pushes)
        BY EmptySeq
    <2> QED BY <2>1, <2>2 DEF InputsOK, NoWalk
<1> QED BY <1>1, <1>2, <1>3 DEF GraphInv

(* A step that leaves a part of the state alone keeps what is said of it.   *)
LEMMA StoreStutters ==
    ASSUME StoreOK, UNCHANGED storeVars
    PROVE  StoreOK'
BY DEF StoreOK, storeVars, ChannelsHaveDevices, CapHolds, Keys

(* The same of the reconcile tasks.                                         *)
LEMMA TasksStutter ==
    ASSUME TasksOK, UNCHANGED rec
    PROVE  TasksOK'
BY DEF TasksOK, FanOutBounded, Running, TaskStates

(* The same of the inputs, for a step that reads no new snapshot.           *)
LEMMA InputsStutter ==
    ASSUME InputsOK, UNCHANGED <<paired, pushes>>,
           walk' = walk \/ walk'.pc # "answered"
    PROVE  InputsOK'
BY DEF InputsOK, IsPairing

(* The daemon's own steps.                                                  *)
LEMMA DaemonStep ==
    ASSUME GraphInv, NEW a \in Addresses,
           \/ \E numbers \in (SUBSET Channels) \ {{}} : DaemonPairs(a, numbers)
           \/ DaemonUnpairs(a)
           \/ DaemonRestores(a)
    PROVE  GraphInv'
<1>1. StoreOK' /\ TasksOK' /\ announced' \subseteq Addresses
    BY StoreStutters, TasksStutter DEF GraphInv, DaemonPairs, DaemonUnpairs, DaemonRestores
<1>2. IsPairing(paired')
    BY DEF GraphInv, InputsOK, IsPairing, DaemonPairs, DaemonUnpairs, DaemonRestores
<1>3. pushes' \in Seq(Pushes)
    <2>1. PICK op \in {"created", "restored", "removed"} :
            pushes' = Append(pushes, [op |-> op, addr |-> a])
        BY DEF DaemonPairs, DaemonUnpairs, DaemonRestores
    <2>2. [op |-> op, addr |-> a] \in Pushes
        BY DEF Pushes
    <2> QED BY <2>1, <2>2, AppendProperties DEF GraphInv, InputsOK
<1>4. walk' = walk
    BY DEF DaemonPairs, DaemonUnpairs, DaemonRestores
<1> QED BY <1>1, <1>2, <1>3, <1>4 DEF GraphInv, InputsOK, IsPairing

(* The bridge and the client react to a push.                               *)
LEMMA PushStep ==
    ASSUME GraphInv, OnDeviceCreated \/ OnDeviceRemoved
    PROVE  GraphInv'
<1> DEFINE a == Head(pushes).addr
<1>1. pushes # <<>> /\ pushes' = Tail(pushes) /\ paired' = paired /\ walk' = walk
    BY DEF OnDeviceCreated, OnDeviceRemoved
<1>2. Head(pushes) \in Pushes /\ Tail(pushes) \in Seq(Pushes)
    BY <1>1, HeadTailProperties DEF GraphInv, InputsOK
<1>3. a \in Addresses
    BY <1>2 DEF Pushes
<1>4. InputsOK'
    BY <1>1, <1>2 DEF GraphInv, InputsOK, IsPairing
<1>5. CASE OnDeviceCreated
    <2>1. StoreOK'
        BY <1>3, <1>5, StubKeepsStore DEF OnDeviceCreated, GraphInv
    <2>2. TasksOK'
        <3>1. CASE rec' = rec
            BY <3>1, TasksStutter DEF GraphInv
        <3>2. CASE \E t \in Tasks : rec' = [rec EXCEPT ![t] = [pc |-> "queued", addr |-> a]]
            <4>1. PICK t \in Tasks : rec' = [rec EXCEPT ![t] = [pc |-> "queued", addr |-> a]]
                BY <3>2
            <4>2. [pc |-> "queued", addr |-> a] \in TaskStates
                BY <1>3 DEF TaskStates
            <4> QED BY <4>1, <4>2, TaskMoves DEF GraphInv
        <3> QED BY <1>5, <3>1, <3>2 DEF OnDeviceCreated
    <2> QED BY <1>4, <1>5, <2>1, <2>2 DEF GraphInv, OnDeviceCreated
<1>6. CASE OnDeviceRemoved
    <2>1. StoreOK'
        BY <1>3, <1>6, RemovalKeepsStore DEF OnDeviceRemoved, GraphInv
    <2>2. TasksOK' /\ announced' \subseteq Addresses
        BY <1>6, TasksStutter DEF OnDeviceRemoved, GraphInv
    <2> QED BY <1>4, <2>1, <2>2 DEF GraphInv
<1> QED BY <1>5, <1>6

(* A reconcile task moves.                                                  *)
LEMMA TaskStep ==
    ASSUME GraphInv, NEW t \in Tasks,
           \/ TakeSlot(t) \/ DetailAnswered(t) \/ DetailAttached(t) \/ PointsAttached(t)
           \/ \E number \in Channels : PointsAnswered(t, number)
           \/ ReconcileDone(t) \/ ReconcileFails(t)
    PROVE  GraphInv'
<1>1. InputsOK'
    <2>1. UNCHANGED <<paired, pushes, walk>>
        BY DEF TakeSlot, DetailAnswered, DetailAttached, PointsAnswered, PointsAttached,
               ReconcileDone, ReconcileFails, daemonVars
    <2> QED BY <2>1, InputsStutter DEF GraphInv
<1>2. TasksOK /\ StoreOK
    BY DEF GraphInv
<1>3. IdleTask \in TaskStates /\ IdleTask.pc = "idle"
    BY DEF TaskStates, IdleTask
<1>4. announced' \subseteq Addresses
    BY DEF GraphInv, StoreOK, TakeSlot, DetailAnswered, DetailAttached, PointsAnswered,
           PointsAttached, ReconcileDone, ReconcileFails
<1>5. CASE TakeSlot(t)
    BY <1>1, <1>2, <1>4, <1>5, SlotTaken, StoreStutters DEF GraphInv, TakeSlot
<1>6. CASE DetailAnswered(t)
    <2> DEFINE r == IF rec[t].addr \in DOMAIN paired
                      THEN [pc |-> "detail", addr |-> rec[t].addr, numbers |-> paired[rec[t].addr]]
                      ELSE IdleTask
    <2>1. rec' = [rec EXCEPT ![t] = r] /\ rec[t].pc = "asked"
        BY <1>6 DEF DetailAnswered
    <2>2. r \in TaskStates
        BY <1>3 DEF TaskStates, GraphInv, InputsOK, IsPairing
    <2>3. TasksOK'
        BY <1>2, <2>1, <2>2, TaskMoves
    <2> QED BY <1>1, <1>2, <1>4, <1>6, <2>3, StoreStutters DEF GraphInv, DetailAnswered
<1>7. CASE DetailAttached(t)
    <2>1. rec' = [rec EXCEPT ![t] = [rec[t] EXCEPT !.pc = "more"]] /\ rec[t].pc = "detail"
        BY <1>7 DEF DetailAttached
    <2>2. TasksOK'
        BY <1>2, <2>1, MoreIsTask, TaskMoves
    <2>3. rec[t].addr \in Addresses /\ rec[t].numbers \in SUBSET Channels
        BY <1>2, <2>1, TaskFields
    <2>4. StoreOK'
        BY <1>2, <1>7, <2>3, DetailKeepsStore DEF DetailAttached
    <2> QED BY <1>1, <1>4, <2>2, <2>4 DEF GraphInv
<1>8. CASE PointsAttached(t)
    <2>1. rec' = [rec EXCEPT ![t] = [rec[t] EXCEPT !.pc = "more"]] /\ rec[t].pc = "points"
        BY <1>8 DEF PointsAttached
    <2>2. TasksOK'
        BY <1>2, <2>1, MoreIsTask, TaskMoves
    <2>3. rec[t].addr \in Addresses /\ rec[t].number \in Channels
        BY <1>2, <2>1, TaskFields
    <2>4. StoreOK'
        BY <1>2, <1>8, <2>3, PointsKeepStore DEF PointsAttached
    <2> QED BY <1>1, <1>4, <2>2, <2>4 DEF GraphInv
<1>9. CASE \E number \in Channels : PointsAnswered(t, number)
    <2>1. PICK number \in Channels : PointsAnswered(t, number)
        BY <1>9
    <2> DEFINE r == IF rec[t].addr \in DOMAIN paired /\ number \in paired[rec[t].addr]
                      THEN [pc |-> "points", addr |-> rec[t].addr, number |-> number,
                            numbers |-> rec[t].numbers \ {number}]
                      ELSE IdleTask
    <2>2. rec' = [rec EXCEPT ![t] = r] /\ rec[t].pc = "more"
        BY <2>1 DEF PointsAnswered
    <2>3. rec[t].addr \in Addresses /\ rec[t].numbers \in SUBSET Channels
        BY <1>2, <2>2, TaskFields
    <2>4. r \in TaskStates
        BY <1>3, <2>3 DEF TaskStates
    <2>5. TasksOK'
        BY <1>2, <2>2, <2>4, TaskMoves
    <2> QED BY <1>1, <1>2, <1>4, <2>1, <2>5, StoreStutters DEF GraphInv, PointsAnswered
<1>10. CASE ReconcileDone(t) \/ ReconcileFails(t)
    <2>1. rec' = [rec EXCEPT ![t] = IdleTask] /\ UNCHANGED storeVars
        BY <1>10 DEF ReconcileDone, ReconcileFails
    <2>2. TasksOK'
        BY <1>2, <1>3, <2>1, TaskMoves
    <2> QED BY <1>1, <1>2, <1>4, <2>1, <2>2, StoreStutters DEF GraphInv
<1> QED BY <1>5, <1>6, <1>7, <1>8, <1>9, <1>10

(* The loss of pushes and the walk it starts.                               *)
LEMMA WalkStep ==
    ASSUME GraphInv, PushesLost \/ SnapshotRead \/ SnapshotAttached \/ WalkAnnounces
    PROVE  GraphInv'
<1>1. TasksOK'
    BY TasksStutter DEF GraphInv, PushesLost, SnapshotRead, SnapshotAttached, WalkAnnounces
<1>2. announced' \subseteq Addresses
    BY DEF GraphInv, StoreOK, PushesLost, SnapshotRead, SnapshotAttached, WalkAnnounces
<1>3. StoreOK'
    BY SnapshotKeepsStore, StoreStutters
    DEF GraphInv, PushesLost, SnapshotRead, WalkAnnounces
<1>4. InputsOK'
    <2>1. CASE PushesLost
        <3>1. pushes' \in Seq(Pushes)
            BY <2>1, EmptySeq DEF PushesLost
        <3> QED BY <2>1, <3>1 DEF PushesLost, GraphInv, InputsOK, IsPairing
    <2>2. CASE SnapshotRead
        BY <2>2 DEF SnapshotRead, daemonVars, GraphInv, InputsOK, IsPairing
    <2>3. CASE SnapshotAttached \/ WalkAnnounces
        BY <2>3, InputsStutter DEF SnapshotAttached, WalkAnnounces, NoWalk, daemonVars, GraphInv
    <2> QED BY <2>1, <2>2, <2>3
<1> QED BY <1>1, <1>2, <1>3, <1>4 DEF GraphInv

(* Every step keeps the inductive invariant.                                *)
LEMMA GraphNextInv == GraphInv /\ [GraphNext]_graphVars => GraphInv'
<1> SUFFICES ASSUME GraphInv, [GraphNext]_graphVars PROVE GraphInv'
    OBVIOUS
<1>1. CASE UNCHANGED graphVars
    BY <1>1, StoreStutters, TasksStutter, InputsStutter DEF graphVars, daemonVars, GraphInv
<1>2. CASE GraphNext
    BY <1>2, DaemonStep, PushStep, TaskStep, WalkStep DEF GraphNext
<1> QED BY <1>1, <1>2

-----------------------------------------------------------------------------
(* The store keeps its promises and its writers their types, through any    *)
(* interleaving of pushes, reconciles and snapshot walks.                   *)
THEOREM GraphCorrect == GraphSpec => []GraphInv
BY GraphInitInv, GraphNextInv, PTL DEF GraphSpec

(* The maps of LoomStore hold keys of their kind (store.py) and a reconcile *)
(* task is always at one of its steps (client.py).                          *)
THEOREM GraphTypes == GraphSpec => []GraphTypeOK
<1>1. GraphInv => GraphTypeOK
    <2> SUFFICES ASSUME GraphInv PROVE GraphTypeOK
        OBVIOUS
    <2>1. \A t \in Tasks : rec[t].pc \in {"idle", "queued", "asked", "detail", "more", "points"}
        BY TaskFields DEF GraphInv
    <2> QED BY <2>1 DEF GraphInv, StoreOK, GraphTypeOK
<1> QED BY <1>1, GraphCorrect, PTL

(* No channel outlives its device (apply_device_removed,                    *)
(* attach_device_detail), whatever late answer is applied.                  *)
THEOREM GraphChannelsHaveDevices == GraphSpec => []ChannelsHaveDevices
<1>1. GraphInv => ChannelsHaveDevices
    BY DEF GraphInv, StoreOK
<1> QED BY <1>1, GraphCorrect, PTL

(* No writer grows the device map past its cap (_can_admit_device), for     *)
(* every cap and every fleet.                                               *)
THEOREM GraphCapHolds == GraphSpec => []CapHolds
<1>1. GraphInv => CapHolds
    BY DEF GraphInv, StoreOK
<1> QED BY <1>1, GraphCorrect, PTL

(* The reconcile fan-out never exceeds the semaphore                        *)
(* (_reconcile_new_device), for every number of slots.                      *)
THEOREM GraphFanOutBounded == GraphSpec => []FanOutBounded
<1>1. GraphInv => FanOutBounded
    BY DEF GraphInv, TasksOK
<1> QED BY <1>1, GraphCorrect, PTL

-----------------------------------------------------------------------------
(***************************************************************************)
(* The graph at rest.  For an address without blame, the invariant says    *)
(* what will make the store right about it: the removal on its way, the    *)
(* created push, the walk, or a reconcile task and how far it has come.    *)
(***************************************************************************)
Blamed(a) == \E r \in Reasons : a \in blame[r]

About(i, a, op) == pushes[i].addr = a /\ pushes[i].op = op
Pending(a, op) == \E i \in 1 .. Len(pushes) : About(i, a, op)

(* The pushes about a device come in the order of its life.                 *)
PushesOK ==
    \A a \in Addresses : \A i \in 1 .. Len(pushes) : pushes[i].addr = a =>
        /\ a \notin DOMAIN paired => \E j \in i .. Len(pushes) : About(j, a, "removed")
        /\ a \in DOMAIN paired /\ pushes[i].op = "removed" =>
             \E j \in i + 1 .. Len(pushes) : About(j, a, "created")
        /\ pushes[i].op = "created" =>
             \A h \in 1 .. i - 1 : pushes[h].addr = a /\ pushes[h].op # "removed" =>
                 \E j \in h + 1 .. i - 1 : About(j, a, "removed")

Clear(a) == a \notin devices /\ a \notin announced /\ Of(a, channels) = {} /\ Of(a, points) = {}
Full(a) ==
    /\ a \in devices
    /\ Of(a, channels) = KeysOf(a, paired[a]) /\ Of(a, points) = KeysOf(a, paired[a])
Told(a) == a \in announced \/ walk.pc = "attached"

WalkBrings(a) ==
    \/ walk.pc = "asked"
    \/ walk.pc = "answered" /\ a \in DOMAIN walk.snapshot /\ walk.snapshot[a] = paired[a]

(* What a task in the loop over the channels has still to attach.           *)
ToRead(t) == rec[t].numbers \cup (IF rec[t].pc = "points" THEN {rec[t].number} ELSE {})
TaskBrings(a, t) ==
    /\ rec[t].pc # "idle" /\ rec[t].addr = a
    /\ rec[t].pc = "detail" => rec[t].numbers = paired[a]
    /\ rec[t].pc \in {"more", "points"} =>
         /\ ToRead(t) \subseteq paired[a]
         /\ Of(a, channels) = KeysOf(a, paired[a])
         /\ KeysOf(a, paired[a] \ ToRead(t)) \subseteq points

Explained(a) ==
    /\ Of(a, points) \subseteq channels
    /\ ~Pending(a, "removed") =>
         IF a \notin DOMAIN paired THEN Clear(a)
         ELSE IF Pending(a, "created") THEN Clear(a) \/ (Full(a) /\ Told(a))
         ELSE \/ Full(a) /\ Told(a)
              \/ WalkBrings(a)
              \/ a \in devices /\ \E t \in Tasks : TaskBrings(a, t)

BlameOK == blame \in [Reasons -> SUBSET Addresses]
PairingsOK == \A a \in DOMAIN paired : paired[a] # {}

ExplainInv ==
    /\ GraphInv /\ PairingsOK /\ BlameOK /\ PushesOK
    /\ \A a \in Addresses : Blamed(a) \/ Explained(a)

(* A push has been appended.                                                *)
LEMMA PushAppended ==
    ASSUME pushes \in Seq(Pushes), NEW p \in Pushes, pushes' = Append(pushes, p)
    PROVE  /\ Len(pushes) \in Nat /\ Len(pushes') = Len(pushes) + 1
           /\ \A i \in 1 .. Len(pushes) : pushes'[i] = pushes[i]
           /\ pushes'[Len(pushes) + 1] = p
           /\ \A a \in Addresses, op \in {"created", "removed"} :
                Pending(a, op)' <=> Pending(a, op) \/ (p.addr = a /\ p.op = op)
<1>1. /\ Len(pushes) \in Nat /\ Len(pushes') = Len(pushes) + 1
      /\ \A i \in 1 .. Len(pushes) : pushes'[i] = pushes[i]
      /\ pushes'[Len(pushes) + 1] = p
    BY AppendProperties, LenProperties
<1>2. 1 .. Len(pushes') = (1 .. Len(pushes)) \cup {Len(pushes) + 1}
    BY <1>1
<1>3. ASSUME NEW a \in Addresses, NEW op \in {"created", "removed"}
      PROVE  Pending(a, op)' <=> Pending(a, op) \/ (p.addr = a /\ p.op = op)
    BY <1>1, <1>2 DEF Pending, About
<1> QED BY <1>1, <1>3

(* The first push has been taken: the others keep their order.              *)
LEMMA PushTaken ==
    ASSUME pushes \in Seq(Pushes), pushes # <<>>, pushes' = Tail(pushes)
    PROVE  /\ Len(pushes) \in Nat \ {0} /\ Len(pushes') = Len(pushes) - 1
           /\ \A i \in 1 .. Len(pushes') : i + 1 \in 1 .. Len(pushes) /\ pushes'[i] = pushes[i + 1]
           /\ \A j \in 2 .. Len(pushes) : j - 1 \in 1 .. Len(pushes') /\ pushes'[j - 1] = pushes[j]
           /\ Head(pushes) = pushes[1] /\ pushes[1] \in Pushes
           /\ \A a \in Addresses, op \in {"created", "removed"} :
                Pending(a, op) <=> Pending(a, op)' \/ About(1, a, op)
<1>1. /\ Len(pushes) \in Nat \ {0} /\ Len(pushes') = Len(pushes) - 1
      /\ \A i \in 1 .. Len(pushes') : i + 1 \in 1 .. Len(pushes) /\ pushes'[i] = pushes[i + 1]
      /\ Head(pushes) = pushes[1] /\ pushes[1] \in Pushes
    BY HeadTailProperties, LenProperties, EmptySeq
<1>2. \A j \in 2 .. Len(pushes) : j - 1 \in 1 .. Len(pushes') /\ pushes'[j - 1] = pushes[j]
    <2> TAKE j \in 2 .. Len(pushes)
    <2>1. j - 1 \in 1 .. Len(pushes') /\ j = (j - 1) + 1
        BY <1>1
    <2> QED BY <1>1, <2>1
<1>3. ASSUME NEW a \in Addresses, NEW op \in {"created", "removed"}
      PROVE  Pending(a, op) <=> Pending(a, op)' \/ About(1, a, op)
    <2>1. ASSUME Pending(a, op) PROVE Pending(a, op)' \/ About(1, a, op)
        <3>1. PICK i \in 1 .. Len(pushes) : About(i, a, op)
            BY <2>1 DEF Pending
        <3>2. CASE i = 1
            BY <3>1, <3>2
        <3>3. CASE i # 1
            <4>1. i \in 2 .. Len(pushes)
                BY <1>1, <3>3
            <4> QED BY <1>2, <3>1, <4>1 DEF Pending, About
        <3> QED BY <3>2, <3>3
    <2>2. ASSUME Pending(a, op)' PROVE Pending(a, op)
        BY <1>1, <2>2 DEF Pending, About
    <2>3. ASSUME About(1, a, op) PROVE Pending(a, op)
        BY <1>1, <2>3 DEF Pending
    <2> QED BY <2>1, <2>2, <2>3
<1> QED BY <1>1, <1>2, <1>3

(* A push about a device comes behind every earlier one, and says what has  *)
(* become of it.                                                            *)
LEMMA OrderAppended ==
    ASSUME PushesOK, pushes \in Seq(Pushes), NEW p \in Pushes, pushes' = Append(pushes, p),
           \A a \in Addresses \ {p.addr} : a \in DOMAIN paired' <=> a \in DOMAIN paired,
           p.op = "created" => p.addr \notin DOMAIN paired,
           p.addr \in DOMAIN paired' <=> p.op # "removed",
           p.op = "restored" => p.addr \in DOMAIN paired
    PROVE  PushesOK'
<1>3. PICK n \in Nat : n = Len(pushes)
    BY LenProperties
<1>1. /\ n \in Nat /\ Len(pushes') = n + 1
      /\ \A i \in 1 .. n : pushes'[i] = pushes[i]
      /\ pushes'[n + 1] = p
    BY <1>3, PushAppended
<1>2. p.addr \in Addresses /\ p.op \in {"created", "restored", "removed"}
    BY DEF Pushes
<1> SUFFICES ASSUME NEW a \in Addresses, NEW i \in 1 .. n + 1, pushes'[i].addr = a
             PROVE  /\ a \notin DOMAIN paired' => \E j \in i .. n + 1 : About(j, a, "removed")'
                    /\ a \in DOMAIN paired' /\ pushes'[i].op = "removed" =>
                         \E j \in i + 1 .. n + 1 : About(j, a, "created")'
                    /\ pushes'[i].op = "created" =>
                         \A h \in 1 .. i - 1 : pushes'[h].addr = a /\ pushes'[h].op # "removed" =>
                             \E j \in h + 1 .. i - 1 : About(j, a, "removed")'
    BY <1>1 DEF PushesOK
<1>4. ASSUME a \notin DOMAIN paired' PROVE \E j \in i .. n + 1 : About(j, a, "removed")'
    <2>1. CASE a = p.addr
        <3>1. About(n + 1, a, "removed")'
            BY <1>1, <1>4, <2>1 DEF About
        <3> QED BY <1>1, <3>1
    <2>2. CASE a # p.addr
        <3>1. i \in 1 .. n /\ a \notin DOMAIN paired
            BY <1>1, <1>4, <2>2
        <3>2. PICK j \in i .. n : About(j, a, "removed")
            BY <1>1, <1>3, <3>1 DEF PushesOK
        <3> QED BY <1>1, <3>1, <3>2 DEF About
    <2> QED BY <2>1, <2>2
<1>5. ASSUME a \in DOMAIN paired', pushes'[i].op = "removed"
      PROVE  \E j \in i + 1 .. n + 1 : About(j, a, "created")'
    <2>1. i \in 1 .. n
        BY <1>1, <1>5
    <2>2. CASE a \in DOMAIN paired
        <3>1. PICK j \in i + 1 .. n : About(j, a, "created")
            BY <1>1, <1>3, <1>5, <2>1, <2>2 DEF PushesOK
        <3> QED BY <1>1, <2>1, <3>1 DEF About
    <2>3. CASE a \notin DOMAIN paired
        <3>1. About(n + 1, a, "created")'
            BY <1>1, <1>2, <1>5, <2>3 DEF About
        <3> QED BY <1>1, <2>1, <3>1
    <2> QED BY <2>2, <2>3
<1>6. ASSUME pushes'[i].op = "created", NEW h \in 1 .. i - 1,
             pushes'[h].addr = a, pushes'[h].op # "removed"
      PROVE  \E j \in h + 1 .. i - 1 : About(j, a, "removed")'
    <2>1. h \in 1 .. n /\ pushes[h] = pushes'[h]
        BY <1>1
    <2>2. CASE i \in 1 .. n
        <3>1. PICK j \in h + 1 .. i - 1 : About(j, a, "removed")
            BY <1>1, <1>3, <1>6, <2>1, <2>2 DEF PushesOK
        <3>2. j \in 1 .. n
            BY <1>1, <2>2
        <3> QED BY <1>1, <3>1, <3>2 DEF About
    <2>3. CASE i = n + 1
        <3>1. a \notin DOMAIN paired
            BY <1>1, <1>6, <2>3
        <3>2. PICK j \in h .. n : About(j, a, "removed")
            BY <1>3, <1>6, <2>1, <3>1 DEF PushesOK
        <3>3. j # h
            BY <1>6, <2>1, <3>2 DEF About
        <3>4. j \in h + 1 .. i - 1 /\ j \in 1 .. n
            BY <1>1, <2>1, <2>3, <3>3
        <3> QED BY <1>1, <3>2, <3>4 DEF About
    <2> QED BY <1>1, <2>2, <2>3
<1> QED BY <1>4, <1>5, <1>6

(* Taking the first push keeps the order of the others.                     *)
LEMMA OrderTaken ==
    ASSUME PushesOK, pushes \in Seq(Pushes), pushes # <<>>, pushes' = Tail(pushes), paired' = paired
    PROVE  PushesOK'
<1>1. /\ Len(pushes) \in Nat \ {0} /\ Len(pushes') = Len(pushes) - 1
      /\ \A i \in 1 .. Len(pushes') : i + 1 \in 1 .. Len(pushes) /\ pushes'[i] = pushes[i + 1]
      /\ \A j \in 2 .. Len(pushes) : j - 1 \in 1 .. Len(pushes') /\ pushes'[j - 1] = pushes[j]
    BY PushTaken
<1> SUFFICES ASSUME NEW a \in Addresses, NEW i \in 1 .. Len(pushes'), pushes'[i].addr = a
             PROVE  /\ a \notin DOMAIN paired => \E j \in i .. Len(pushes') : About(j, a, "removed")'
                    /\ a \in DOMAIN paired /\ pushes'[i].op = "removed" =>
                         \E j \in i + 1 .. Len(pushes') : About(j, a, "created")'
                    /\ pushes'[i].op = "created" =>
                         \A h \in 1 .. i - 1 : pushes'[h].addr = a /\ pushes'[h].op # "removed" =>
                             \E j \in h + 1 .. i - 1 : About(j, a, "removed")'
    BY DEF PushesOK
<1>2. i + 1 \in 1 .. Len(pushes) /\ pushes[i + 1] = pushes'[i]
    BY <1>1
<1>3. ASSUME a \notin DOMAIN paired PROVE \E j \in i .. Len(pushes') : About(j, a, "removed")'
    <2>1. PICK j \in i + 1 .. Len(pushes) : About(j, a, "removed")
        BY <1>2, <1>3 DEF PushesOK
    <2>2. j - 1 \in i .. Len(pushes') /\ pushes'[j - 1] = pushes[j]
        BY <1>1
    <2> QED BY <2>1, <2>2 DEF About
<1>4. ASSUME a \in DOMAIN paired, pushes'[i].op = "removed"
      PROVE  \E j \in i + 1 .. Len(pushes') : About(j, a, "created")'
    <2>1. PICK j \in (i + 1) + 1 .. Len(pushes) : About(j, a, "created")
        BY <1>2, <1>4 DEF PushesOK
    <2>2. j - 1 \in i + 1 .. Len(pushes') /\ pushes'[j - 1] = pushes[j]
        BY <1>1
    <2> QED BY <2>1, <2>2 DEF About
<1>5. ASSUME pushes'[i].op = "created", NEW h \in 1 .. i - 1,
             pushes'[h].addr = a, pushes'[h].op # "removed"
      PROVE  \E j \in h + 1 .. i - 1 : About(j, a, "removed")'
    <2>1. h + 1 \in 1 .. (i + 1) - 1 /\ pushes[h + 1] = pushes'[h]
        BY <1>1
    <2>2. PICK j \in (h + 1) + 1 .. (i + 1) - 1 : About(j, a, "removed")
        BY <1>2, <1>5, <2>1 DEF PushesOK
    <2>3. j - 1 \in h + 1 .. i - 1 /\ j \in 2 .. Len(pushes)
        BY <1>1
    <2>4. pushes'[j - 1] = pushes[j]
        BY <1>1, <2>3
    <2> QED BY <2>2, <2>3, <2>4 DEF About
<1> QED BY <1>3, <1>4, <1>5

(* A step that touches neither pushes nor pairings keeps their order.       *)
LEMMA OrderStays ==
    ASSUME PushesOK, pushes' = pushes, paired' = paired
    PROVE  /\ PushesOK'
           /\ \A a \in Addresses, op \in {"created", "removed"} : Pending(a, op)' <=> Pending(a, op)
BY DEF PushesOK, Pending, About

(* A task goes on bringing a device while nobody takes its channels away.   *)
LEMMA TaskStays ==
    ASSUME NEW a \in Addresses, NEW t \in Tasks, TaskBrings(a, t), rec'[t] = rec[t],
           paired'[a] = paired[a], Of(a, channels') = Of(a, channels), Of(a, points) \subseteq points'
    PROVE  TaskBrings(a, t)'
<1>1. ToRead(t)' = ToRead(t)
    BY DEF ToRead
<1>2. KeysOf(a, paired[a] \ ToRead(t)) \subseteq points => KeysOf(a, paired[a] \ ToRead(t)) \subseteq points'
    BY DEF KeysOf, Of
<1> QED BY <1>1, <1>2 DEF TaskBrings

(* A step that leaves an address alone, and what brings it, explains it on. *)
LEMMA Untouched ==
    ASSUME NEW a \in Addresses, Explained(a),
           Pending(a, "removed")' <=> Pending(a, "removed"),
           Pending(a, "created")' <=> Pending(a, "created"),
           a \in DOMAIN paired' <=> a \in DOMAIN paired,
           a \in DOMAIN paired => paired'[a] = paired[a],
           a \in devices' <=> a \in devices, a \in announced' <=> a \in announced,
           Of(a, channels') = Of(a, channels), Of(a, points') = Of(a, points),
           Told(a) => Told(a)', a \in DOMAIN paired /\ WalkBrings(a) => WalkBrings(a)',
           \A t \in Tasks : a \in DOMAIN paired /\ TaskBrings(a, t) => TaskBrings(a, t)'
    PROVE  Explained(a)'
<1>1. (Of(a, points) \subseteq channels)'
    BY DEF Explained, Of
<1>2. Clear(a)' <=> Clear(a)
    BY DEF Clear
<1>3. a \in DOMAIN paired => (Full(a)' <=> Full(a))
    BY DEF Full
<1> QED BY <1>1, <1>2, <1>3 DEF Explained

(* Blame is never taken back.                                               *)
LEMMA BlameStays ==
    ASSUME NEW a \in Addresses, Blamed(a), \A r \in Reasons : blame[r] \subseteq blame'[r]
    PROVE  Blamed(a)'
BY DEF Blamed

-----------------------------------------------------------------------------
(* Pairing: the created push is on its way behind every other.              *)
LEMMA PairsExplained ==
    ASSUME ExplainInv, NEW b \in Addresses, NEW numbers \in (SUBSET Channels) \ {{}},
           DaemonPairs(b, numbers)
    PROVE  PairingsOK' /\ BlameOK' /\ PushesOK' /\ \A a \in Addresses : Blamed(a)' \/ Explained(a)'
<1> DEFINE p == [op |-> "created", addr |-> b]
<1>1. /\ b \notin DOMAIN paired
      /\ DOMAIN paired' = DOMAIN paired \cup {b}
      /\ paired'[b] = numbers /\ \A a \in DOMAIN paired : a # b /\ paired'[a] = paired[a]
      /\ pushes' = Append(pushes, p)
      /\ UNCHANGED <<devices, channels, points, rec, walk, announced, blame>>
    BY DEF DaemonPairs, storeVars
<1>2. p \in Pushes /\ pushes \in Seq(Pushes) /\ p.addr = b /\ p.op = "created"
    BY DEF Pushes, ExplainInv, GraphInv, InputsOK
<1> HIDE DEF p
<1>3. \A a \in Addresses, op \in {"created", "removed"} :
        Pending(a, op)' <=> Pending(a, op) \/ (p.addr = a /\ p.op = op)
    BY <1>1, <1>2, PushAppended
<1>4. PairingsOK'
    BY <1>1 DEF ExplainInv, PairingsOK
<1>5. BlameOK'
    BY <1>1 DEF ExplainInv, BlameOK
<1>6. PushesOK'
    BY <1>1, <1>2, OrderAppended DEF ExplainInv
<1>7. ASSUME NEW a \in Addresses PROVE Blamed(a)' \/ Explained(a)'
    <2>1. CASE Blamed(a)
        BY <1>1, <2>1, BlameStays
    <2>2. CASE a = b /\ Explained(a)
        <3>1. Pending(a, "created")' /\ (Pending(a, "removed")' <=> Pending(a, "removed"))
            BY <1>2, <1>3, <2>2
        <3>2. (Of(a, points) \subseteq channels)'
            BY <1>1, <2>2 DEF Explained
        <3>3. ~Pending(a, "removed") => Clear(a)'
            BY <1>1, <2>2 DEF Explained, Clear
        <3> QED BY <3>1, <3>2, <3>3 DEF Explained
    <2>3. CASE a # b /\ Explained(a)
        <3>1. \A op \in {"created", "removed"} : Pending(a, op)' <=> Pending(a, op)
            BY <1>2, <1>3, <2>3
        <3>2. (Told(a) => Told(a)') /\ (a \in DOMAIN paired => (WalkBrings(a) => WalkBrings(a)'))
            BY <1>1 DEF Told, WalkBrings
        <3>3. \A t \in Tasks : a \in DOMAIN paired /\ TaskBrings(a, t) => TaskBrings(a, t)'
            <4> TAKE t \in Tasks
            <4> HAVE a \in DOMAIN paired /\ TaskBrings(a, t)
            <4>1. Of(a, points) \subseteq points' /\ Of(a, channels') = Of(a, channels)
                BY <1>1 DEF Of
            <4> QED BY <1>1, <4>1, TaskStays
        <3> QED BY <1>1, <2>3, <3>1, <3>2, <3>3, Untouched
    <2> QED BY <2>1, <2>2, <2>3 DEF ExplainInv
<1> QED BY <1>4, <1>5, <1>6, <1>7

(* Unpairing: the removed push is on its way, and while it is the store may *)
(* hold what it likes of the device.                                        *)
LEMMA UnpairsExplained ==
    ASSUME ExplainInv, NEW b \in Addresses, DaemonUnpairs(b)
    PROVE  PairingsOK' /\ BlameOK' /\ PushesOK' /\ \A a \in Addresses : Blamed(a)' \/ Explained(a)'
<1> DEFINE p == [op |-> "removed", addr |-> b]
<1>1. /\ b \in DOMAIN paired
      /\ DOMAIN paired' = DOMAIN paired \ {b}
      /\ \A a \in DOMAIN paired : a # b => paired'[a] = paired[a]
      /\ pushes' = Append(pushes, p)
      /\ UNCHANGED <<devices, channels, points, rec, walk, announced, blame>>
    BY DEF DaemonUnpairs, storeVars
<1>2. p \in Pushes /\ pushes \in Seq(Pushes) /\ p.addr = b /\ p.op = "removed"
    BY DEF Pushes, ExplainInv, GraphInv, InputsOK
<1> HIDE DEF p
<1>3. \A a \in Addresses, op \in {"created", "removed"} :
        Pending(a, op)' <=> Pending(a, op) \/ (p.addr = a /\ p.op = op)
    BY <1>1, <1>2, PushAppended
<1>4. PairingsOK'
    BY <1>1 DEF ExplainInv, PairingsOK
<1>5. BlameOK'
    BY <1>1 DEF ExplainInv, BlameOK
<1>6. PushesOK'
    BY <1>1, <1>2, OrderAppended DEF ExplainInv
<1>7. ASSUME NEW a \in Addresses PROVE Blamed(a)' \/ Explained(a)'
    <2>1. CASE Blamed(a)
        BY <1>1, <2>1, BlameStays
    <2>2. CASE a = b /\ Explained(a)
        <3>1. Pending(a, "removed")'
            BY <1>2, <1>3, <2>2
        <3>2. (Of(a, points) \subseteq channels)'
            BY <1>1, <2>2 DEF Explained
        <3> QED BY <3>1, <3>2 DEF Explained
    <2>3. CASE a # b /\ Explained(a)
        <3>1. \A op \in {"created", "removed"} : Pending(a, op)' <=> Pending(a, op)
            BY <1>2, <1>3, <2>3
        <3>2. (Told(a) => Told(a)') /\ (a \in DOMAIN paired => (WalkBrings(a) => WalkBrings(a)'))
            BY <1>1, <2>3 DEF Told, WalkBrings
        <3>3. \A t \in Tasks : a \in DOMAIN paired /\ TaskBrings(a, t) => TaskBrings(a, t)'
            <4> TAKE t \in Tasks
            <4> HAVE a \in DOMAIN paired /\ TaskBrings(a, t)
            <4>1. Of(a, points) \subseteq points' /\ Of(a, channels') = Of(a, channels)
                BY <1>1 DEF Of
            <4> QED BY <1>1, <2>3, <4>1, TaskStays
        <3> QED BY <1>1, <2>3, <3>1, <3>2, <3>3, Untouched
    <2> QED BY <2>1, <2>2, <2>3 DEF ExplainInv
<1> QED BY <1>4, <1>5, <1>6, <1>7

(* A restore changes nothing a device waits for.                            *)
LEMMA RestoresExplained ==
    ASSUME ExplainInv, NEW b \in Addresses, DaemonRestores(b)
    PROVE  PairingsOK' /\ BlameOK' /\ PushesOK' /\ \A a \in Addresses : Blamed(a)' \/ Explained(a)'
<1> DEFINE p == [op |-> "restored", addr |-> b]
<1>1. /\ b \in DOMAIN paired
      /\ pushes' = Append(pushes, p)
      /\ UNCHANGED <<paired, devices, channels, points, rec, walk, announced, blame>>
    BY DEF DaemonRestores, storeVars
<1>2. p \in Pushes /\ pushes \in Seq(Pushes) /\ p.addr = b /\ p.op = "restored"
    BY DEF Pushes, ExplainInv, GraphInv, InputsOK
<1> HIDE DEF p
<1>3. \A a \in Addresses, op \in {"created", "removed"} :
        Pending(a, op)' <=> Pending(a, op) \/ (p.addr = a /\ p.op = op)
    BY <1>1, <1>2, PushAppended
<1>4. PairingsOK' /\ BlameOK'
    BY <1>1 DEF ExplainInv, PairingsOK, BlameOK
<1>6. PushesOK'
    BY <1>1, <1>2, OrderAppended DEF ExplainInv
<1>7. ASSUME NEW a \in Addresses PROVE Blamed(a)' \/ Explained(a)'
    <2>1. CASE Blamed(a)
        BY <1>1, <2>1, BlameStays
    <2>2. CASE Explained(a)
        <3>1. \A op \in {"created", "removed"} : Pending(a, op)' <=> Pending(a, op)
            BY <1>2, <1>3
        <3>2. (Told(a) => Told(a)') /\ (WalkBrings(a) => WalkBrings(a)')
            BY <1>1 DEF Told, WalkBrings
        <3>3. \A t \in Tasks : TaskBrings(a, t) => TaskBrings(a, t)'
            BY <1>1 DEF TaskBrings, ToRead
        <3> QED BY <1>1, <2>2, <3>1, <3>2, <3>3, Untouched
    <2> QED BY <2>1, <2>2 DEF ExplainInv
<1> QED BY <1>4, <1>6, <1>7

(* device.created: of a device that is clear a reconcile is begun, one that *)
(* is full already stays so, and no second created push is waiting.         *)
LEMMA CreatedExplained ==
    ASSUME ExplainInv, OnDeviceCreated
    PROVE  PairingsOK' /\ BlameOK' /\ PushesOK' /\ \A a \in Addresses : Blamed(a)' \/ Explained(a)'
<1>1. /\ pushes # <<>> /\ pushes' = Tail(pushes)
      /\ UNCHANGED <<paired, channels, points, walk, announced>>
      /\ pushes \in Seq(Pushes) /\ TasksOK /\ PushesOK
    BY DEF OnDeviceCreated, CreateStub, ExplainInv, GraphInv, InputsOK
<1>2. /\ Len(pushes) \in Nat \ {0} /\ Len(pushes') = Len(pushes) - 1
      /\ \A i \in 1 .. Len(pushes') : i + 1 \in 1 .. Len(pushes) /\ pushes'[i] = pushes[i + 1]
      /\ Head(pushes) = pushes[1] /\ pushes[1] \in Pushes
      /\ \A a \in Addresses, op \in {"created", "removed"} :
           Pending(a, op) <=> Pending(a, op)' \/ About(1, a, op)
    BY <1>1, PushTaken
<1>3. PICK b \in Addresses : b = pushes[1].addr
    BY <1>2 DEF Pushes
<1>4. /\ pushes[1].op \in {"created", "restored"}
      /\ devices' = IF CanAdmit(b) THEN devices \cup {b} ELSE devices
      /\ blame' = IF CanAdmit(b) THEN blame ELSE Blame("cap", {b})
      /\ \/ rec' = rec /\ (pushes[1].op = "restored" \/ Complete(b))
         \/ \E t \in Tasks : /\ rec[t].pc = "idle"
                             /\ rec' = [rec EXCEPT ![t] = [pc |-> "queued", addr |-> b]]
    BY <1>2, <1>3 DEF OnDeviceCreated, CreateStub
<1>5. PairingsOK'
    BY <1>1 DEF ExplainInv, PairingsOK
<1>6. BlameOK' /\ (\A r \in Reasons : blame[r] \subseteq blame'[r]) /\ (CanAdmit(b) \/ Blamed(b)')
    BY <1>4 DEF ExplainInv, BlameOK, Blame, Blamed, Reasons
<1>7. PushesOK'
    BY <1>1, OrderTaken
<1>8. ASSUME NEW a \in Addresses, NEW t \in Tasks, TaskBrings(a, t) PROVE TaskBrings(a, t)'
    <2>1. rec'[t] = rec[t]
        BY <1>1, <1>4, <1>8 DEF TaskBrings, TasksOK
    <2>2. Of(a, points) \subseteq points' /\ Of(a, channels') = Of(a, channels) /\ paired'[a] = paired[a]
        BY <1>1 DEF Of
    <2> QED BY <1>8, <2>1, <2>2, TaskStays
<1>9. ASSUME NEW a \in Addresses PROVE Blamed(a)' \/ Explained(a)'
    <2>1. CASE Blamed(a)
        BY <1>6, <2>1, BlameStays
    <2>2. (Told(a)' <=> Told(a)) /\ (WalkBrings(a)' <=> WalkBrings(a))
        BY <1>1 DEF Told, WalkBrings
    <2>3. CASE a # b /\ Explained(a)
        <3>1. \A op \in {"created", "removed"} : Pending(a, op)' <=> Pending(a, op)
            BY <1>2, <1>3, <2>3 DEF About
        <3>2. a \in devices' <=> a \in devices
            BY <1>4, <2>3
        <3> QED BY <1>1, <1>8, <2>2, <2>3, <3>1, <3>2, Untouched
    <2>4. CASE a = b /\ Explained(a) /\ CanAdmit(b)
        <3>1. (Of(a, points) \subseteq channels)'
            BY <1>1, <2>4 DEF Explained
        <3> SUFFICES ASSUME ~Pending(a, "removed")' PROVE Explained(a)'
            BY <3>1 DEF Explained
        <3>2. ~Pending(a, "removed")
            BY <1>2, <1>4 DEF About
        <3>3. a \in DOMAIN paired
            BY <1>2, <1>3, <2>4, <1>1, <3>2 DEF PushesOK, Pending
        <3>4. ~Pending(a, "created")'
            <4> SUFFICES ASSUME NEW i \in 1 .. Len(pushes'), pushes'[i].addr = a, pushes'[i].op = "created"
                         PROVE  FALSE
                BY DEF Pending, About
            <4>1. i + 1 \in 1 .. Len(pushes) /\ pushes[i + 1] = pushes'[i] /\ 1 \in 1 .. (i + 1) - 1
                BY <1>2
            <4>2. PICK j \in 1 + 1 .. (i + 1) - 1 : About(j, a, "removed")
                BY <1>1, <1>3, <1>4, <2>4, <4>1 DEF PushesOK
            <4>3. j \in 1 .. Len(pushes)
                BY <1>2, <4>1
            <4> QED BY <3>2, <4>2, <4>3 DEF Pending
        <3>5. a \in devices' /\ a \in DOMAIN paired'
            BY <1>1, <1>4, <2>4, <3>3
        <3>6. Full(a) => Full(a)'
            BY <1>1, <3>5 DEF Full
        <3>7. CASE pushes[1].op = "restored"
            <4>1. ~Pending(a, "created")
                BY <1>2, <3>4, <3>7 DEF About
            <4>2. (Full(a) /\ Told(a)) \/ WalkBrings(a) \/ \E t \in Tasks : TaskBrings(a, t)
                BY <2>4, <3>2, <3>3, <4>1 DEF Explained
            <4> QED BY <1>8, <2>2, <3>1, <3>4, <3>5, <3>6, <4>2 DEF Explained
        <3>8. CASE pushes[1].op = "created"
            <4>1. Pending(a, "created")
                BY <1>2, <1>3, <2>4, <3>8 DEF About
            <4>2. Clear(a) \/ (Full(a) /\ Told(a))
                BY <2>4, <3>2, <3>3, <4>1 DEF Explained
            <4>3. ASSUME Clear(a) PROVE \E t \in Tasks : TaskBrings(a, t)'
                <5>1. ~Complete(b)
                    BY <2>4, <4>3 DEF Complete, Clear
                <5>2. PICK t \in Tasks : rec' = [rec EXCEPT ![t] = [pc |-> "queued", addr |-> b]]
                    BY <1>4, <3>8, <5>1
                <5>3. rec'[t].pc = "queued" /\ rec'[t].addr = a
                    BY <1>1, <2>4, <5>2 DEF TasksOK
                <5> QED BY <5>3 DEF TaskBrings
            <4> QED BY <2>2, <3>1, <3>4, <3>5, <3>6, <4>2, <4>3 DEF Explained
        <3> QED BY <1>4, <3>7, <3>8
    <2> QED BY <1>6, <2>1, <2>3, <2>4 DEF ExplainInv
<1> QED BY <1>5, <1>6, <1>7, <1>9

(* device.removed: nothing of the device is left, and if it has been paired *)
(* again its created push is behind.                                        *)
LEMMA RemovedExplained ==
    ASSUME ExplainInv, OnDeviceRemoved
    PROVE  PairingsOK' /\ BlameOK' /\ PushesOK' /\ \A a \in Addresses : Blamed(a)' \/ Explained(a)'
<1>1. /\ pushes # <<>> /\ pushes' = Tail(pushes)
      /\ UNCHANGED <<paired, rec, walk, blame>>
      /\ pushes \in Seq(Pushes) /\ PushesOK /\ ChannelsHaveDevices
    BY DEF OnDeviceRemoved, ExplainInv, GraphInv, StoreOK, InputsOK
<1>2. /\ Len(pushes) \in Nat \ {0}
      /\ \A j \in 2 .. Len(pushes) : j - 1 \in 1 .. Len(pushes') /\ pushes'[j - 1] = pushes[j]
      /\ Head(pushes) = pushes[1] /\ pushes[1] \in Pushes
      /\ \A a \in Addresses, op \in {"created", "removed"} :
           Pending(a, op) <=> Pending(a, op)' \/ About(1, a, op)
    BY <1>1, PushTaken
<1>3. PICK b \in Addresses : b = pushes[1].addr
    BY <1>2 DEF Pushes
<1>4. /\ pushes[1].op = "removed"
      /\ devices' = devices \ {b} /\ announced' = announced \ {b}
      /\ channels' = channels \ Of(b, channels)
      /\ points' = points \ Of(b, channels)
    BY <1>2, <1>3 DEF OnDeviceRemoved, RemoveDevice
<1>5. PairingsOK' /\ BlameOK'
    BY <1>1 DEF ExplainInv, PairingsOK, BlameOK
<1>6. PushesOK'
    BY <1>1, OrderTaken
<1>7. ASSUME NEW a \in Addresses PROVE Blamed(a)' \/ Explained(a)'
    <2>1. CASE Blamed(a)
        BY <1>1, <2>1, BlameStays
    <2>2. CASE a # b /\ Explained(a)
        <3>1. \A op \in {"created", "removed"} : Pending(a, op)' <=> Pending(a, op)
            BY <1>2, <1>3, <2>2 DEF About
        <3>2. Of(a, channels') = Of(a, channels) /\ Of(a, points') = Of(a, points)
            BY <1>4, <2>2 DEF Of
        <3>3. (a \in devices' <=> a \in devices) /\ (a \in announced' <=> a \in announced)
            BY <1>4, <2>2
        <3>4. (Told(a) => Told(a)') /\ (WalkBrings(a) => WalkBrings(a)')
            BY <1>1, <3>3 DEF Told, WalkBrings
        <3>5. \A t \in Tasks : TaskBrings(a, t) => TaskBrings(a, t)'
            <4> TAKE t \in Tasks
            <4>1. Of(a, points) \subseteq points' /\ paired'[a] = paired[a] /\ rec'[t] = rec[t]
                BY <1>1, <3>2 DEF Of
            <4> QED BY <3>2, <4>1, TaskStays
        <3> QED BY <1>1, <2>2, <3>1, <3>2, <3>3, <3>4, <3>5, Untouched
    <2>3. CASE a = b /\ Explained(a)
        <3>1. Of(a, points) \subseteq channels
            BY <2>3 DEF Explained
        <3>2. Of(a, channels') = {} /\ Of(a, points') = {}
            BY <1>4, <2>3, <3>1 DEF Of
        <3>3. Clear(a)'
            BY <1>4, <2>3, <3>2 DEF Clear
        <3>4. (Of(a, points) \subseteq channels)'
            BY <3>2 DEF Of
        <3>5. a \in DOMAIN paired => Pending(a, "created")'
            <4> HAVE a \in DOMAIN paired
            <4>1. PICK j \in 1 + 1 .. Len(pushes) : About(j, a, "created")
                BY <1>1, <1>2, <1>3, <1>4, <2>3 DEF PushesOK
            <4> QED BY <1>2, <4>1 DEF Pending, About
        <3> QED BY <1>1, <3>3, <3>4, <3>5 DEF Explained
    <2> QED BY <2>1, <2>2, <2>3 DEF ExplainInv
<1> QED BY <1>5, <1>6, <1>7

(* The loss of every push: a removal is blamed, and a walk asked for from   *)
(* now on brings the devices the other pushes were about.                   *)
LEMMA LostExplained ==
    ASSUME ExplainInv, PushesLost
    PROVE  PairingsOK' /\ BlameOK' /\ PushesOK' /\ \A a \in Addresses : Blamed(a)' \/ Explained(a)'
<1>1. /\ pushes' = <<>> /\ UNCHANGED <<paired, devices, channels, points, rec, announced>>
      /\ walk' = IF walk.pc = "idle" THEN [pc |-> "asked"] ELSE walk
      /\ pushes \in Seq(Pushes)
    BY DEF PushesLost, storeVars, ExplainInv, GraphInv, InputsOK
<1>2. blame' = [blame EXCEPT !["missed"] = @ \cup
        {p.addr : p \in {q \in {pushes[i] : i \in 1 .. Len(pushes)} :
                           q.op = "removed" \/ ~(walk'.pc = "asked")}}]
    BY DEF PushesLost
<1>3. PairingsOK'
    BY <1>1 DEF ExplainInv, PairingsOK
<1>4. BlameOK' /\ (\A r \in Reasons : blame[r] \subseteq blame'[r])
    <2>1. \A i \in 1 .. Len(pushes) : pushes[i].addr \in Addresses
        <3> TAKE i \in 1 .. Len(pushes)
        <3>1. pushes[i] \in Pushes
            BY <1>1, ElementOfSeq
        <3> QED BY <3>1 DEF Pushes
    <2> QED BY <1>2, <2>1 DEF ExplainInv, BlameOK
<1>5. Len(pushes') = 0 /\ \A a \in Addresses, op \in {"created", "removed"} : ~Pending(a, op)'
    BY <1>1, EmptySeq DEF Pending
<1>6. PushesOK'
    BY <1>5 DEF PushesOK
<1>7. ASSUME NEW a \in Addresses, NEW op \in {"created", "removed"}, Pending(a, op),
             op = "removed" \/ walk'.pc # "asked"
      PROVE  Blamed(a)'
    <2>1. PICK i \in 1 .. Len(pushes) : pushes[i].addr = a /\ pushes[i].op = op
        BY <1>7 DEF Pending, About
    <2>2. a \in blame'["missed"] /\ "missed" \in Reasons
        BY <1>2, <1>7, <2>1 DEF ExplainInv, BlameOK, Reasons
    <2> QED BY <2>2 DEF Blamed
<1>8. ASSUME NEW a \in Addresses PROVE Blamed(a)' \/ Explained(a)'
    <2>1. CASE Blamed(a)
        BY <1>4, <2>1, BlameStays
    <2>2. CASE Pending(a, "removed")
        BY <1>7, <2>2
    <2>3. CASE Explained(a) /\ ~Pending(a, "removed") /\ Pending(a, "created")
        <3>1. CASE walk'.pc # "asked"
            BY <1>7, <2>3, <3>1
        <3>2. CASE walk'.pc = "asked" /\ a \in DOMAIN paired
            <4>1. WalkBrings(a)'
                BY <3>2 DEF WalkBrings
            <4>2. (Of(a, points) \subseteq channels)' /\ a \in DOMAIN paired'
                BY <1>1, <2>3, <3>2 DEF Explained
            <4> QED BY <1>5, <4>1, <4>2 DEF Explained
        <3>3. CASE a \notin DOMAIN paired
            <4>1. Clear(a)' /\ a \notin DOMAIN paired'
                BY <1>1, <2>3, <3>3 DEF Explained, Clear
            <4>2. (Of(a, points) \subseteq channels)'
                BY <1>1, <2>3 DEF Explained
            <4> QED BY <4>1, <4>2 DEF Explained
        <3> QED BY <3>1, <3>2, <3>3
    <2>4. CASE Explained(a) /\ ~Pending(a, "removed") /\ ~Pending(a, "created")
        <3>1. (Told(a) => Told(a)') /\ (WalkBrings(a) => WalkBrings(a)')
            BY <1>1 DEF Told, WalkBrings
        <3>2. \A t \in Tasks : TaskBrings(a, t) => TaskBrings(a, t)'
            BY <1>1 DEF TaskBrings, ToRead
        <3> QED BY <1>1, <1>5, <2>4, <3>1, <3>2, Untouched
    <2> QED BY <2>1, <2>2, <2>3, <2>4 DEF ExplainInv
<1> QED BY <1>3, <1>4, <1>6, <1>8

-----------------------------------------------------------------------------
(* A step of a task that touches neither store nor walk, and that either    *)
(* goes on bringing its device or is blamed.                                *)
LEMMA QuietExplained ==
    ASSUME ExplainInv, UNCHANGED <<paired, pushes, walk, devices, channels, points, announced>>,
           BlameOK', \A r \in Reasons : blame[r] \subseteq blame'[r],
           \A a \in DOMAIN paired, t \in Tasks : TaskBrings(a, t) => TaskBrings(a, t)' \/ Blamed(a)'
    PROVE  PairingsOK' /\ BlameOK' /\ PushesOK' /\ \A a \in Addresses : Blamed(a)' \/ Explained(a)'
<1>1. PairingsOK'
    BY DEF ExplainInv, PairingsOK
<1>2. PushesOK' /\ \A a \in Addresses, op \in {"created", "removed"} : Pending(a, op)' <=> Pending(a, op)
    BY OrderStays DEF ExplainInv
<1>3. ASSUME NEW a \in Addresses PROVE Blamed(a)' \/ Explained(a)'
    <2>1. CASE Blamed(a)
        BY <2>1, BlameStays
    <2>2. CASE Explained(a) /\ ~Blamed(a)'
        <3>1. (Told(a) => Told(a)') /\ (WalkBrings(a) => WalkBrings(a)')
            BY DEF Told, WalkBrings
        <3>2. \A t \in Tasks : a \in DOMAIN paired /\ TaskBrings(a, t) => TaskBrings(a, t)'
            BY <2>2
        <3> QED BY <1>2, <2>2, <3>1, <3>2, Untouched
    <2> QED BY <2>1, <2>2 DEF ExplainInv
<1> QED BY <1>1, <1>2, <1>3

(* Waiting for the semaphore, and asking for the detail.                    *)
LEMMA SlotExplained ==
    ASSUME ExplainInv, NEW t \in Tasks, TakeSlot(t)
    PROVE  PairingsOK' /\ BlameOK' /\ PushesOK' /\ \A a \in Addresses : Blamed(a)' \/ Explained(a)'
<1>1. /\ UNCHANGED <<paired, pushes, walk, devices, channels, points, announced>> /\ blame' = blame
      /\ rec[t].pc = "queued" /\ rec' = [rec EXCEPT ![t] = [rec[t] EXCEPT !.pc = "asked"]]
      /\ TasksOK
    BY DEF TakeSlot, daemonVars, storeVars, ExplainInv, GraphInv
<1>2. BlameOK' /\ \A r \in Reasons : blame[r] \subseteq blame'[r]
    BY <1>1 DEF ExplainInv, BlameOK
<1>3. rec'[t].pc = "asked" /\ rec'[t].addr = rec[t].addr
    <2>1. rec[t] \in [pc : {"queued", "asked"}, addr : Addresses]
        BY <1>1 DEF TasksOK, TaskStates, IdleTask
    <2> QED BY <1>1, <2>1 DEF TasksOK
<1>4. ASSUME NEW a \in DOMAIN paired, NEW u \in Tasks, TaskBrings(a, u) PROVE TaskBrings(a, u)'
    <2>1. CASE u = t
        BY <1>3, <1>4, <2>1 DEF TaskBrings
    <2>2. CASE u # t
        <3>1. rec'[u] = rec[u]
            BY <1>1, <2>2 DEF TasksOK
        <3> QED BY <1>1, <1>4, <3>1 DEF TaskBrings, ToRead
    <2> QED BY <2>1, <2>2
<1> QED BY <1>1, <1>2, <1>4, QuietExplained

(* The detail the daemon answers with is the device as it is paired.        *)
LEMMA DetailReadExplained ==
    ASSUME ExplainInv, NEW t \in Tasks, DetailAnswered(t)
    PROVE  PairingsOK' /\ BlameOK' /\ PushesOK' /\ \A a \in Addresses : Blamed(a)' \/ Explained(a)'
<1>1. /\ UNCHANGED <<paired, pushes, walk, devices, channels, points, announced>> /\ blame' = blame
      /\ TasksOK
      /\ \A u \in Tasks \ {t} : rec'[u] = rec[u]
      /\ rec[t].addr \in DOMAIN paired =>
           rec'[t] = [pc |-> "detail", addr |-> rec[t].addr, numbers |-> paired[rec[t].addr]]
    BY DEF DetailAnswered, daemonVars, storeVars, ExplainInv, GraphInv, TasksOK
<1>2. BlameOK' /\ \A r \in Reasons : blame[r] \subseteq blame'[r]
    BY <1>1 DEF ExplainInv, BlameOK
<1>3. ASSUME NEW a \in DOMAIN paired, NEW u \in Tasks, TaskBrings(a, u) PROVE TaskBrings(a, u)'
    <2>1. CASE u = t
        <3>1. rec[t].addr = a
            BY <1>3, <2>1 DEF TaskBrings
        <3>2. rec'[t] = [pc |-> "detail", addr |-> a, numbers |-> paired[a]]
            BY <1>1, <3>1
        <3>3. rec'[t].pc = "detail" /\ rec'[t].addr = a /\ rec'[t].numbers = paired'[a]
            BY <1>1, <3>2
        <3> QED BY <2>1, <3>3 DEF TaskBrings
    <2>2. CASE u # t
        <3>1. rec'[u] = rec[u]
            BY <1>1, <2>2
        <3> QED BY <1>1, <1>3, <3>1 DEF TaskBrings, ToRead
    <2> QED BY <2>1, <2>2
<1> QED BY <1>1, <1>2, <1>3, QuietExplained

(* The data points of a channel are read, or the task is over and blamed.   *)
LEMMA PointsReadExplained ==
    ASSUME ExplainInv, NEW t \in Tasks, NEW number \in Channels, PointsAnswered(t, number)
    PROVE  PairingsOK' /\ BlameOK' /\ PushesOK' /\ \A a \in Addresses : Blamed(a)' \/ Explained(a)'
<1> DEFINE found == rec[t].addr \in DOMAIN paired /\ number \in paired[rec[t].addr]
<1>1. /\ UNCHANGED <<paired, pushes, walk, devices, channels, points, announced>>
      /\ TasksOK /\ rec[t].pc = "more" /\ number \in rec[t].numbers
      /\ \A u \in Tasks \ {t} : rec'[u] = rec[u]
      /\ rec'[t] = IF found THEN [pc |-> "points", addr |-> rec[t].addr, number |-> number,
                                  numbers |-> rec[t].numbers \ {number}]
                            ELSE IdleTask
      /\ blame' = IF rec'[t].pc = "idle" /\ rec[t].addr \in DOMAIN paired
                    THEN Blame("late_detail", {rec[t].addr}) ELSE blame
    BY DEF PointsAnswered, daemonVars, storeVars, ExplainInv, GraphInv, TasksOK
<1>2. PICK b \in Addresses : b = rec[t].addr
    BY <1>1, TaskFields
<1>3. /\ BlameOK' /\ \A r \in Reasons : blame[r] \subseteq blame'[r]
      /\ rec'[t].pc = "idle" /\ b \in DOMAIN paired => Blamed(b)'
    BY <1>1, <1>2 DEF ExplainInv, BlameOK, Blame, Blamed, Reasons
<1>4. ASSUME NEW a \in DOMAIN paired, NEW u \in Tasks, TaskBrings(a, u)
      PROVE  TaskBrings(a, u)' \/ Blamed(a)'
    <2>1. CASE u = t /\ ~found
        <3>1. rec'[t].pc = "idle" /\ b = a
            BY <1>1, <1>2, <1>4, <2>1 DEF IdleTask, TaskBrings
        <3> QED BY <1>3, <3>1
    <2>2. CASE u = t /\ found
        <3>1. /\ rec'[t].pc = "points" /\ rec'[t].addr = a /\ rec'[t].number = number
              /\ rec'[t].numbers = rec[t].numbers \ {number}
            BY <1>1, <1>4, <2>2 DEF TaskBrings
        <3>2. ToRead(t)' = ToRead(t)
            BY <1>1, <3>1 DEF ToRead
        <3> QED BY <1>1, <1>4, <2>2, <3>1, <3>2 DEF TaskBrings
    <2>3. CASE u # t
        <3>1. rec'[u] = rec[u]
            BY <1>1, <2>3
        <3> QED BY <1>1, <1>4, <3>1 DEF TaskBrings, ToRead
    <2> QED BY <2>1, <2>2, <2>3
<1> QED BY <1>1, <1>3, <1>4, QuietExplained

(* A failed call is blamed.                                                 *)
LEMMA FailureExplained ==
    ASSUME ExplainInv, NEW t \in Tasks, ReconcileFails(t)
    PROVE  PairingsOK' /\ BlameOK' /\ PushesOK' /\ \A a \in Addresses : Blamed(a)' \/ Explained(a)'
<1>1. /\ UNCHANGED <<paired, pushes, walk, devices, channels, points, announced>>
      /\ TasksOK /\ rec[t].pc \in {"asked", "more"}
      /\ \A u \in Tasks \ {t} : rec'[u] = rec[u]
      /\ blame' = Blame("failed", {rec[t].addr})
    BY DEF ReconcileFails, storeVars, ExplainInv, GraphInv, TasksOK
<1>2. PICK b \in Addresses : b = rec[t].addr
    BY <1>1, TaskFields
<1>3. BlameOK' /\ (\A r \in Reasons : blame[r] \subseteq blame'[r]) /\ Blamed(b)'
    BY <1>1, <1>2 DEF ExplainInv, BlameOK, Blame, Blamed, Reasons
<1>4. ASSUME NEW a \in DOMAIN paired, NEW u \in Tasks, TaskBrings(a, u)
      PROVE  TaskBrings(a, u)' \/ Blamed(a)'
    <2>1. CASE u = t
        <3>1. a = b
            BY <1>2, <1>4, <2>1 DEF TaskBrings
        <3> QED BY <1>3, <3>1
    <2>2. CASE u # t
        <3>1. rec'[u] = rec[u]
            BY <1>1, <2>2
        <3> QED BY <1>1, <1>4, <3>1 DEF TaskBrings, ToRead
    <2> QED BY <2>1, <2>2
<1> QED BY <1>1, <1>3, <1>4, QuietExplained

(* A detail applied to a device that is no longer there, or that has been   *)
(* paired anew with other channels, is blamed; any other makes the channels *)
(* right and leaves all of them to be read.                                 *)
LEMMA DetailExplained ==
    ASSUME ExplainInv, NEW t \in Tasks, DetailAttached(t)
    PROVE  PairingsOK' /\ BlameOK' /\ PushesOK' /\ \A a \in Addresses : Blamed(a)' \/ Explained(a)'
<1>1. /\ UNCHANGED <<paired, pushes, walk, announced>>
      /\ TasksOK /\ PushesOK /\ rec[t].pc = "detail"
      /\ \A u \in Tasks \ {t} : rec'[u] = rec[u]
      /\ rec' = [rec EXCEPT ![t] = [rec[t] EXCEPT !.pc = "more"]]
    BY DEF DetailAttached, daemonVars, ExplainInv, GraphInv, TasksOK
<1>2. PICK b \in Addresses, numbers \in SUBSET Channels : b = rec[t].addr /\ numbers = rec[t].numbers
    BY <1>1, TaskFields
<1>3. rec'[t].pc = "more" /\ rec'[t].addr = b /\ rec'[t].numbers = numbers
    <2>1. rec[t] \in [pc : {"detail", "more"}, addr : Addresses, numbers : SUBSET Channels]
        BY <1>1 DEF TasksOK, TaskStates, IdleTask
    <2> QED BY <1>1, <1>2, <2>1 DEF TasksOK
<1>4. /\ ~CanAdmit(b) => UNCHANGED <<devices, channels, points>>
      /\ CanAdmit(b) =>
           /\ devices' = devices \cup {b}
           /\ channels' = (channels \ (Of(b, channels) \ KeysOf(b, numbers))) \cup KeysOf(b, numbers)
           /\ points' = points \ (Of(b, channels) \ KeysOf(b, numbers))
    BY <1>2 DEF DetailAttached, AttachDetail, storeVars
<1>5. blame' = IF ~CanAdmit(b) THEN Blame("cap", {b})
               ELSE IF b \notin devices \/ Outdated(b, numbers)
                 THEN Blame("late_detail", {b}) ELSE blame
    BY <1>2 DEF DetailAttached
<1>6. /\ BlameOK' /\ \A r \in Reasons : blame[r] \subseteq blame'[r]
      /\ ~Blamed(b)' => /\ CanAdmit(b) /\ b \in devices
                        /\ b \in DOMAIN paired /\ paired[b] = numbers
    BY <1>5 DEF ExplainInv, BlameOK, Blame, Blamed, Reasons, Outdated
<1>7. PairingsOK'
    BY <1>1 DEF ExplainInv, PairingsOK
<1>8. PushesOK' /\ \A a \in Addresses, op \in {"created", "removed"} : Pending(a, op)' <=> Pending(a, op)
    BY <1>1, OrderStays
<1>9. ASSUME NEW a \in Addresses PROVE Blamed(a)' \/ Explained(a)'
    <2>1. CASE Blamed(a)
        BY <1>6, <2>1, BlameStays
    <2>2. (Told(a)' <=> Told(a)) /\ (WalkBrings(a)' <=> WalkBrings(a))
        BY <1>1 DEF Told, WalkBrings
    <2>3. CASE a # b /\ Explained(a)
        <3>1. (a \in devices' <=> a \in devices) /\ Of(a, channels') = Of(a, channels)
            BY <1>4, <2>3 DEF Of, KeysOf
        <3>2. Of(a, points') = Of(a, points)
            BY <1>4, <2>3 DEF Of, KeysOf
        <3>3. \A u \in Tasks : TaskBrings(a, u) => TaskBrings(a, u)'
            <4> TAKE u \in Tasks
            <4> HAVE TaskBrings(a, u)
            <4>1. rec'[u] = rec[u]
                BY <1>1, <1>2, <2>3 DEF TaskBrings
            <4>2. Of(a, points) \subseteq points' /\ paired'[a] = paired[a]
                BY <1>1, <3>2 DEF Of
            <4> QED BY <3>1, <4>1, <4>2, TaskStays
        <3> QED BY <1>1, <1>8, <2>2, <2>3, <3>1, <3>2, <3>3, Untouched
    <2>4. CASE a = b /\ Explained(a) /\ ~Blamed(b)'
        <3>1. /\ a \in devices /\ a \in devices' /\ a \in DOMAIN paired /\ paired[a] = numbers
              /\ paired' = paired /\ Of(a, points) \subseteq channels
            BY <1>1, <1>4, <1>6, <2>4 DEF Explained
        <3>2. Of(a, channels') = KeysOf(a, paired[a])
            BY <1>4, <1>6, <2>4, <3>1 DEF Of, KeysOf
        <3>3. (Of(a, points) \subseteq channels)'
            BY <1>4, <1>6, <2>4, <3>1 DEF Of, KeysOf
        <3>4. Of(a, channels) = KeysOf(a, paired[a]) => Of(a, points') = Of(a, points)
            BY <1>4, <1>6, <2>4, <3>1 DEF Of, KeysOf
        <3>5. Full(a) => Full(a)'
            BY <3>1, <3>2, <3>4 DEF Full
        <3>6. ASSUME NEW u \in Tasks, TaskBrings(a, u) PROVE TaskBrings(a, u)'
            <4>1. CASE u = t
                <5>1. ToRead(t)' = numbers
                    BY <1>3 DEF ToRead
                <5>2. KeysOf(a, paired[a] \ numbers) = {}
                    BY <3>1 DEF KeysOf
                <5> QED BY <1>3, <2>4, <3>1, <3>2, <4>1, <5>1, <5>2 DEF TaskBrings
            <4>2. CASE u # t /\ rec[u].pc \in {"more", "points"}
                <5>1. Of(a, channels) = KeysOf(a, paired[a])
                    BY <3>6, <4>2 DEF TaskBrings
                <5>2. Of(a, points) \subseteq points'
                    BY <3>4, <5>1 DEF Of
                <5> QED BY <1>1, <3>1, <3>2, <3>6, <4>2, <5>1, <5>2, TaskStays
            <4>3. CASE u # t /\ rec[u].pc \notin {"more", "points"}
                <5>1. rec'[u] = rec[u]
                    BY <1>1, <4>3
                <5> QED BY <3>1, <3>6, <4>3, <5>1 DEF TaskBrings
            <4> QED BY <4>1, <4>2, <4>3
        <3>7. ~Clear(a)
            BY <3>1 DEF Clear
        <3> QED BY <1>8, <2>2, <2>4, <3>1, <3>3, <3>5, <3>6, <3>7 DEF Explained
    <2> QED BY <2>1, <2>3, <2>4 DEF ExplainInv
<1> QED BY <1>6, <1>7, <1>8, <1>9

(* The data points of a channel that is gone are blamed; any others are of  *)
(* a channel the device has.                                                *)
LEMMA PointsExplained ==
    ASSUME ExplainInv, NEW t \in Tasks, PointsAttached(t)
    PROVE  PairingsOK' /\ BlameOK' /\ PushesOK' /\ \A a \in Addresses : Blamed(a)' \/ Explained(a)'
<1>1. /\ UNCHANGED <<paired, pushes, walk, announced, devices, channels>>
      /\ TasksOK /\ PushesOK /\ rec[t].pc = "points"
      /\ \A u \in Tasks \ {t} : rec'[u] = rec[u]
      /\ rec' = [rec EXCEPT ![t] = [rec[t] EXCEPT !.pc = "more"]]
    BY DEF PointsAttached, AttachPoints, daemonVars, ExplainInv, GraphInv, TasksOK
<1>2. PICK b \in Addresses, n \in Channels : b = rec[t].addr /\ n = rec[t].number
    BY <1>1, TaskFields
<1>3. rec'[t].pc = "more" /\ rec'[t].addr = b /\ rec'[t].numbers = rec[t].numbers
    <2>1. rec[t] \in [pc : {"more", "points"}, addr : Addresses, number : Channels,
                      numbers : SUBSET Channels]
        BY <1>1 DEF TasksOK, TaskStates, IdleTask
    <2> QED BY <1>1, <1>2, <2>1 DEF TasksOK
<1>4. /\ points' = points \cup {<<b, n>>}
      /\ blame' = IF <<b, n>> \notin channels THEN Blame("late_points", {b}) ELSE blame
    BY <1>2 DEF PointsAttached, AttachPoints
<1>5. /\ BlameOK' /\ \A r \in Reasons : blame[r] \subseteq blame'[r]
      /\ ~Blamed(b)' => <<b, n>> \in channels
    BY <1>4 DEF ExplainInv, BlameOK, Blame, Blamed, Reasons
<1>6. PairingsOK'
    BY <1>1 DEF ExplainInv, PairingsOK
<1>7. PushesOK' /\ \A a \in Addresses, op \in {"created", "removed"} : Pending(a, op)' <=> Pending(a, op)
    BY <1>1, OrderStays
<1>8. ASSUME NEW a \in Addresses PROVE Blamed(a)' \/ Explained(a)'
    <2>1. CASE Blamed(a)
        BY <1>5, <2>1, BlameStays
    <2>2. (Told(a)' <=> Told(a)) /\ (WalkBrings(a)' <=> WalkBrings(a))
        BY <1>1 DEF Told, WalkBrings
    <2>3. Of(a, points) \subseteq points' /\ Of(a, channels') = Of(a, channels) /\ paired'[a] = paired[a]
        BY <1>1, <1>4 DEF Of
    <2>4. CASE a # b /\ Explained(a)
        <3>1. Of(a, points') = Of(a, points)
            BY <1>4, <2>4 DEF Of
        <3>2. \A u \in Tasks : TaskBrings(a, u) => TaskBrings(a, u)'
            <4> TAKE u \in Tasks
            <4> HAVE TaskBrings(a, u)
            <4>1. rec'[u] = rec[u]
                BY <1>1, <1>2, <2>4 DEF TaskBrings
            <4> QED BY <2>3, <4>1, TaskStays
        <3> QED BY <1>1, <1>7, <2>2, <2>4, <3>1, <3>2, Untouched
    <2>5. CASE a = b /\ Explained(a) /\ ~Blamed(b)'
        <3>1. <<a, n>> \in Of(a, channels) /\ Of(a, points) \subseteq channels
            BY <1>5, <2>5 DEF Of, Explained
        <3>2. (Of(a, points) \subseteq channels)'
            BY <1>1, <1>4, <2>5, <3>1 DEF Of
        <3>3. ~Clear(a)
            BY <3>1 DEF Clear
        <3>4. Full(a) => Full(a)'
            <4> HAVE Full(a)
            <4>1. Of(a, points') = Of(a, points)
                BY <1>4, <2>5, <3>1 DEF Full, Of
            <4> QED BY <1>1, <4>1 DEF Full
        <3>5. ASSUME NEW u \in Tasks, TaskBrings(a, u) PROVE TaskBrings(a, u)'
            <4>1. CASE u = t
                <5>1. ToRead(t) = rec[t].numbers \cup {n} /\ ToRead(t)' = rec[t].numbers
                    BY <1>1, <1>2, <1>3 DEF ToRead
                <5>2. /\ ToRead(t) \subseteq paired[a] /\ Of(a, channels) = KeysOf(a, paired[a])
                      /\ KeysOf(a, paired[a] \ ToRead(t)) \subseteq points
                    BY <1>1, <3>5, <4>1 DEF TaskBrings
                <5>3. KeysOf(a, paired[a] \ rec[t].numbers) \subseteq points'
                    BY <1>4, <2>5, <5>1, <5>2 DEF KeysOf
                <5> QED BY <1>3, <2>3, <2>5, <4>1, <5>1, <5>2, <5>3 DEF TaskBrings
            <4>2. CASE u # t
                BY <1>1, <2>3, <3>5, <4>2, TaskStays
            <4> QED BY <4>1, <4>2
        <3> QED BY <1>1, <1>7, <2>2, <2>5, <3>2, <3>3, <3>4, <3>5 DEF Explained
    <2> QED BY <2>1, <2>4, <2>5 DEF ExplainInv
<1> QED BY <1>5, <1>6, <1>7, <1>8

(* A task that has read every channel has made its device full, and says so.*)
LEMMA DoneExplained ==
    ASSUME ExplainInv, NEW t \in Tasks, ReconcileDone(t)
    PROVE  PairingsOK' /\ BlameOK' /\ PushesOK' /\ \A a \in Addresses : Blamed(a)' \/ Explained(a)'
<1>1. /\ UNCHANGED <<paired, pushes, walk, blame, devices, channels, points>>
      /\ TasksOK /\ PushesOK /\ rec[t].pc = "more" /\ rec[t].numbers = {}
      /\ \A u \in Tasks \ {t} : rec'[u] = rec[u]
    BY DEF ReconcileDone, storeVars, daemonVars, ExplainInv, GraphInv, TasksOK
<1>2. PICK b \in Addresses : b = rec[t].addr
    BY <1>1, TaskFields
<1>3. announced' = announced \cup (devices \cap {b})
    BY <1>2 DEF ReconcileDone
<1>4. PairingsOK' /\ BlameOK'
    BY <1>1 DEF ExplainInv, PairingsOK, BlameOK
<1>5. PushesOK' /\ \A a \in Addresses, op \in {"created", "removed"} : Pending(a, op)' <=> Pending(a, op)
    BY <1>1, OrderStays
<1>6. ASSUME NEW a \in Addresses PROVE Blamed(a)' \/ Explained(a)'
    <2>1. CASE Blamed(a)
        BY <1>1, <2>1, BlameStays
    <2>2. (Told(a) => Told(a)') /\ (WalkBrings(a) => WalkBrings(a)')
        BY <1>1, <1>3 DEF Told, WalkBrings
    <2>3. CASE Explained(a)
        <3>1. (Clear(a) => Clear(a)') /\ (Full(a) => Full(a)') /\ (Of(a, points) \subseteq channels)'
            BY <1>1, <1>3, <2>3 DEF Clear, Full, Explained
        <3>2. ASSUME NEW u \in Tasks, u # t, TaskBrings(a, u) PROVE TaskBrings(a, u)'
            BY <1>1, <3>2 DEF TaskBrings, ToRead
        <3>3. ASSUME TaskBrings(a, t), a \in devices PROVE Full(a)' /\ Told(a)'
            <4>1. ToRead(t) = {} /\ a = b
                BY <1>1, <1>2, <3>3 DEF ToRead, TaskBrings
            <4>2. Of(a, channels) = KeysOf(a, paired[a]) /\ KeysOf(a, paired[a]) \subseteq points
                BY <1>1, <3>3, <4>1 DEF TaskBrings
            <4>3. Of(a, points) = KeysOf(a, paired[a])
                BY <2>3, <4>2 DEF Explained, Of, KeysOf
            <4> QED BY <1>1, <1>3, <3>3, <4>1, <4>2, <4>3 DEF Full, Told
        <3> QED BY <1>1, <1>5, <2>2, <2>3, <3>1, <3>2, <3>3 DEF Explained
    <2> QED BY <2>1, <2>3 DEF ExplainInv
<1> QED BY <1>4, <1>5, <1>6

-----------------------------------------------------------------------------
(* A snapshot holds every device as it is paired now.                       *)
LEMMA ReadExplained ==
    ASSUME ExplainInv, SnapshotRead
    PROVE  PairingsOK' /\ BlameOK' /\ PushesOK' /\ \A a \in Addresses : Blamed(a)' \/ Explained(a)'
<1>1. /\ UNCHANGED <<paired, pushes, blame, rec, announced, devices, channels, points>>
      /\ PushesOK /\ walk.pc = "asked" /\ walk'.pc = "answered" /\ walk'.snapshot = paired
    BY DEF SnapshotRead, storeVars, daemonVars, ExplainInv
<1>2. PairingsOK' /\ BlameOK'
    BY <1>1 DEF ExplainInv, PairingsOK, BlameOK
<1>3. PushesOK' /\ \A a \in Addresses, op \in {"created", "removed"} : Pending(a, op)' <=> Pending(a, op)
    BY <1>1, OrderStays
<1>4. ASSUME NEW a \in Addresses PROVE Blamed(a)' \/ Explained(a)'
    <2>1. CASE Blamed(a)
        BY <1>1, <2>1, BlameStays
    <2>2. CASE Explained(a)
        <3>1. (Told(a) => Told(a)') /\ (a \in DOMAIN paired /\ WalkBrings(a) => WalkBrings(a)')
            BY <1>1 DEF Told, WalkBrings
        <3>2. \A t \in Tasks : TaskBrings(a, t) => TaskBrings(a, t)'
            BY <1>1 DEF TaskBrings, ToRead
        <3> QED BY <1>1, <1>3, <2>2, <3>1, <3>2, Untouched
    <2> QED BY <2>1, <2>2 DEF ExplainInv
<1> QED BY <1>2, <1>3, <1>4

(* A snapshot makes full every device it holds, or the device is blamed: it *)
(* was refused at the cap, or has been paired anew since.                   *)
LEMMA AttachedExplained ==
    ASSUME ExplainInv, SnapshotAttached
    PROVE  PairingsOK' /\ BlameOK' /\ PushesOK' /\ \A a \in Addresses : Blamed(a)' \/ Explained(a)'
<1>1. /\ UNCHANGED <<paired, pushes, rec, announced>>
      /\ PushesOK /\ walk.pc = "answered" /\ walk'.pc = "attached" /\ IsPairing(walk.snapshot)
    BY DEF SnapshotAttached, daemonVars, ExplainInv, GraphInv, InputsOK
<1> DEFINE snap == walk.snapshot
           keys == UNION {KeysOf(a, snap[a]) : a \in DOMAIN snap}
<1>3. PICK admitted \in SUBSET (DOMAIN snap \ devices) :
        /\ devices' = devices \cup admitted
        /\ channels' = {k \in channels : k[1] \notin admitted \cup (DOMAIN snap \cap devices)}
                         \cup {k \in keys : k[1] \in admitted \cup (DOMAIN snap \cap devices)}
        /\ points' = {k \in points : k[1] \notin admitted \cup (DOMAIN snap \cap devices)
                                       \/ k \notin channels} \cup keys
        /\ blame' = [blame EXCEPT
             !["cap"] = @ \cup (DOMAIN snap \ (admitted \cup (DOMAIN snap \cap devices))),
             !["late_detail"] = @ \cup {a \in DOMAIN snap : Outdated(a, snap[a])}]
    BY DEF SnapshotAttached
<1> DEFINE known == admitted \cup (DOMAIN snap \cap devices)
<1>4. /\ BlameOK' /\ \A r \in Reasons : blame[r] \subseteq blame'[r]
      /\ \A a \in DOMAIN snap : (a \in known /\ ~Outdated(a, snap[a])) \/ Blamed(a)'
    <2>1. DOMAIN snap \subseteq Addresses
        BY <1>1 DEF IsPairing
    <2> QED BY <1>3, <2>1 DEF ExplainInv, BlameOK, Blamed, Reasons
<1>5. \A k : k \in keys <=> \E a \in DOMAIN snap : k \in KeysOf(a, snap[a])
    OBVIOUS
<1> HIDE DEF keys
<1>6. PairingsOK'
    BY <1>1 DEF ExplainInv, PairingsOK
<1>7. PushesOK' /\ \A a \in Addresses, op \in {"created", "removed"} : Pending(a, op)' <=> Pending(a, op)
    BY <1>1, OrderStays
<1>8. ASSUME NEW a \in Addresses PROVE Blamed(a)' \/ Explained(a)'
    <2>1. CASE Blamed(a)
        BY <1>4, <2>1, BlameStays
    <2>2. CASE a \notin DOMAIN snap /\ Explained(a)
        <3>1. \A k \in keys : k[1] # a
            BY <1>5, <2>2 DEF KeysOf
        <3>2. (a \in devices' <=> a \in devices) /\ Of(a, channels') = Of(a, channels)
            BY <1>3, <2>2, <3>1 DEF Of
        <3>3. Of(a, points') = Of(a, points)
            BY <1>3, <2>2, <3>1 DEF Of
        <3>4. Told(a)' /\ ~WalkBrings(a)
            BY <1>1, <2>2 DEF Told, WalkBrings
        <3>5. \A t \in Tasks : TaskBrings(a, t) => TaskBrings(a, t)'
            <4> TAKE t \in Tasks
            <4>1. Of(a, points) \subseteq points' /\ paired'[a] = paired[a] /\ rec'[t] = rec[t]
                BY <1>1, <3>3 DEF Of
            <4> QED BY <3>2, <4>1, TaskStays
        <3> QED BY <1>1, <1>7, <2>2, <3>2, <3>3, <3>4, <3>5, Untouched
    <2>3. CASE a \in DOMAIN snap /\ Explained(a) /\ ~Blamed(a)'
        <3>1. a \in known /\ a \in DOMAIN paired /\ snap[a] = paired[a] /\ paired' = paired
            BY <1>1, <1>4, <2>3 DEF Outdated
        <3>2. \A k : k \in keys /\ k[1] = a <=> k \in KeysOf(a, paired[a])
            BY <1>5, <2>3, <3>1 DEF KeysOf
        <3>3. Of(a, channels') = KeysOf(a, paired[a])
            <4>1. \A k : k \in channels' /\ k[1] = a <=> k \in keys /\ k[1] = a
                BY <1>3, <3>1
            <4> QED BY <3>2, <4>1 DEF Of
        <3>4. Of(a, points') = KeysOf(a, paired[a])
            <4>1. \A k \in points : k[1] = a => k \in channels
                BY <2>3 DEF Explained, Of
            <4>2. \A k : k \in points' /\ k[1] = a <=> k \in keys /\ k[1] = a
                BY <1>3, <3>1, <4>1
            <4> QED BY <3>2, <4>2 DEF Of
        <3>5. a \in devices'
            BY <1>3, <3>1
        <3>6. Full(a)' /\ Told(a)' /\ a \in DOMAIN paired'
            BY <1>1, <3>1, <3>3, <3>4, <3>5 DEF Full, Told
        <3>7. (Of(a, points) \subseteq channels)'
            BY <3>3, <3>4 DEF Of
        <3> QED BY <3>6, <3>7 DEF Explained
    <2> QED BY <2>1, <2>2, <2>3 DEF ExplainInv
<1> QED BY <1>4, <1>6, <1>7, <1>8

(* The walk announces whatever the store holds.                             *)
LEMMA AnnouncedExplained ==
    ASSUME ExplainInv, WalkAnnounces
    PROVE  PairingsOK' /\ BlameOK' /\ PushesOK' /\ \A a \in Addresses : Blamed(a)' \/ Explained(a)'
<1>1. /\ UNCHANGED <<paired, pushes, blame, rec, devices, channels, points>>
      /\ PushesOK /\ walk.pc = "attached" /\ announced' = announced \cup devices
    BY DEF WalkAnnounces, storeVars, daemonVars, ExplainInv
<1>2. PairingsOK' /\ BlameOK'
    BY <1>1 DEF ExplainInv, PairingsOK, BlameOK
<1>3. PushesOK' /\ \A a \in Addresses, op \in {"created", "removed"} : Pending(a, op)' <=> Pending(a, op)
    BY <1>1, OrderStays
<1>4. ASSUME NEW a \in Addresses PROVE Blamed(a)' \/ Explained(a)'
    <2>1. CASE Blamed(a)
        BY <1>1, <2>1, BlameStays
    <2>2. CASE Explained(a)
        <3>1. /\ Clear(a) => Clear(a)'
              /\ Full(a) => Full(a)' /\ Told(a)'
              /\ (Of(a, points) \subseteq channels)' /\ ~WalkBrings(a)
            BY <1>1, <2>2 DEF Clear, Full, Told, WalkBrings, Explained
        <3>2. \A t \in Tasks : TaskBrings(a, t) => TaskBrings(a, t)'
            BY <1>1 DEF TaskBrings, ToRead
        <3> QED BY <1>1, <1>3, <2>2, <3>1, <3>2 DEF Explained
    <2> QED BY <2>1, <2>2 DEF ExplainInv
<1> QED BY <1>2, <1>3, <1>4

-----------------------------------------------------------------------------
(* The empty graph beside an empty daemon is explained.                     *)
LEMMA ExplainInit == GraphInit => ExplainInv
<1> SUFFICES ASSUME GraphInit PROVE ExplainInv
    OBVIOUS
<1>1. GraphInv
    BY GraphInitInv
<1>2. PairingsOK /\ BlameOK /\ DOMAIN paired = {}
    BY DEF GraphInit, PairingsOK, BlameOK
<1>3. PushesOK
    BY DEF GraphInit, PushesOK
<1>4. \A a \in Addresses : Explained(a)
    BY <1>2 DEF GraphInit, Explained, Clear, Of
<1> QED BY <1>1, <1>2, <1>3, <1>4 DEF ExplainInv

(* Every step keeps every address explained or blamed.                      *)
LEMMA ExplainNext == ExplainInv /\ [GraphNext]_graphVars => ExplainInv'
<1> SUFFICES ASSUME ExplainInv, [GraphNext]_graphVars PROVE ExplainInv'
    OBVIOUS
<1>1. GraphInv'
    BY GraphNextInv DEF ExplainInv
<1>2. CASE UNCHANGED graphVars
    <2>1. UNCHANGED <<paired, pushes, walk, rec, devices, channels, points, announced, blame>>
        BY <1>2 DEF graphVars, daemonVars, storeVars
    <2>2. BlameOK' /\ \A r \in Reasons : blame[r] \subseteq blame'[r]
        BY <2>1 DEF ExplainInv, BlameOK
    <2>3. \A a \in DOMAIN paired, t \in Tasks : TaskBrings(a, t) => TaskBrings(a, t)' \/ Blamed(a)'
        BY <2>1 DEF TaskBrings, ToRead
    <2> QED BY <1>1, <2>1, <2>2, <2>3, QuietExplained DEF ExplainInv
<1>3. CASE GraphNext
    <2>1. PairingsOK' /\ BlameOK' /\ PushesOK' /\ \A a \in Addresses : Blamed(a)' \/ Explained(a)'
        BY <1>3, PairsExplained, UnpairsExplained, RestoresExplained, LostExplained,
           CreatedExplained, RemovedExplained, SlotExplained, DetailReadExplained,
           DetailExplained, PointsReadExplained, PointsExplained, DoneExplained,
           FailureExplained, ReadExplained, AttachedExplained, AnnouncedExplained
        DEF GraphNext
    <2> QED BY <1>1, <2>1 DEF ExplainInv
<1> QED BY <1>2, <1>3

(* At rest the store holds exactly the devices the daemon has paired, with  *)
(* their channels and data points, and every one has been announced, except *)
(* where a late answer, a lost removal, a failed call or the cap has left   *)
(* its mark (client.py _reconcile_new_device and bootstrap against the      *)
(* bridge's lifecycle pushes), for every fleet and any number of each.      *)
THEOREM GraphExplained == GraphSpec => []GraphIsExplained
<1>1. ExplainInv => GraphIsExplained
    <2> SUFFICES ASSUME ExplainInv, AtRest, NEW a \in Addresses, ~Blamed(a)
                 PROVE  ~Wrong(a)
        BY DEF GraphIsExplained, WrongOnlyFor, Blamed
    <2>1. ~Pending(a, "removed") /\ ~Pending(a, "created")
        BY EmptySeq DEF AtRest, Pending
    <2>2. ~WalkBrings(a) /\ (Told(a) <=> a \in announced) /\ \A t \in Tasks : ~TaskBrings(a, t)
        BY DEF AtRest, WalkBrings, Told, TaskBrings
    <2>3. Explained(a)
        BY DEF ExplainInv
    <2>4. IF a \in DOMAIN paired THEN Full(a) /\ a \in announced ELSE Clear(a)
        BY <2>1, <2>2, <2>3 DEF Explained
    <2> QED BY <2>4 DEF Full, Clear, Wrong
<1> QED BY <1>1, ExplainInit, ExplainNext, PTL DEF GraphSpec
=============================================================================
