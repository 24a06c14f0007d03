------------------------------ MODULE StoreGraph ------------------------------
(***************************************************************************)
(* The device / channel / data-point graph of LoomStore and the three      *)
(* writers that race on it: lifecycle pushes applied by the bridge, the    *)
(* reconcile task of a new device, and the snapshot walk of a re-bootstrap.*)
(* Sources: store.py, client.py, bridge.py.                                *)
(*                                                                         *)
(* A channel's data points are attached and dropped together, so `points`  *)
(* holds the channels whose data points are in the store.  A REST call is  *)
(* three steps: asked, answered by the daemon, applied by the task.        *)
(***************************************************************************)
EXTENDS Integers, Sequences, FiniteSets

CONSTANTS
    Addresses,   \* device addresses
    Channels,    \* channel numbers a device may have
    Tasks,       \* reconcile tasks that may exist at once (bound)
    Slots,       \* _MAX_CONCURRENT_RECONCILES
    MaxDevices,  \* LoomStore._max_devices
    MaxPairings, \* bound: pairings and unpairings on the daemon
    MaxGaps,     \* bound: losses of pushes
    MaxFailures  \* bound: failing REST calls

ASSUME GraphAssumption ==
    /\ IsFiniteSet(Addresses)
    /\ IsFiniteSet(Tasks)
    /\ Channels # {}
    /\ Slots \in Nat \ {0}
    /\ MaxDevices \in Nat
    /\ MaxPairings \in Nat /\ MaxGaps \in Nat /\ MaxFailures \in Nat

VARIABLES
    paired,    \* daemon: channels of each paired device
    pairings,  \* bound counter
    gaps,      \* bound counter
    failures,  \* bound counter
    pushes,    \* lifecycle pushes on their way, in order
    devices,   \* LoomStore._devices
    channels,  \* LoomStore._channels
    points,    \* LoomStore._data_points, per channel
    rec,       \* the reconcile tasks
    walk,      \* the re-bootstrap
    announced, \* devices announced in a DataPointsCreatedEvent
    blame      \* history: per reason, addresses it may have left wrong

daemonVars == <<paired, pairings, gaps, failures, pushes>>
storeVars  == <<devices, channels, points>>
graphVars  == <<daemonVars, storeVars, rec, walk, announced, blame>>

Keys == Addresses \X Channels
Of(a, set) == {k \in set : k[1] = a}
KeysOf(a, numbers) == {a} \X numbers

(***************************************************************************)
(* Why an address may be wrong at rest:                                    *)
(*   late_detail  a detail or snapshot read before an unpairing was        *)
(*                applied after it                                         *)
(*   late_points  data points read before an unpairing, likewise           *)
(*   missed       the push of an unpairing was lost; no snapshot removes   *)
(*   failed       a REST call of the reconcile failed; nothing retries it  *)
(*   cap          the device was refused at the cap                        *)
(***************************************************************************)
Reasons == {"late_detail", "late_points", "missed", "failed", "cap"}

IdleTask == [pc |-> "idle"]
NoWalk == [pc |-> "idle"]

GraphInit ==
    /\ paired = [a \in {} |-> {}]
    /\ pairings = 0 /\ gaps = 0 /\ failures = 0
    /\ pushes = <<>>
    /\ devices = {} /\ channels = {} /\ points = {}
    /\ rec = [t \in Tasks |-> IdleTask]
    /\ walk = NoWalk
    /\ announced = {}
    /\ blame = [r \in Reasons |-> {}]

Blame(reason, addresses) == [blame EXCEPT ![reason] = @ \cup addresses]

-----------------------------------------------------------------------------
(***************************************************************************)
(* EXTERNAL: the daemon pairs and unpairs devices and pushes both.         *)
(***************************************************************************)
DaemonPairs(a, numbers) ==
    /\ a \notin DOMAIN paired
    /\ pairings < MaxPairings
    /\ pairings' = pairings + 1
    /\ paired' = [b \in DOMAIN paired \cup {a} |-> IF b = a THEN numbers ELSE paired[b]]
    /\ pushes' = Append(pushes, [op |-> "created", addr |-> a])
    /\ UNCHANGED <<gaps, failures, storeVars, rec, walk, announced, blame>>

DaemonUnpairs(a) ==
    /\ a \in DOMAIN paired
    /\ pairings < MaxPairings
    /\ pairings' = pairings + 1
    /\ paired' = [b \in DOMAIN paired \ {a} |-> paired[b]]
    /\ pushes' = Append(pushes, [op |-> "removed", addr |-> a])
    /\ UNCHANGED <<gaps, failures, storeVars, rec, walk, announced, blame>>

(* The daemon restores a device from its description cache: device.created  *)
(* with source CACHE.                                                       *)
DaemonRestores(a) ==
    /\ a \in DOMAIN paired
    /\ pairings < MaxPairings
    /\ pairings' = pairings + 1
    /\ pushes' = Append(pushes, [op |-> "restored", addr |-> a])
    /\ UNCHANGED <<paired, gaps, failures, storeVars, rec, walk, announced, blame>>

(* The pushes on their way are lost; the client is told and starts a walk.  *)
PushesLost ==
    /\ gaps < MaxGaps
    /\ pushes # <<>>
    /\ gaps' = gaps + 1
    /\ pushes' = <<>>
    /\ walk' = IF walk.pc = "idle" THEN [pc |-> "asked"] ELSE walk
    /\ LET lost == {pushes[i] : i \in 1 .. Len(pushes)}
           covered == walk'.pc = "asked"
       IN  blame' = [blame EXCEPT
             !["missed"] = @ \cup {p.addr : p \in {q \in lost : q.op = "removed" \/ ~covered}}]
    /\ UNCHANGED <<paired, pairings, failures, storeVars, rec, announced>>

-----------------------------------------------------------------------------
(***************************************************************************)
(* The store's operations, each as the pair of sets it computes.           *)
(***************************************************************************)

(* History: what was read of the device is not what is paired now.          *)
Outdated(a, numbers) == a \notin DOMAIN paired \/ paired[a] # numbers

(* _can_admit_device.                                                       *)
CanAdmit(a) == a \in devices \/ Cardinality(devices) < MaxDevices

(* Mutant: the cap guards the snapshot only.                                *)
CreateStub_NoCap(a) ==
    /\ devices' = devices \cup {a}
    /\ UNCHANGED <<channels, points>>

(* apply_device_created: a stub, unless the address is known or refused.    *)
CreateStub(a) ==
    /\ devices' = IF CanAdmit(a) THEN devices \cup {a} ELSE devices
    /\ UNCHANGED <<channels, points>>

(* Mutant: the channels stay behind.                                        *)
RemoveDevice_KeepsChannels(a) ==
    /\ devices' = devices \ {a}
    /\ UNCHANGED <<channels, points>>

(* Mutant: the data points of the channels stay behind.                     *)
RemoveDevice_KeepsPoints(a) ==
    /\ devices' = devices \ {a}
    /\ channels' = channels \ Of(a, channels)
    /\ UNCHANGED points

(* apply_device_removed: the device, its channels, and through each of its  *)
(* channels the data points.                                                *)
RemoveDevice(a) ==
    /\ devices' = devices \ {a}
    /\ channels' = channels \ Of(a, channels)
    /\ points' = points \ Of(a, channels)

(* attach_device_detail: refused at the cap; otherwise upsert the channels  *)
(* and collect the ones that vanished, data points included.                *)
AttachDetail(a, numbers) ==
    IF ~CanAdmit(a) THEN UNCHANGED storeVars
    ELSE LET gone == Of(a, channels) \ KeysOf(a, numbers)
         IN  /\ devices' = devices \cup {a}
             /\ channels' = (channels \ gone) \cup KeysOf(a, numbers)
             /\ points' = points \ gone

(* attach_channel_data_points: neither device nor channel is looked up.     *)
AttachPoints(a, number) ==
    /\ points' = points \cup {<<a, number>>}
    /\ UNCHANGED <<devices, channels>>

(* _store_holds_complete_device.                                            *)
Complete(a) ==
    /\ a \in devices
    /\ \E k \in Of(a, channels) : k \in points

-----------------------------------------------------------------------------
(***************************************************************************)
(* Pushes: the bridge changes the store, then the client reacts.           *)
(***************************************************************************)

(* device.created (or device.released): stub, then a reconcile task unless  *)
(* this is a cache restore or the device is complete already.               *)
OnDeviceCreated ==
    /\ pushes # <<>>
    /\ Head(pushes).op \in {"created", "restored"}
    /\ LET a == Head(pushes).addr
       IN  /\ CreateStub(a)
           /\ IF Head(pushes).op = "restored" \/ Complete(a) THEN UNCHANGED rec
              ELSE \E t \in Tasks :
                     /\ rec[t].pc = "idle"
                     /\ rec' = [rec EXCEPT ![t] = [pc |-> "queued", addr |-> a]]
           /\ blame' = IF CanAdmit(a) THEN blame ELSE Blame("cap", {a})
    /\ pushes' = Tail(pushes)
    /\ UNCHANGED <<paired, pairings, gaps, failures, walk, announced>>

OnDeviceRemoved ==
    /\ pushes # <<>>
    /\ Head(pushes).op = "removed"
    /\ LET a == Head(pushes).addr
       IN  /\ RemoveDevice(a)
           /\ announced' = announced \ {a}
    /\ pushes' = Tail(pushes)
    /\ UNCHANGED <<paired, pairings, gaps, failures, rec, walk, blame>>

-----------------------------------------------------------------------------
(***************************************************************************)
(* _reconcile_new_device.                                                  *)
(***************************************************************************)
Running == {t \in Tasks : rec[t].pc \notin {"idle", "queued"}}

(* The semaphore is entered and the detail is requested.                    *)
TakeSlot(t) ==
    /\ rec[t].pc = "queued"
    /\ Cardinality(Running) < Slots
    /\ rec' = [rec EXCEPT ![t].pc = "asked"]
    /\ UNCHANGED <<daemonVars, storeVars, walk, announced, blame>>

(* The daemon answers the detail request; an unpaired device is a 404.      *)
DetailAnswered(t) ==
    /\ rec[t].pc = "asked"
    /\ rec' = [rec EXCEPT ![t] =
         IF rec[t].addr \in DOMAIN paired
           THEN [pc |-> "detail", addr |-> rec[t].addr, numbers |-> paired[rec[t].addr]]
           ELSE IdleTask]
    /\ UNCHANGED <<daemonVars, storeVars, walk, announced, blame>>

(* The detail is attached, whatever was removed meanwhile.                  *)
DetailAttached(t) ==
    /\ rec[t].pc = "detail"
    /\ LET a == rec[t].addr
       IN  /\ AttachDetail(a, rec[t].numbers)
           /\ blame' = IF ~CanAdmit(a) THEN Blame("cap", {a})
                       ELSE IF a \notin devices \/ Outdated(a, rec[t].numbers)
                         THEN Blame("late_detail", {a}) ELSE blame
    /\ rec' = [rec EXCEPT ![t].pc = "more"]
    /\ UNCHANGED <<daemonVars, walk, announced>>

(* The data points of the next channel are requested and answered.          *)
PointsAnswered(t, number) ==
    /\ rec[t].pc = "more"
    /\ number \in rec[t].numbers
    /\ rec' = [rec EXCEPT ![t] =
         IF rec[t].addr \in DOMAIN paired /\ number \in paired[rec[t].addr]
           THEN [pc |-> "points", addr |-> rec[t].addr, number |-> number,
                 numbers |-> rec[t].numbers \ {number}]
           ELSE IdleTask]
    /\ blame' = IF rec'[t].pc = "idle" /\ rec[t].addr \in DOMAIN paired
                  THEN Blame("late_detail", {rec[t].addr}) ELSE blame
    /\ UNCHANGED <<daemonVars, storeVars, walk, announced>>

PointsAttached(t) ==
    /\ rec[t].pc = "points"
    /\ LET a == rec[t].addr
       IN  /\ AttachPoints(a, rec[t].number)
           /\ blame' = IF <<a, rec[t].number>> \notin channels
                         THEN Blame("late_points", {a}) ELSE blame
    /\ rec' = [rec EXCEPT ![t].pc = "more"]
    /\ UNCHANGED <<daemonVars, walk, announced>>

(* All channels read: announce the device, if it is still there.            *)
ReconcileDone(t) ==
    /\ rec[t].pc = "more"
    /\ rec[t].numbers = {}
    /\ announced' = announced \cup (devices \cap {rec[t].addr})
    /\ rec' = [rec EXCEPT ![t] = IdleTask]
    /\ UNCHANGED <<daemonVars, storeVars, walk, blame>>

(* A REST call raised: logged, and the task is over.                        *)
ReconcileFails(t) ==
    /\ rec[t].pc \in {"asked", "more"}
    /\ failures < MaxFailures
    /\ failures' = failures + 1
    /\ rec' = [rec EXCEPT ![t] = IdleTask]
    /\ blame' = Blame("failed", {rec[t].addr})
    /\ UNCHANGED <<paired, pairings, gaps, pushes, storeVars, walk, announced>>

-----------------------------------------------------------------------------
(***************************************************************************)
(* bootstrap(): one snapshot, attached device by device without a break.   *)
(***************************************************************************)
SnapshotRead ==
    /\ walk.pc = "asked"
    /\ walk' = [pc |-> "answered", snapshot |-> paired]
    /\ UNCHANGED <<daemonVars, storeVars, rec, announced, blame>>

(* How many of n unknown devices the loop of load_snapshot admits.          *)
Admits(n) ==
    LET room == MaxDevices - Cardinality(devices)
    IN  IF room <= 0 THEN 0 ELSE IF n <= room THEN n ELSE room

(* Unknown devices are admitted in the snapshot's order until the cap; what *)
(* is known or admitted is upserted.  The data points of refused devices    *)
(* are attached all the same, and nothing the snapshot does not mention is  *)
(* removed.                                                                 *)
SnapshotAttached ==
    /\ walk.pc = "answered"
    /\ LET inSnap == DOMAIN walk.snapshot
           keys   == UNION {KeysOf(a, walk.snapshot[a]) : a \in inSnap}
       IN  \E admitted \in SUBSET (inSnap \ devices) :
             LET known == admitted \cup (inSnap \cap devices)
             IN  /\ Cardinality(admitted) = Admits(Cardinality(inSnap \ devices))
                 /\ devices' = devices \cup admitted
                 /\ channels' = {k \in channels : k[1] \notin known} \cup {k \in keys : k[1] \in known}
                 /\ points' = {k \in points : k[1] \notin known \/ k \notin channels} \cup keys
                 /\ blame' = [blame EXCEPT
                      !["cap"] = @ \cup (inSnap \ known),
                      !["late_detail"] = @ \cup {a \in inSnap : Outdated(a, walk.snapshot[a])}]
    /\ walk' = [pc |-> "attached"]
    /\ UNCHANGED <<daemonVars, rec, announced>>

(* The alarm panels have been read: announce every device of the store.     *)
WalkAnnounces ==
    /\ walk.pc = "attached"
    /\ walk' = NoWalk
    /\ announced' = announced \cup devices
    /\ UNCHANGED <<daemonVars, storeVars, rec, blame>>

-----------------------------------------------------------------------------
GraphNext ==
    \/ \E a \in Addresses, numbers \in (SUBSET Channels) \ {{}} : DaemonPairs(a, numbers)
    \/ \E a \in Addresses : DaemonUnpairs(a)
    \/ \E a \in Addresses : DaemonRestores(a)
    \/ PushesLost
    \/ OnDeviceCreated
    \/ OnDeviceRemoved
    \/ \E t \in Tasks : TakeSlot(t)
    \/ \E t \in Tasks : DetailAnswered(t)
    \/ \E t \in Tasks : DetailAttached(t)
    \/ \E t \in Tasks, number \in Channels : PointsAnswered(t, number)
    \/ \E t \in Tasks : PointsAttached(t)
    \/ \E t \in Tasks : ReconcileDone(t)
    \/ \E t \in Tasks : ReconcileFails(t)
    \/ SnapshotRead
    \/ SnapshotAttached
    \/ WalkAnnounces

GraphSpec == GraphInit /\ [][GraphNext]_graphVars

-----------------------------------------------------------------------------
(* The maps of the store hold keys of their kind, and every task is where a *)
(* reconcile can be.                                                        *)
GraphTypeOK ==
    /\ devices \subseteq Addresses
    /\ channels \subseteq Keys
    /\ points \subseteq Keys
    /\ \A t \in Tasks : rec[t].pc \in {"idle", "queued", "asked", "detail", "more", "points"}
    /\ announced \subseteq Addresses

(* No writer grows the device map past its cap: stub, detail and snapshot   *)
(* all ask _can_admit_device.                                               *)
CapHolds == Cardinality(devices) <= MaxDevices

(* A channel never outlives its device in the store.                        *)
ChannelsHaveDevices == \A k \in channels : k[1] \in devices

(* The reconcile fan-out never exceeds its semaphore.                       *)
FanOutBounded == Cardinality(Running) <= Slots

(* Nothing on its way and no task at work.                                  *)
AtRest ==
    /\ pushes = <<>> /\ walk.pc = "idle"
    /\ \A t \in Tasks : rec[t].pc = "idle"

Wrong(a) ==
    \/ (a \in devices) # (a \in DOMAIN paired)
    \/ (a \in announced) # (a \in DOMAIN paired)
    \/ LET keys == IF a \in DOMAIN paired THEN KeysOf(a, paired[a]) ELSE {}
       IN  Of(a, channels) # keys \/ Of(a, points) # keys

WrongOnlyFor(reasons) ==
    AtRest => \A a \in Addresses : Wrong(a) => \E r \in reasons : a \in blame[r]

(* At rest the store holds exactly the daemon's devices with their channels *)
(* and data points, all of them announced, except where one of the five     *)
(* named races left an address wrong.                                       *)
GraphIsExplained == WrongOnlyFor(Reasons)

(* client.py: the snapshot walk rebuilds the store after a loss of pushes.  *)
WalkRemovesGhosts == WrongOnlyFor(Reasons \ {"missed"})
=============================================================================
