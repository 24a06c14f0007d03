----------------------------- MODULE CompatModel -----------------------------
(***************************************************************************)
(* The entities of one device: the objects the compat layer builds on the  *)
(* store, the values they show and who writes them.                        *)
(*                                                                         *)
(* Home Assistant keeps the object it was offered, for good.  Four paths   *)
(* write values: pushes (bridge), the re-reads HA asks for                 *)
(* (load_data_point_value), the schedule re-read after a push, and the     *)
(* walk after a loss, which refills the store and then runs                *)
(* _on_store_rebootstrapped: custom data points, calculated ones, schedule *)
(* and combined ones, announcement.  Generic and custom objects are        *)
(* updated in place, calculated and schedule objects are built anew.       *)
(*                                                                         *)
(* A value is the number of the daemon's change that produced it; it also  *)
(* stands for modified_at.  Pairing is the matter of StoreGraph, the order *)
(* of queue and snapshot that of EventSync.                                *)
(***************************************************************************)
EXTENDS Naturals, Sequences, FiniteSets

CONSTANTS
    MaxChanges,   \* bound: changes at the daemon, over all kinds
    MaxRefreshes, \* bound: re-reads in flight at a time
    MaxLosses,    \* bound: losses of pushes
    MaxFailures   \* bound: failing REST calls

ASSUME ModelAssumption == {MaxChanges, MaxRefreshes, MaxLosses, MaxFailures} \subseteq Nat

(* The kinds of object, in the order in which a walk reaches them.          *)
Stages == <<"generic", "custom", "calculated", "schedule">>
Kinds == {Stages[i] : i \in 1 .. 4}
(* Built again by every pass, and without a value of their own: the         *)
(* combined duration number and the firmware-update data point.             *)
Derived == {"combined", "update"}
Announce == 5

VARIABLES
    actual,    \* the daemon's value of each kind
    pushes,    \* undelivered pushes, in order
    val,       \* the values of the objects built so far, the last is the store's
    entity,    \* number of the object HA holds, 0: none
    over,      \* kinds whose entity shows a value HA has written
    refresh,   \* load_data_point_value in flight, per kind
    reload,    \* the schedule re-read the dispatch loop awaits
    walk,      \* stage of the walk (0: idle) and what it has read there
    rejected,  \* kinds offered to HA while it had them already
    bounds,    \* changes, losses and failures so far
    own,       \* history: kinds no value has reached since HA wrote them
    blamed     \* history: kinds left stale by a loss, failure or late answer

modelVars == <<actual, pushes, val, entity, over, refresh, reload, walk, rejected, bounds,
               own, blamed>>

Refreshed == Kinds \ {"schedule"}
Overridable == {"generic", "calculated"}
Idle == [pc |-> "idle"]
AtStage(n) == [stage |-> n, read |-> {}]

Live(k) == entity[k] = Len(val[k])
Stored(k) == val[k][Len(val[k])]

(* start() has built the model once and is about to announce it.            *)
ModelInit ==
    /\ actual = [k \in Kinds |-> 0]
    /\ pushes = <<>>
    /\ val = [k \in Kinds |-> <<0>>]
    /\ entity = [k \in Kinds \cup Derived |-> 0]
    /\ over = {}
    /\ refresh = [k \in Refreshed |-> Idle]
    /\ reload = Idle
    /\ walk = AtStage(Announce)
    /\ rejected = {}
    /\ bounds = [changes |-> 0, losses |-> 0, failures |-> 0]
    /\ own = {}
    /\ blamed = {}

(* A kind stays blamed until its stored value is the daemon's again.        *)
Blames(kinds) ==
    blamed' = {k \in blamed \cup kinds : val'[k][Len(val'[k])] # actual'[k]}

-----------------------------------------------------------------------------
(* Writes to the store's object of a kind.                                  *)

Write(k, v) == val' = [val EXCEPT ![k][Len(val[k])] = v]

(* _clear_value_override: only generic and calculated objects have one, and *)
(* only the store's object is reached.                                      *)
ClearValueOverride(k) == over' = IF Live(k) THEN over \ {k} ELSE over

(* CustomDataPoint._apply_generation: a re-read in flight learns of every   *)
(* other write of the state.                                                *)
Moves(k) ==
    refresh' = IF k = "custom" /\ refresh[k].pc # "idle"
               THEN [refresh EXCEPT ![k].moved = TRUE]
               ELSE refresh

(* apply_value_changed, apply_custom_data_point_state_changed               *)
HandlePush ==
    /\ reload = Idle
    /\ pushes # <<>> /\ Head(pushes).kind # "schedule"
    /\ LET k == Head(pushes).kind IN
       /\ Write(k, Head(pushes).ver)
       /\ ClearValueOverride(k)
       /\ Moves(k)
       /\ own' = own \ {k}
    /\ pushes' = Tail(pushes)
    /\ UNCHANGED <<actual, entity, reload, walk, rejected, bounds>>
    /\ Blames({})

(* on_schedule_changed: the push has no body; the handler looks the object  *)
(* up, then awaits its re-read, and the dispatch loop waits with it.        *)
OnScheduleChanged ==
    /\ reload = Idle
    /\ pushes # <<>> /\ Head(pushes).kind = "schedule"
    /\ reload' = [pc |-> "asked", inst |-> Len(val["schedule"])]
    /\ pushes' = Tail(pushes)
    /\ UNCHANGED <<actual, val, entity, over, refresh, walk, rejected, bounds, own, blamed>>

ReloadAnswered ==
    /\ reload.pc = "asked"
    /\ reload' = [pc |-> "answered", inst |-> reload.inst, ver |-> actual["schedule"]]
    /\ UNCHANGED <<actual, pushes, val, entity, over, refresh, walk, rejected, bounds, own, blamed>>

ReloadApplied ==
    /\ reload.pc = "answered"
    /\ val' = [val EXCEPT !["schedule"][reload.inst] = reload.ver]
    /\ reload' = Idle
    /\ UNCHANGED <<actual, pushes, entity, over, refresh, walk, rejected, bounds, own>>
    /\ Blames(IF reload.inst # Len(val["schedule"]) THEN {"schedule"} ELSE {})

ReloadFails ==
    /\ reload.pc # "idle"
    /\ bounds.failures < MaxFailures
    /\ bounds' = [bounds EXCEPT !.failures = @ + 1]
    /\ reload' = Idle
    /\ UNCHANGED <<actual, pushes, val, entity, over, refresh, walk, rejected, own>>
    /\ Blames({"schedule"})

-----------------------------------------------------------------------------
(* load_data_point_value of HA's entity: refresh_data_point,                *)
(* refresh_calculated_data_point, refresh_custom_data_point.                *)

RefreshAsked(k) ==
    /\ entity[k] # 0 /\ refresh[k] = Idle
    /\ Cardinality({j \in Refreshed : refresh[j] # Idle}) < MaxRefreshes
    /\ refresh' = [refresh EXCEPT ![k] = [pc |-> "asked", moved |-> FALSE]]
    /\ UNCHANGED <<actual, pushes, val, entity, over, reload, walk, rejected, bounds, own, blamed>>

RefreshAnswered(k) ==
    /\ refresh[k].pc = "asked"
    /\ refresh' = [refresh EXCEPT ![k] =
                      [pc |-> "answered", moved |-> refresh[k].moved, ver |-> actual[k]]]
    /\ UNCHANGED <<actual, pushes, val, entity, over, reload, walk, rejected, bounds, own, blamed>>

(* Mutant: custom state has no timestamp, so nothing is compared.           *)
RefreshIsStale_OnlyStamped(k) == k # "custom" /\ refresh[k].ver < Stored(k)

(* _refresh_is_stale, and the generation check of custom data points.       *)
RefreshIsStale(k) ==
    IF k = "custom" THEN refresh[k].moved ELSE refresh[k].ver < Stored(k)

(* Mutant: the override is dropped before the answer is judged.             *)
RefreshApplied_DropsFirst(k) ==
    /\ refresh[k].pc = "answered"
    /\ refresh' = [refresh EXCEPT ![k] = Idle]
    /\ ClearValueOverride(k)
    /\ \/ RefreshIsStale(k) /\ UNCHANGED <<val, own>>
       \/ ~RefreshIsStale(k) /\ Write(k, refresh[k].ver) /\ own' = own \ {k}
    /\ UNCHANGED <<actual, pushes, entity, reload, walk, rejected, bounds>>
    /\ Blames({})

RefreshApplied(k) ==
    /\ refresh[k].pc = "answered"
    /\ refresh' = [refresh EXCEPT ![k] = Idle]
    /\ \/ RefreshIsStale(k) /\ UNCHANGED <<val, over, own>>
       \/ /\ ~RefreshIsStale(k)
          /\ Write(k, refresh[k].ver)
          /\ ClearValueOverride(k)
          /\ own' = own \ {k}
    /\ UNCHANGED <<actual, pushes, entity, reload, walk, rejected, bounds>>
    /\ Blames({})

RefreshFails(k) ==
    /\ refresh[k].pc # "idle"
    /\ bounds.failures < MaxFailures
    /\ bounds' = [bounds EXCEPT !.failures = @ + 1]
    /\ refresh' = [refresh EXCEPT ![k] = Idle]
    /\ UNCHANGED <<actual, pushes, val, entity, over, reload, walk, rejected, own, blamed>>

(* The setter of value: HA restores or assumes a value.                     *)
HaWrites(k) ==
    /\ entity[k] # 0 /\ k \notin over
    /\ over' = over \cup {k}
    /\ own' = own \cup {k}
    /\ UNCHANGED <<actual, pushes, val, entity, refresh, reload, walk, rejected, bounds, blamed>>

-----------------------------------------------------------------------------
(* The walk: bootstrap() for the generic data points, then the hook.        *)

WalkReads ==
    /\ walk.stage \in 1 .. 4 /\ walk.read = {}
    /\ walk' = [walk EXCEPT !.read = {actual[Stages[walk.stage]]}]
    /\ UNCHANGED <<actual, pushes, val, entity, over, refresh, reload, rejected, bounds, own, blamed>>

(* attach_channel_data_points, attach_custom_data_points: in place; the     *)
(* override stays.                                                          *)
AttachInPlace(k, v) == Write(k, v)

(* attach_channel_calculated_data_points, _spawn_schedule_data_points       *)
Rebuild(k, v) == val' = [val EXCEPT ![k] = Append(@, v)]

WalkAttaches ==
    /\ walk.stage \in 1 .. 4 /\ walk.read # {}
    /\ LET k == Stages[walk.stage]
           v == CHOOSE r \in walk.read : TRUE IN
       /\ IF k \in {"generic", "custom"} THEN AttachInPlace(k, v) ELSE Rebuild(k, v)
       /\ Moves(k)
       /\ walk' = AtStage(walk.stage + 1)
       /\ UNCHANGED <<actual, pushes, entity, over, reload, rejected, bounds, own>>
       /\ Blames(IF v < Stored(k) THEN {k} ELSE {})

(* The failure of one stage ends the walk or the hook; a schedule that      *)
(* cannot be read is skipped.                                               *)
WalkFails ==
    /\ walk.stage \in 1 .. 4
    /\ bounds.failures < MaxFailures
    /\ bounds' = [bounds EXCEPT !.failures = @ + 1]
    /\ walk' = IF walk.stage = 4 THEN AtStage(Announce) ELSE AtStage(0)
    /\ UNCHANGED <<actual, pushes, val, entity, over, refresh, reload, rejected, own>>
    /\ Blames({Stages[i] : i \in walk.stage .. 4})

(* _emit_data_points_created: what is not registered is offered.  An object *)
(* HA holds is registered; derived ones are new each time.                  *)
Offered == {k \in Kinds : ~Live(k)} \cup Derived

(* HA adds what it does not have and rejects the rest.                      *)
EmitDataPointsCreated ==
    /\ walk.stage = Announce
    /\ entity' = [k \in Kinds \cup Derived |->
                     IF k \notin Offered \/ entity[k] # 0 THEN entity[k]
                     ELSE IF k \in Derived THEN 1 ELSE Len(val[k])]
    /\ rejected' = rejected \cup {k \in Offered : entity[k] # 0}
    /\ walk' = AtStage(0)
    /\ UNCHANGED <<actual, pushes, val, over, refresh, reload, bounds, own, blamed>>

-----------------------------------------------------------------------------
(* The daemon and the loss of pushes.                                       *)

DaemonChanges(k) ==
    /\ bounds.changes < MaxChanges
    /\ bounds' = [bounds EXCEPT !.changes = @ + 1]
    /\ actual' = [actual EXCEPT ![k] = @ + 1]
    /\ pushes' = Append(pushes, [kind |-> k, ver |-> actual[k] + 1])
    /\ UNCHANGED <<val, entity, over, refresh, reload, walk, rejected, own, blamed>>

(* _on_replay_lost: a walk is scheduled, or the trigger is dropped (a walk  *)
(* is running, or the cooldown).                                            *)
PushesLost ==
    /\ bounds.losses < MaxLosses
    /\ bounds' = [bounds EXCEPT !.losses = @ + 1]
    /\ pushes # <<>>
    /\ pushes' = <<>>
    /\ UNCHANGED <<actual, val, entity, over, refresh, reload, rejected, own>>
    /\ \/ /\ walk.stage = 0
          /\ walk' = AtStage(1)
          /\ UNCHANGED blamed
       \/ /\ UNCHANGED walk
          /\ Blames({pushes[i].kind : i \in 1 .. Len(pushes)})

-----------------------------------------------------------------------------
ModelNext ==
    \/ HandlePush \/ OnScheduleChanged
    \/ ReloadAnswered \/ ReloadApplied \/ ReloadFails
    \/ \E k \in Refreshed : \/ RefreshAsked(k) \/ RefreshAnswered(k)
                            \/ RefreshApplied(k) \/ RefreshFails(k)
    \/ \E k \in Overridable : HaWrites(k)
    \/ WalkReads \/ WalkAttaches \/ WalkFails \/ EmitDataPointsCreated
    \/ \E k \in Kinds : DaemonChanges(k)
    \/ PushesLost

ModelSpec == ModelInit /\ [][ModelNext]_modelVars

Quiet == pushes = <<>> /\ reload = Idle /\ walk.stage = 0 /\ \A k \in Refreshed : refresh[k] = Idle

-----------------------------------------------------------------------------
(* refresh_*: the answer of a re-read never replaces a newer value, however *)
(* pushes and walks fall between the question and the write-back.           *)
RefreshNeverRegresses ==
    [][\A k \in Refreshed : refresh[k].pc = "answered" /\ refresh'[k].pc = "idle"
         => val'[k][Len(val'[k])] >= Stored(k)]_modelVars

(* A walk updates generic and custom objects in place: HA's entity stays    *)
(* the object the pushes reach, and is not offered a second time.  When     *)
(* nothing is in flight, an entity that is still the store's object shows   *)
(* the daemon's value, unless a loss, a failure or a late answer of the     *)
(* walk has left it stale.  What HA wrote shows until a daemon value has    *)
(* been applied after it: an answer judged stale does not remove it.        *)
EntitiesShowActual ==
    /\ \A k \in {"generic", "custom"} : (entity[k] # 0 => Live(k)) /\ k \notin rejected
    /\ own \subseteq over
    /\ Quiet => \A k \in Kinds \ (blamed \cup own) :
                    entity[k] # 0 /\ Live(k) => k \notin over /\ Stored(k) = actual[k]

(* adapter.py: the rebuild is "idempotent for what HA already has": nothing *)
(* HA has spawned is spawned again.                                         *)
SpawnedOnce == rejected = {}
=============================================================================
