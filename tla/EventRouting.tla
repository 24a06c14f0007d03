---------------------------- MODULE EventRouting ----------------------------
(***************************************************************************)
(* From the envelope to the entity: the typed events, the in-process bus   *)
(* (events/bus.py), the store bridge, the refresh bridge on the same bus,  *)
(* and what start_events() does to their order.                            *)
(*                                                                         *)
(* The bus calls the subscribers of a type one after the other in the      *)
(* order in which they subscribed, over a snapshot taken at publish.  The  *)
(* store bridge applies the event, the refresh bridge makes Home Assistant *)
(* read the entities again; nothing but the order makes the second see the *)
(* first.  Every handler is a step, since a handler may await: another     *)
(* task subscribes, unsubscribes or restarts the stream in between.  A     *)
(* bucket of the bus, a list that grows at its end, is the set of its      *)
(* subscriptions, each with its turn in the order of the subscribe calls.  *)
(*                                                                         *)
(* A value is the number of the push that produced it.  Queue overflow and *)
(* reconnects are the matter of WsTransport.                               *)
(***************************************************************************)
EXTENDS Naturals, Sequences

CONSTANTS
    Types,        \* event types of this instance, out of EventTypes
    MaxEvents,    \* bound: envelopes of the daemon
    MaxRejects,   \* bound: rejections of the credential
    MaxRaises     \* bound: raising handlers

None == "none"

-----------------------------------------------------------------------------
(* Event types and the key a subscriber may filter on (__post_init__).      *)

EntityEvents == {"datapoint.value_changed", "device.trigger", "datapoint.optimistic_rolled_back"}
CentralEvents == {"custom_data_point.state_changed", "central.state_changed", "central.features_changed",
                  "central.readiness_changed", "system.status_changed"}
HubEvents == {"hub.sysvar_changed", "hub.program_executed", "hub.program_changed", "hub.install_mode_changed",
              "hub.alarm_message", "hub.service_message", "hub.inbox_changed", "hub.metrics_changed",
              "connectivity.changed", "hub.system_update_changed"}
DeviceEvents == {"device.created", "device.released", "device.removed", "device.availability_changed",
                 "device.refreshed", "device.metadata_changed", "schedules.changed"}
PanelEvents == {"alarm.panel_changed"}
ZoneEvents == {"alarm.state_changed", "alarm.countdown", "alarm.readiness_changed", "alarm.triggered",
               "alarm.journal_appended", "alarm.walktest_progress", "alarm.reminder",
               "alarm.notification", "security.zone_changed"}
SecurityEvents == {"security.class_changed", "security.fault_changed", "security.notification"}
KeylessEvents == {"daemon_status.changed", "pairing.requests_changed", "addon_update.state_changed",
                  "alarm.health_changed", "security.state_changed"}
NodeEvents == {"node.fabric_added", "node.fabric_removed", "node.window_opened", "node.window_closed",
               "node.endpoints_changed", "node.exposure_changed", "node.surface_changed"}
(* Published by the client itself (events/synthetic.py).                    *)
ClientEvents == {"client.auth_failed", "client.connection_state_changed",
                 "client.daemon_latency_changed", "client.data_points_created"}

Registry == EntityEvents \cup CentralEvents \cup HubEvents \cup DeviceEvents \cup PanelEvents
            \cup ZoneEvents \cup SecurityEvents \cup KeylessEvents \cup NodeEvents
EventTypes == Registry \cup ClientEvents

(* event_key, given what the payload names.                                 *)
EventKey(type, payload) ==
    CASE type \in EntityEvents \cup PanelEvents -> payload.id
      [] type \in CentralEvents \cup HubEvents \cup DeviceEvents -> payload.central
      [] type \in ZoneEvents \cup SecurityEvents -> payload.group
      [] type \in KeylessEvents \cup NodeEvents \cup ClientEvents -> None

(* event_from_envelope: an unknown type and a payload that does not         *)
(* validate become the same event, which has no key.                        *)
FromEnvelope(env) ==
    IF env.type \in Registry /\ env.valid
    THEN [type |-> env.type, key |-> EventKey(env.type, env.payload), n |-> env.n]
    ELSE [type |-> "unknown", key |-> None, n |-> env.n]

ASSUME RoutingAssumption ==
    /\ Types \subseteq Registry
    /\ {MaxEvents, MaxRejects, MaxRaises} \subseteq Nat

-----------------------------------------------------------------------------
(* What the two bridges do with a type.                                     *)

(* bind_ws_events_to_store and _bind_alarm_events: the aspect of the store  *)
(* that an event writes.                                                    *)
Applies(type) ==
    CASE type = "datapoint.value_changed" -> {"value"}
      [] type = "custom_data_point.state_changed" -> {"state"}
      [] type \in {"device.created", "device.removed"} -> {"graph"}
      [] type = "device.refreshed" -> {"refreshed"}
      [] type = "device.availability_changed" -> {"available"}
      [] type = "hub.sysvar_changed" -> {"sysvar"}
      [] type = "hub.program_changed" -> {"program"}
      [] type = "hub.program_executed" -> {"link"}
      [] type = "alarm.health_changed" -> {"health"}
      [] type \in PanelEvents \cup {"alarm.state_changed", "alarm.countdown", "alarm.readiness_changed",
                                    "alarm.triggered"} -> {"panel"}
      [] OTHER -> {}
Aspects == {"value", "state", "graph", "refreshed", "available", "sysvar", "program", "link", "health", "panel"}

(* install_refresh_bridge whose on_value tells the data point alone.        *)
Pings_NoMembers(type) ==
    CASE type \in {"datapoint.value_changed", "device.availability_changed"} -> {"generic"}
      [] type = "custom_data_point.state_changed" -> {"custom"}
      [] OTHER -> {}

(* install_refresh_bridge: the entities told to read again.  A member's     *)
(* value also reaches the custom data point of its channel.                 *)
Pings(type) ==
    CASE type = "datapoint.value_changed" -> {"generic", "custom"}
      [] type = "custom_data_point.state_changed" -> {"custom"}
      [] type = "hub.sysvar_changed" -> {"sysvar"}
      [] type = "hub.program_changed" -> {"program"}
      [] type = "device.availability_changed" -> {"generic", "custom"}
      [] type \in {"device.created", "device.removed"} -> {"registry"}
      [] type = "device.trigger" -> {"group"}
      [] type \in PanelEvents \cup {"alarm.state_changed", "alarm.countdown", "alarm.readiness_changed",
                                    "alarm.triggered"} -> {"panel"}
      [] OTHER -> {}
Entities == {"generic", "custom", "combined", "update", "group", "registry", "sysvar", "program", "panel"}

(* What an entity reads from the store when it renders.                     *)
Reads(e) ==
    CASE e = "generic" -> {"value", "available"}
      [] e = "custom" -> {"value", "state", "available"}
      [] e = "combined" -> {"value", "available"}
      [] e \in {"update", "group"} -> {"available"}
      [] e = "registry" -> {"graph"}
      [] OTHER -> {e}

(* Entities no handler tells of an aspect they read.                        *)
Unheard == {<<"combined", "value">>, <<"combined", "available">>, <<"update", "available">>,
            <<"group", "available">>}

-----------------------------------------------------------------------------
VARIABLES
    bucket,     \* the bus: subscriptions of each type
    turn,       \* subscribe calls so far
    wire,       \* number of the client's subscription group, 0: none
    installed,  \* the adapter has installed the refresh bridge
    task,       \* the dispatch task: off, waiting, publishing, done
    event,      \* the event being published
    todo,       \* the snapshot that is left of it
    gone,       \* subscriptions that were cancelled
    stream,     \* the transport: off, up, rejecting (AuthFailed is out), stopped
    queue,      \* envelopes waiting
    stored,     \* the store: push that wrote each aspect last
    shown,      \* what Home Assistant rendered last, per entity and aspect
    count,      \* envelopes, rejections and raised handlers so far
    misplaced,  \* history: the store bridge has been bound behind the refresh bridge
    ignored,    \* history: start_events() has returned without starting
    applied,    \* history: how often each envelope was applied
    late        \* history: a handler ran after its unsubscribe

routingVars == <<bucket, turn, wire, installed, task, event, todo, gone, stream, queue, stored, shown,
                 count, misplaced, ignored, applied, late>>

NoEvent == [type |-> None, key |-> None, n |-> 0]
BusTypes == Types \cup {"client.auth_failed"}
Sub(who, key, id, at) == [who |-> who, key |-> key, id |-> id, at |-> at]

RoutingInit ==
    /\ bucket = [t \in BusTypes |-> {}]
    /\ turn = 0
    /\ wire = 0
    /\ installed = FALSE
    /\ task = "off"
    /\ event = NoEvent /\ todo = {}
    /\ gone = {}
    /\ stream = "off"
    /\ queue = <<>>
    /\ stored = [a \in Aspects |-> 0]
    /\ shown = [e \in Entities |-> [a \in Reads(e) |-> 0]]
    /\ count = [events |-> 0, rejects |-> 0, raises |-> 0]
    /\ misplaced = FALSE
    /\ ignored = FALSE
    /\ applied = [n \in 1 .. MaxEvents |-> 0]
    /\ late = FALSE

-----------------------------------------------------------------------------
(* The bus.                                                                 *)

(* subscribe: behind everybody who has subscribed before.                   *)
Subscribed(b, t, sub) == [b EXCEPT ![t] = @ \cup {sub}]

(* _unsubscribe, for all members of a group (SubscriptionGroup.cancel).     *)
Unsubscribed(b, who, id) ==
    [t \in BusTypes |-> {s \in b[t] : ~(s.who = who /\ s.id = id)}]

(* bind_ws_events_to_store: one subscription for each type it handles.      *)
BindStore(b, id, at) ==
    [t \in BusTypes |-> IF Applies(t) # {} THEN b[t] \cup {Sub("wire", None, id, at)} ELSE b[t]]
InstallRefreshBridge(b, at) ==
    [t \in BusTypes |-> IF Pings(t) # {} THEN b[t] \cup {Sub("refresh", None, 0, at)} ELSE b[t]]

-----------------------------------------------------------------------------
(* The client.                                                              *)

TaskAlive == task \in {"waiting", "publishing"}

(* The rest of start_events() once it has started the transport, with the   *)
(* old group left on the bus.                                               *)
BindWireGroup_KeepsGroup(b) ==
    /\ bucket' = BindStore(b, wire + 1, turn + 1)
    /\ turn' = turn + 1
    /\ gone' = gone
    /\ wire' = wire + 1
    /\ task' = "waiting"

(* The rest of start_events() once it has started the transport: the old    *)
(* group is cancelled, a new one bound, the dispatch task created.          *)
BindWireGroup(b) ==
    /\ bucket' = BindStore(Unsubscribed(b, "wire", wire), wire + 1, turn + 1)
    /\ turn' = turn + 1
    /\ gone' = IF wire > 0 THEN gone \cup {<<"wire", wire>>} ELSE gone
    /\ wire' = wire + 1
    /\ task' = "waiting"

(* CentralAdapter.start(): the refresh bridge is installed before the new   *)
(* dispatch task first runs, and HA has read the store that the walk        *)
(* filled.                                                                  *)
AdapterStarts ==
    /\ stream = "off"
    /\ stream' = "up"
    /\ bucket' = InstallRefreshBridge(BindStore(bucket, 1, turn + 1), turn + 2)
    /\ turn' = turn + 2
    /\ wire' = 1
    /\ task' = "waiting"
    /\ installed' = TRUE
    /\ UNCHANGED <<event, todo, gone, queue, stored, shown, count, misplaced, ignored, applied, late>>

(* start_events() again, by a consumer that was told of the rejection, in   *)
(* its handler or later: nothing while the dispatch task is alive.          *)
StartEvents ==
    /\ stream \in {"rejecting", "stopped"}
    /\ IF TaskAlive
       THEN /\ ignored' = TRUE
            /\ UNCHANGED <<bucket, turn, wire, task, stream, gone, misplaced>>
       ELSE /\ stream' = "up"
            /\ BindWireGroup(bucket)
            /\ misplaced' = installed
            /\ ignored' = FALSE
    /\ UNCHANGED <<installed, event, todo, queue, stored, shown, count, applied, late>>

(* A consumer subscribes to one key, and unsubscribes, on its own task.     *)
ConsumerSubscribes ==
    /\ \A t \in BusTypes : \A s \in bucket[t] : s.who # "consumer"
    /\ <<"consumer", 0>> \notin gone
    /\ \E t \in Types, k \in {None, "a"} :
         bucket' = Subscribed(bucket, t, Sub("consumer", k, 0, turn + 1))
    /\ turn' = turn + 1
    /\ UNCHANGED <<wire, installed, task, event, todo, gone, stream, queue, stored, shown, count,
                   misplaced, ignored, applied, late>>
ConsumerUnsubscribes ==
    /\ \E t \in BusTypes : \E s \in bucket[t] : s.who = "consumer"
    /\ bucket' = Unsubscribed(bucket, "consumer", 0)
    /\ gone' = gone \cup {<<"consumer", 0>>}
    /\ UNCHANGED <<turn, wire, installed, task, event, todo, stream, queue, stored, shown, count,
                   misplaced, ignored, applied, late>>

-----------------------------------------------------------------------------
(* The dispatch loop and publish.                                           *)

(* An envelope arrives: of a known type and valid, of the other central, or *)
(* one this client cannot read.                                             *)
EnvelopeArrives ==
    /\ stream = "up"
    /\ count.events < MaxEvents
    /\ \E t \in Types, valid \in BOOLEAN, k \in {"a", "b"} :
         queue' = Append(queue, [type |-> t, valid |-> valid, n |-> count.events + 1,
                                 payload |-> [id |-> k, central |-> k, group |-> k]])
    /\ count' = [count EXCEPT !.events = @ + 1]
    /\ UNCHANGED <<bucket, turn, wire, installed, task, event, todo, gone, stream, stored, shown,
                   misplaced, ignored, applied, late>>

(* publish takes its snapshot; nobody subscribes to the unknown event.      *)
Publish ==
    /\ task = "waiting" /\ stream # "stopped"
    /\ queue # <<>>
    /\ LET e == FromEnvelope(Head(queue)) IN
       IF e.type = "unknown" \/ bucket[e.type] = {}
       THEN UNCHANGED <<task, event, todo>>
       ELSE task' = "publishing" /\ event' = e /\ todo' = bucket[e.type]
    /\ queue' = Tail(queue)
    /\ UNCHANGED <<bucket, turn, wire, installed, gone, stream, stored, shown, count, misplaced, ignored,
                   applied, late>>

(* publish skips the cancelled and those with another key.                  *)
Called(s) == <<s.who, s.id>> \notin gone /\ (s.key = None \/ s.key = event.key)

Stores(s) ==
    IF s.who = "wire"
    THEN /\ stored' = [a \in Aspects |-> IF a \in Applies(event.type) THEN event.n ELSE stored[a]]
         /\ applied' = [applied EXCEPT ![event.n] = @ + 1]
    ELSE UNCHANGED <<stored, applied>>
Renders(s) ==
    shown' = IF s.who # "refresh" THEN shown
             ELSE [e \in Entities |-> IF e \in Pings(event.type) THEN [a \in Reads(e) |-> stored[a]]
                                      ELSE shown[e]]

(* The first handler of the snapshot; one that raises is logged and passed  *)
(* over.                                                                    *)
RunHandler ==
    /\ task = "publishing"
    /\ \E s \in todo :
         /\ \A r \in todo : s.at <= r.at
         /\ \/ /\ ~Called(s)
               /\ UNCHANGED <<stored, applied, shown, count, late>>
            \/ /\ Called(s)
               /\ Stores(s) /\ Renders(s)
               /\ late' = (late \/ <<s.who, s.id>> \in gone)
               /\ UNCHANGED count
            \/ /\ Called(s) /\ s.who = "consumer"
               /\ count.raises < MaxRaises
               /\ count' = [count EXCEPT !.raises = @ + 1]
               /\ late' = (late \/ <<s.who, s.id>> \in gone)
               /\ UNCHANGED <<stored, applied, shown>>
         /\ todo' = todo \ {s}
    /\ UNCHANGED <<bucket, turn, wire, installed, task, event, gone, stream, queue, misplaced, ignored>>

Published ==
    /\ task = "publishing" /\ todo = {}
    /\ task' = "waiting" /\ event' = NoEvent
    /\ UNCHANGED <<bucket, turn, wire, installed, todo, gone, stream, queue, stored, shown, count,
                   misplaced, ignored, applied, late>>

-----------------------------------------------------------------------------
(* The end of the stream.                                                   *)

(* The reader task publishes AuthFailed, and only then stops the transport. *)
CredentialRejected ==
    /\ stream = "up" /\ count.rejects < MaxRejects
    /\ stream' = "rejecting"
    /\ count' = [count EXCEPT !.rejects = @ + 1]
    /\ UNCHANGED <<bucket, turn, wire, installed, task, event, todo, gone, queue, stored, shown,
                   misplaced, ignored, applied, late>>
TransportStops ==
    /\ stream = "rejecting"
    /\ stream' = "stopped"
    /\ UNCHANGED <<bucket, turn, wire, installed, task, event, todo, gone, queue, stored, shown, count,
                   misplaced, ignored, applied, late>>

(* events() ends, and the dispatch task with it; what is queued stays.      *)
DispatchEnds ==
    /\ stream = "stopped" /\ task = "waiting"
    /\ task' = "done"
    /\ UNCHANGED <<bucket, turn, wire, installed, event, todo, gone, stream, queue, stored, shown, count,
                   misplaced, ignored, applied, late>>

RoutingNext ==
    \/ AdapterStarts \/ StartEvents \/ ConsumerSubscribes \/ ConsumerUnsubscribes
    \/ EnvelopeArrives \/ Publish \/ RunHandler \/ Published
    \/ CredentialRejected \/ TransportStops \/ DispatchEnds

RoutingSpec == RoutingInit /\ [][RoutingNext]_routingVars

-----------------------------------------------------------------------------
(* Properties.                                                              *)

(* However often start_events() is called, the store takes every event that *)
(* has been published exactly once (the cancel in start_events: "every      *)
(* event would be applied to the store twice"), and no subscriber is called *)
(* once its unsubscribe has returned, though publish walks a snapshot taken *)
(* before (EventBus.publish).                                               *)
AppliedOnce ==
    /\ ~late
    /\ \A n \in 1 .. MaxEvents : applied[n] <= 1
    /\ task = "publishing" /\ todo = {} /\ Applies(event.type) # {} => applied[event.n] = 1

(* Between two events Home Assistant shows what the store holds, for every  *)
(* entity the refresh bridge tells of the aspect, as long as the store      *)
(* bridge was not bound again behind the refresh bridge.                    *)
EntitiesReadApplied ==
    installed /\ ~misplaced /\ task \in {"waiting", "done"} =>
        \A e \in Entities : \A a \in Reads(e) : shown[e][a] = stored[a] \/ <<e, a>> \in Unheard

(* client.py, _on_auth_failed: "provide a fresh credential and call         *)
(* start_events() again".  A consumer that was told of the rejection and    *)
(* has called it does not end up with a stream that nobody dispatches.      *)
RestartTakesEffect == ignored => TaskAlive
=============================================================================
