---------------------------- MODULE HubSingletons ----------------------------
(***************************************************************************)
(* The per-central singletons of the hub coordinator: inbox, metrics,      *)
(* message lists, updates, connectivity, install mode and the Security &   *)
(* Safety sensors.                                                         *)
(*                                                                         *)
(* Three actors write them.  "dispatch" applies the daemon's pushes one at *)
(* a time and may await a read inside a handler; "hook" (start and every   *)
(* re-bootstrap) and "loop" (every five minutes) run                       *)
(* fetch_hub_singleton_data, one aggregate read followed by five others.   *)
(* Home Assistant adds optimistic writes.  An answer is a picture of the   *)
(* daemon at some moment between request and use.                          *)
(*                                                                         *)
(* A value is the number of the daemon's change that produced it.  Daemon  *)
(* liveness is the matter of CentralLifecycle.                             *)
(***************************************************************************)
EXTENDS Naturals, Sequences, FiniteSets

CONSTANTS
    Interfaces,    \* interfaces of this central
    HazardClasses, \* classes a detector may belong to
    Moving,        \* bound: the singletons the daemon changes
    MaxMessages,   \* bound: length of a message list
    MaxMoves,      \* bound: changes at the daemon
    MaxFetches,    \* bound: runs of fetch_hub_singleton_data
    MaxMisses      \* bound: failing reads and lost pushes

Hub(k) == <<k, "hub">>
Counters == {Hub("inbox"), Hub("metric")}
Connectivity == {<<"connectivity", i>> : i \in Interfaces}
InstallMode == {<<"install", i>> : i \in Interfaces}
MessageLists == {Hub("alarm"), Hub("service")}
Updates == {Hub("update"), Hub("addon")}
ClassSensors == {<<"class", c>> : c \in HazardClasses}
Severity == Hub("severity")
Faults == Hub("faults")
Reports == {Hub("alarm_report"), Hub("fault_report")}
Security == {Severity, Faults} \cup Reports \cup ClassSensors
Aggregated == Counters \cup Connectivity \cup InstallMode
Counted == MessageLists \cup {Faults}
Singletons == Aggregated \cup MessageLists \cup Updates \cup Security

ASSUME HubAssumption ==
    /\ Moving \subseteq Singletons
    /\ {MaxMessages, MaxMoves, MaxFetches, MaxMisses} \subseteq Nat

Fetchers == {"loop", "hook"}
Actors == Fetchers \cup {"dispatch"}
Unseen == 0
Foreign == 99    \* a value another central's push carries
Mixed == 98      \* a finished update shown as still running

VARIABLES
    truth,     \* the daemon's value of each singleton
    size,      \* the daemon's count of each list
    stream,    \* undelivered pushes
    routed,    \* install_push_routing has run
    have,      \* the singletons built so far
    shows,     \* value of each singleton
    counts,    \* value of the counting singletons: the length they show
    bare,      \* singletons whose attributes do not belong to their value
    rendered,  \* value of each singleton when HA was last told of it
    listLock,  \* holder of each message-list lock
    actor,     \* what each actor is doing
    calls,     \* HA's calls the daemon has executed and the client not seen
    tally,     \* moves, fetches and misses so far
    calm,      \* history: fetchers nothing has disturbed since they began
    silent,    \* history: written without an event since HA was told
    excused    \* history: left behind by a miss, a late answer or the design

hubVars == <<truth, size, stream, routed, have, shows, counts, bare, rendered, listLock, actor,
             calls, tally, calm, silent, excused>>

Resting == [at |-> "idle", n |-> [f \in Counted |-> 0], ans |-> <<>>, changed |-> {}]
(* fetch_hub_singleton_data: the reads in their order.                      *)
Plan == <<"aggregate", "alarm", "service", "update", "addon", "security", "publish">>
After(step) == Plan[1 + CHOOSE i \in 1 .. Len(Plan) : Plan[i] = step]
ListOf(step) == Hub(step)

(* Nothing is built before the first fetch of start().                      *)
HubInit ==
    /\ truth = [f \in Singletons |-> IF f \in ClassSensors THEN Unseen ELSE 1]
    /\ size = [f \in Counted |-> 1]
    /\ stream = <<>> /\ routed = FALSE
    /\ have = {} /\ bare = {}
    /\ shows = [f \in Singletons |-> Unseen]
    /\ counts = [f \in Counted |-> Unseen]
    /\ rendered = [f \in Singletons |-> Unseen]
    /\ listLock = [f \in MessageLists |-> "free"]
    /\ actor = [a \in Actors |-> Resting]
    /\ calls = {}
    /\ tally = [moves |-> 0, fetches |-> 0, misses |-> 0]
    /\ calm = {} /\ silent = {} /\ excused = {}

Quiet == stream = <<>> /\ calls = {} /\ \A a \in Actors : actor[a].at = "idle"

(* A singleton stays excused until a write gives it the daemon's value.  A  *)
(* value replaced by an older one is a late answer.                         *)
Excuses(fs) ==
    excused' = {f \in excused \cup fs \cup {g \in Singletons : shows'[g] < shows[g]} :
                  shows'[f] # truth[f] \/ shows'[f] = shows[f]}
(* The HA state-changed event of _publish_each: entities re-read their      *)
(* singleton on it.                                                         *)
PublishEach(fs) ==
    /\ rendered' = [f \in Singletons |-> IF f \in fs THEN shows'[f] ELSE rendered[f]]
    /\ silent' = silent \ fs
NothingPublished == UNCHANGED <<rendered, silent>>
(* HubSingletonDp.update_value over several singletons; the ones it moves.  *)
UpdateValue(vals) == shows' = [f \in Singletons |-> IF f \in DOMAIN vals THEN vals[f] ELSE shows[f]]
MovedBy(vals) == {f \in DOMAIN vals : vals[f] # shows[f]}
Misses == tally.misses < MaxMisses /\ tally' = [tally EXCEPT !.misses = @ + 1]

-----------------------------------------------------------------------------
(* Building.                                                                *)

(* _ensure_singletons, _build_security_singletons: once, before the push    *)
(* routing exists.  A missing answer leaves its singletons out for good.    *)
EnsureSingletons(addon, security, interfaces) ==
    LET seeded == (IF addon THEN {Hub("addon")} ELSE {}) \cup
                  (IF security THEN {f \in Security : f \notin ClassSensors \/ truth[f] # Unseen} ELSE {})
    IN  /\ have' = Counters \cup MessageLists \cup {Hub("update")} \cup seeded \cup
                   (IF interfaces THEN Connectivity \cup InstallMode ELSE {})
        /\ UpdateValue([f \in seeded |-> truth[f]])
        /\ counts' = [counts EXCEPT ![Faults] = IF security THEN size[Faults] ELSE @]

(* fetch_hub_singleton_data begins, at start or by hook or loop.            *)
FetchBegins(a) ==
    /\ actor[a].at = "idle" /\ tally.fetches < MaxFetches
    /\ a = "loop" => routed
    /\ actor' = [actor EXCEPT ![a] = [Resting EXCEPT !.at = "aggregate"]]
    /\ calm' = IF Quiet THEN {a} ELSE {}
    /\ \/ /\ have # {}
          /\ tally' = [tally EXCEPT !.fetches = @ + 1]
          /\ UNCHANGED <<have, shows, counts, excused>>
       \/ /\ have = {}
          /\ \E ok \in [{"addon", "security", "interfaces"} -> BOOLEAN] :
               LET lost == Cardinality({r \in DOMAIN ok : ~ok[r]}) IN
               /\ tally.misses + lost <= MaxMisses
               /\ tally' = [tally EXCEPT !.fetches = @ + 1, !.misses = @ + lost]
               /\ EnsureSingletons(ok["addon"], ok["security"], ok["interfaces"])
               /\ Excuses({})
    /\ UNCHANGED <<truth, size, stream, routed, bare, rendered, listLock, calls, silent>>

(* start(): routing installed and everything announced once the first fetch *)
(* is over.                                                                 *)
InstallPushRouting ==
    /\ ~routed /\ have # {} /\ actor["hook"].at = "idle"
    /\ routed' = TRUE
    /\ rendered' = shows /\ silent' = {}
    /\ UNCHANGED <<truth, size, stream, have, shows, counts, bare, listLock, actor, calls, tally,
                   calm, excused>>

-----------------------------------------------------------------------------
(* Reading.                                                                 *)

(* The lock of a message list is taken before its read.                     *)
MayRead(a, step) == step \in {"alarm", "service"} => listLock[ListOf(step)] = a
Exists(step) ==
    CASE step \in {"update", "addon"} -> Hub(step) \in have
      [] step = "security" -> Severity \in have
      [] OTHER -> TRUE

(* The daemon answers the read an actor awaits.                             *)
Answered(a) ==
    /\ actor[a].at \notin {"idle", "publish"} /\ actor[a].ans = <<>>
    /\ Exists(actor[a].at) /\ MayRead(a, actor[a].at)
    /\ actor' = [actor EXCEPT ![a].ans = <<[truth |-> truth, size |-> size]>>]
    /\ UNCHANGED <<truth, size, stream, routed, have, shows, counts, bare, rendered, listLock,
                   calls, tally, calm, silent, excused>>

Proceed(a, changed) ==
    actor' = [actor EXCEPT ![a].at = After(@), ![a].ans = <<>>, ![a].changed = @ \cup changed]
Reading(a, step) == actor[a].at = step /\ actor[a].ans # <<>>
Answer(a) == actor[a].ans[1]

(* _apply_inbox_count, _apply_metrics, _apply_connectivity,                 *)
(* _apply_install_mode; the counts of the lists are kept for later.         *)
AggregateApplied(a) ==
    /\ Reading(a, "aggregate")
    /\ LET vals == [f \in Aggregated \cap have |-> Answer(a).truth[f]] IN
       /\ UpdateValue(vals)
       /\ actor' = [actor EXCEPT ![a] = [at |-> "alarm", n |-> Answer(a).size, ans |-> <<>>,
                                         changed |-> MovedBy(vals)]]
    /\ Excuses({})
    /\ NothingPublished
    /\ UNCHANGED <<truth, size, stream, routed, have, counts, bare, listLock, calls, tally, calm>>

(* _refresh_message_list returns at once when the count has not moved.      *)
CountMoved(a, f) == actor[a].n[f] # counts[f]

(* The lock is held from the re-check of the count to the use of the list.  *)
ListLocked(a) ==
    /\ actor[a].at \in {"alarm", "service"}
    /\ LET f == ListOf(actor[a].at) IN
       /\ CountMoved(a, f) /\ listLock[f] = "free"
       /\ listLock' = [listLock EXCEPT ![f] = a]
    /\ UNCHANGED <<truth, size, stream, routed, have, shows, counts, bare, rendered, actor, calls,
                   tally, calm, silent, excused>>

(* The dispatch loop is free again, or the fetch goes on.                   *)
ListDone(a, changed) ==
    IF a = "dispatch"
    THEN /\ actor' = [actor EXCEPT ![a] = Resting]
         /\ PublishEach(changed)
    ELSE Proceed(a, changed) /\ NothingPublished

ListSkipped(a) ==
    /\ actor[a].at \in {"alarm", "service"}
    /\ LET f == ListOf(actor[a].at) IN
       /\ ~CountMoved(a, f) /\ listLock[f] # a
       /\ UpdateValue(<<>>)
       /\ ListDone(a, {})
       /\ Excuses({f})
    /\ UNCHANGED <<truth, size, stream, routed, have, counts, bare, listLock, calls, tally, calm>>

(* update_messages: the length and one attribute per message.               *)
ListApplied(a) ==
    /\ actor[a].at \in {"alarm", "service"} /\ actor[a].ans # <<>>
    /\ LET f == ListOf(actor[a].at)
           vals == [g \in {f} |-> Answer(a).truth[g]] IN
       /\ UpdateValue(vals)
       /\ counts' = [counts EXCEPT ![f] = Answer(a).size[f]]
       /\ listLock' = [listLock EXCEPT ![f] = IF @ = a THEN "free" ELSE @]
       /\ ListDone(a, MovedBy(vals))
    /\ Excuses({})
    /\ UNCHANGED <<truth, size, stream, routed, have, bare, calls, tally, calm>>

(* _fetch_system_update, _fetch_addon_update.                               *)
UpdateApplied(a) ==
    /\ actor[a].at \in {"update", "addon"} /\ actor[a].ans # <<>>
    /\ LET f == Hub(actor[a].at)
           vals == [g \in {f} |-> Answer(a).truth[g]] IN
       /\ UpdateValue(vals)
       /\ Proceed(a, MovedBy(vals))
    /\ Excuses({})
    /\ NothingPublished
    /\ UNCHANGED <<truth, size, stream, routed, have, counts, bare, listLock, calls, tally, calm>>

(* The snapshot applied to the sensors built so far only.                   *)
SecurityApplied_KnownOnly(a) ==
    /\ Reading(a, "security")
    /\ LET vals == [f \in Security \cap have |-> Answer(a).truth[f]] IN
       /\ UpdateValue(vals)
       /\ counts' = [counts EXCEPT ![Faults] = Answer(a).size[Faults]]
       /\ bare' = bare \ DOMAIN vals
       /\ Proceed(a, MovedBy(vals) \cup (bare \cap DOMAIN vals))
    /\ Excuses({})
    /\ NothingPublished
    /\ UNCHANGED <<truth, size, stream, routed, have, listLock, calls, tally, calm>>

(* _refresh_security: the snapshot carries sources and grades, and builds   *)
(* the sensor of a class it names for the first time.                       *)
SecurityApplied(a) ==
    /\ Reading(a, "security")
    /\ LET named == {f \in Security : f \in ClassSensors => Answer(a).truth[f] # Unseen}
           vals == [f \in named |-> Answer(a).truth[f]] IN
       /\ UpdateValue(vals)
       /\ counts' = [counts EXCEPT ![Faults] = Answer(a).size[Faults]]
       /\ have' = have \cup named
       /\ bare' = bare \ named
       /\ Proceed(a, MovedBy(vals) \cup (bare \cap named))
    /\ Excuses({})
    /\ NothingPublished
    /\ UNCHANGED <<truth, size, stream, routed, listLock, calls, tally, calm>>

(* The singleton was never built: the step returns at once.                 *)
StepSkipped(a) ==
    /\ actor[a].at \in {"update", "addon", "security"} /\ ~Exists(actor[a].at)
    /\ Proceed(a, {})
    /\ UNCHANGED <<truth, size, stream, routed, have, shows, counts, bare, rendered, listLock,
                   calls, tally, calm, silent, excused>>

(* A failed aggregate ends the fetch, any other failed read its own step.   *)
ReadFails(a) ==
    /\ a \in Fetchers /\ Misses
    /\ actor[a].at \notin {"idle", "publish"} /\ actor[a].ans = <<>>
    /\ Exists(actor[a].at) /\ MayRead(a, actor[a].at)
    /\ IF actor[a].at = "aggregate" THEN actor' = [actor EXCEPT ![a] = Resting]
       ELSE Proceed(a, {})
    /\ listLock' = [f \in MessageLists |-> IF listLock[f] = a THEN "free" ELSE listLock[f]]
    /\ calm' = {}
    /\ excused' = excused \cup {f \in have : shows[f] = Unseen}
    /\ UNCHANGED <<truth, size, stream, routed, have, shows, counts, bare, rendered, calls, silent>>

(* The end of the fetch: one event per changed singleton.                   *)
FetchPublishes(a) ==
    /\ actor[a].at = "publish"
    /\ UpdateValue(<<>>)
    /\ PublishEach(actor[a].changed)
    /\ actor' = [actor EXCEPT ![a] = Resting]
    /\ UNCHANGED <<truth, size, stream, routed, have, counts, bare, listLock, calls, tally, calm,
                   excused>>

-----------------------------------------------------------------------------
(* Pushes.                                                                  *)

Dispatching(fs) ==
    /\ actor["dispatch"].at = "idle" /\ stream # <<>>
    /\ Head(stream).f \in fs
    /\ stream' = Tail(stream)
MatchesCentral(p) == p.local
Handled == UNCHANGED <<truth, size, routed, listLock, calls, tally, calm>>

(* _on_inbox_push, _on_metrics_push, _on_connectivity_push,                 *)
(* _on_system_update_push without the central filter.                       *)
OnValuePush_AnyCentral ==
    /\ Dispatching(Counters \cup Connectivity \cup Updates)
    /\ LET p == Head(stream)
           vals == [f \in {p.f} \cap have |-> p.v] IN
       /\ UpdateValue(vals)
       /\ PublishEach(MovedBy(vals))
    /\ Excuses({})
    /\ UNCHANGED <<have, counts, bare, actor>> /\ Handled

(* ... and _on_addon_update_push, which is for every central.               *)
OnValuePush ==
    /\ Dispatching(Counters \cup Connectivity \cup Updates)
    /\ LET p == Head(stream)
           vals == [f \in {p.f} \cap have |-> IF MatchesCentral(p) THEN p.v ELSE shows[f]] IN
       /\ UpdateValue(vals)
       /\ PublishEach(MovedBy(vals))
    /\ Excuses({})
    /\ UNCHANGED <<have, counts, bare, actor>> /\ Handled

(* _on_install_mode_push: the push names no interface and reaches them all. *)
OnInstallModePush ==
    /\ Dispatching(InstallMode)
    /\ LET p == Head(stream)
           vals == [f \in InstallMode \cap have |-> IF MatchesCentral(p) THEN p.v ELSE shows[f]] IN
       /\ UpdateValue(vals)
       /\ PublishEach(MovedBy(vals))
       /\ Excuses(InstallMode \ {p.f})
    /\ UNCHANGED <<have, counts, bare, actor>> /\ Handled

(* _on_alarm_push, _on_service_push: the count may start a read.            *)
OnMessageCountPush ==
    /\ Dispatching(MessageLists)
    /\ LET p == Head(stream) IN
       IF MatchesCentral(p)
       THEN actor' = [actor EXCEPT !["dispatch"] =
                        [Resting EXCEPT !.at = p.f[1], !.n[p.f] = p.n]]
       ELSE UNCHANGED actor
    /\ UNCHANGED <<have, shows, counts, bare, rendered, silent, excused>> /\ Handled

(* _on_security_state_push: update_severity without sources empties them.   *)
OnSecurityStatePush ==
    /\ Dispatching({Severity})
    /\ LET vals == [f \in {Severity} \cap have |-> Head(stream).v] IN
       /\ UpdateValue(vals)
       /\ bare' = bare \cup DOMAIN vals
       /\ PublishEach(MovedBy(vals) \cup (DOMAIN vals \ bare))
    /\ Excuses({})
    /\ UNCHANGED <<have, counts, actor>> /\ Handled

(* _on_security_class_push, _security_class_dp: the sensor is built on      *)
(* first use; the push has no grade and update_class keeps the last one.    *)
OnSecurityClassPush ==
    /\ Dispatching(ClassSensors)
    /\ LET p == Head(stream)
           vals == [f \in IF Severity \in have THEN {p.f} ELSE {} |-> p.v] IN
       /\ UpdateValue(vals)
       /\ have' = have \cup DOMAIN vals
       /\ bare' = bare \cup MovedBy(vals)
       /\ PublishEach(MovedBy(vals))
    /\ Excuses({})
    /\ UNCHANGED <<counts, actor>> /\ Handled

(* _on_security_notification_push                                           *)
OnSecurityNotificationPush ==
    /\ Dispatching(Reports)
    /\ LET vals == [f \in {Head(stream).f} \cap have |-> Head(stream).v] IN
       /\ UpdateValue(vals)
       /\ PublishEach(MovedBy(vals))
    /\ Excuses({})
    /\ UNCHANGED <<have, counts, bare, actor>> /\ Handled

(* _on_security_fault_push reads the ledger; the dispatch loop waits.       *)
OnSecurityFaultPush ==
    /\ Dispatching({Faults})
    /\ actor' = IF Faults \in have
                THEN [actor EXCEPT !["dispatch"] =
                        [Resting EXCEPT !.at = "faults", !.n[Faults] = Head(stream).n]]
                ELSE actor
    /\ UNCHANGED <<have, shows, counts, bare, rendered, silent, excused>> /\ Handled

FaultsApplied ==
    /\ Reading("dispatch", "faults")
    /\ LET vals == [f \in {Faults} |-> Answer("dispatch").truth[f]] IN
       /\ UpdateValue(vals)
       /\ counts' = [counts EXCEPT ![Faults] = Answer("dispatch").size[Faults]]
       /\ bare' = bare \ {Faults}
       /\ PublishEach(MovedBy(vals) \cup (bare \cap {Faults}))
    /\ actor' = [actor EXCEPT !["dispatch"] = Resting]
    /\ Excuses({})
    /\ UNCHANGED <<stream, have>> /\ Handled

(* A failed read in a handler: the fault count is taken from the push, with *)
(* the attributes as they were; a message list is left alone.               *)
HandlerReadFails ==
    /\ actor["dispatch"].at # "idle" /\ actor["dispatch"].ans = <<>>
    /\ MayRead("dispatch", actor["dispatch"].at) /\ Misses
    /\ LET f == ListOf(actor["dispatch"].at) IN
       /\ counts' = IF f = Faults THEN [counts EXCEPT ![f] = actor["dispatch"].n[f]] ELSE counts
       /\ bare' = IF f = Faults THEN bare \cup {f} ELSE bare
       /\ UpdateValue(<<>>)
       /\ PublishEach(IF counts'[f] # counts[f] THEN {f} ELSE {})
       /\ Excuses({f})
    /\ listLock' = [f \in MessageLists |-> IF listLock[f] = "dispatch" THEN "free" ELSE listLock[f]]
    /\ actor' = [actor EXCEPT !["dispatch"] = Resting]
    /\ calm' = {}
    /\ UNCHANGED <<truth, size, stream, routed, have, calls>>

-----------------------------------------------------------------------------
(* Home Assistant's calls.                                                  *)

(* Install-mode values go to every interface, so no two of them are alike.  *)
NewValue(f) == IF f \in InstallMode THEN tally.moves + 2 ELSE truth[f] + 1
Emit(pushes) == stream' = IF routed THEN stream \o pushes ELSE stream

(* InstallModeDpButton.activate / deactivate, SystemUpdateDp.install,       *)
(* AddonUpdateDp.install: the daemon has executed the request.              *)
HaCalls(f) ==
    /\ f \in (InstallMode \cup Updates) \cap have \cap Moving
    /\ routed /\ tally.moves < MaxMoves
    /\ tally' = [tally EXCEPT !.moves = @ + 1]
    /\ truth' = [truth EXCEPT ![f] = NewValue(f)]
    /\ Emit(<<[f |-> f, v |-> truth'[f], n |-> 0, local |-> TRUE]>>)
    /\ calls' = calls \cup {[f |-> f, v |-> truth'[f]]}
    /\ calm' = {}
    /\ UNCHANGED <<size, routed, have, shows, counts, bare, rendered, listLock, actor, silent, excused>>

(* The answer arrives: the optimistic write, without an event.  On an       *)
(* update only the progress flag is written.                                *)
HaAnswered(c) ==
    /\ calls' = calls \ {c}
    /\ LET v == IF c.f \in InstallMode \/ shows[c.f] \in {c.v - 1, c.v} THEN c.v ELSE Mixed
           vals == [f \in {c.f} |-> v] IN
       /\ UpdateValue(vals)
       /\ silent' = silent \cup MovedBy(vals)
       /\ Excuses({c.f})
    /\ UNCHANGED <<truth, size, stream, routed, have, counts, bare, rendered, listLock, actor,
                   tally, calm>>

-----------------------------------------------------------------------------
(* The daemon.                                                              *)

(* A change and its push.  A push that is lost, or sent before the routing  *)
(* exists, reaches nobody.                                                  *)
DaemonMoves(f, n, lost) ==
    /\ tally.moves < MaxMoves
    /\ lost => routed /\ tally.misses < MaxMisses
    /\ tally' = [tally EXCEPT !.moves = @ + 1, !.misses = IF lost THEN @ + 1 ELSE @]
    /\ truth' = [truth EXCEPT ![f] = NewValue(f)]
    /\ size' = IF f \in Counted THEN [size EXCEPT ![f] = n] ELSE size
    /\ Emit(IF lost THEN <<>> ELSE <<[f |-> f, v |-> truth'[f], n |-> n, local |-> TRUE]>>)
    /\ calm' = {}
    /\ excused' = excused \cup (IF lost \/ ~routed THEN {f} ELSE {})
    /\ UNCHANGED <<routed, have, shows, counts, bare, rendered, listLock, actor, calls, silent>>

(* The daemon serves other centrals too and broadcasts their changes.       *)
OtherCentralMoves(f) ==
    /\ routed /\ tally.moves < MaxMoves
    /\ f \in Moving \ (Security \cup {Hub("addon")})
    /\ tally' = [tally EXCEPT !.moves = @ + 1]
    /\ Emit(<<[f |-> f, v |-> Foreign, n |-> Foreign, local |-> FALSE]>>)
    /\ UNCHANGED <<truth, size, routed, have, shows, counts, bare, rendered, listLock, actor,
                   calls, calm, silent, excused>>

-----------------------------------------------------------------------------
HubNext ==
    \/ \E a \in Fetchers :
         \/ FetchBegins(a) \/ AggregateApplied(a) \/ UpdateApplied(a) \/ SecurityApplied(a)
         \/ StepSkipped(a) \/ ReadFails(a) \/ FetchPublishes(a)
    \/ \E a \in Actors : Answered(a) \/ ListLocked(a) \/ ListSkipped(a) \/ ListApplied(a)
    \/ InstallPushRouting
    \/ OnValuePush \/ OnInstallModePush \/ OnMessageCountPush
    \/ OnSecurityStatePush \/ OnSecurityClassPush \/ OnSecurityNotificationPush
    \/ OnSecurityFaultPush \/ FaultsApplied \/ HandlerReadFails
    \/ \E f \in Moving : HaCalls(f) \/ OtherCentralMoves(f)
    \/ \E c \in calls : HaAnswered(c)
    \/ \E f \in Moving, n \in 0 .. MaxMessages, lost \in BOOLEAN :
         (f \notin Counted => n = 0) /\ DaemonMoves(f, n, lost)

HubSpec == HubInit /\ [][HubNext]_hubVars

-----------------------------------------------------------------------------
(* Properties.                                                              *)

(* A class that has a source counts as built: its first push builds it.     *)
Expected == have \cup {f \in ClassSensors : Severity \in have /\ truth[f] # Unseen}
Shows(f) == shows[f] = truth[f] /\ (f \in Counted => counts[f] = size[f])

(* With every push and read worked off, a singleton shows the daemon's      *)
(* value, unless a push was lost, its first or a handler's read failed, a late *)
(* answer overwrote it, a list changed without changing its length, or the  *)
(* central-wide install-mode push and the optimistic writes got in between. *)
(* HA has been told of what is shown, but for the optimistic writes of its  *)
(* own calls.                                                               *)
SingletonsExplained ==
    (routed /\ Quiet) =>
        /\ \A f \in Expected : shows[f] = truth[f] \/ f \in excused
        /\ \A f \in have \ silent : rendered[f] = shows[f]

(* One fetch_hub_singleton_data with nothing moving meanwhile repairs       *)
(* whatever was missed: every singleton has the daemon's value, its sources *)
(* and its grade, and HA was told.  Of a message list only the length is    *)
(* compared, so only the length is repaired.                                *)
FetchRepairs ==
    [][\A a \in Fetchers :
         (a \in calm /\ actor[a].at = "publish" /\ actor'[a].at = "idle") =>
            /\ \A f \in Expected' \ MessageLists :
                 /\ f \in have' /\ Shows(f)' /\ f \notin bare'
            /\ \A f \in MessageLists : counts'[f] = size'[f]]_hubVars
=============================================================================
