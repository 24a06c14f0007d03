---------------------------- MODULE HubCatalogue ----------------------------
(***************************************************************************)
(* The hub catalogue: the CCU's system variables and programs.             *)
(*                                                                         *)
(* The store holds one object per variable name and per program id, for    *)
(* every central the daemon mediates.  Three readers and the pushes write  *)
(* the same objects: the bootstrap walk, the services that re-read a       *)
(* catalogue, and the program switch, which re-reads its program after the *)
(* write.  Home Assistant shows the value an object had when an event last *)
(* named the id the entity was registered under.                           *)
(***************************************************************************)
EXTENDS Naturals, Sequences

CONSTANTS
    Items,       \* the daemon's variables and programs:
                 \* [kind, key, central, spawns, linked]
    FirstItems,  \* those it knows when the client starts
    MaxNews,     \* bound: changes on the daemon
    MaxLosses,   \* bound: losses of pushes, each followed by a walk
    MaxReads     \* bound: catalogue services and switch commands

ASSUME CatalogueAssumption ==
    /\ \A it \in Items : /\ it.kind \in {"sysvar", "program"} /\ it.central \in {"here", "there"}
                          /\ it.spawns \in BOOLEAN /\ it.linked \in BOOLEAN
    /\ FirstItems \subseteq Items
    /\ {MaxNews, MaxLosses, MaxReads} \subseteq Nat

Keys == {it.key : it \in Items}
NoItem == [kind |-> "none", key |-> "none", central |-> "none", spawns |-> FALSE, linked |-> FALSE]
NoSummary == [it |-> NoItem, v |-> 0, link |-> FALSE]
NotRunning == [at |-> "idle", ans |-> <<>>]

VARIABLES
    fact,      \* value of each item on the daemon, 0: not there
    news,      \* undelivered hub.* pushes
    record,    \* the store's object of each key
    entity,    \* item whose id the entity of a key is registered under
    shown,     \* value that entity last rendered
    walk,      \* the bootstrap walk and its answers
    service,   \* the running catalogue service and its answer
    switch,    \* the running switch command
    pledged,   \* programs whose flip the daemon has accepted, not executed
    used,      \* bounds used up
    outdated,  \* history: keys whose newest value an old answer replaced
    unheard    \* history: keys that last changed without an event

catVars == <<fact, news, record, entity, shown, walk, service, switch, pledged, used, outdated, unheard>>

Summary(it, v) == [it |-> it, v |-> v, link |-> it.linked]
Known(k) == record[k].it # NoItem

(* What the store has announced at start: its own central's items.          *)
(* _is_local, _is_excluded_sysvar                                           *)
Spawns(it) == it.central = "here" /\ it.spawns

(* start() has merged the catalogue, then announced it.                     *)
CatInit ==
    /\ fact = [it \in Items |-> IF it \in FirstItems THEN 1 ELSE 0]
    /\ news = <<>>
    /\ record = [k \in Keys |->
                   LET of == {it \in FirstItems : it.key = k} IN
                   IF of = {} THEN NoSummary
                   ELSE Summary(CHOOSE it \in of : it.central = "here" \/ \A x \in of : x.central = "there", 1)]
    /\ entity = [k \in Keys |-> IF Spawns(record[k].it) THEN record[k].it ELSE NoItem]
    /\ shown = [k \in Keys |-> IF Spawns(record[k].it) THEN 1 ELSE 0]
    /\ walk = NotRunning /\ service = NotRunning /\ switch = NotRunning
    /\ pledged = {}
    /\ used = [news |-> 0, losses |-> 0, reads |-> 0]
    /\ outdated = {} /\ unheard = {}

-----------------------------------------------------------------------------
(* The daemon.                                                              *)

(* A push names the link of a program only when the hub model is loaded.    *)
Push(it, v, what) ==
    \E link \in IF it.linked /\ it.kind = "program" THEN BOOLEAN ELSE {it.linked} :
        news' = Append(news, [it |-> it, v |-> v, what |-> what, link |-> link])

ItemChanges(it) ==
    /\ fact[it] > 0 /\ used.news < MaxNews
    /\ used' = [used EXCEPT !.news = @ + 1]
    /\ fact' = [fact EXCEPT ![it] = @ + 1]
    /\ Push(it, fact[it] + 1, "changed")
    /\ UNCHANGED <<record, entity, shown, walk, service, switch, pledged, outdated, unheard>>

(* No push tells of a new variable or program.                              *)
ItemAppears(it) ==
    /\ fact[it] = 0 /\ used.news < MaxNews
    /\ used' = [used EXCEPT !.news = @ + 1]
    /\ fact' = [fact EXCEPT ![it] = 1]
    /\ UNCHANGED <<news, record, entity, shown, walk, service, switch, pledged, outdated, unheard>>

ProgramRuns(it) ==
    /\ it.kind = "program" /\ fact[it] > 0 /\ used.news < MaxNews
    /\ used' = [used EXCEPT !.news = @ + 1]
    /\ Push(it, fact[it], "executed")
    /\ UNCHANGED <<fact, record, entity, shown, walk, service, switch, pledged, outdated, unheard>>

(* The CCU confirms a flip the daemon has accepted.                         *)
FlipConfirmed(it) ==
    /\ it \in pledged
    /\ pledged' = pledged \ {it}
    /\ fact' = [fact EXCEPT ![it] = @ + 1]
    /\ Push(it, fact[it] + 1, "changed")
    /\ UNCHANGED <<record, entity, shown, walk, service, switch, used, outdated, unheard>>

-----------------------------------------------------------------------------
(* Writes of the store's objects.                                           *)

(* Every event that names one of the ids: its entity reads its object.      *)
Render(ids) ==
    shown' = [k \in Keys |-> IF entity[k] \in ids THEN record'[k].v ELSE shown[k]]

(* An object that is not the item's value, with no push to come.            *)
Pushed(it) == \E i \in 1..Len(news) : news[i].it = it /\ news[i].what = "changed"
Behind(s) == s.v # fact[s.it] /\ ~Pushed(s.it)

(* The entry of a list an object is made of: a list names one central after *)
(* the other, and its last entry of a key wins.                             *)
Naming(ss, k) == {s \in ss : s.it.key = k}
Winner(ss, k, last) ==
    CHOOSE s \in Naming(ss, k) : s.it.central = last \/ \A t \in Naming(ss, k) : t.it.central # last

(* _upsert_sysvar, _upsert_program, for a list of summaries: an object per  *)
(* key.                                                                     *)
Upsert(ss) ==
    \E last \in {s.it.central : s \in ss} \cup {"here"} :
        /\ record' = [k \in Keys |-> IF Naming(ss, k) = {} THEN record[k] ELSE Winner(ss, k, last)]
        /\ outdated' = {k \in Keys : IF Naming(ss, k) = {} THEN k \in outdated ELSE Behind(record'[k])}

(* The list GET /sysvars or /programs answers: every central's.             *)
Listing(kind) == {Summary(it, fact[it]) : it \in {x \in Items : x.kind = kind /\ fact[x] > 0}}

-----------------------------------------------------------------------------
(* Pushes: the store applies them, then the refresh bridge emits.           *)

Receive(kind, what) ==
    /\ news # <<>> /\ Head(news).it.kind = kind /\ Head(news).what = what
    /\ news' = Tail(news)

(* apply_sysvar_changed and on_sysvar: an unknown name is ignored.  The id  *)
(* of the event is the push's own or, from older daemons, the object's.     *)
OnSysvarChanged ==
    /\ Receive("sysvar", "changed")
    /\ LET n == Head(news)  k == n.it.key IN
       /\ record' = IF Known(k) THEN [record EXCEPT ![k].v = n.v, ![k].link = n.link] ELSE record
       /\ outdated' = outdated \ {k}
       /\ \E id \in {n.it, record[k].it} :
            /\ Render({id})
            /\ unheard' = IF id = entity[k] THEN unheard \ {k} ELSE unheard
    /\ UNCHANGED <<fact, entity, walk, service, switch, pledged, used>>

(* apply_program_changed: an absent link clears the known one.              *)
OnProgramChanged_DropsLink ==
    /\ Receive("program", "changed")
    /\ LET n == Head(news)  k == n.it.key IN
       /\ record' = IF Known(k) THEN [record EXCEPT ![k].v = n.v, ![k].link = n.link] ELSE record
       /\ outdated' = outdated \ {k}
       /\ Render({n.it})
       /\ unheard' = IF n.it = entity[k] THEN unheard \ {k} ELSE unheard
    /\ UNCHANGED <<fact, entity, walk, service, switch, pledged, used>>

(* apply_program_changed and on_program_changed.                            *)
OnProgramChanged ==
    /\ Receive("program", "changed")
    /\ LET n == Head(news)  k == n.it.key IN
       /\ record' = IF Known(k) THEN [record EXCEPT ![k].v = n.v, ![k].link = @ \/ n.link] ELSE record
       /\ outdated' = outdated \ {k}
       /\ Render({n.it})
       /\ unheard' = IF n.it = entity[k] THEN unheard \ {k} ELSE unheard
    /\ UNCHANGED <<fact, entity, walk, service, switch, pledged, used>>

(* apply_program_executed: only a link is taken, no event is emitted.       *)
OnProgramExecuted ==
    /\ Receive("program", "executed")
    /\ LET n == Head(news) IN
       record' = IF Known(n.it.key) THEN [record EXCEPT ![n.it.key].link = @ \/ n.link] ELSE record
    /\ UNCHANGED <<fact, entity, shown, walk, service, switch, pledged, used, outdated, unheard>>

-----------------------------------------------------------------------------
(* The walk after a loss: _bootstrap_hub_catalogue, then the announcement.  *)

NewsLost ==
    /\ walk = NotRunning /\ used.losses < MaxLosses
    /\ used' = [used EXCEPT !.losses = @ + 1]
    /\ news' = <<>>
    /\ walk' = [at |-> "sysvars", ans |-> <<>>]
    /\ UNCHANGED <<fact, record, entity, shown, service, switch, pledged, outdated, unheard>>

WalkReads ==
    /\ walk' = CASE walk.at = "sysvars" -> [at |-> "programs", ans |-> <<Listing("sysvar")>>]
                 [] walk.at = "programs" -> [at |-> "attach", ans |-> Append(walk.ans, Listing("program"))]
                 [] OTHER -> walk
    /\ walk' # walk
    /\ UNCHANGED <<fact, news, record, entity, shown, service, switch, pledged, used, outdated, unheard>>

(* Either read fails: neither answer is merged, what was missed stays so.   *)
WalkReadFails ==
    /\ walk.at \in {"sysvars", "programs"}
    /\ walk' = [at |-> "announce", ans |-> <<>>]
    /\ outdated' = {k \in Keys : Known(k) /\ (k \in outdated \/ Behind(record[k]))}
    /\ UNCHANGED <<fact, news, record, entity, shown, service, switch, pledged, used, unheard>>

(* attach_hub_catalogue: no event goes with it.                             *)
WalkAttaches ==
    /\ walk.at = "attach"
    /\ Upsert(walk.ans[1] \cup walk.ans[2])
    /\ unheard' = unheard \cup {k \in Keys : record'[k] # record[k]}
    /\ walk' = [at |-> "announce", ans |-> <<>>]
    /\ UNCHANGED <<fact, news, entity, shown, service, switch, pledged, used>>

(* _all_hub_data_points of every central.                                   *)
WalkAnnounces_Everyone ==
    /\ walk.at = "announce"
    /\ LET new == {k \in Keys : entity[k] = NoItem /\ record[k].it.spawns} IN
       /\ entity' = [k \in Keys |-> IF k \in new THEN record[k].it ELSE entity[k]]
       /\ shown' = [k \in Keys |-> IF k \in new THEN record[k].v ELSE shown[k]]
       /\ unheard' = unheard \ new
    /\ walk' = NotRunning
    /\ UNCHANGED <<fact, news, record, service, switch, pledged, used, outdated>>

(* _emit_data_points_created over get_hub_data_points(registered=False).    *)
WalkAnnounces ==
    /\ walk.at = "announce"
    /\ LET new == {k \in Keys : entity[k] = NoItem /\ Spawns(record[k].it)} IN
       /\ entity' = [k \in Keys |-> IF k \in new THEN record[k].it ELSE entity[k]]
       /\ shown' = [k \in Keys |-> IF k \in new THEN record[k].v ELSE shown[k]]
       /\ unheard' = unheard \ new
    /\ walk' = NotRunning
    /\ UNCHANGED <<fact, news, record, service, switch, pledged, used, outdated>>

-----------------------------------------------------------------------------
(* The services fetch_sysvar_data and fetch_program_data.                   *)

ServiceBegins(kind) ==
    /\ service = NotRunning /\ used.reads < MaxReads
    /\ used' = [used EXCEPT !.reads = @ + 1]
    /\ service' = [at |-> kind, ans |-> <<>>]
    /\ UNCHANGED <<fact, news, record, entity, shown, walk, switch, pledged, outdated, unheard>>

ServiceReads ==
    /\ service.at # "idle" /\ service.ans = <<>>
    /\ service' = [service EXCEPT !.ans = <<Listing(service.at)>>]
    /\ UNCHANGED <<fact, news, record, entity, shown, walk, switch, pledged, used, outdated, unheard>>

(* A failed read leaves the service with its exception.                     *)
ServiceFails ==
    /\ service.at # "idle" /\ service.ans = <<>>
    /\ service' = NotRunning
    /\ UNCHANGED <<fact, news, record, entity, shown, walk, switch, pledged, used, outdated, unheard>>

(* fetch_sysvar_data: all objects, then an event per value that moved.      *)
FetchSysvars ==
    /\ service.at = "sysvar" /\ service.ans # <<>>
    /\ Upsert(service.ans[1])
    /\ LET moved == {k \in Keys : record'[k].v # record[k].v} IN
       /\ Render({record'[k].it : k \in moved})
       /\ unheard' = unheard \ {k \in moved : entity[k] = record'[k].it}
    /\ service' = NotRunning
    /\ UNCHANGED <<fact, news, entity, walk, switch, pledged, used>>

(* fetch_program_data: one program and its event at a time; pushes come in  *)
(* between.                                                                 *)
FetchProgram(s) ==
    /\ service.at = "program" /\ service.ans # <<>> /\ s \in service.ans[1]
    /\ Upsert({s})
    /\ IF record[s.it.key].v # s.v
       THEN /\ Render({s.it})
            /\ unheard' = IF entity[s.it.key] = s.it THEN unheard \ {s.it.key} ELSE unheard
       ELSE UNCHANGED <<shown, unheard>>
    /\ service' = IF service.ans[1] = {s} THEN NotRunning ELSE [service EXCEPT !.ans = <<@[1] \ {s}>>]
    /\ UNCHANGED <<fact, news, entity, walk, switch, pledged, used>>

-----------------------------------------------------------------------------
(* ProgramDpSwitch.turn_on / turn_off.                                      *)

(* PATCH: accepted, not executed.                                           *)
SetProgramEnabled(it) ==
    /\ it.kind = "program" /\ entity[it.key] # NoItem /\ record[it.key].it = it
    /\ switch = NotRunning /\ used.reads < MaxReads
    /\ used' = [used EXCEPT !.reads = @ + 1]
    /\ pledged' = pledged \cup {it}
    /\ switch' = [at |-> "get", ans |-> <<it>>]
    /\ UNCHANGED <<fact, news, record, entity, shown, walk, service, outdated, unheard>>

(* GET of the program answers, or fails.                                    *)
ProgramRead ==
    /\ switch.at = "get"
    /\ switch' \in {NotRunning, [at |-> "apply", ans |-> <<Summary(switch.ans[1], fact[switch.ans[1]])>>]}
    /\ UNCHANGED <<fact, news, record, entity, shown, walk, service, pledged, used, outdated, unheard>>

(* refresh_program: no event goes with it.                                  *)
RefreshProgram ==
    /\ switch.at = "apply"
    /\ Upsert({switch.ans[1]})
    /\ unheard' = unheard \cup {k \in Keys : record'[k] # record[k]}
    /\ switch' = NotRunning
    /\ UNCHANGED <<fact, news, entity, shown, walk, service, pledged, used>>

-----------------------------------------------------------------------------
CatNext ==
    \/ \E it \in Items : ItemChanges(it) \/ ItemAppears(it) \/ ProgramRuns(it) \/ FlipConfirmed(it)
    \/ OnSysvarChanged \/ OnProgramChanged \/ OnProgramExecuted
    \/ NewsLost \/ WalkReads \/ WalkReadFails \/ WalkAttaches \/ WalkAnnounces
    \/ \E kind \in {"sysvar", "program"} : ServiceBegins(kind)
    \/ ServiceReads \/ ServiceFails \/ FetchSysvars
    \/ \E it \in Items : \E v \in 1..(MaxNews + MaxReads + 1) : FetchProgram(Summary(it, v))
    \/ \E it \in Items : SetProgramEnabled(it)
    \/ ProgramRead \/ RefreshProgram

CatSpec == CatInit /\ [][CatNext]_catVars

-----------------------------------------------------------------------------
(* Properties.                                                              *)

(* A key two items have: the one object of the store stands now for the     *)
(* one, now for the other.                                                  *)
Ambiguous == {k \in Keys : \E x, y \in Items : x # y /\ x.key = k /\ y.key = k}

CatAtRest == news = <<>> /\ walk = NotRunning /\ service = NotRunning /\ switch = NotRunning

(* With nothing under way, the store's object of a variable or program has  *)
(* the daemon's value and link, whichever of the four writers came last;    *)
(* but where an answer older than a push already delivered replaced the     *)
(* newer value, a failed walk left a loss unrepaired, or two centrals share *)
(* the name.                                                                *)
CatalogueExplained ==
    CatAtRest => \A k \in Keys \ (outdated \cup Ambiguous) : Known(k) =>
        record[k].v = fact[record[k].it] /\ record[k].link = record[k].it.linked

(* Only this central's variables and programs have entities, and with       *)
(* nothing under way an entity shows its object's value; but where a walk   *)
(* or a switch's re-read moved the object without an event, or two centrals *)
(* share the name.                                                          *)
EntitiesShowRecords ==
    \A k \in Keys :
        /\ entity[k] # NoItem => Spawns(entity[k])
        /\ CatAtRest /\ entity[k] # NoItem /\ k \notin unheard \cup Ambiguous => shown[k] = record[k].v
=============================================================================
