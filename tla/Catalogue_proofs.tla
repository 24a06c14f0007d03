-------------------------- MODULE Catalogue_proofs --------------------------
(***************************************************************************)
(* Proofs about what the client keeps of the daemon's catalogues and the   *)
(* re-reads that keep it current: the two indexes over custom data points  *)
(* (CdpIndex), the event groups HA's entities sit on (EventGroups), the    *)
(* central's background re-reads (CentralReads), and the hub's system      *)
(* variables and programs (HubCatalogue).                                  *)
(*                                                                         *)
(* The four components share no variable; each part below is a proof of    *)
(* its own: the inductive invariant, one lemma per action, the theorem.    *)
(***************************************************************************)
EXTENDS CdpIndex, EventGroups, CentralReads, HubCatalogue, SequenceTheorems, TLAPS

-----------------------------------------------------------------------------
(***************************************************************************)
(* EventGroups                                                             *)
(*                                                                         *)
(* The property speaks of the entity's object; triggers reach the cached   *)
(* one.  The invariant ties the two: an entity only ever sits on the       *)
(* object its flavour is cached under, that object is never replaced, and  *)
(* it shows what was fired since it exists.                                *)
(***************************************************************************)
Groups == [kind : Modelled, events : SUBSET Params, registered : BOOLEAN,
           last : Params \cup {NoTrigger}]

EventTypeOK ==
    /\ objects \in Seq(Groups)
    /\ cache \in [Modelled -> 0..Len(objects)]
    /\ entities \in [Modelled -> Nat]
    /\ fired \in [Modelled -> Params \cup {NoTrigger}]

(* Each flavour is cached under an object of its own, which shows what was  *)
(* fired; what is not cached has not fired.                                 *)
CacheFollowsTriggers ==
    \A k \in Modelled :
        IF cache[k] = 0 THEN fired[k] = NoTrigger
        ELSE objects[cache[k]].kind = k /\ objects[cache[k]].last = fired[k]

(* HA's entity, where there is one, holds the cached object.                *)
EntitiesCached == \A k \in Modelled : entities[k] \in {0, cache[k]}

EventInv == EventTypeOK /\ CacheFollowsTriggers /\ EntitiesCached

(* At first no group exists and nothing was fired.                          *)
LEMMA EventInitInv == EventInit => EventInv
<1> SUFFICES ASSUME EventInit PROVE EventInv
    OBVIOUS
<1>1. <<>> \in Seq(Groups) /\ Len(<<>>) = 0
    OBVIOUS
<1> QED
    BY <1>1 DEF EventInit, EventInv, EventTypeOK, CacheFollowsTriggers, EntitiesCached

(* What is built is a group, and appending it disturbs no other.            *)
LEMMA NewGroupIsGroup ==
    ASSUME EventAssumption, NEW kind \in Built
    PROVE  /\ NewGroup(kind) \in Groups /\ NewGroup(kind).kind = kind
           /\ NewGroup(kind).last = NoTrigger /\ kind \in Modelled
BY DEF EventAssumption, NewGroup, Groups, Members, Built

LEMMA AppendGroup ==
    ASSUME NEW s \in Seq(Groups), NEW g \in Groups
    PROVE  /\ Append(s, g) \in Seq(Groups)
           /\ Len(Append(s, g)) = Len(s) + 1
           /\ DOMAIN Append(s, g) = 1..(Len(s) + 1)
           /\ \A i \in 1..Len(s) : Append(s, g)[i] = s[i]
           /\ Append(s, g)[Len(s) + 1] = g
OBVIOUS

(* A field set on one object leaves the others, and its other fields, alone. *)
LEMMA SetGroup ==
    ASSUME NEW s \in Seq(Groups), NEW i \in 1..Len(s), NEW r \in Groups
    PROVE  /\ [s EXCEPT ![i] = r] \in Seq(Groups) /\ Len([s EXCEPT ![i] = r]) = Len(s)
           /\ [s EXCEPT ![i] = r][i] = r
           /\ \A j \in 1..Len(s) : j # i => [s EXCEPT ![i] = r][j] = s[j]
OBVIOUS

LEMMA EntitiesStayCached ==
    ASSUME EventInv, cache' = cache, objects' = objects, fired' = fired, entities' = entities
    PROVE  EventInv'
BY DEF EventInv, EventTypeOK, CacheFollowsTriggers, EntitiesCached

(* What a scan for one flavour finds or builds.                             *)
ScannedObjects(kind) ==
    IF Scanned(kind) \in DOMAIN objects THEN objects ELSE Append(objects, NewGroup(kind))

LEMMA ScannedInv ==
    ASSUME EventInv, EventAssumption, NEW kind \in Built,
           cache' = [cache EXCEPT ![kind] = Scanned(kind)]
    PROVE  /\ ScannedObjects(kind) \in Seq(Groups) /\ Len(ScannedObjects(kind)) >= Len(objects)
           /\ Scanned(kind) \in 1..Len(ScannedObjects(kind)) /\ kind \in Modelled
           /\ cache' \in [Modelled -> 0..Len(ScannedObjects(kind))]
           /\ \A k \in Modelled :
                IF cache'[k] = 0 THEN fired[k] = NoTrigger
                ELSE ScannedObjects(kind)[cache'[k]].kind = k /\ ScannedObjects(kind)[cache'[k]].last = fired[k]
           /\ \A k \in Modelled : entities[k] \in {0, cache'[k]}
<1>1. /\ NewGroup(kind) \in Groups /\ NewGroup(kind).kind = kind
      /\ NewGroup(kind).last = NoTrigger /\ kind \in Modelled
    BY NewGroupIsGroup
<1>2. objects \in Seq(Groups) /\ Len(objects) \in Nat /\ DOMAIN objects = 1..Len(objects)
    BY DEF EventInv, EventTypeOK
<1>3. /\ cache \in [Modelled -> 0..Len(objects)] /\ entities \in [Modelled -> Nat]
      /\ CacheFollowsTriggers /\ EntitiesCached
    BY DEF EventInv, EventTypeOK
<1> DEFINE objs == ScannedObjects(kind)
<1>4. CASE cache[kind] # 0
    <2>3. Scanned(kind) = cache[kind]
        BY <1>4 DEF Scanned
    <2>4. cache[kind] \in 1..Len(objects)
        BY <1>1, <1>2, <1>3, <1>4
    <2>1. Scanned(kind) = cache[kind] /\ Scanned(kind) \in 1..Len(objects) /\ objs = objects
        BY <1>2, <2>3, <2>4 DEF ScannedObjects
    <2>2. cache' = cache
        BY <2>1, <1>3
    <2> QED
        BY <1>1, <1>2, <1>3, <2>1, <2>2 DEF CacheFollowsTriggers, EntitiesCached
<1>5. CASE cache[kind] = 0
    <2>1. Scanned(kind) = Len(objects) + 1 /\ Scanned(kind) \notin DOMAIN objects
        BY <1>2, <1>5 DEF Scanned
    <2>2. objs = Append(objects, NewGroup(kind))
        BY <2>1 DEF ScannedObjects
    <2>3. /\ objs \in Seq(Groups) /\ Len(objs) = Len(objects) + 1
          /\ \A i \in 1..Len(objects) : objs[i] = objects[i]
          /\ objs[Len(objects) + 1] = NewGroup(kind)
        BY <2>2, <1>1, <1>2, AppendGroup
    <2>4. /\ cache'[kind] = Len(objects) + 1
          /\ \A k \in Modelled \ {kind} : cache'[k] = cache[k]
          /\ cache' \in [Modelled -> 0..Len(objs)]
        BY <1>1, <1>2, <1>3, <2>1, <2>3
    <2>5. ASSUME NEW k \in Modelled
          PROVE  /\ IF cache'[k] = 0 THEN fired[k] = NoTrigger
                    ELSE objs[cache'[k]].kind = k /\ objs[cache'[k]].last = fired[k]
                 /\ entities[k] \in {0, cache'[k]}
        <3>1. CASE k = kind
            BY <3>1, <1>1, <1>2, <1>3, <1>5, <2>3, <2>4 DEF CacheFollowsTriggers, EntitiesCached
        <3>2. CASE k # kind
            BY <3>2, <1>2, <1>3, <2>3, <2>4 DEF CacheFollowsTriggers, EntitiesCached
        <3> QED
            BY <3>1, <3>2
    <2> QED
        BY <1>1, <1>2, <2>1, <2>3, <2>4, <2>5
<1> QED
    BY <1>2, <1>3, <1>1, <1>4, <1>5

LEMMA ScanInv == EventInv /\ EventAssumption /\ Scan => EventInv'
<1> SUFFICES ASSUME EventInv, EventAssumption, Scan PROVE EventInv'
    OBVIOUS
<1>1. PICK kind \in Built :
          /\ cache' = [cache EXCEPT ![kind] = Scanned(kind)]
          /\ objects' = ScannedObjects(kind)
    BY DEF Scan, ScannedObjects
<1>2. fired' = fired /\ entities' = entities
    BY DEF Scan
<1> QED
    BY <1>1, <1>2, ScannedInv DEF EventInv, EventTypeOK, CacheFollowsTriggers, EntitiesCached

LEMMA AnnounceInv == EventInv /\ EventAssumption /\ Announce => EventInv'
<1> SUFFICES ASSUME EventInv, EventAssumption, Announce PROVE EventInv'
    OBVIOUS
<1>1. PICK kind \in Built :
        LET o == Scanned(kind)
            objs == IF o \in DOMAIN objects THEN objects ELSE Append(objects, NewGroup(kind))
        IN  /\ cache' = [cache EXCEPT ![kind] = o]
            /\ IF objs[o].registered
               THEN objects' = objs /\ UNCHANGED entities
               ELSE /\ objects' = [objs EXCEPT ![o].registered = TRUE]
                    /\ entities' = [entities EXCEPT ![kind] = IF @ = 0 THEN o ELSE @]
    BY DEF Announce
<1> DEFINE objs == ScannedObjects(kind)
<1>2. fired' = fired
    BY DEF Announce
<1>7. /\ objs[Scanned(kind)].registered => objects' = objs /\ entities' = entities
      /\ ~objs[Scanned(kind)].registered =>
            /\ objects' = [objs EXCEPT ![Scanned(kind)].registered = TRUE]
            /\ entities' = [entities EXCEPT ![kind] =
                                IF entities[kind] = 0 THEN Scanned(kind) ELSE entities[kind]]
      /\ cache' = [cache EXCEPT ![kind] = Scanned(kind)]
    BY <1>1 DEF ScannedObjects
<1>3. /\ objs \in Seq(Groups) /\ Len(objs) \in Nat
      /\ Scanned(kind) \in 1..Len(objs) /\ kind \in Modelled
      /\ cache' \in [Modelled -> 0..Len(objs)]
      /\ \A k \in Modelled :
                IF cache'[k] = 0 THEN fired[k] = NoTrigger
                ELSE objs[cache'[k]].kind = k /\ objs[cache'[k]].last = fired[k]
      /\ \A k \in Modelled : entities[k] \in {0, cache'[k]}
    <2>1. cache' = [cache EXCEPT ![kind] = Scanned(kind)]
        BY <1>7
    <2>2. /\ objs \in Seq(Groups)
          /\ Scanned(kind) \in 1..Len(objs) /\ kind \in Modelled
          /\ cache' \in [Modelled -> 0..Len(objs)]
          /\ \A k \in Modelled :
                IF cache'[k] = 0 THEN fired[k] = NoTrigger
                ELSE objs[cache'[k]].kind = k /\ objs[cache'[k]].last = fired[k]
          /\ \A k \in Modelled : entities[k] \in {0, cache'[k]}
        BY <2>1, ScannedInv
    <2> HIDE DEF objs
    <2> QED
        BY <2>2
<1> HIDE DEF objs
<1>4. /\ fired \in [Modelled -> Params \cup {NoTrigger}] /\ entities \in [Modelled -> Nat]
      /\ cache \in [Modelled -> 0..Len(objects)]
    BY DEF EventInv, EventTypeOK
<1>5. CASE objs[Scanned(kind)].registered
    BY <1>7, <1>2, <1>3, <1>4, <1>5
    DEF EventInv, EventTypeOK, CacheFollowsTriggers, EntitiesCached
<1>6. CASE ~objs[Scanned(kind)].registered
    <2>1. objects' = [objs EXCEPT ![Scanned(kind)].registered = TRUE]
        BY <1>7, <1>6
    <2>2. /\ objects' \in Seq(Groups) /\ Len(objects') = Len(objs)
          /\ \A i \in 1..Len(objs) : /\ objects'[i].kind = objs[i].kind
                                     /\ objects'[i].last = objs[i].last
        <3> DEFINE r == [objs[Scanned(kind)] EXCEPT !.registered = TRUE]
        <3>1. objects' = [objs EXCEPT ![Scanned(kind)] = r]
            BY <2>1
        <3>2. objs[Scanned(kind)] \in Groups
            BY <1>3
        <3>3. r \in Groups /\ r.kind = objs[Scanned(kind)].kind
              /\ r.last = objs[Scanned(kind)].last
            BY <3>2 DEF Groups
        <3> HIDE DEF r
        <3> QED
            BY <3>1, <3>3, <1>3, SetGroup
    <2>3. entities' = [entities EXCEPT ![kind] =
                          IF entities[kind] = 0 THEN Scanned(kind) ELSE entities[kind]]
        BY <1>7, <1>6
    <2>4. cache'[kind] = Scanned(kind)
        BY <1>7, <1>3, <1>4
    <2>5. /\ entities' \in [Modelled -> Nat]
          /\ \A k \in Modelled : entities'[k] \in {0, cache'[k]}
        BY <1>3, <1>4, <2>3, <2>4
    <2>6. EventTypeOK' /\ EntitiesCached'
        BY <1>2, <1>3, <1>4, <2>2, <2>5 DEF EventTypeOK, EntitiesCached
    <2>7. CacheFollowsTriggers'
        <3> SUFFICES ASSUME NEW k \in Modelled, cache'[k] # 0
                     PROVE  objects'[cache'[k]].kind = k /\ objects'[cache'[k]].last = fired[k]
            BY <1>2, <1>3 DEF CacheFollowsTriggers
        <3>1. cache'[k] \in 1..Len(objs)
            BY <1>3
        <3>2. objs[cache'[k]].kind = k /\ objs[cache'[k]].last = fired[k]
            BY <1>3
        <3> QED
            BY <3>1, <3>2, <2>2
    <2> QED
        BY <2>6, <2>7 DEF EventInv
<1> QED
    BY <1>5, <1>6

LEMMA EntityRemovedInv == EventInv /\ EntityRemoved => EventInv'
<1> SUFFICES ASSUME EventInv, EntityRemoved PROVE EventInv'
    OBVIOUS
<1>1. PICK kind \in Modelled :
          /\ entities[kind] # 0
          /\ objects' = [objects EXCEPT ![entities[kind]].registered = FALSE]
          /\ entities' = [entities EXCEPT ![kind] = 0]
    BY DEF EntityRemoved
<1>2. cache' = cache /\ fired' = fired
    BY DEF EntityRemoved
<1>3. objects \in Seq(Groups) /\ Len(objects) \in Nat
    BY DEF EventInv, EventTypeOK
<1>4. /\ objects' \in Seq(Groups) /\ Len(objects') = Len(objects)
      /\ \A i \in 1..Len(objects) : /\ objects'[i].kind = objects[i].kind
                                    /\ objects'[i].last = objects[i].last
    <2> DEFINE o == entities[kind]
               r == [objects[o] EXCEPT !.registered = FALSE]
    <2>1. objects' = [objects EXCEPT ![o] = r]
        BY <1>1
    <2>2. o \in 1..Len(objects)
        BY <1>1, <1>3 DEF EventInv, EventTypeOK, EntitiesCached
    <2>4. objects[o] \in Groups
        BY <2>2, <1>3
    <2>3. r \in Groups /\ r.kind = objects[o].kind /\ r.last = objects[o].last
        BY <2>4 DEF Groups
    <2> HIDE DEF o, r
    <2> QED
        BY <2>1, <2>2, <2>3, <1>3, SetGroup
<1> QED
    BY <1>1, <1>2, <1>3, <1>4 DEF EventInv, EventTypeOK, CacheFollowsTriggers, EntitiesCached

LEMMA TriggerInv == EventInv /\ EventAssumption /\ Trigger => EventInv'
<1> SUFFICES ASSUME EventInv, EventAssumption, Trigger PROVE EventInv'
    OBVIOUS
<1>1. PICK token \in Flavours, p \in Params :
          /\ FindEventGroup(TriggerType(token)) # 0
          /\ objects' = [objects EXCEPT ![FindEventGroup(TriggerType(token))].last = p]
          /\ fired' = [fired EXCEPT ![TriggerType(token)] = p]
    BY DEF Trigger
<1> DEFINE k == TriggerType(token)
<1>2. k \in Modelled
    BY DEF TriggerType, Modelled
<1>3. cache' = cache /\ entities' = entities
    BY DEF Trigger
<1>4. /\ objects \in Seq(Groups) /\ Len(objects) \in Nat
      /\ cache \in [Modelled -> 0..Len(objects)]
    BY DEF EventInv, EventTypeOK
<1>5. /\ cache[k] \in 1..Len(objects)
      /\ objects' = [objects EXCEPT ![cache[k]].last = p]
    BY <1>1, <1>2, <1>4 DEF FindEventGroup
<1> HIDE DEF k
<1>6. /\ objects' \in Seq(Groups) /\ Len(objects') = Len(objects)
      /\ \A i \in 1..Len(objects) : objects'[i].kind = objects[i].kind
      /\ \A i \in 1..Len(objects) : i # cache[k] => objects'[i] = objects[i]
      /\ objects'[cache[k]].last = p
    <2> DEFINE r == [objects[cache[k]] EXCEPT !.last = p]
    <2>1. objects' = [objects EXCEPT ![cache[k]] = r]
        BY <1>5
    <2>4. objects[cache[k]] \in Groups
        BY <1>4, <1>5
    <2>2. r \in Groups /\ r.kind = objects[cache[k]].kind /\ r.last = p
        BY <2>4 DEF Groups
    <2> HIDE DEF r
    <2> QED
        BY <2>1, <2>2, <1>4, <1>5, SetGroup
<1>7. fired' = [fired EXCEPT ![k] = p]
    BY <1>1 DEF k
<1>8. \A j \in Modelled : j # k /\ cache[j] # 0 => cache[j] # cache[k]
    BY <1>2, <1>5 DEF EventInv, CacheFollowsTriggers
<1> QED
    BY <1>2, <1>3, <1>4, <1>5, <1>6, <1>7, <1>8
    DEF EventInv, EventTypeOK, CacheFollowsTriggers, EntitiesCached

(* HA's entity shows the last trigger of its flavour, for every set of      *)
(* parameters and every sequence of declarations, scans, announcements and  *)
(* removals in between (get_event_groups, find_event_group, on_trigger).    *)
THEOREM EventGroupsHearTriggers == EventSpec => []EntityHearsTriggers
<1>1. EventInit => EventInv
    BY EventInitInv
<1>2. EventInv /\ [EventNext]_egVars => EventInv'
    <2> SUFFICES ASSUME EventInv, [EventNext]_egVars PROVE EventInv'
        OBVIOUS
    <2>1. CASE UNCHANGED egVars \/ Redeclared \/ UsageChanged
        BY <2>1, EntitiesStayCached DEF egVars, Redeclared, UsageChanged
    <2> QED
        BY <2>1, EventAssumption, AnnounceInv, ScanInv, EntityRemovedInv, TriggerInv DEF EventNext
<1>3. EventInv => EntityHearsTriggers
    BY DEF EventInv, CacheFollowsTriggers, EntitiesCached, EntityHearsTriggers
<1> QED
    BY <1>1, <1>2, <1>3, PTL DEF EventSpec

-----------------------------------------------------------------------------
(***************************************************************************)
(* CentralReads                                                            *)
(*                                                                         *)
(* A change is on its way to the client as a push not handled yet, as the  *)
(* mark of the running features read, or as a read that is still to be     *)
(* answered.  Counted together they cover the daemon's value; that is what *)
(* the invariant says at every step of a read, not only when all is quiet. *)
(***************************************************************************)
ReadsTypeOK ==
    /\ actual \in [Kinds -> Nat] /\ pending \in [Kinds -> Nat]
    /\ task \in [Kinds -> {"none", "asked", "answered", "cancelled"}]
    /\ answer \in [Kinds -> Nat] /\ value \in [Kinds -> Nat]
    /\ again \in BOOLEAN
    /\ stop \in {"no", "await_latch", "await_features", "group", "stopped"}

(* A value of this age is behind the daemon's by pushes still to be handled *)
(* at most.                                                                 *)
Covers(k, v) == v <= actual[k] /\ actual[k] <= v + pending[k]

(* The running features read will be repeated.                              *)
WillRepeat(k) == k = "features" /\ again

NoneLost ==
    /\ \A k \in Kinds : answer[k] <= actual[k] /\ value[k] <= actual[k]
    /\ stop = "no" => \A k \in Kinds :
        /\ task[k] # "cancelled"
        /\ task[k] = "none" /\ k \notin readExcused => Covers(k, value[k])
        /\ task[k] = "answered" /\ ~WillRepeat(k) /\ k \notin readExcused
             => Covers(k, answer[k])

(* How far stop() has dealt with each task: what lives on past the step     *)
(* that cancels it was started by a push since.                             *)
StoppedTasksAreLate ==
    /\ orphans \subseteq late
    /\ stop # "no" => (Live("latch") => "latch" \in late \/ task["latch"] = "cancelled")
    /\ stop \in {"await_features", "group", "stopped"} => (Live("latch") => "latch" \in late)
    /\ stop = "await_features"
         => (Live("features") => "features" \in late \/ task["features"] = "cancelled")
    /\ stop \in {"group", "stopped"} => (Live("features") => "features" \in late)

ReadsInv == ReadsTypeOK /\ NoneLost /\ StoppedTasksAreLate

(* At first everything is shown and no read runs.                           *)
LEMMA ReadsInitInv == ReadsInit => ReadsInv
<1> SUFFICES ASSUME ReadsInit PROVE ReadsInv
    OBVIOUS
<1>1. ReadsTypeOK
    BY DEF ReadsInit, ReadsTypeOK
<1>2. NoneLost
    BY DEF ReadsInit, NoneLost, Covers
<1>3. StoppedTasksAreLate
    BY DEF ReadsInit, StoppedTasksAreLate, Live, Kinds
<1> QED
    BY <1>1, <1>2, <1>3 DEF ReadsInv

(* A step of the daemon, of a handler or of a read keeps the invariant.     *)
LEMMA ReadsStepInv ==
    ASSUME ReadsInv, ReadsAssumption,
           \/ \E k \in Kinds : DaemonChanges(k) \/ ReadAnswered(k) \/ ReadFails(k) \/ Unwinds(k)
           \/ OnPossibleLatchChange \/ OnCentralFeaturesChanged
           \/ LatchApplied \/ FeaturesApplied
    PROVE  ReadsInv'
<1> USE DEF ReadsInv, ReadsTypeOK, Kinds
<1>1. ASSUME NEW k \in Kinds, DaemonChanges(k) PROVE ReadsInv'
    BY <1>1 DEF DaemonChanges, NoneLost, StoppedTasksAreLate, Covers, WillRepeat, Live
<1>2. ASSUME NEW k \in Kinds, ReadAnswered(k) PROVE ReadsInv'
    BY <1>2 DEF ReadAnswered, NoneLost, StoppedTasksAreLate, Covers, WillRepeat, Live
<1>3. ASSUME NEW k \in Kinds, ReadFails(k) PROVE ReadsInv'
    BY <1>3 DEF ReadFails, NoneLost, StoppedTasksAreLate, Covers, WillRepeat, Live
<1>4. ASSUME NEW k \in Kinds, Unwinds(k) PROVE ReadsInv'
    BY <1>4 DEF Unwinds, NoneLost, StoppedTasksAreLate, Covers, WillRepeat, Live
<1>5. CASE OnPossibleLatchChange
    <2>1. ReadsTypeOK'
        BY <1>5 DEF OnPossibleLatchChange
    <2>2. NoneLost'
        BY <1>5 DEF OnPossibleLatchChange, NoneLost, Covers, WillRepeat, Live
    <2>3. StoppedTasksAreLate'
        BY <1>5 DEF OnPossibleLatchChange, ReadsListening, StoppedTasksAreLate, NoneLost, Live
    <2> QED
        BY <2>1, <2>2, <2>3
<1>6. CASE OnCentralFeaturesChanged
    <2>1. ReadsTypeOK'
        BY <1>6 DEF OnCentralFeaturesChanged, Live
    <2>2. NoneLost'
        BY <1>6 DEF OnCentralFeaturesChanged, NoneLost, Covers, WillRepeat, Live
    <2>3. StoppedTasksAreLate'
        BY <1>6 DEF OnCentralFeaturesChanged, ReadsListening, StoppedTasksAreLate, Live
    <2> QED
        BY <2>1, <2>2, <2>3
<1>7. CASE LatchApplied
    BY <1>7 DEF LatchApplied, NoneLost, StoppedTasksAreLate, Covers, WillRepeat, Live
<1>8. CASE FeaturesApplied
    BY <1>8 DEF FeaturesApplied, NoneLost, StoppedTasksAreLate, Covers, WillRepeat, Live
<1> QED
    BY <1>1, <1>2, <1>3, <1>4, <1>5, <1>6, <1>7, <1>8

(* stop() keeps it.                                                         *)
LEMMA ReadsStopInv ==
    ASSUME ReadsInv,
           ReadsStopBegins \/ LatchAwaited \/ FeaturesAwaited \/ ReadsStopEnds
    PROVE  ReadsInv'
<1> USE DEF ReadsInv, ReadsTypeOK, Kinds
<1>1. CASE ReadsStopBegins
    <2>1. CASE Live("latch")
        BY <1>1, <2>1 DEF ReadsStopBegins, NoneLost, StoppedTasksAreLate, Live
    <2>2. CASE ~Live("latch")
        BY <1>1, <2>2 DEF ReadsStopBegins, Continue, NoneLost, StoppedTasksAreLate, Live
    <2> QED
        BY <2>1, <2>2
<1>2. CASE LatchAwaited
    BY <1>2 DEF LatchAwaited, Clears, Continue, NoneLost, StoppedTasksAreLate, Live
<1>3. CASE FeaturesAwaited
    BY <1>3 DEF FeaturesAwaited, Clears, NoneLost, StoppedTasksAreLate, Live
<1>4. CASE ReadsStopEnds
    BY <1>4 DEF ReadsStopEnds, NoneLost, StoppedTasksAreLate, Live
<1> QED
    BY <1>1, <1>2, <1>3, <1>4

(* With the pushes handled and no read at work the client shows the         *)
(* daemon's value, but for the two excuses, and no read from before stop()  *)
(* survives it (_on_possible_latch_change, _on_central_features_changed,    *)
(* stop).                                                                   *)
THEOREM ReadsStayFresh == ReadsSpec => []ReadsFresh
<1>1. ReadsInit => ReadsInv
    BY ReadsInitInv
<1>2. ReadsInv /\ [ReadsNext]_readsVars => ReadsInv'
    <2> SUFFICES ASSUME ReadsInv, [ReadsNext]_readsVars PROVE ReadsInv'
        OBVIOUS
    <2>1. CASE UNCHANGED readsVars
        BY <2>1 DEF readsVars, ReadsInv, ReadsTypeOK, NoneLost, StoppedTasksAreLate, Covers,
                    WillRepeat, Live
    <2> QED
        BY <2>1, ReadsAssumption, ReadsStepInv, ReadsStopInv DEF ReadsNext
<1>3. ReadsInv => ReadsFresh
    <2> SUFFICES ASSUME ReadsInv PROVE ReadsFresh
        OBVIOUS
    <2>1. ASSUME NEW k \in Kinds, Quiet(k), k \notin readExcused PROVE value[k] = actual[k]
        BY <2>1 DEF ReadsInv, ReadsTypeOK, NoneLost, Covers, Quiet, Live
    <2>2. ASSUME stop = "stopped" PROVE orphans \cup {k \in Kinds : Live(k)} \subseteq late
        BY <2>2 DEF ReadsInv, StoppedTasksAreLate, Kinds
    <2> QED
        BY <2>1, <2>2 DEF ReadsFresh
<1> QED
    BY <1>1, <1>2, <1>3, PTL DEF ReadsSpec

-----------------------------------------------------------------------------
(***************************************************************************)
(* CdpIndex                                                                *)
(*                                                                         *)
(* That each custom data point is found under its channel survives a       *)
(* catalogue because a catalogue names no channel twice: whichever entry   *)
(* is written last under a channel is the only one that wants it.          *)
(***************************************************************************)
Cdp == [channel : ChannelNos, state : 0..2]

CdpTypeOK ==
    /\ DOMAIN cdps \subseteq Names
    /\ cdps \in [DOMAIN cdps -> Cdp]
    /\ daemonState \in [DOMAIN daemonState -> 0..2]

CdpInv == CdpTypeOK /\ CdpFoundByChannel

LEMMA CatalogueChannelsDistinct ==
    ASSUME NEW c \in Catalogues
    PROVE  /\ DOMAIN c \subseteq Names /\ c \in [DOMAIN c -> Cdp]
           /\ \A m, n \in DOMAIN c : c[m].channel = c[n].channel => m = n
<1>1. PICK s \in SUBSET Names : c \in [s -> [channel : ChannelNos, state : 0..2]]
    BY DEF Catalogues
<1>2. DOMAIN c = s
    BY <1>1
<1>3. IsInjective([n \in DOMAIN c |-> c[n].channel])
    BY DEF Catalogues
<1> QED
    BY <1>1, <1>2, <1>3 DEF IsInjective, Cdp

LEMMA CdpInitInv == CdpInit => CdpInv
BY DEF CdpInit, CdpInv, CdpTypeOK, CdpFoundByChannel

LEMMA DeviceRemovedInv == CdpInv /\ DeviceRemoved => CdpInv'
<1> SUFFICES ASSUME CdpInv, DeviceRemoved PROVE CdpInv'
    OBVIOUS
<1>1. DOMAIN cdps' = {} /\ daemonState' = <<>>
    BY DEF DeviceRemoved, DropCdps, Without, Restrict
<1>2. cdps' = [n \in {} |-> cdps[n]]
    BY DEF DeviceRemoved, DropCdps, Without, Restrict
<1> QED
    BY <1>1, <1>2 DEF CdpInv, CdpTypeOK, CdpFoundByChannel

LEMMA StateChangedInv == CdpInv /\ StateChanged => CdpInv'
<1> SUFFICES ASSUME CdpInv, StateChanged PROVE CdpInv'
    OBVIOUS
<1>1. PICK n \in Names, s \in 1..2 :
          /\ n \in DOMAIN cdps
          /\ cdps' = [cdps EXCEPT ![n].state = s]
          /\ daemonState' = [daemonState EXCEPT ![n] = s]
          /\ byChannel' = byChannel
    BY DEF StateChanged
<1>2. DOMAIN cdps' = DOMAIN cdps /\ DOMAIN daemonState' = DOMAIN daemonState
    BY <1>1 DEF CdpInv, CdpTypeOK
<1>3. /\ \A m \in DOMAIN cdps : m # n => cdps'[m] = cdps[m]
      /\ cdps'[n].channel = cdps[n].channel /\ cdps'[n].state = s
      /\ cdps' \in [DOMAIN cdps -> Cdp]
    BY <1>1 DEF CdpInv, CdpTypeOK, Cdp
<1>4. /\ daemonState' \in [DOMAIN daemonState -> 0..2]
      /\ \A m \in DOMAIN daemonState : m # n => daemonState'[m] = daemonState[m]
      /\ daemonState'[n] = s
    BY <1>1 DEF CdpInv, CdpTypeOK, CdpFoundByChannel
<1> QED
    BY <1>1, <1>2, <1>3, <1>4 DEF CdpInv, CdpTypeOK, CdpFoundByChannel

(* What a catalogue leaves: its names, on its channels, each found there.   *)
LEMMA AttachedFound ==
    ASSUME CdpInv, NEW c \in Catalogues
    PROVE  LET new == Attached(c)
           IN  /\ DOMAIN new.cdps = DOMAIN c
               /\ new.cdps \in [DOMAIN c -> Cdp]
               /\ \A n \in DOMAIN c :
                    /\ new.cdps[n].channel = c[n].channel
                    /\ new.cdps[n].state =
                         IF c[n].state # 0 THEN c[n].state
                         ELSE IF n \in DOMAIN cdps THEN cdps[n].state ELSE 0
                    /\ c[n].channel \in DOMAIN new.byChannel
                    /\ new.byChannel[c[n].channel] = n
<1> DEFINE kept == DropCdps(cdps, byChannel, DOMAIN cdps \ DOMAIN c)
           new == PutCdps(kept.cdps, kept.byChannel, c)
<1>1. /\ DOMAIN c \subseteq Names /\ c \in [DOMAIN c -> Cdp]
      /\ \A m, n \in DOMAIN c : c[m].channel = c[n].channel => m = n
    BY CatalogueChannelsDistinct
<1>2. /\ DOMAIN kept.cdps = DOMAIN cdps \cap DOMAIN c
      /\ \A n \in DOMAIN cdps \cap DOMAIN c : kept.cdps[n] = cdps[n]
    BY DEF DropCdps, Without, Restrict
<1> HIDE DEF kept
<1>3. DOMAIN kept.cdps \union DOMAIN c = DOMAIN c
    BY <1>2
<1>4. new.cdps = [n \in DOMAIN c |->
                    [channel |-> c[n].channel,
                     state |-> IF c[n].state # 0 THEN c[n].state
                               ELSE IF n \in DOMAIN kept.cdps THEN kept.cdps[n].state ELSE 0]]
    <2>1. new.cdps = [n \in DOMAIN kept.cdps \union DOMAIN c |->
                  IF n \notin DOMAIN c THEN kept.cdps[n]
                  ELSE [channel |-> c[n].channel,
                        state |-> IF c[n].state # 0 THEN c[n].state
                                  ELSE IF n \in DOMAIN kept.cdps THEN kept.cdps[n].state ELSE 0]]
        BY DEF PutCdps
    <2> QED
        BY <2>1, <1>3
<1>5. new.byChannel = [ch \in DOMAIN kept.byChannel \union {c[n].channel : n \in DOMAIN c} |->
                       IF \E n \in DOMAIN c : c[n].channel = ch
                       THEN CHOOSE n \in DOMAIN c : c[n].channel = ch
                       ELSE kept.byChannel[ch]]
    BY DEF PutCdps
<1>6. Attached(c) = new
    BY DEF Attached, kept
<1> HIDE DEF new
<1>7. ASSUME NEW n \in DOMAIN c
      PROVE  c[n].channel \in DOMAIN new.byChannel /\ new.byChannel[c[n].channel] = n
    <2>1. c[n].channel \in DOMAIN new.byChannel
        BY <1>5
    <2>2. new.byChannel[c[n].channel] = CHOOSE m \in DOMAIN c : c[m].channel = c[n].channel
        BY <1>5, <2>1
    <2>3. \A m \in DOMAIN c : c[m].channel = c[n].channel => m = n
        BY <1>1
    <2> QED
        BY <2>1, <2>2, <2>3
<1>8. ASSUME NEW n \in DOMAIN c
      PROVE  /\ new.cdps[n].channel = c[n].channel
             /\ new.cdps[n].state = IF c[n].state # 0 THEN c[n].state
                                    ELSE IF n \in DOMAIN cdps THEN cdps[n].state ELSE 0
             /\ new.cdps[n] \in Cdp
    BY <1>1, <1>2, <1>4 DEF Cdp, CdpInv, CdpTypeOK
<1> QED
    BY <1>4, <1>6, <1>7, <1>8

LEMMA AttachCdpsInv == CdpInv /\ AttachCustomDataPoints => CdpInv'
<1> SUFFICES ASSUME CdpInv, AttachCustomDataPoints PROVE CdpInv'
    OBVIOUS
<1>1. PICK c \in Catalogues :
        /\ cdps' = Attached(c).cdps
        /\ byChannel' = Attached(c).byChannel
        /\ daemonState' = [n \in DOMAIN c |->
                            IF c[n].state # 0 THEN c[n].state
                            ELSE IF n \in DOMAIN daemonState THEN daemonState[n] ELSE 0]
    BY DEF AttachCustomDataPoints
<1>2. /\ DOMAIN c \subseteq Names /\ c \in [DOMAIN c -> Cdp]
    BY CatalogueChannelsDistinct
<1>3. /\ DOMAIN cdps' = DOMAIN c /\ cdps' \in [DOMAIN c -> Cdp]
      /\ \A n \in DOMAIN c :
            /\ cdps'[n].channel = c[n].channel
            /\ cdps'[n].state = IF c[n].state # 0 THEN c[n].state
                                ELSE IF n \in DOMAIN cdps THEN cdps[n].state ELSE 0
            /\ c[n].channel \in DOMAIN byChannel'
            /\ byChannel'[c[n].channel] = n
    BY <1>1, AttachedFound
<1>4. DOMAIN daemonState' = DOMAIN c /\ daemonState' \in [DOMAIN c -> 0..2]
    BY <1>1, <1>2 DEF Cdp, CdpInv, CdpTypeOK
<1>5. \A n \in DOMAIN c : cdps'[n].state = daemonState'[n]
    BY <1>1, <1>3 DEF CdpInv, CdpFoundByChannel
<1> QED
    BY <1>2, <1>3, <1>4, <1>5 DEF CdpInv, CdpTypeOK, CdpFoundByChannel

(* Every catalogued custom data point is found under its channel with its   *)
(* last state, for every set of names and channels and every sequence of    *)
(* catalogues, in place updates and removals included                       *)
(* (attach_custom_data_points, _register_cdp, _drop_cdp).                   *)
THEOREM CdpsFoundByChannel == CdpSpec => []CdpFoundByChannel
<1>1. CdpInit => CdpInv
    BY CdpInitInv
<1>2. CdpInv /\ [CdpNext]_cxVars => CdpInv'
    <2> SUFFICES ASSUME CdpInv, [CdpNext]_cxVars PROVE CdpInv'
        OBVIOUS
    <2>1. CASE UNCHANGED cxVars
        BY <2>1 DEF cxVars, CdpInv, CdpTypeOK, CdpFoundByChannel
    <2> QED
        BY <2>1, AttachCdpsInv, StateChangedInv, DeviceRemovedInv DEF CdpNext
<1>3. CdpInv => CdpFoundByChannel
    BY DEF CdpInv
<1> QED
    BY <1>1, <1>2, <1>3, PTL DEF CdpSpec

-----------------------------------------------------------------------------
(***************************************************************************)
(* HubCatalogue.  The last push about an item carries its present value.   *)
(* An object that does not show its item's value therefore has a push      *)
(* before it, was left outdated, or is before a walk that has not read its *)
(* catalogue yet or has the item in its answer; what a walk reads is either *)
(* the item's value or has a push behind it.  All this is of the keys that *)
(* one item has.                                                           *)
(***************************************************************************)
Summaries == {s \in [it : Items, v : Nat, link : BOOLEAN] : s.link = s.it.linked}
News == {n \in [it : Items, v : Nat, what : {"changed", "executed"}, link : BOOLEAN] :
           /\ n.link => n.it.linked
           /\ n.it.kind = "sysvar" => n.link = n.it.linked}
Records == [it : Items \cup {NoItem}, v : Nat, link : BOOLEAN]
Lists == {ss \in SUBSET Summaries : \A s \in ss : fact[s.it] > 0}

CatTypeOK ==
    /\ fact \in [Items -> Nat]
    /\ news \in Seq(News)
    /\ record \in [Keys -> Records]
    /\ entity \in [Keys -> Items \cup {NoItem}]
    /\ shown \in [Keys -> Nat]
    /\ pledged \subseteq Items

(* What is known of an item the daemon has.                                 *)
KnownOK ==
    /\ \A k \in Keys : Known(k) => record[k].it.key = k /\ fact[record[k].it] > 0
    /\ \A k \in Keys \ Ambiguous : Known(k) => record[k].link = record[k].it.linked
    /\ \A k \in Keys : entity[k] # NoItem => Known(k) /\ entity[k].key = k /\ Spawns(entity[k])
    /\ \A it \in pledged : fact[it] > 0

(* What the readers have read.                                              *)
ReadersOK ==
    /\ walk.at = "programs" => \E list \in Lists : walk.ans = <<list>>
    /\ walk.at = "attach" => walk.ans[1] \in Lists /\ walk.ans[2] \in Lists
    /\ service.ans # <<>> => service.ans[1] \in Lists
    /\ switch.at = "get" => switch.ans[1] \in Items /\ fact[switch.ans[1]] > 0
    /\ switch.at = "apply" => switch.ans[1] \in Summaries /\ fact[switch.ans[1].it] > 0

(* The last push about an item carries its value.                           *)
NewsOK ==
    \A i \in 1 .. Len(news) :
        \/ news[i].what # "changed" \/ news[i].v = fact[news[i].it]
        \/ \E j \in i + 1 .. Len(news) : news[j].it = news[i].it /\ news[j].what = "changed"
NewsKnown == \A i \in 1 .. Len(news) : fact[news[i].it] > 0

(* The walk is to merge the item.                                           *)
WalkMerges(it) ==
    \/ walk.at = "sysvars"
    \/ walk.at = "programs" /\ (it.kind = "program" \/ \E s \in walk.ans[1] : s.it = it)
    \/ walk.at = "attach" /\ \E s \in walk.ans[1] \cup walk.ans[2] : s.it = it

CatExplained ==
    \A k \in Keys \ Ambiguous : Known(k) =>
        \/ record[k].v = fact[record[k].it] \/ k \in outdated
        \/ Pushed(record[k].it) \/ WalkMerges(record[k].it)

EntitiesTold ==
    \A k \in Keys \ Ambiguous : entity[k] # NoItem => shown[k] = record[k].v \/ k \in unheard

CatInv == CatTypeOK /\ KnownOK /\ ReadersOK /\ NewsOK /\ NewsKnown /\ CatExplained /\ EntitiesTold

(* No item is the absent one, and an unambiguous key has one item.          *)
LEMMA ItemsFact ==
    /\ NoItem \notin Items /\ NoItem.spawns = FALSE /\ NoItem.linked = FALSE
    /\ \A it \in Items : it.spawns \in BOOLEAN /\ it.linked \in BOOLEAN /\ it.key \in Keys
    /\ \A k \in Keys \ Ambiguous : \A x, y \in Items : x.key = k /\ y.key = k => x = y
<1>1. NoItem.kind = "none" /\ NoItem.spawns = FALSE /\ NoItem.linked = FALSE
    BY DEF NoItem
<1>2. NoItem \notin Items
    BY <1>1, CatalogueAssumption
<1>3. \A it \in Items : it.spawns \in BOOLEAN /\ it.linked \in BOOLEAN /\ it.key \in Keys
    BY CatalogueAssumption DEF Keys
<1>4. \A k \in Keys \ Ambiguous : \A x, y \in Items : x.key = k /\ y.key = k => x = y
    BY DEF Ambiguous
<1> QED BY <1>1, <1>2, <1>3, <1>4

(* What a summary of an item says.                                          *)
LEMMA SummaryFact ==
    ASSUME NEW it \in Items, NEW v \in Nat
    PROVE  /\ Summary(it, v) \in Summaries /\ Summary(it, v).it = it /\ Summary(it, v).v = v
           /\ Summary(it, v).link = it.linked
BY ItemsFact DEF Summary, Summaries

(* A catalogue names the items the daemon has, and all of them.             *)
LEMMA ListingFact ==
    ASSUME CatTypeOK, NEW kind
    PROVE  /\ Listing(kind) \in Lists
           /\ \A it \in Items : it.kind = kind /\ fact[it] > 0 => \E s \in Listing(kind) : s.it = it
<1>1. \A it \in Items : fact[it] \in Nat
    BY DEF CatTypeOK
<1>2. \A it \in Items : Summary(it, fact[it]) \in Summaries /\ Summary(it, fact[it]).it = it
    BY <1>1, SummaryFact
<1> QED BY <1>2 DEF Listing, Lists

(* At first every object of the store is the daemon's.                      *)
LEMMA CatStarts == CatInit => CatInv
<1> SUFFICES ASSUME CatInit PROVE CatInv
    OBVIOUS
<1>1. /\ fact = [it \in Items |-> IF it \in FirstItems THEN 1 ELSE 0] /\ news = <<>>
      /\ walk = NotRunning /\ service = NotRunning /\ switch = NotRunning /\ pledged = {}
    BY DEF CatInit
<1>2. FirstItems \subseteq Items
    BY CatalogueAssumption
<1>3. ASSUME NEW k \in Keys
      PROVE  \/ record[k] = NoSummary
             \/ \E it \in FirstItems : it.key = k /\ record[k] = Summary(it, 1)
    <2> DEFINE of == {it \in FirstItems : it.key = k}
    <2>1. record[k] = IF of = {} THEN NoSummary
                      ELSE Summary(CHOOSE it \in of : it.central = "here" \/ \A x \in of : x.central = "there", 1)
        BY DEF CatInit
    <2>2. CASE of # {}
        <3>1. \A it \in of : it.central \in {"here", "there"}
            BY <1>2, CatalogueAssumption
        <3>2. \E it \in of : it.central = "here" \/ \A x \in of : x.central = "there"
            BY <2>2, <3>1
        <3>3. PICK it \in of : it = CHOOSE y \in of : y.central = "here" \/ \A x \in of : x.central = "there"
            BY <3>2
        <3> QED BY <2>1, <2>2, <3>3
    <2> QED BY <2>1, <2>2
<1>4. NoSummary \in Records /\ NoSummary.it = NoItem
    BY DEF NoSummary, Records
<1>5. \A it \in FirstItems : /\ Summary(it, 1) \in Summaries /\ Summary(it, 1).it = it /\ Summary(it, 1).v = 1
                             /\ Summary(it, 1).link = it.linked /\ it # NoItem
    BY <1>2, SummaryFact, ItemsFact
<1>6. record \in [Keys -> Records]
    <2>1. \A k \in Keys : record[k] \in Records
        BY <1>3, <1>4, <1>5 DEF Summaries, Records
    <2> QED BY <2>1 DEF CatInit
<1>7. \A k \in Keys : Known(k) => /\ record[k].it \in FirstItems /\ record[k].it.key = k /\ record[k].v = 1
                                  /\ record[k].link = record[k].it.linked
    BY <1>3, <1>4, <1>5 DEF Known
<1>8. \A k \in Keys : /\ entity[k] = IF Spawns(record[k].it) THEN record[k].it ELSE NoItem
                      /\ shown[k] = IF Spawns(record[k].it) THEN 1 ELSE 0
    BY DEF CatInit
<1>9. \A k \in Keys : entity[k] # NoItem =>
        Spawns(entity[k]) /\ entity[k] = record[k].it /\ Known(k) /\ shown[k] = 1
    BY <1>8 DEF Known
<1>10. CatTypeOK
    <2>1. \A k \in Keys : entity[k] \in Items \cup {NoItem} /\ shown[k] \in Nat
        BY <1>2, <1>7, <1>8, <1>9
    <2>2. entity \in [Keys -> Items \cup {NoItem}] /\ shown \in [Keys -> Nat]
        BY <2>1 DEF CatInit
    <2>3. fact \in [Items -> Nat]
        BY <1>1
    <2> QED BY <1>1, <1>6, <2>2, <2>3 DEF CatTypeOK
<1>11. KnownOK
    <2>1. \A it \in FirstItems : fact[it] > 0
        <3>1. \A it \in FirstItems : fact[it] = 1
            BY <1>1, <1>2
        <3> QED BY <3>1
    <2>2. \A k \in Keys : Known(k) => record[k].it.key = k /\ fact[record[k].it] > 0
        BY <1>7, <2>1
    <2>3. \A k \in Keys : entity[k] # NoItem => Known(k) /\ entity[k].key = k /\ Spawns(entity[k])
        BY <1>7, <1>9
    <2> QED BY <1>1, <1>7, <2>2, <2>3 DEF KnownOK
<1>12. ReadersOK
    BY <1>1 DEF ReadersOK, NotRunning
<1>13. NewsOK /\ NewsKnown
    BY <1>1 DEF NewsOK, NewsKnown
<1>14. CatExplained
    BY <1>1, <1>2, <1>7 DEF CatExplained
<1>15. EntitiesTold
    BY <1>7, <1>9 DEF EntitiesTold
<1> QED BY <1>10, <1>11, <1>12, <1>13, <1>14, <1>15 DEF CatInv

(* What merging a list does to the object of a key.                         *)
LEMMA UpsertFact ==
    ASSUME CatInv, NEW ss \in SUBSET Summaries, Upsert(ss)
    PROVE  /\ DOMAIN record' = Keys
           /\ \A k \in Keys :
                \/ /\ \A s \in ss : s.it.key # k
                   /\ record'[k] = record[k] /\ (k \in outdated' <=> k \in outdated)
                \/ \E s \in ss : /\ s.it.key = k /\ record'[k] = s
                                 /\ k \in outdated' <=> s.v # fact[s.it] /\ ~Pushed(s.it)
<1>1. PICK last :
        /\ record' = [k \in Keys |-> IF Naming(ss, k) = {} THEN record[k] ELSE Winner(ss, k, last)]
        /\ outdated' = {k \in Keys : IF Naming(ss, k) = {} THEN k \in outdated ELSE Behind(record'[k])}
    BY Zenon DEF Upsert
<1>2. ASSUME NEW k \in Keys
      PROVE  \/ /\ \A s \in ss : s.it.key # k
                /\ record'[k] = record[k] /\ (k \in outdated' <=> k \in outdated)
             \/ \E s \in ss : /\ s.it.key = k /\ record'[k] = s
                              /\ k \in outdated' <=> s.v # fact[s.it] /\ ~Pushed(s.it)
    <2>1. CASE Naming(ss, k) = {}
        BY <1>1, <2>1 DEF Naming
    <2>2. CASE Naming(ss, k) # {}
        <3>1. \E s \in Naming(ss, k) : s.it.central = last \/ \A t \in Naming(ss, k) : t.it.central # last
            BY <2>2
        <3>2. PICK w \in Naming(ss, k) : w = Winner(ss, k, last)
            BY <3>1 DEF Winner
        <3>3. record'[k] = w /\ (k \in outdated' <=> w.v # fact[w.it] /\ ~Pushed(w.it))
            BY <1>1, <2>2, <3>2 DEF Behind
        <3>4. w \in ss /\ w.it.key = k
            BY DEF Naming
        <3> QED BY <3>3, <3>4
    <2> QED BY <2>1, <2>2
<1>3. DOMAIN record' = Keys
    BY <1>1
<1> QED BY <1>2, <1>3

(* What the readers hold stays known when the daemon's values grow.         *)
LEMMA ReadersStay ==
    ASSUME CatInv, UNCHANGED <<walk, service, switch>>, fact' \in [Items -> Nat],
           \A it \in Items : fact[it] > 0 => fact'[it] > 0
    PROVE  ReadersOK'
<1>1. Lists \subseteq Lists'
    BY DEF Lists, Summaries
<1>2. ReadersOK
    BY DEF CatInv
<1>3. switch.at = "apply" => switch.ans[1].it \in Items
    BY <1>2 DEF ReadersOK, Summaries
<1> QED BY <1>1, <1>2, <1>3 DEF ReadersOK

(* The store and its entities stay as they are.                             *)
LEMMA StoreStays ==
    ASSUME CatInv, UNCHANGED <<fact, news, record, entity, shown, unheard>>, pledged' \subseteq Items,
           \A it \in pledged' : fact[it] > 0, ReadersOK', CatExplained'
    PROVE  CatInv'
<1>1. CatTypeOK' /\ NewsOK' /\ NewsKnown' /\ EntitiesTold'
    BY DEF CatInv, CatTypeOK, NewsOK, NewsKnown, EntitiesTold
<1>2. KnownOK'
    BY DEF CatInv, KnownOK, Known
<1> QED BY <1>1, <1>2 DEF CatInv

(* What the walk is to merge stays to be merged.                            *)
LEMMA MergesStay ==
    ASSUME CatInv, UNCHANGED <<fact, news, record, outdated>>,
           \A it \in Items : fact[it] > 0 /\ WalkMerges(it) => WalkMerges(it)'
    PROVE  CatExplained'
<1> SUFFICES ASSUME NEW k \in Keys \ Ambiguous, Known(k)
             PROVE  \/ record[k].v = fact[record[k].it] \/ k \in outdated
                    \/ Pushed(record[k].it) \/ WalkMerges(record[k].it)'
    BY DEF CatExplained, Known, Pushed, WalkMerges
<1>1. record[k].it \in Items /\ fact[record[k].it] > 0
    BY DEF CatInv, CatTypeOK, KnownOK, Records, Known
<1>2. PICK it \in Items : it = record[k].it
    BY <1>1
<1>3. WalkMerges(it) => WalkMerges(it)'
    BY <1>1, <1>2
<1> QED BY <1>2, <1>3 DEF CatInv, CatExplained, WalkMerges

(* A list is merged: a key has the object of an entry that names it, and is *)
(* outdated if that entry is not the item's value and nothing is before it. *)
LEMMA MergeStep ==
    ASSUME CatInv, NEW ss \in Lists, Upsert(ss), UNCHANGED <<fact, news, entity, pledged>>, ReadersOK',
           \A it \in Items : WalkMerges(it) => WalkMerges(it)' \/ \E s \in ss : s.it = it,
           shown' \in [Keys -> Nat], EntitiesTold'
    PROVE  CatInv'
<1>1. CatTypeOK /\ KnownOK /\ NewsOK /\ NewsKnown /\ CatExplained
    BY DEF CatInv
<1>2. ss \in SUBSET Summaries /\ \A s \in ss : fact[s.it] > 0
    BY DEF Lists
<1>3. /\ DOMAIN record' = Keys
      /\ \A k \in Keys :
           \/ /\ \A s \in ss : s.it.key # k
              /\ record'[k] = record[k] /\ (k \in outdated' <=> k \in outdated)
           \/ \E s \in ss : /\ s.it.key = k /\ record'[k] = s
                            /\ k \in outdated' <=> s.v # fact[s.it] /\ ~Pushed(s.it)
    BY <1>2, UpsertFact
<1>4. \A s \in ss : s \in Records /\ s.it \in Items /\ s.it # NoItem /\ s.link = s.it.linked
    BY <1>2, ItemsFact DEF Summaries, Records
<1>5. record' \in [Keys -> Records]
    <2>1. \A k \in Keys : record'[k] \in Records
        BY <1>1, <1>3, <1>4 DEF CatTypeOK
    <2>2. record' = [k \in Keys |-> record'[k]]
        BY DEF Upsert
    <2> QED BY <2>1, <2>2
<1>6. CatTypeOK'
    BY <1>1, <1>5 DEF CatTypeOK
<1>7. \A k \in Keys : Known(k) => Known(k)'
    BY <1>3, <1>4 DEF Known
<1>8. KnownOK'
    <2>1. ASSUME NEW k \in Keys, Known(k)' PROVE record'[k].it.key = k /\ fact[record'[k].it] > 0
        BY <1>1, <1>2, <1>3, <2>1 DEF KnownOK, Known
    <2>2. ASSUME NEW k \in Keys \ Ambiguous, Known(k)' PROVE record'[k].link = record'[k].it.linked
        BY <1>1, <1>3, <1>4, <2>2 DEF KnownOK, Known
    <2>3. \A k \in Keys : entity'[k] # NoItem => Known(k)' /\ entity'[k].key = k /\ Spawns(entity[k])
        BY <1>1, <1>7 DEF KnownOK
    <2> QED BY <1>1, <2>1, <2>2, <2>3 DEF KnownOK, Spawns
<1>9. NewsOK' /\ NewsKnown'
    BY <1>1 DEF NewsOK, NewsKnown
<1>10. ASSUME NEW k \in Keys \ Ambiguous, Known(k)', NEW x, x = record'[k].it
       PROVE  record'[k].v = fact[x] \/ k \in outdated' \/ Pushed(x) \/ WalkMerges(x)'
    <2>1. CASE /\ \A s \in ss : s.it.key # k
               /\ record'[k] = record[k] /\ (k \in outdated' <=> k \in outdated)
        <3>1. Known(k) /\ x = record[k].it
            BY <1>10, <2>1 DEF Known
        <3>2. x \in Items /\ x.key = k
            BY <1>1, <3>1 DEF CatTypeOK, KnownOK, Records, Known
        <3>3. WalkMerges(x) => WalkMerges(x)'
            BY <2>1, <3>2
        <3> QED BY <1>1, <2>1, <3>1, <3>3 DEF CatExplained
    <2>2. CASE \E s \in ss : /\ s.it.key = k /\ record'[k] = s
                             /\ k \in outdated' <=> s.v # fact[s.it] /\ ~Pushed(s.it)
        BY <1>10, <2>2
    <2> QED BY <1>3, <2>1, <2>2
<1>11. CatExplained'
    <2>1. \A x : Pushed(x)' = Pushed(x)
        BY DEF Pushed
    <2> QED BY <1>10, <2>1 DEF CatExplained, WalkMerges, Pushed, Known
<1> QED BY <1>6, <1>8, <1>9, <1>11 DEF CatInv

(* Pushes are lost, and a walk begins.                                      *)
LEMMA NewsLostStep ==
    ASSUME CatInv, NewsLost
    PROVE  CatInv'
<1>1. /\ news' = <<>> /\ walk' = [at |-> "sysvars", ans |-> <<>>]
      /\ UNCHANGED <<fact, record, entity, shown, service, switch, pledged, outdated, unheard>>
    BY DEF NewsLost
<1>2. CatTypeOK' /\ NewsOK' /\ NewsKnown' /\ EntitiesTold'
    BY <1>1 DEF CatInv, CatTypeOK, NewsOK, NewsKnown, EntitiesTold
<1>3. KnownOK'
    BY <1>1 DEF CatInv, KnownOK, Known
<1>4. ReadersOK'
    <2>1. Lists' = Lists
        BY <1>1 DEF Lists
    <2> QED BY <1>1, <2>1 DEF CatInv, ReadersOK
<1>5. CatExplained'
    BY <1>1 DEF CatExplained, WalkMerges
<1> QED BY <1>2, <1>3, <1>4, <1>5 DEF CatInv

(* A reader begins, or the daemon answers it.                               *)
LEMMA WalkReadsStep ==
    ASSUME CatInv, WalkReads
    PROVE  CatInv'
<1>1. UNCHANGED <<fact, news, record, entity, shown, service, switch, pledged, outdated, unheard>>
    BY DEF WalkReads
<1>2. PICK L1, L2 : L1 = Listing("sysvar") /\ L2 = Listing("program")
    OBVIOUS
<1>3. /\ L1 \in Lists /\ L2 \in Lists
      /\ \A it \in Items : it.kind = "sysvar" /\ fact[it] > 0 => \E s \in L1 : s.it = it
      /\ \A it \in Items : it.kind = "program" /\ fact[it] > 0 => \E s \in L2 : s.it = it
    BY <1>2, ListingFact DEF CatInv
<1>4. Lists' = Lists
    BY <1>1 DEF Lists
<1>5. CASE walk.at = "sysvars" /\ walk' = [at |-> "programs", ans |-> <<L1>>]
    <2>1. ReadersOK'
        BY <1>1, <1>3, <1>4, <1>5 DEF CatInv, ReadersOK
    <2>2. \A it \in Items : fact[it] > 0 => WalkMerges(it)'
        BY <1>3, <1>5, CatalogueAssumption DEF WalkMerges
    <2> QED BY <1>1, <2>1, <2>2, MergesStay, StoreStays DEF CatInv, CatTypeOK, KnownOK
<1>6. CASE walk.at = "programs" /\ walk' = [at |-> "attach", ans |-> Append(walk.ans, L2)]
    <2>1. PICK list \in Lists : walk.ans = <<list>>
        BY <1>6 DEF CatInv, ReadersOK
    <2>2. walk' = [at |-> "attach", ans |-> <<list, L2>>]
        BY <1>6, <2>1
    <2>3. ReadersOK'
        BY <1>1, <1>3, <1>4, <2>2 DEF CatInv, ReadersOK
    <2>4. \A it \in Items : fact[it] > 0 /\ WalkMerges(it) => WalkMerges(it)'
        BY <1>3, <1>6, <2>1, <2>2, CatalogueAssumption DEF WalkMerges
    <2> QED BY <1>1, <2>3, <2>4, MergesStay, StoreStays DEF CatInv, CatTypeOK, KnownOK
<1>7. \/ walk.at = "sysvars" /\ walk' = [at |-> "programs", ans |-> <<L1>>]
      \/ walk.at = "programs" /\ walk' = [at |-> "attach", ans |-> Append(walk.ans, L2)]
    BY <1>2 DEF WalkReads
<1> QED BY <1>5, <1>6, <1>7

(* A failed walk marks what it has not repaired.                            *)
LEMMA WalkReadFailsStep ==
    ASSUME CatInv, WalkReadFails
    PROVE  CatInv'
<1>1. /\ walk' = [at |-> "announce", ans |-> <<>>]
      /\ UNCHANGED <<fact, news, record, entity, shown, service, switch, pledged, unheard>>
      /\ outdated' = {k \in Keys : Known(k) /\ (k \in outdated \/ Behind(record[k]))}
    BY DEF WalkReadFails
<1>2. ReadersOK'
    <2>1. Lists' = Lists
        BY <1>1 DEF Lists
    <2> QED BY <1>1, <2>1 DEF CatInv, ReadersOK
<1>3. CatExplained'
    BY <1>1 DEF CatExplained, Known, Pushed, Behind
<1> QED BY <1>1, <1>2, <1>3, StoreStays DEF CatInv, CatTypeOK, KnownOK

(* The walk's two answers are merged.                                       *)
LEMMA WalkAttachesStep ==
    ASSUME CatInv, WalkAttaches
    PROVE  CatInv'
<1>1. /\ walk.at = "attach" /\ Upsert(walk.ans[1] \cup walk.ans[2])
      /\ unheard' = unheard \cup {k \in Keys : record'[k] # record[k]}
      /\ walk' = [at |-> "announce", ans |-> <<>>]
      /\ UNCHANGED <<fact, news, entity, shown, service, switch, pledged>>
    BY DEF WalkAttaches
<1>2. PICK ss : ss = walk.ans[1] \cup walk.ans[2]
    OBVIOUS
<1>3. ss \in Lists /\ Upsert(ss)
    BY <1>1, <1>2 DEF CatInv, ReadersOK, Lists
<1>4. ReadersOK'
    <2>1. Lists' = Lists
        BY <1>1 DEF Lists
    <2> QED BY <1>1, <2>1 DEF CatInv, ReadersOK
<1>5. \A it \in Items : WalkMerges(it) => \E s \in ss : s.it = it
    BY <1>1, <1>2 DEF WalkMerges
<1>6. EntitiesTold' /\ shown' \in [Keys -> Nat]
    BY <1>1 DEF CatInv, EntitiesTold, CatTypeOK
<1> QED BY <1>1, <1>3, <1>4, <1>5, <1>6, MergeStep

(* The walk announces what has no entity yet.                               *)
LEMMA WalkAnnouncesStep ==
    ASSUME CatInv, WalkAnnounces
    PROVE  CatInv'
<1>1. PICK new :
        /\ new = {k \in Keys : entity[k] = NoItem /\ Spawns(record[k].it)}
        /\ entity' = [k \in Keys |-> IF k \in new THEN record[k].it ELSE entity[k]]
        /\ shown' = [k \in Keys |-> IF k \in new THEN record[k].v ELSE shown[k]]
        /\ unheard' = unheard \ new
    BY DEF WalkAnnounces
<1>2. /\ walk.at = "announce" /\ walk' = NotRunning
      /\ UNCHANGED <<fact, news, record, service, switch, pledged, outdated>>
    BY DEF WalkAnnounces
<1>3. CatTypeOK'
    <2>1. \A k \in Keys : record[k].it \in Items \cup {NoItem} /\ record[k].v \in Nat
        BY DEF CatInv, CatTypeOK, Records
    <2> QED BY <1>1, <1>2, <2>1 DEF CatInv, CatTypeOK
<1>4. ReadersOK'
    <2>1. Lists' = Lists
        BY <1>2 DEF Lists
    <2> QED BY <1>2, <2>1 DEF CatInv, ReadersOK, NotRunning
<1>5. NewsOK' /\ NewsKnown'
    BY <1>2 DEF CatInv, NewsOK, NewsKnown
<1>6. \A k \in new : Known(k) /\ record[k].it.key = k
    <2>1. ~Spawns(NoItem)
        BY ItemsFact DEF Spawns
    <2> QED BY <1>1, <2>1 DEF CatInv, KnownOK, Known
<1>7. KnownOK'
    <2>1. ASSUME NEW k \in Keys, entity'[k] # NoItem
          PROVE  Known(k) /\ entity'[k].key = k /\ Spawns(entity[k])'
        BY <1>1, <1>2, <1>6, <2>1 DEF CatInv, KnownOK, Spawns
    <2> QED BY <1>2, <2>1 DEF CatInv, KnownOK, Known
<1>8. CatExplained'
    <2>1. \A it \in Items : ~WalkMerges(it)
        BY <1>2 DEF WalkMerges
    <2> QED BY <1>2, <2>1, MergesStay
<1>9. EntitiesTold'
    BY <1>1, <1>2 DEF CatInv, EntitiesTold
<1> QED BY <1>3, <1>4, <1>5, <1>7, <1>8, <1>9 DEF CatInv

(* A catalogue service begins, reads, or fails.                             *)
LEMMA ServiceReadsStep ==
    ASSUME CatInv, (\E kind \in {"sysvar", "program"} : ServiceBegins(kind)) \/ ServiceReads \/ ServiceFails
    PROVE  CatInv'
<1>1. UNCHANGED <<fact, news, record, entity, shown, walk, switch, pledged, outdated, unheard>>
    BY DEF ServiceBegins, ServiceReads, ServiceFails
<1>2. service'.ans # <<>> => service'.ans[1] \in Lists
    <2>1. CASE ServiceReads
        <3>1. PICK L : L = Listing(service.at)
            OBVIOUS
        <3>2. service' = [service EXCEPT !.ans = <<L>>] /\ L \in Lists
            BY <2>1, <3>1, ListingFact DEF ServiceReads, CatInv
        <3>3. service'.ans = <<L>> \/ service'.ans = service.ans
            BY <3>2
        <3> QED BY <3>2, <3>3 DEF CatInv, ReadersOK
    <2>2. CASE ServiceFails \/ \E kind \in {"sysvar", "program"} : ServiceBegins(kind)
        BY <2>2 DEF ServiceFails, ServiceBegins, NotRunning
    <2> QED BY <2>1, <2>2
<1>3. ReadersOK'
    <2>1. Lists' = Lists
        BY <1>1 DEF Lists
    <2> QED BY <1>1, <1>2, <2>1 DEF CatInv, ReadersOK
<1>4. \A it \in Items : WalkMerges(it)' = WalkMerges(it)
    BY <1>1 DEF WalkMerges
<1> QED BY <1>1, <1>3, <1>4, MergesStay, StoreStays DEF CatInv, CatTypeOK, KnownOK

(* A switch command flips its program, then reads it.                       *)
LEMMA SwitchReadsStep ==
    ASSUME CatInv, (\E it \in Items : SetProgramEnabled(it)) \/ ProgramRead
    PROVE  CatInv'
<1>1. UNCHANGED <<fact, news, record, entity, shown, walk, service, outdated, unheard>>
    BY DEF SetProgramEnabled, ProgramRead
<1>2. \A it \in Items : WalkMerges(it)' = WalkMerges(it)
    BY <1>1 DEF WalkMerges
<1>3. Lists' = Lists
    BY <1>1 DEF Lists
<1>4. CASE \E it \in Items : SetProgramEnabled(it)
    <2>1. PICK it \in Items : SetProgramEnabled(it)
        BY <1>4
    <2>2. /\ entity[it.key] # NoItem /\ record[it.key].it = it /\ pledged' = pledged \cup {it}
          /\ switch' = [at |-> "get", ans |-> <<it>>]
        BY <2>1 DEF SetProgramEnabled
    <2>3. fact[it] > 0
        BY <2>2, ItemsFact DEF CatInv, KnownOK
    <2>4. ReadersOK'
        BY <1>1, <1>3, <2>2, <2>3 DEF CatInv, ReadersOK
    <2> QED BY <1>1, <1>2, <2>2, <2>3, <2>4, MergesStay, StoreStays DEF CatInv, CatTypeOK, KnownOK
<1>5. CASE ProgramRead
    <2>1. switch.at = "get" /\ UNCHANGED pledged
        BY <1>5 DEF ProgramRead
    <2>2. PICK it \in Items : it = switch.ans[1] /\ fact[it] > 0
        BY <2>1 DEF CatInv, ReadersOK
    <2>3. PICK s : s = Summary(it, fact[it])
        OBVIOUS
    <2>4. s \in Summaries /\ s.it = it
        BY <2>3, SummaryFact DEF CatInv, CatTypeOK
    <2>5. switch' = NotRunning \/ switch' = [at |-> "apply", ans |-> <<s>>]
        BY <1>5, <2>2, <2>3 DEF ProgramRead
    <2>6. ReadersOK'
        BY <1>1, <1>3, <2>2, <2>4, <2>5 DEF CatInv, ReadersOK, NotRunning
    <2> QED BY <1>1, <1>2, <2>1, <2>6, MergesStay, StoreStays DEF CatInv, CatTypeOK, KnownOK
<1> QED BY <1>4, <1>5

(* The entity of an unambiguous key is of the one item that has the key.    *)
LEMMA EntityIs ==
    ASSUME CatInv, NEW k \in Keys \ Ambiguous, entity[k] # NoItem
    PROVE  /\ entity[k] \in Items /\ entity[k].key = k /\ Known(k)
           /\ \A x \in Items : x.key = k => x = entity[k]
<1>1. entity[k] \in Items /\ entity[k].key = k /\ Known(k)
    BY DEF CatInv, CatTypeOK, KnownOK
<1> QED BY <1>1, ItemsFact

(* What a merge leaves under an unambiguous key with an entity.             *)
LEMMA MergedEntity ==
    ASSUME CatInv, NEW ss \in Lists, Upsert(ss), NEW k \in Keys \ Ambiguous, entity[k] # NoItem
    PROVE  record'[k].it = entity[k] /\ (record'[k] = record[k] \/ record'[k] \in ss)
<1>1. ss \in SUBSET Summaries
    BY DEF Lists
<1>2. record'[k] = record[k] \/ \E s \in ss : s.it.key = k /\ record'[k] = s
    BY <1>1, UpsertFact
<1>3. record[k].it \in Items /\ record[k].it.key = k
    BY EntityIs DEF CatInv, CatTypeOK, KnownOK, Records, Known
<1>4. \A s \in ss : s.it \in Items
    BY <1>1 DEF Summaries
<1> QED BY <1>2, <1>3, <1>4, EntityIs

(* Values of merged objects are numbers.                                    *)
LEMMA MergedType ==
    ASSUME CatInv, NEW ss \in Lists, Upsert(ss)
    PROVE  \A k \in Keys : record'[k].v \in Nat
<1>1. ss \in SUBSET Summaries
    BY DEF Lists
<1>2. \A k \in Keys : record'[k] = record[k] \/ \E s \in ss : record'[k] = s
    BY <1>1, UpsertFact
<1> QED BY <1>1, <1>2 DEF CatInv, CatTypeOK, Records, Summaries

(* The variables' service.                                                  *)
LEMMA FetchSysvarsStep ==
    ASSUME CatInv, FetchSysvars
    PROVE  CatInv'
<1>1. /\ service.ans # <<>> /\ Upsert(service.ans[1]) /\ service' = NotRunning
      /\ UNCHANGED <<fact, news, entity, walk, switch, pledged, used>>
    BY DEF FetchSysvars
<1>2. PICK ss \in Lists : ss = service.ans[1]
    BY <1>1 DEF CatInv, ReadersOK
<1>3. Upsert(ss)
    BY <1>1, <1>2
<1>4. PICK moved : moved = {k \in Keys : record'[k].v # record[k].v}
    OBVIOUS
<1>5. PICK ids : ids = {record'[k].it : k \in moved}
    OBVIOUS
<1>6. /\ shown' = [k \in Keys |-> IF entity[k] \in ids THEN record'[k].v ELSE shown[k]]
      /\ unheard' = unheard \ {k \in moved : entity[k] = record'[k].it}
    BY <1>4, <1>5 DEF FetchSysvars, Render
<1>7. ReadersOK'
    <2>1. Lists' = Lists
        BY <1>1 DEF Lists
    <2> QED BY <1>1, <2>1 DEF CatInv, ReadersOK, NotRunning
<1>8. \A it \in Items : WalkMerges(it)' = WalkMerges(it)
    BY <1>1 DEF WalkMerges
<1>9. shown' \in [Keys -> Nat]
    BY <1>3, <1>6, MergedType DEF CatInv, CatTypeOK
<1>10. EntitiesTold'
    <2> SUFFICES ASSUME NEW k \in Keys \ Ambiguous, entity[k] # NoItem
                 PROVE  shown'[k] = record'[k].v \/ k \in unheard'
        BY <1>1 DEF EntitiesTold
    <2>1. record'[k].it = entity[k]
        BY <1>3, MergedEntity
    <2>2. CASE k \in moved
        BY <1>5, <1>6, <2>1, <2>2
    <2>3. CASE k \notin moved
        <3>1. record'[k].v = record[k].v /\ (k \in unheard => k \in unheard')
            BY <1>4, <1>6, <2>3
        <3> QED BY <1>6, <3>1 DEF CatInv, EntitiesTold
    <2> QED BY <2>2, <2>3
<1> QED BY <1>1, <1>3, <1>7, <1>8, <1>9, <1>10, MergeStep

(* The programs' service, one program at a time.                            *)
LEMMA FetchProgramStep ==
    ASSUME CatInv, NEW s, FetchProgram(s)
    PROVE  CatInv'
<1>1. /\ service.ans # <<>> /\ s \in service.ans[1] /\ Upsert({s})
      /\ service' = IF service.ans[1] = {s} THEN NotRunning ELSE [service EXCEPT !.ans = <<@[1] \ {s}>>]
      /\ UNCHANGED <<fact, news, entity, walk, switch, pledged, used>>
    BY DEF FetchProgram
<1>2. PICK L \in Lists : L = service.ans[1]
    BY <1>1 DEF CatInv, ReadersOK
<1>3. PICK ss \in Lists : ss = {s}
    BY <1>1, <1>2 DEF Lists
<1>4. s \in Summaries /\ s.it.key \in Keys /\ s.it \in Items /\ Upsert(ss)
    BY <1>1, <1>3, ItemsFact DEF Lists, Summaries
<1>5. IF record[s.it.key].v # s.v
      THEN /\ shown' = [k \in Keys |-> IF entity[k] \in {s.it} THEN record'[k].v ELSE shown[k]]
           /\ unheard' = IF entity[s.it.key] = s.it THEN unheard \ {s.it.key} ELSE unheard
      ELSE UNCHANGED <<shown, unheard>>
    BY DEF FetchProgram, Render
<1>6. ReadersOK'
    <2>1. Lists' = Lists
        BY <1>1 DEF Lists
    <2>2. L \ {s} \in Lists
        BY DEF Lists
    <2>3. service' = NotRunning \/ service' = [service EXCEPT !.ans = <<L \ {s}>>]
        BY <1>1, <1>2
    <2>4. service'.ans # <<>> => service'.ans[1] \in Lists
        <3>1. CASE service' = NotRunning
            BY <3>1 DEF NotRunning
        <3>2. CASE service' = [service EXCEPT !.ans = <<L \ {s}>>]
            <4>1. PICK list \in Lists : list = L \ {s}
                BY <2>2
            <4>2. service' = [service EXCEPT !.ans = <<list>>]
                BY <3>2, <4>1
            <4>3. service'.ans = <<list>> \/ service'.ans = service.ans
                BY <4>2
            <4>4. CASE service'.ans = <<list>>
                BY <4>4
            <4>5. CASE service'.ans = service.ans
                <5>1. service'.ans[1] = service.ans[1]
                    BY <4>5
                <5> QED BY <1>2, <5>1
            <4> QED BY <4>3, <4>4, <4>5
        <3> QED BY <2>3, <3>1, <3>2
    <2> QED BY <1>1, <2>1, <2>4 DEF CatInv, ReadersOK
<1>7. \A it \in Items : WalkMerges(it)' = WalkMerges(it)
    BY <1>1 DEF WalkMerges
<1>8. shown' \in [Keys -> Nat]
    BY <1>4, <1>5, MergedType DEF CatInv, CatTypeOK
<1>9. EntitiesTold'
    <2> SUFFICES ASSUME NEW k \in Keys \ Ambiguous, entity[k] # NoItem
                 PROVE  shown'[k] = record'[k].v \/ k \in unheard'
        BY <1>1 DEF EntitiesTold
    <2>1. shown[k] = record[k].v \/ k \in unheard
        BY DEF CatInv, EntitiesTold
    <2>2. record'[k].it = entity[k] /\ (record'[k] = record[k] \/ record'[k] = s)
        BY <1>3, <1>4, MergedEntity
    <2>3. CASE s.it.key # k
        <3>1. record'[k] = record[k]
            BY <2>2, <2>3, EntityIs
        <3> QED BY <1>5, <2>1, <2>3, <3>1
    <2>4. CASE s.it.key = k
        <3>1. entity[k] = s.it
            BY <1>4, <2>4, EntityIs
        <3> QED BY <1>5, <2>1, <2>2, <2>4, <3>1
    <2> QED BY <2>3, <2>4
<1> QED BY <1>1, <1>4, <1>6, <1>7, <1>8, <1>9, MergeStep

(* The switch's re-read is merged.                                          *)
LEMMA RefreshProgramStep ==
    ASSUME CatInv, RefreshProgram
    PROVE  CatInv'
<1>1. /\ switch.at = "apply" /\ Upsert({switch.ans[1]}) /\ switch' = NotRunning
      /\ unheard' = unheard \cup {k \in Keys : record'[k] # record[k]}
      /\ UNCHANGED <<fact, news, entity, shown, walk, service, pledged, used>>
    BY DEF RefreshProgram
<1>2. PICK ss \in Lists : ss = {switch.ans[1]}
    BY <1>1 DEF CatInv, ReadersOK, Lists
<1>3. ReadersOK'
    <2>1. Lists' = Lists
        BY <1>1 DEF Lists
    <2> QED BY <1>1, <2>1 DEF CatInv, ReadersOK, NotRunning
<1>4. \A it \in Items : WalkMerges(it)' = WalkMerges(it)
    BY <1>1 DEF WalkMerges
<1>5. EntitiesTold' /\ shown' \in [Keys -> Nat]
    BY <1>1 DEF CatInv, EntitiesTold, CatTypeOK
<1> QED BY <1>1, <1>2, <1>3, <1>4, <1>5, MergeStep

(* The first push is taken.                                                 *)
LEMMA NewsTaken ==
    ASSUME CatInv, NEW kind, NEW what, Receive(kind, what), UNCHANGED fact, NEW n, n = Head(news)
    PROVE  /\ n \in News /\ n.it.kind = kind /\ n.what = what /\ fact[n.it] > 0
           /\ news' \in Seq(News) /\ NewsOK' /\ NewsKnown'
           /\ \A it \in Items : Pushed(it) => Pushed(it)' \/ (n.it = it /\ n.what = "changed")
           /\ n.what = "changed" => n.v = fact[n.it] \/ Pushed(n.it)'
<1>1. /\ news # <<>> /\ news \in Seq(News) /\ news' = Tail(news) /\ n.it.kind = kind /\ n.what = what
      /\ NewsOK /\ NewsKnown
    BY DEF Receive, CatInv, CatTypeOK
<1>2. PICK s \in Seq(News) : s = news
    BY <1>1
<1>3. s # <<>> /\ Len(s) \in Nat /\ Len(s) # 0 /\ n = s[1] /\ 1 \in 1 .. Len(s)
    BY <1>1, <1>2
<1>4. PICK t \in Seq(News) : t = Tail(s)
    <2>1. Tail(s) \in Seq(News)
        BY <1>3
    <2> QED BY <2>1
<1>5. /\ n \in News /\ Len(t) = Len(s) - 1
      /\ \A i \in 1 .. Len(t) : i + 1 \in 1 .. Len(s) /\ t[i] = s[i + 1]
      /\ \A j \in 2 .. Len(s) : j - 1 \in 1 .. Len(t) /\ s[j] = t[j - 1]
    BY <1>3, <1>4
<1>6. news' = t
    BY <1>1, <1>2, <1>4
<1>7. NewsKnown'
    BY <1>1, <1>2, <1>5, <1>6 DEF NewsKnown
<1>8. ASSUME NEW i \in 1 .. Len(s), NEW j \in i + 1 .. Len(s) PROVE j \in 2 .. Len(s) /\ j - 1 \in i .. Len(t)
    BY <1>5
<1>9. NewsOK'
    <2> SUFFICES ASSUME NEW i \in 1 .. Len(t), t[i].what = "changed", t[i].v # fact[t[i].it]
                 PROVE  \E j \in i + 1 .. Len(t) : t[j].it = t[i].it /\ t[j].what = "changed"
        BY <1>6 DEF NewsOK
    <2>1. i + 1 \in 1 .. Len(s) /\ t[i] = s[i + 1]
        BY <1>5
    <2>2. PICK j \in (i + 1) + 1 .. Len(s) : s[j].it = s[i + 1].it /\ s[j].what = "changed"
        BY <1>1, <1>2, <2>1 DEF NewsOK
    <2>3. j - 1 \in i + 1 .. Len(t) /\ t[j - 1] = s[j]
        BY <1>5, <1>8, <2>1, <2>2
    <2> QED BY <2>1, <2>2, <2>3
<1>10. ASSUME NEW it \in Items, Pushed(it) PROVE Pushed(it)' \/ (n.it = it /\ n.what = "changed")
    <2>1. PICK i \in 1 .. Len(s) : s[i].it = it /\ s[i].what = "changed"
        BY <1>2, <1>10 DEF Pushed
    <2>2. CASE i = 1
        BY <1>3, <2>1, <2>2
    <2>3. CASE i # 1
        <3>1. i \in 2 .. Len(s)
            BY <2>3
        <3> QED BY <1>5, <1>6, <2>1, <3>1 DEF Pushed
    <2> QED BY <2>2, <2>3
<1>11. ASSUME n.what = "changed", n.v # fact[n.it] PROVE Pushed(n.it)'
    <2>1. PICK j \in 1 + 1 .. Len(s) : s[j].it = n.it /\ s[j].what = "changed"
        BY <1>1, <1>2, <1>3, <1>11 DEF NewsOK
    <2>2. j - 1 \in 1 .. Len(t) /\ t[j - 1] = s[j]
        BY <1>5, <2>1
    <2> QED BY <1>6, <2>1, <2>2 DEF Pushed
<1>12. fact[n.it] > 0
    BY <1>1, <1>2, <1>3 DEF NewsKnown
<1> QED BY <1>1, <1>4, <1>5, <1>6, <1>7, <1>9, <1>10, <1>11, <1>12

(* A change is applied to the object of its key and rendered.               *)
Applies(n, k, link, ids) ==
    /\ n = Head(news) /\ k = n.it.key /\ link \in BOOLEAN
    /\ \E kind : Receive(kind, "changed")
    /\ UNCHANGED <<fact, entity, walk, service, switch, pledged>>
    /\ record' = IF Known(k) THEN [record EXCEPT ![k].v = n.v, ![k].link = link] ELSE record
    /\ k \notin Ambiguous /\ Known(k) => link = n.it.linked
    /\ outdated' = outdated \ {k}
    /\ shown' = [j \in Keys |-> IF entity[j] \in ids THEN record'[j].v ELSE shown[j]]
    /\ unheard \subseteq unheard' \cup {k}
    /\ k \notin Ambiguous /\ entity[k] # NoItem => entity[k] \in ids

LEMMA ChangeApplied ==
    ASSUME CatInv, NEW n, NEW k, NEW link, NEW ids, Applies(n, k, link, ids)
    PROVE  CatInv'
<1> USE DEF Applies
<1>1. CatTypeOK /\ KnownOK /\ ReadersOK /\ CatExplained /\ EntitiesTold
    BY DEF CatInv
<1>2. /\ n \in News /\ n.what = "changed" /\ fact[n.it] > 0
      /\ news' \in Seq(News) /\ NewsOK' /\ NewsKnown'
      /\ \A it \in Items : Pushed(it) => Pushed(it)' \/ n.it = it
      /\ n.v = fact[n.it] \/ Pushed(n.it)'
    BY NewsTaken
<1>3. n.it \in Items /\ n.v \in Nat /\ k \in Keys
    BY <1>2, ItemsFact DEF News
<1>4. PICK r : r = [record[k] EXCEPT !.v = n.v, !.link = link]
    OBVIOUS
<1>5. record[k] \in Records
    BY <1>1, <1>3 DEF CatTypeOK
<1>6. r \in Records /\ r.it = record[k].it /\ r.v = n.v /\ r.link = link
    <2>1. PICK u : u = [record[k] EXCEPT !.v = n.v]
        OBVIOUS
    <2>2. u \in Records /\ u.it = record[k].it /\ u.v = n.v
        BY <1>3, <1>5, <2>1 DEF Records
    <2>3. r = [u EXCEPT !.link = link]
        BY <1>4, <2>1
    <2> QED BY <2>2, <2>3 DEF Records
<1>7. record' = IF Known(k) THEN [record EXCEPT ![k] = r] ELSE record
    <2>1. CASE Known(k)
        <3>1. PICK u : u = [record EXCEPT ![k].v = n.v]
            OBVIOUS
        <3>2. u = [record EXCEPT ![k] = [record[k] EXCEPT !.v = n.v]]
            BY <3>1
        <3>3. record' = [u EXCEPT ![k].link = link]
            BY <2>1, <3>1
        <3>4. u[k] = [record[k] EXCEPT !.v = n.v]
            BY <1>1, <1>3, <3>2 DEF CatTypeOK
        <3>5. record' = [u EXCEPT ![k] = r]
            BY <1>4, <3>3, <3>4
        <3> QED BY <1>1, <1>3, <2>1, <3>2, <3>5 DEF CatTypeOK
    <2> QED BY <2>1
<1>8. /\ record' \in [Keys -> Records]
      /\ \A j \in Keys : record'[j] = IF Known(k) /\ j = k THEN r ELSE record[j]
      /\ \A j \in Keys : record'[j].it = record[j].it
    BY <1>1, <1>3, <1>6, <1>7 DEF CatTypeOK
<1>9. shown' \in [Keys -> Nat]
    BY <1>1, <1>8 DEF CatTypeOK, Records
<1>10. CatTypeOK'
    BY <1>1, <1>2, <1>8, <1>9 DEF CatTypeOK
<1>11. \A j \in Keys : Known(j)' <=> Known(j)
    BY <1>8 DEF Known
<1>12. ASSUME NEW j \in Keys \ Ambiguous, Known(j), j = k
       PROVE  record[j].it = n.it
    <2>1. record[j].it \in Items /\ record[j].it.key = j
        BY <1>1, <1>12 DEF KnownOK, CatTypeOK, Records, Known
    <2>2. \A x, y \in Items : x.key = j /\ y.key = j => x = y
        BY ItemsFact
    <2> QED BY <1>3, <1>12, <2>1, <2>2
<1>13. KnownOK'
    <2>1. \A j \in Keys : Known(j)' => record'[j].it.key = j /\ fact[record'[j].it] > 0
        BY <1>1, <1>8, <1>11 DEF KnownOK
    <2>2. ASSUME NEW j \in Keys \ Ambiguous, Known(j) PROVE record'[j].link = record'[j].it.linked
        <3>1. CASE j = k
            BY <1>6, <1>8, <1>12, <2>2, <3>1
        <3>2. CASE j # k
            BY <1>1, <1>8, <2>2, <3>2 DEF KnownOK
        <3> QED BY <3>1, <3>2
    <2>3. \A j \in Keys : entity[j] # NoItem => Known(j)' /\ entity[j].key = j /\ Spawns(entity[j])
        BY <1>1, <1>11 DEF KnownOK
    <2> QED BY <1>1, <1>11, <2>1, <2>2, <2>3 DEF KnownOK, Spawns
<1>14. ReadersOK'
    <2>1. Lists' = Lists
        BY DEF Lists
    <2> QED BY <1>1, <2>1 DEF ReadersOK
<1>15. ASSUME NEW j \in Keys \ Ambiguous, Known(j), NEW x \in Items, x = record[j].it
       PROVE  record'[j].v = fact[x] \/ j \in outdated' \/ Pushed(x)' \/ WalkMerges(x)
    <2>1. CASE j = k
        BY <1>2, <1>6, <1>8, <1>12, <1>15, <2>1
    <2>2. CASE j # k
        <3>1. x # n.it
            BY <1>1, <1>15, <2>2 DEF KnownOK
        <3>2. record[j].v = fact[x] \/ j \in outdated \/ Pushed(x) \/ WalkMerges(x)
            BY <1>1, <1>15 DEF CatExplained
        <3> QED BY <1>2, <1>8, <2>2, <3>1, <3>2
    <2> QED BY <2>1, <2>2
<1>16. CatExplained'
    <2>1. ASSUME NEW j \in Keys \ Ambiguous, Known(j)', NEW x, x = record'[j].it
          PROVE  record'[j].v = fact'[x] \/ j \in outdated' \/ Pushed(x)' \/ WalkMerges(x)'
        <3>1. Known(j) /\ x = record[j].it
            BY <1>8, <1>11, <2>1
        <3>2. x \in Items
            BY <1>1, <3>1 DEF CatTypeOK, Records, Known
        <3>3. WalkMerges(x)' = WalkMerges(x)
            BY DEF WalkMerges
        <3> QED BY <1>15, <3>1, <3>2, <3>3
    <2> QED BY <2>1 DEF CatExplained, WalkMerges, Pushed
<1>17. EntitiesTold'
    BY <1>1, <1>3, <1>8 DEF EntitiesTold
<1> QED BY <1>2, <1>10, <1>13, <1>14, <1>16, <1>17 DEF CatInv

(* The store applies a push about a variable.  The id of the event is the   *)
(* push's or the object's: of an unambiguous key both are the entity's.     *)
LEMMA OnSysvarChangedStep ==
    ASSUME CatInv, OnSysvarChanged
    PROVE  CatInv'
<1>1. PICK n, k : n = Head(news) /\ k = n.it.key
    OBVIOUS
<1>2. PICK id \in {n.it, record[k].it} :
        Render({id}) /\ unheard' = IF id = entity[k] THEN unheard \ {k} ELSE unheard
    BY <1>1 DEF OnSysvarChanged
<1>3. /\ Receive("sysvar", "changed") /\ UNCHANGED <<fact, entity, walk, service, switch, pledged, used>>
      /\ record' = IF Known(k) THEN [record EXCEPT ![k].v = n.v, ![k].link = n.link] ELSE record
      /\ outdated' = outdated \ {k}
    BY <1>1 DEF OnSysvarChanged
<1>4. n \in News /\ n.it.kind = "sysvar"
    BY <1>1, <1>3, NewsTaken
<1>5. n.link \in BOOLEAN /\ n.link = n.it.linked /\ n.it \in Items
    BY <1>4 DEF News
<1>6. PICK link \in BOOLEAN : link = n.link
    BY <1>5
<1>7. PICK ids : ids = {id}
    OBVIOUS
<1>8. shown' = [j \in Keys |-> IF entity[j] \in ids THEN record'[j].v ELSE shown[j]]
    BY <1>2, <1>7 DEF Render
<1>9. ASSUME k \notin Ambiguous, entity[k] # NoItem PROVE entity[k] \in ids
    <2>1. k \in Keys
        BY <1>1, <1>5, ItemsFact
    <2>2. entity[k] = n.it /\ record[k].it \in Items /\ record[k].it.key = k
        BY <1>1, <1>5, <1>9, <2>1, EntityIs DEF CatInv, CatTypeOK, KnownOK, Records, Known
    <2>3. record[k].it = entity[k]
        BY <1>9, <2>1, <2>2, EntityIs
    <2> QED BY <1>7, <2>2, <2>3
<1>10. /\ record' = IF Known(k) THEN [record EXCEPT ![k].v = n.v, ![k].link = link] ELSE record
       /\ unheard \subseteq unheard' \cup {k}
    BY <1>2, <1>3, <1>6
<1>11. \E kind : Receive(kind, "changed")
    BY <1>3
<1>12. UNCHANGED <<fact, entity, walk, service, switch, pledged>> /\ outdated' = outdated \ {k}
    BY <1>3
<1>13. k \notin Ambiguous /\ Known(k) => link = n.it.linked
    BY <1>5, <1>6
<1>14. k \notin Ambiguous /\ entity[k] # NoItem => entity[k] \in ids
    BY <1>9
<1>15. Applies(n, k, link, ids)
    BY <1>1, <1>8, <1>10, <1>11, <1>12, <1>13, <1>14 DEF Applies
<1> QED BY <1>15, ChangeApplied

(* The store applies a push about a program; an absent link keeps the known *)
(* one, which is the program's.                                             *)
LEMMA OnProgramChangedStep ==
    ASSUME CatInv, OnProgramChanged
    PROVE  CatInv'
<1>1. PICK n, k : n = Head(news) /\ k = n.it.key
    OBVIOUS
<1>2. PICK link : link = (record[k].link \/ n.link)
    OBVIOUS
<1>3. /\ Receive("program", "changed") /\ UNCHANGED <<fact, entity, walk, service, switch, pledged, used>>
      /\ outdated' = outdated \ {k} /\ Render({n.it})
      /\ unheard' = IF n.it = entity[k] THEN unheard \ {k} ELSE unheard
    BY <1>1 DEF OnProgramChanged
<1>4. n \in News
    BY <1>1, <1>3, NewsTaken
<1>5. n.link \in BOOLEAN /\ (n.link => n.it.linked) /\ n.it \in Items /\ k \in Keys
    BY <1>1, <1>4, ItemsFact DEF News
<1>6. record' = IF Known(k) THEN [record EXCEPT ![k].v = n.v, ![k].link = link] ELSE record
    <2>1. PICK u : u = [record EXCEPT ![k].v = n.v]
        OBVIOUS
    <2>2. record \in [Keys -> Records]
        BY DEF CatInv, CatTypeOK
    <2>3. u[k].link = record[k].link
        BY <1>5, <2>1, <2>2 DEF Records
    <2>4. record' = IF Known(k) THEN [u EXCEPT ![k].link = @ \/ n.link] ELSE record
        BY <1>1, <2>1 DEF OnProgramChanged
    <2>5. [u EXCEPT ![k].link = @ \/ n.link] = [u EXCEPT ![k].link = link]
        BY <1>2, <2>3
    <2> QED BY <2>1, <2>4, <2>5
<1>7. record[k].link \in BOOLEAN
    BY <1>5 DEF CatInv, CatTypeOK, Records
<1>8. PICK ids : ids = {n.it}
    OBVIOUS
<1>9. shown' = [j \in Keys |-> IF entity[j] \in ids THEN record'[j].v ELSE shown[j]]
    BY <1>3, <1>8 DEF Render
<1>10. ASSUME k \notin Ambiguous, entity[k] # NoItem PROVE entity[k] \in ids
    BY <1>1, <1>5, <1>8, <1>10, EntityIs
<1>11. ASSUME k \notin Ambiguous, Known(k) PROVE link = n.it.linked
    <2>1. record[k].it \in Items /\ record[k].it.key = k /\ record[k].link = record[k].it.linked
        BY <1>5, <1>11 DEF CatInv, CatTypeOK, KnownOK, Records, Known
    <2>2. record[k].it = n.it
        BY <1>1, <1>5, <1>11, <2>1, ItemsFact
    <2>3. n.it.linked \in BOOLEAN
        BY <1>5, ItemsFact
    <2> QED BY <1>2, <1>5, <2>1, <2>2, <2>3
<1>12. unheard \subseteq unheard' \cup {k} /\ link \in BOOLEAN
    BY <1>2, <1>3, <1>5, <1>7
<1>13. \E kind : Receive(kind, "changed")
    BY <1>3
<1>14. UNCHANGED <<fact, entity, walk, service, switch, pledged>> /\ outdated' = outdated \ {k}
    BY <1>3
<1>15. k \notin Ambiguous /\ Known(k) => link = n.it.linked
    BY <1>11
<1>16. k \notin Ambiguous /\ entity[k] # NoItem => entity[k] \in ids
    BY <1>10
<1>17. Applies(n, k, link, ids)
    BY <1>1, <1>6, <1>9, <1>12, <1>13, <1>14, <1>15, <1>16 DEF Applies
<1> QED BY <1>17, ChangeApplied

(* The store takes the link of a program that ran.                          *)
LEMMA OnProgramExecutedStep ==
    ASSUME CatInv, OnProgramExecuted
    PROVE  CatInv'
<1>1. PICK n, k : n = Head(news) /\ k = n.it.key
    OBVIOUS
<1>2. /\ Receive("program", "executed")
      /\ record' = IF Known(k) THEN [record EXCEPT ![k].link = @ \/ n.link] ELSE record
      /\ UNCHANGED <<fact, entity, shown, walk, service, switch, pledged, used, outdated, unheard>>
      /\ CatTypeOK /\ KnownOK /\ ReadersOK /\ CatExplained /\ EntitiesTold
    BY <1>1 DEF OnProgramExecuted, CatInv
<1>3. /\ n \in News /\ n.what = "executed" /\ news' \in Seq(News) /\ NewsOK' /\ NewsKnown'
      /\ \A it \in Items : Pushed(it) => Pushed(it)'
    BY <1>1, <1>2, NewsTaken
<1>4. n.link \in BOOLEAN /\ (n.link => n.it.linked) /\ n.it \in Items /\ k \in Keys
    BY <1>1, <1>3, ItemsFact DEF News
<1>5. record[k] \in Records /\ record[k].link \in BOOLEAN
    BY <1>2, <1>4 DEF CatTypeOK, Records
<1>6. PICK link \in BOOLEAN : link = (record[k].link \/ n.link)
    BY <1>4, <1>5
<1>7. PICK r : r = [record[k] EXCEPT !.link = link]
    OBVIOUS
<1>8. r \in Records /\ r.it = record[k].it /\ r.v = record[k].v /\ r.link = link
    BY <1>5, <1>7 DEF Records
<1>9. record' = IF Known(k) THEN [record EXCEPT ![k] = r] ELSE record
    BY <1>2, <1>6, <1>7
<1>10. /\ record' \in [Keys -> Records]
       /\ \A j \in Keys : record'[j] = IF Known(k) /\ j = k THEN r ELSE record[j]
       /\ \A j \in Keys : record'[j].it = record[j].it /\ record'[j].v = record[j].v
    BY <1>2, <1>4, <1>8, <1>9 DEF CatTypeOK
<1>11. CatTypeOK'
    BY <1>2, <1>3, <1>10 DEF CatTypeOK
<1>12. \A j \in Keys : Known(j)' <=> Known(j)
    BY <1>10 DEF Known
<1>13. KnownOK'
    <2>1. \A j \in Keys : Known(j)' => record'[j].it.key = j /\ fact[record'[j].it] > 0
        BY <1>2, <1>10, <1>12 DEF KnownOK
    <2>2. ASSUME NEW j \in Keys \ Ambiguous, Known(j) PROVE record'[j].link = record'[j].it.linked
        <3>1. CASE j = k
            <4>1. record[j].it \in Items /\ record[j].it.key = j /\ record[j].link = record[j].it.linked
                BY <1>2, <2>2 DEF CatTypeOK, KnownOK, Records, Known
            <4>2. record[j].it = n.it
                BY <1>1, <1>4, <3>1, <4>1, ItemsFact
            <4>3. link = n.it.linked
                BY <1>4, <1>6, <3>1, <4>1, <4>2, ItemsFact
            <4> QED BY <1>8, <1>10, <2>2, <3>1, <4>2, <4>3
        <3>2. CASE j # k
            BY <1>2, <1>10, <2>2, <3>2 DEF KnownOK
        <3> QED BY <3>1, <3>2
    <2>3. \A j \in Keys : entity[j] # NoItem => Known(j)' /\ entity[j].key = j /\ Spawns(entity[j])
        BY <1>2, <1>12 DEF KnownOK
    <2> QED BY <1>2, <1>12, <2>1, <2>2, <2>3 DEF KnownOK, Spawns
<1>14. ReadersOK'
    <2>1. Lists' = Lists
        BY <1>2 DEF Lists
    <2> QED BY <1>2, <2>1 DEF ReadersOK
<1>15. CatExplained'
    <2>1. ASSUME NEW j \in Keys \ Ambiguous, Known(j)', NEW x, x = record'[j].it
          PROVE  record'[j].v = fact'[x] \/ j \in outdated' \/ Pushed(x)' \/ WalkMerges(x)'
        <3>1. Known(j) /\ x = record[j].it /\ record'[j].v = record[j].v
            BY <1>10, <1>12, <2>1
        <3>2. x \in Items
            BY <1>2, <3>1 DEF CatTypeOK, Records, Known
        <3>3. WalkMerges(x)' = WalkMerges(x)
            BY <1>2 DEF WalkMerges
        <3> QED BY <1>2, <1>3, <3>1, <3>2, <3>3 DEF CatExplained
    <2> QED BY <2>1 DEF CatExplained, WalkMerges, Pushed
<1>16. EntitiesTold'
    BY <1>2, <1>10 DEF EntitiesTold
<1> QED BY <1>3, <1>11, <1>13, <1>14, <1>15, <1>16 DEF CatInv

(* A push about an item follows those before it.                            *)
LEMMA NewsGrows ==
    ASSUME CatInv, NEW it \in Items, NEW v \in Nat, v >= fact[it], v > 0,
           fact' = [fact EXCEPT ![it] = v],
           NEW n \in News, n.it = it, n.what = "changed" => n.v = v, n.what # "changed" => v = fact[it],
           news' = Append(news, n), pledged' \subseteq pledged,
           UNCHANGED <<record, entity, shown, walk, service, switch, outdated, unheard>>
    PROVE  CatInv'
<1>1. CatTypeOK /\ KnownOK /\ NewsOK /\ NewsKnown /\ CatExplained /\ EntitiesTold
    BY DEF CatInv
<1>2. /\ fact \in [Items -> Nat] /\ fact' \in [Items -> Nat] /\ fact'[it] = v
      /\ \A x \in Items : x # it => fact'[x] = fact[x]
      /\ \A x \in Items : fact[x] > 0 => fact'[x] > 0
    BY <1>1 DEF CatTypeOK
<1>3. PICK s \in Seq(News) : s = news
    BY <1>1 DEF CatTypeOK
<1>4. PICK t \in Seq(News) : t = Append(s, n)
    <2>1. Append(s, n) \in Seq(News)
        BY SMT
    <2> QED BY <2>1
<1>5. /\ Len(s) \in Nat /\ Len(t) = Len(s) + 1 /\ t[Len(t)] = n
      /\ \A i \in 1 .. Len(s) : t[i] = s[i] /\ i \in 1 .. Len(t) /\ s[i].it \in Items
    BY <1>4 DEF News
<1>6. news' = t
    BY <1>3, <1>4
<1>7. CatTypeOK'
    BY <1>1, <1>2, <1>6 DEF CatTypeOK
<1>8. KnownOK'
    <2>1. \A k \in Keys : Known(k) => record[k].it \in Items
        BY <1>1 DEF CatTypeOK, Records, Known
    <2> QED BY <1>1, <1>2, <2>1 DEF KnownOK, Known, CatTypeOK, Spawns
<1>9. ReadersOK'
    BY <1>2, ReadersStay
<1>10. NewsKnown'
    <2>1. ASSUME NEW i \in 1 .. Len(t) PROVE fact'[t[i].it] > 0
        <3>1. CASE i = Len(t)
            BY <1>2, <1>5, <3>1
        <3>2. CASE i # Len(t)
            <4>1. i \in 1 .. Len(s)
                BY <1>5, <3>2
            <4>2. fact[s[i].it] > 0
                BY <1>1, <1>3, <4>1 DEF NewsKnown
            <4> QED BY <1>2, <1>5, <4>1, <4>2
        <3> QED BY <3>1, <3>2
    <2> QED BY <1>6, <2>1 DEF NewsKnown
<1>11. NewsOK'
    <2> SUFFICES ASSUME NEW i \in 1 .. Len(t), t[i].what = "changed", t[i].v # fact'[t[i].it]
                 PROVE  \E j \in i + 1 .. Len(t) : t[j].it = t[i].it /\ t[j].what = "changed"
        BY <1>6 DEF NewsOK
    <2>1. i # Len(t)
        BY <1>2, <1>5
    <2>2. i \in 1 .. Len(s) /\ t[i] = s[i] /\ s[i].it \in Items
        BY <1>5, <2>1
    <2>3. CASE s[i].it = it /\ n.what = "changed"
        <3>1. Len(t) \in i + 1 .. Len(t)
            BY <1>5, <2>2
        <3> QED BY <1>5, <2>2, <2>3, <3>1
    <2>4. CASE s[i].it # it \/ n.what # "changed"
        <3>1. fact'[s[i].it] = fact[s[i].it]
            BY <1>2, <2>2, <2>4
        <3>2. PICK j \in i + 1 .. Len(s) : s[j].it = s[i].it /\ s[j].what = "changed"
            BY <1>1, <1>3, <2>2, <3>1 DEF NewsOK
        <3>3. j \in 1 .. Len(s) /\ j \in i + 1 .. Len(t)
            BY <1>5, <2>2
        <3> QED BY <1>5, <2>2, <3>2, <3>3
    <2> QED BY <2>3, <2>4
<1>12. \A x \in Items : Pushed(x) => Pushed(x)'
    BY <1>3, <1>5, <1>6 DEF Pushed
<1>13. n.what = "changed" => Pushed(it)'
    <2>1. Len(t) \in 1 .. Len(t)
        BY <1>5
    <2> QED BY <1>5, <1>6, <2>1 DEF Pushed
<1>14. ASSUME NEW k \in Keys \ Ambiguous, Known(k), NEW x \in Items, x = record[k].it
       PROVE  record[k].v = fact'[x] \/ k \in outdated \/ Pushed(x)' \/ WalkMerges(x)
    <2>1. record[k].v = fact[x] \/ k \in outdated \/ Pushed(x) \/ WalkMerges(x)
        BY <1>1, <1>14 DEF CatExplained
    <2>2. fact'[x] = fact[x] \/ (x = it /\ n.what = "changed")
        BY <1>2
    <2> QED BY <1>12, <1>13, <2>1, <2>2
<1>15. CatExplained'
    <2>1. ASSUME NEW k \in Keys \ Ambiguous, Known(k)', NEW x, x = record'[k].it
          PROVE  record'[k].v = fact'[x] \/ k \in outdated' \/ Pushed(x)' \/ WalkMerges(x)'
        <3>1. Known(k) /\ x = record[k].it
            BY <2>1 DEF Known
        <3>2. x \in Items
            BY <1>1, <3>1 DEF CatTypeOK, Records, Known
        <3>3. WalkMerges(x)' = WalkMerges(x)
            BY DEF WalkMerges
        <3> QED BY <1>14, <3>1, <3>2, <3>3
    <2> QED BY <2>1 DEF CatExplained, WalkMerges, Pushed
<1>16. EntitiesTold'
    BY <1>1 DEF EntitiesTold
<1> QED BY <1>7, <1>8, <1>9, <1>10, <1>11, <1>15, <1>16 DEF CatInv

(* What Push appends is news.                                               *)
LEMMA PushIsNews ==
    ASSUME NEW it \in Items, NEW v \in Nat, NEW what \in {"changed", "executed"}, Push(it, v, what)
    PROVE  \E n \in News : n.it = it /\ n.v = v /\ n.what = what /\ news' = Append(news, n)
<1>1. PICK link \in IF it.linked /\ it.kind = "program" THEN BOOLEAN ELSE {it.linked} :
        news' = Append(news, [it |-> it, v |-> v, what |-> what, link |-> link])
    BY DEF Push
<1>2. PICK n : n = [it |-> it, v |-> v, what |-> what, link |-> link]
    OBVIOUS
<1>3. it.linked \in BOOLEAN /\ it.kind \in {"sysvar", "program"}
    BY CatalogueAssumption
<1>4. link \in BOOLEAN /\ (link => it.linked) /\ (it.kind = "sysvar" => link = it.linked)
    BY <1>3
<1>5. n \in News /\ n.it = it /\ n.v = v /\ n.what = what
    BY <1>2, <1>4 DEF News
<1> QED BY <1>1, <1>2, <1>5

(* An item changes at the daemon, on its own or by a confirmed flip.        *)
LEMMA ItemChangesStep ==
    ASSUME CatInv, NEW it \in Items, ItemChanges(it) \/ FlipConfirmed(it)
    PROVE  CatInv'
<1>1. /\ fact' = [fact EXCEPT ![it] = @ + 1] /\ Push(it, fact[it] + 1, "changed") /\ pledged' \subseteq pledged
      /\ UNCHANGED <<record, entity, shown, walk, service, switch, outdated, unheard>>
    BY DEF ItemChanges, FlipConfirmed
<1>2. fact[it] \in Nat
    BY DEF CatInv, CatTypeOK
<1>3. PICK v \in Nat : v = fact[it] + 1
    BY <1>2
<1>4. PICK n \in News : n.it = it /\ n.v = v /\ n.what = "changed" /\ news' = Append(news, n)
    BY <1>1, <1>3, PushIsNews
<1>5. fact' = [fact EXCEPT ![it] = v] /\ v >= fact[it] /\ v > 0
    BY <1>1, <1>2, <1>3
<1> QED BY <1>1, <1>4, <1>5, NewsGrows

(* A program runs.                                                          *)
LEMMA ProgramRunsStep ==
    ASSUME CatInv, NEW it \in Items, ProgramRuns(it)
    PROVE  CatInv'
<1>1. /\ fact[it] > 0 /\ Push(it, fact[it], "executed")
      /\ UNCHANGED <<fact, pledged, record, entity, shown, walk, service, switch, outdated, unheard>>
    BY DEF ProgramRuns
<1>2. fact \in [Items -> Nat]
    BY DEF CatInv, CatTypeOK
<1>3. PICK v \in Nat : v = fact[it]
    BY <1>2
<1>4. PICK n \in News : n.it = it /\ n.v = v /\ n.what = "executed" /\ news' = Append(news, n)
    BY <1>1, <1>3, PushIsNews
<1>5. fact' = [fact EXCEPT ![it] = v] /\ v >= fact[it] /\ v > 0
    BY <1>1, <1>2, <1>3
<1> QED BY <1>1, <1>3, <1>4, <1>5, NewsGrows

(* No object, push or pledge is of an item the daemon does not have yet.    *)
LEMMA ItemAppearsStep ==
    ASSUME CatInv, NEW it \in Items, ItemAppears(it)
    PROVE  CatInv'
<1>1. /\ fact[it] = 0 /\ fact' = [fact EXCEPT ![it] = 1]
      /\ UNCHANGED <<news, record, entity, shown, walk, service, switch, pledged, outdated, unheard>>
    BY DEF ItemAppears
<1>2. CatTypeOK /\ KnownOK /\ NewsOK /\ NewsKnown /\ CatExplained /\ EntitiesTold
    BY DEF CatInv
<1>3. /\ fact' \in [Items -> Nat]
      /\ \A x \in Items : fact[x] > 0 => fact'[x] > 0 /\ fact'[x] = fact[x]
    BY <1>1, <1>2 DEF CatTypeOK
<1>4. PICK s \in Seq(News) : s = news
    BY <1>2 DEF CatTypeOK
<1>5. \A i \in 1 .. Len(s) : s[i].it \in Items /\ fact[s[i].it] > 0
    BY <1>2, <1>4 DEF NewsKnown, News
<1>6. CatTypeOK'
    BY <1>1, <1>2, <1>3 DEF CatTypeOK
<1>7. \A k \in Keys : Known(k) => record[k].it \in Items /\ fact[record[k].it] > 0
    BY <1>2 DEF CatTypeOK, KnownOK, Records, Known
<1>8. KnownOK'
    BY <1>1, <1>2, <1>3, <1>7 DEF KnownOK, Known, CatTypeOK, Spawns
<1>9. ReadersOK'
    BY <1>1, <1>3, ReadersStay
<1>10. NewsOK'
    <2>1. ASSUME NEW i \in 1 .. Len(s)
          PROVE  \/ s[i].what # "changed" \/ s[i].v = fact'[s[i].it]
                 \/ \E j \in i + 1 .. Len(s) : s[j].it = s[i].it /\ s[j].what = "changed"
        BY <1>2, <1>3, <1>4, <1>5 DEF NewsOK
    <2> QED BY <1>1, <1>4, <2>1 DEF NewsOK
<1>11. NewsKnown'
    BY <1>1, <1>3, <1>4, <1>5 DEF NewsKnown
<1>12. CatExplained'
    <2>1. ASSUME NEW k \in Keys \ Ambiguous, Known(k)', NEW x, x = record'[k].it
          PROVE  record'[k].v = fact'[x] \/ k \in outdated' \/ Pushed(x)' \/ WalkMerges(x)'
        <3>1. Known(k) /\ x = record[k].it
            BY <1>1, <2>1 DEF Known
        <3>2. fact'[x] = fact[x]
            BY <1>3, <1>7, <3>1
        <3>3. WalkMerges(x)' = WalkMerges(x) /\ Pushed(x)' = Pushed(x)
            BY <1>1 DEF WalkMerges, Pushed
        <3> QED BY <1>1, <1>2, <3>1, <3>2, <3>3 DEF CatExplained
    <2> QED BY <2>1 DEF CatExplained, WalkMerges, Pushed
<1>13. EntitiesTold'
    BY <1>1, <1>2 DEF EntitiesTold
<1> QED BY <1>6, <1>8, <1>9, <1>10, <1>11, <1>12, <1>13 DEF CatInv

(* Every step keeps the invariant.                                          *)
LEMMA CatStep == CatInv /\ [CatNext]_catVars => CatInv'
<1> SUFFICES ASSUME CatInv, [CatNext]_catVars PROVE CatInv'
    OBVIOUS
<1>1. ASSUME NEW it \in Items, ItemChanges(it) \/ FlipConfirmed(it) PROVE CatInv'
    BY <1>1, ItemChangesStep
<1>2. ASSUME NEW it \in Items, ItemAppears(it) PROVE CatInv'
    BY <1>2, ItemAppearsStep
<1>3. ASSUME NEW it \in Items, ProgramRuns(it) PROVE CatInv'
    BY <1>3, ProgramRunsStep
<1>4. CASE OnSysvarChanged
    BY <1>4, OnSysvarChangedStep
<1>5. CASE OnProgramChanged
    BY <1>5, OnProgramChangedStep
<1>6. CASE OnProgramExecuted
    BY <1>6, OnProgramExecutedStep
<1>7. CASE NewsLost
    BY <1>7, NewsLostStep
<1>8. CASE WalkReads
    BY <1>8, WalkReadsStep
<1>9. CASE WalkReadFails
    BY <1>9, WalkReadFailsStep
<1>10. CASE WalkAttaches
    BY <1>10, WalkAttachesStep
<1>11. CASE WalkAnnounces
    BY <1>11, WalkAnnouncesStep
<1>12. CASE (\E kind \in {"sysvar", "program"} : ServiceBegins(kind)) \/ ServiceReads \/ ServiceFails
    BY <1>12, ServiceReadsStep
<1>13. CASE FetchSysvars
    BY <1>13, FetchSysvarsStep
<1>14. ASSUME NEW s, FetchProgram(s) PROVE CatInv'
    BY <1>14, FetchProgramStep
<1>15. CASE (\E it \in Items : SetProgramEnabled(it)) \/ ProgramRead
    BY <1>15, SwitchReadsStep
<1>16. CASE RefreshProgram
    BY <1>16, RefreshProgramStep
<1>17. CASE UNCHANGED catVars
    <2>1. UNCHANGED <<fact, news, record, entity, shown, walk, service, switch, pledged, outdated, unheard>>
        BY <1>17 DEF catVars
    <2>2. CatTypeOK' /\ NewsOK' /\ NewsKnown' /\ EntitiesTold'
        BY <2>1 DEF CatInv, CatTypeOK, NewsOK, NewsKnown, EntitiesTold
    <2>3. KnownOK'
        BY <2>1 DEF CatInv, KnownOK, Known
    <2>4. ReadersOK'
        BY <2>1, ReadersStay DEF CatInv, CatTypeOK
    <2>5. CatExplained'
        BY <2>1 DEF CatInv, CatExplained, WalkMerges, Pushed, Known
    <2> QED BY <2>2, <2>3, <2>4, <2>5 DEF CatInv
<1> QED BY <1>1, <1>2, <1>3, <1>4, <1>5, <1>6, <1>7, <1>8, <1>9, <1>10, <1>11, <1>12, <1>13, <1>14, <1>15,
           <1>16, <1>17 DEF CatNext

(* With nothing under way an object of the store has the daemon's value and *)
(* link, whichever of the pushes, the walk, the services and the switch's   *)
(* re-read wrote it last, unless an old answer or a failed walk left it     *)
(* outdated or two centrals share its name (store.py, _upsert_sysvar).      *)
THEOREM CatalogueIsExplained == CatSpec => []CatalogueExplained
<1>1. CatInv => CatalogueExplained
    <2> SUFFICES ASSUME CatInv, CatAtRest, NEW k \in Keys \ (outdated \cup Ambiguous), Known(k)
                 PROVE  record[k].v = fact[record[k].it] /\ record[k].link = record[k].it.linked
        BY DEF CatalogueExplained
    <2>1. \A it : ~Pushed(it)
        BY DEF CatAtRest, Pushed
    <2>2. \A it : ~WalkMerges(it)
        BY DEF CatAtRest, WalkMerges, NotRunning
    <2> QED BY <2>1, <2>2 DEF CatInv, KnownOK, CatExplained
<1> QED BY <1>1, CatStarts, CatStep, PTL DEF CatSpec

(* Only this central's variables and programs have entities, and with       *)
(* nothing under way an entity shows its object's value, unless a walk or a *)
(* switch's re-read moved the object without an event or two centrals share *)
(* its name (compat central adapter, the refresh bridge).                   *)
THEOREM EntitiesShowTheirRecords == CatSpec => []EntitiesShowRecords
<1>1. CatInv => EntitiesShowRecords
    BY DEF CatInv, KnownOK, EntitiesTold, EntitiesShowRecords
<1> QED BY <1>1, CatStarts, CatStep, PTL DEF CatSpec
=============================================================================
