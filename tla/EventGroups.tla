---------------------------- MODULE EventGroups ----------------------------
(***************************************************************************)
(* The event side of one channel: the trigger sources the daemon declares, *)
(* the event groups built over them (event_group.py), the cache that keeps *)
(* one object per group (_QueryFacade), the entity Home Assistant holds on *)
(* that object, and the triggers the refresh bridge records on it.         *)
(*                                                                         *)
(* Declarations and usage verdicts change with catalogue reads and         *)
(* un-ignore edits; announcements, entity removals and triggers interleave *)
(* with them.                                                              *)
(***************************************************************************)
EXTENDS Naturals, Sequences, FiniteSets

CONSTANTS Params,        \* parameters of the channel
          Emitting,      \* those that emit events
          Declarations,  \* the declarations the daemon may send: flavour |-> parameters
          MaxObjects     \* groups built, for the bound

ASSUME EventAssumption ==
    /\ Emitting \subseteq Params
    /\ MaxObjects \in Nat

VARIABLES declared, \* ChannelSummary.event_groups
          usage,    \* DataPointSummary.usage of each parameter
          objects,  \* every ChannelEventGroup built, in the order built
          cache,    \* _QueryFacade._event_groups: flavour |-> object, 0 for none
          entities,     \* the object Home Assistant's entity holds per flavour, 0 for none
          fired     \* the last trigger of each flavour since its group exists

egVars == <<declared, usage, objects, cache, entities, fired>>

\* _TRIGGER_SHORT / _TRIGGER_BY_KIND: the flavours this client models.
Modelled == {"keypress", "impulse", "device_error"}
Flavours == Modelled \union {"future"}
NoTrigger == "none"

\* _trigger_type: the member named by a trigger's token, keypress for any other.
TriggerType(token) == IF token \in Modelled THEN token ELSE "keypress"

(***************************************************************************)
(* Groups                                                                  *)
(***************************************************************************)
\* build_event_groups: the members of one flavour that emit and are not
\* suppressed; a flavour that is not modelled, and a group without members,
\* is not built.
Members(kind) ==
    {p \in declared[kind] \cap Emitting : usage[p] \notin {"no_create", "ignored"}}

Built == {kind \in Modelled \cap DOMAIN declared : Members(kind) # {}}

NewGroup(kind) == [kind |-> kind, events |-> Members(kind), registered |-> FALSE,
                   last |-> NoTrigger]

\* get_event_groups: every group built now, by the object cached under its
\* unique_id; the first one built stays.
Scanned_Rebuilds(kind) == Len(objects) + 1

Scanned(kind) == IF cache[kind] # 0 THEN cache[kind] ELSE Len(objects) + 1

\* The scan behind an announcement, for one group; the entity Home Assistant
\* spawns for a group that is not registered registers it.
Announce ==
    \E kind \in Built :
        LET o == Scanned(kind)
            objs == IF o \in DOMAIN objects THEN objects ELSE Append(objects, NewGroup(kind))
        IN  /\ Len(objs) <= MaxObjects
            /\ cache' = [cache EXCEPT ![kind] = o]
            /\ IF objs[o].registered
               THEN objects' = objs /\ UNCHANGED entities
               ELSE /\ objects' = [objs EXCEPT ![o].registered = TRUE]
                    /\ entities' = [entities EXCEPT ![kind] = IF @ = 0 THEN o ELSE @]
    /\ UNCHANGED <<declared, usage, fired>>

\* A platform scans without announcing: get_event_groups(registered=None).
Scan ==
    \E kind \in Built :
        LET o == Scanned(kind)
        IN  /\ o <= MaxObjects
            /\ cache' = [cache EXCEPT ![kind] = o]
            /\ objects' = IF o \in DOMAIN objects THEN objects
                          ELSE Append(objects, NewGroup(kind))
    /\ UNCHANGED <<declared, usage, entities, fired>>

\* Home Assistant removes the entity: unregister().
EntityRemoved ==
    \E kind \in Modelled :
        /\ entities[kind] # 0
        /\ objects' = [objects EXCEPT ![entities[kind]].registered = FALSE]
        /\ entities' = [entities EXCEPT ![kind] = 0]
    /\ UNCHANGED <<declared, usage, cache, fired>>

\* find_event_group: by channel and trigger type, over the cache only.
FindEventGroup(kind) == cache[kind]

\* on_trigger: the bus event goes out first, then the group records the
\* trigger and its entity is pinged.
Trigger ==
    \E token \in Flavours, p \in Params :
        LET o == FindEventGroup(TriggerType(token))
        IN  /\ token \in DOMAIN declared
            /\ p \in declared[token] \cap Emitting
            /\ o # 0
            /\ objects' = [objects EXCEPT ![o].last = p]
            /\ fired' = [fired EXCEPT ![TriggerType(token)] = p]
    /\ UNCHANGED <<declared, usage, cache, entities>>

(***************************************************************************)
(* Catalogue reads and un-ignore edits                                     *)
(***************************************************************************)
Redeclared ==
    /\ declared' \in Declarations
    /\ UNCHANGED <<usage, objects, cache, entities, fired>>

UsageChanged ==
    \E p \in Params, u \in {"event", "no_create", "ignored"} :
        usage' = [usage EXCEPT ![p] = u]
    /\ UNCHANGED <<declared, objects, cache, entities, fired>>

EventInit ==
    /\ declared \in Declarations
    /\ usage = [p \in Params |-> "event"]
    /\ objects = <<>>
    /\ cache = [k \in Modelled |-> 0]
    /\ entities = [k \in Modelled |-> 0]
    /\ fired = [k \in Modelled |-> NoTrigger]

EventNext ==
    \/ Announce \/ Scan \/ EntityRemoved \/ Trigger \/ Redeclared \/ UsageChanged

EventSpec == EventInit /\ [][EventNext]_egVars

-----------------------------------------------------------------------------
\* The entity Home Assistant holds shows the last trigger of its flavour:
\* scans, announcements and catalogue reads in between never leave it on an
\* object the triggers no longer reach (get_event_groups, find_event_group,
\* on_trigger).
EntityHearsTriggers ==
    \A k \in Modelled : entities[k] # 0 => objects[entities[k]].last = fired[k]
=============================================================================
