----------------------------- MODULE AlarmPanels -----------------------------
(***************************************************************************)
(* The alarm panels: one per zone of the daemon's alarm engine and, from   *)
(* the second zone on, the master.                                         *)
(*                                                                         *)
(* Pushes create, change and remove panels one at a time; the walk after a *)
(* loss replaces the catalogue (GET /alarm/panels), then the zone detail   *)
(* (GET /alarm/state), then offers HA what it does not hold yet.  HA keeps *)
(* the object it was offered until it is told of its removal.  A command   *)
(* to the master goes to the zones one after the other.                    *)
(*                                                                         *)
(* A zone's value counts its transitions: disarmed, arming, armed and      *)
(* round again.  A countdown runs while it is arming.                      *)
(***************************************************************************)
EXTENDS Naturals, Sequences, FiniteSets

CONSTANTS
    Zones,       \* zones the alarm engine may have
    FirstZones,  \* zones it has at start
    Master,      \* the aggregate panel
    MaxAlarms,   \* bound: transitions, creations and deletions
    MaxOutages,  \* bound: losses of pushes
    MaxCommands  \* bound: commands to the master

ASSUME PanelAssumption ==
    /\ FirstZones \subseteq Zones /\ Master \notin Zones
    /\ {MaxAlarms, MaxOutages, MaxCommands} \subseteq Nat

Panels == Zones \cup {Master}
Absent == 0
NoObject == [n |-> 0, state |-> Absent, countdown |-> 0, modes |-> FALSE]

VARIABLES
    zone,       \* the daemon's zones: transitions so far, Absent: no such zone
    wires,      \* undelivered alarm.* pushes
    panel,      \* the store's object of each panel
    built,      \* objects built so far, per panel
    held,       \* number of the object HA's entity holds, 0: no entity
    announced,  \* _announced_alarm_panel_ids
    sweep,      \* stage of the walk and the answer it has
    fan,        \* zones the running master command has still to reach
    unasked,    \* zones a master command never reached
    spent,      \* bounds used up
    overtaken,       \* history: panels an old answer has overwritten
    ghosts      \* history: panels a walk has dropped

panelVars == <<zone, wires, panel, built, held, announced, sweep, fan, unasked, spent, overtaken, ghosts>>

Counting(v) == v % 3 = 1
NextDisarmed(v) == v + 3 - (v % 3)
ZonesNow == {z \in Zones : zone[z] # Absent}
HasMaster(zs) == Cardinality(zs) >= 2
PanelsOf(zs) == zs \cup (IF HasMaster(zs) THEN {Master} ELSE {})
IdleSweep == [at |-> "idle", ans |-> <<>>]

(* start() has walked the alarm catalogue and announced it.                 *)
PanelInit ==
    /\ zone = [z \in Zones |-> IF z \in FirstZones THEN 3 ELSE Absent]
    /\ wires = <<>>
    /\ panel = [p \in Panels |-> IF p \in PanelsOf(FirstZones)
                                 THEN [n |-> 1, state |-> 3, countdown |-> 0, modes |-> TRUE]
                                 ELSE NoObject]
    /\ built = [p \in Panels |-> IF p \in PanelsOf(FirstZones) THEN 1 ELSE 0]
    /\ held = built
    /\ announced = PanelsOf(FirstZones)
    /\ sweep = IdleSweep
    /\ fan = {} /\ unasked = {}
    /\ spent = [alarms |-> 0, outages |-> 0, commands |-> 0]
    /\ overtaken = {} /\ ghosts = {}

-----------------------------------------------------------------------------
(* The daemon.                                                              *)

PanelPush(p, v) == [t |-> "panel", p |-> p, v |-> v]
Removal(p) == [t |-> "removed", p |-> p, v |-> Absent]
(* What a transition broadcasts: the panel, the zone detail and, when a     *)
(* countdown begins, its first tick.                                        *)
TransitionPushes(z, v) ==
    <<PanelPush(z, v), [t |-> "state", p |-> z, v |-> v]>> \o
    (IF Counting(v) THEN <<[t |-> "tick", p |-> z, v |-> v]>> ELSE <<>>)

ZoneMoves(z) ==
    /\ zone[z] # Absent /\ spent.alarms < MaxAlarms
    /\ spent' = [spent EXCEPT !.alarms = @ + 1]
    /\ \E v \in {zone[z] + 1, NextDisarmed(zone[z])} :
         /\ v % 3 = 0 => zone[z] % 3 # 0
         /\ zone' = [zone EXCEPT ![z] = v]
         /\ wires' = wires \o TransitionPushes(z, v)
    /\ UNCHANGED <<panel, built, held, announced, sweep, fan, unasked, overtaken, ghosts>>

(* The master comes with the second zone and goes with it.                  *)
ZoneCreated(z) ==
    /\ zone[z] = Absent /\ spent.alarms < MaxAlarms
    /\ spent' = [spent EXCEPT !.alarms = @ + 1]
    /\ LET v == 3 * (1 + built[z]) IN
       /\ zone' = [zone EXCEPT ![z] = v]
       /\ wires' = wires \o <<PanelPush(z, v)>> \o
                   (IF Cardinality(ZonesNow) = 1 THEN <<PanelPush(Master, 3)>> ELSE <<>>)
    /\ UNCHANGED <<panel, built, held, announced, sweep, fan, unasked, overtaken, ghosts>>

ZoneDeleted(z) ==
    /\ zone[z] # Absent /\ spent.alarms < MaxAlarms
    /\ spent' = [spent EXCEPT !.alarms = @ + 1]
    /\ zone' = [zone EXCEPT ![z] = Absent]
    /\ wires' = wires \o <<Removal(z)>> \o
                (IF Cardinality(ZonesNow) = 2 THEN <<Removal(Master)>> ELSE <<>>)
    /\ UNCHANGED <<panel, built, held, announced, sweep, fan, unasked, overtaken, ghosts>>

-----------------------------------------------------------------------------
(* Pushes: bridge, refresh bridge, adapter, in this order.                  *)

Delivering(t) == wires # <<>> /\ Head(wires).t = t /\ wires' = Tail(wires)

(* _build_alarm_panel, _register_alarm_panel                                *)
Register(p, v, modes) ==
    /\ built' = [built EXCEPT ![p] = @ + 1]
    /\ panel' = [panel EXCEPT ![p] = [n |-> built[p] + 1, state |-> v, countdown |-> 0, modes |-> modes]]

(* A net-new panel goes to HA, which refuses a second entity of an id.      *)
Offer(ps) == held' = [p \in Panels |-> IF p \in ps /\ held[p] = 0 THEN panel'[p].n ELSE held[p]]

(* apply_alarm_panel_changed (an unknown panel becomes a stub without       *)
(* modes) and _on_alarm_panel_changed.                                      *)
OnPanelChanged ==
    /\ Delivering("panel")
    /\ LET p == Head(wires).p  v == Head(wires).v IN
       /\ IF panel[p].n = 0 THEN Register(p, v, FALSE)
          ELSE panel' = [panel EXCEPT ![p].state = v] /\ UNCHANGED built
       /\ Offer({p} \ announced)
       /\ announced' = announced \cup {p}
    /\ UNCHANGED <<zone, sweep, fan, unasked, spent, overtaken, ghosts>>

(* The store drops the panel, HA removes its entity, the id may be          *)
(* announced again.                                                         *)
OnPanelRemoved ==
    /\ Delivering("removed")
    /\ panel' = [panel EXCEPT ![Head(wires).p] = NoObject]
    /\ held' = [held EXCEPT ![Head(wires).p] = 0]
    /\ announced' = announced \ {Head(wires).p}
    /\ UNCHANGED <<zone, built, sweep, fan, unasked, spent, overtaken, ghosts>>

(* apply_alarm_state_changed without the end of the countdown.              *)
OnStateChanged_KeepsCountdown ==
    /\ Delivering("state")
    /\ UNCHANGED <<zone, panel, built, held, announced, sweep, fan, unasked, spent, overtaken, ghosts>>

(* apply_alarm_state_changed: any state but arming ends the countdown; the  *)
(* daemon stops ticking without saying so.                                  *)
OnStateChanged ==
    /\ Delivering("state")
    /\ LET p == Head(wires).p IN
       panel' = IF panel[p].n = 0 \/ Counting(Head(wires).v) THEN panel
                ELSE [panel EXCEPT ![p].countdown = 0]
    /\ UNCHANGED <<zone, built, held, announced, sweep, fan, unasked, spent, overtaken, ghosts>>

(* apply_alarm_countdown                                                    *)
OnCountdown ==
    /\ Delivering("tick")
    /\ LET p == Head(wires).p IN
       panel' = IF panel[p].n = 0 THEN panel ELSE [panel EXCEPT ![p].countdown = Head(wires).v]
    /\ UNCHANGED <<zone, built, held, announced, sweep, fan, unasked, spent, overtaken, ghosts>>

-----------------------------------------------------------------------------
(* The walk.                                                                *)

(* A loss drops what is under way; the client walks again.                  *)
AlarmStreamLost ==
    /\ sweep = IdleSweep /\ spent.outages < MaxOutages
    /\ spent' = [spent EXCEPT !.outages = @ + 1]
    /\ wires' = <<>>
    /\ sweep' = [at |-> "panels", ans |-> <<>>]
    /\ UNCHANGED <<zone, panel, built, held, announced, fan, unasked, overtaken, ghosts>>

SweepAnswered ==
    /\ sweep.at \in {"panels", "statuses"} /\ sweep.ans = <<>>
    /\ sweep' = [sweep EXCEPT !.ans = <<zone>>]
    /\ UNCHANGED <<zone, wires, panel, built, held, announced, fan, unasked, spent, overtaken, ghosts>>

Listed == {z \in Zones : sweep.ans[1][z] # Absent}

(* attach_alarm_panels: in place for what exists, built for what is new,    *)
(* dropped for what the answer does not name.  No announcement and no       *)
(* removal goes with it.                                                    *)
AttachAlarmPanels ==
    /\ sweep.at = "panels" /\ sweep.ans # <<>>
    /\ LET incoming == PanelsOf(Listed)
           value(p) == IF p = Master THEN 3 ELSE sweep.ans[1][p]
           dropped == {p \in Panels : panel[p].n # 0 /\ p \notin incoming} IN
       /\ panel' = [p \in Panels |->
                      IF p \notin incoming THEN NoObject
                      ELSE IF panel[p].n # 0 THEN [panel[p] EXCEPT !.state = value(p), !.modes = TRUE]
                      ELSE [n |-> built[p] + 1, state |-> value(p), countdown |-> 0, modes |-> TRUE]]
       /\ built' = [p \in Panels |-> IF p \in incoming /\ panel[p].n = 0 THEN built[p] + 1 ELSE built[p]]
       /\ ghosts' = ghosts \cup dropped \cup {p \in incoming : p \in Zones /\ zone[p] = Absent}
       /\ overtaken' = overtaken \cup dropped \cup {z \in Zones : sweep.ans[1][z] # zone[z]}
       /\ sweep' = [at |-> IF incoming = {} THEN "announce" ELSE "statuses", ans |-> <<>>]
    /\ UNCHANGED <<zone, wires, held, announced, fan, unasked, spent>>

(* attach_alarm_zone_statuses                                               *)
AttachZoneStatuses ==
    /\ sweep.at = "statuses" /\ sweep.ans # <<>>
    /\ panel' = [p \in Panels |->
                   IF p = Master \/ p \notin Listed \/ panel[p].n = 0 THEN panel[p]
                   ELSE [panel[p] EXCEPT !.countdown = IF Counting(sweep.ans[1][p]) THEN sweep.ans[1][p] ELSE 0]]
    /\ overtaken' = overtaken \cup {z \in Zones : sweep.ans[1][z] # zone[z]}
    /\ sweep' = [at |-> "announce", ans |-> <<>>]
    /\ UNCHANGED <<zone, wires, built, held, announced, fan, unasked, spent, ghosts>>

(* _emit_data_points_created: the panels HA has not registered.             *)
SweepAnnounces ==
    /\ sweep.at = "announce"
    /\ LET new == {p \in Panels : panel[p].n # 0 /\ held[p] # panel[p].n} IN
       /\ panel' = panel
       /\ Offer(new)
       /\ announced' = announced \cup new
    /\ sweep' = IdleSweep
    /\ UNCHANGED <<zone, wires, built, fan, unasked, spent, overtaken, ghosts>>

-----------------------------------------------------------------------------
(* Commands.                                                                *)

(* AlarmPanel.arm / disarm of the master: the zones it will ask, of which   *)
(* arm leaves out those that do not offer the mode.                         *)
MasterCommand(arm) ==
    /\ held[Master] # 0 /\ panel[Master].n = held[Master]
    /\ fan = {} /\ spent.commands < MaxCommands
    /\ spent' = [spent EXCEPT !.commands = @ + 1]
    /\ fan' = {[z |-> z, arm |-> arm] : z \in {x \in Zones : panel[x].n # 0 /\ (arm => panel[x].modes)}}
    /\ UNCHANGED <<zone, wires, panel, built, held, announced, sweep, unasked, overtaken, ghosts>>

(* arm_alarm_zone, disarm_alarm_zone: the daemon executes ...               *)
ZoneCommanded(c) ==
    /\ fan' = fan \ {c}
    /\ zone[c.z] # Absent
    /\ LET moves == (c.arm <=> zone[c.z] % 3 = 0)
           v == IF c.arm THEN zone[c.z] + 1 ELSE NextDisarmed(zone[c.z]) IN
       /\ zone' = IF moves THEN [zone EXCEPT ![c.z] = v] ELSE zone
       /\ wires' = IF moves THEN wires \o TransitionPushes(c.z, v) ELSE wires
    /\ UNCHANGED <<panel, built, held, announced, sweep, unasked, spent, overtaken, ghosts>>

(* ... or refuses (code, readiness, unknown zone); the exception leaves the *)
(* loop.                                                                    *)
ZoneRefuses(c) ==
    /\ fan' = {}
    /\ unasked' = unasked \cup {d.z : d \in fan \ {c}}
    /\ UNCHANGED <<zone, wires, panel, built, held, announced, sweep, spent, overtaken, ghosts>>

-----------------------------------------------------------------------------
PanelNext ==
    \/ \E z \in Zones : ZoneMoves(z) \/ ZoneCreated(z) \/ ZoneDeleted(z)
    \/ OnPanelChanged \/ OnPanelRemoved \/ OnStateChanged \/ OnCountdown
    \/ AlarmStreamLost \/ SweepAnswered \/ AttachAlarmPanels \/ AttachZoneStatuses \/ SweepAnnounces
    \/ \E arm \in BOOLEAN : MasterCommand(arm)
    \/ \E c \in fan : ZoneCommanded(c) \/ ZoneRefuses(c)

PanelSpec == PanelInit /\ [][PanelNext]_panelVars

-----------------------------------------------------------------------------
(* Properties.                                                              *)

PanelsAtRest == wires = <<>> /\ sweep = IdleSweep

(* With everything delivered, the panels are those of the daemon, each with *)
(* its zone's state, and a countdown is shown exactly while one runs; but   *)
(* for panels a walk overwrote with an answer older than a push.  HA's      *)
(* entity of a panel is the object the pushes reach, through deletion and   *)
(* re-creation of zones and of the master; but for panels that disappeared  *)
(* during an outage: a walk drops them without telling HA.                  *)
PanelsFollowZones ==
    PanelsAtRest =>
        /\ \A z \in Zones \ overtaken :
            /\ panel[z].n # 0 <=> zone[z] # Absent
            /\ panel[z].n # 0 => panel[z].state = zone[z]
            /\ panel[z].countdown # 0 <=> zone[z] # Absent /\ Counting(zone[z])
        /\ \A p \in Panels \ ghosts : held[p] = panel[p].n

(* AlarmPanel.disarm calls itself best-effort over every zone: a zone that  *)
(* refuses does not keep the command from the others.                       *)
MasterIsBestEffort == unasked = {}
=============================================================================
