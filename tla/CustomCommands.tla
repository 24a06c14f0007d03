--------------------------- MODULE CustomCommands ---------------------------
(***************************************************************************)
(* Commands of the entities that bundle several parameters of a device:    *)
(* switch, light, cover, blind, garage, climate, lock, siren, valve, text  *)
(* display and the combined duration.                                      *)
(*                                                                         *)
(* A command is a script of operations, each one POST to the daemon.  The  *)
(* await between two of them lets another command of the same entity in,   *)
(* and the first refusal ends the script.  An on-time is staged on the     *)
(* client by a call of its own and taken by the next switch-on; a daemon   *)
(* without bounded switch-on stages it itself.                             *)
(***************************************************************************)
EXTENDS Naturals, Sequences

CONSTANTS
    CdpKinds,      \* entity kinds of the instance
    Callers,    \* commands that may be under way at once
    MaxCalls,   \* bound: commands
    MaxStages,  \* bound: staged on-times
    MaxRefusals \* bound: refused operations

ASSUME CommandAssumption ==
    /\ CdpKinds \subseteq {"switch", "light", "cover", "blind", "garage", "climate", "lock",
                        "siren", "valve", "display", "duration"}
    /\ {MaxCalls, MaxStages, MaxRefusals} \subseteq Nat

NoValue == 0            \* an argument that was not given
Explicit == MaxStages + 1     \* an explicit on-time, unlike every staged one
NonPositive == MaxStages + 2  \* an explicit on-time of zero or less
CallerIdle == [op |-> "idle"]

VARIABLES
    kind,      \* the entity's kind
    bounded,   \* the daemon advertises cdp.bounded_on
    output,    \* the device: value of each aspect
    pending,   \* _pending_on_time: number of the staging, None: nothing staged
    stage,     \* an older daemon's own staged on-time
    doing,     \* each caller's command: request, rest of the script, seconds
    costs,     \* bounds used up
    crossed,   \* history: callers whose command another one overlapped
    missed,    \* history: aspects a command ended without having set
    uses,      \* history: switch-ons each staging has bounded
    dropped,   \* history: stagings a switch-off has dropped
    leaked     \* history: stagings left behind in an older daemon

cmdVars == <<kind, bounded, output, pending, stage, doing, costs, crossed, missed, uses, dropped, leaked>>

CdpAspects == {"power", "timer", "level", "colour", "effect", "position", "tilt",
            "mode", "bolt", "text", "style", "sound", "unit", "value"}

CmdInit ==
    /\ kind \in CdpKinds
    /\ bounded \in BOOLEAN
    /\ output = [a \in CdpAspects |-> IF a = "unit" THEN 60 ELSE NoValue]
    /\ pending = NoValue /\ stage = NoValue
    /\ doing = [c \in Callers |-> CallerIdle]
    /\ costs = [calls |-> 0, stages |-> 0, refusals |-> 0]
    /\ crossed = {} /\ missed = {} /\ dropped = {} /\ leaked = {}
    /\ uses = [n \in 1..MaxStages |-> 0]

-----------------------------------------------------------------------------
(* Requests: what a caller asks for, per kind.  Fields that a kind does not *)
(* take are None.                                                           *)

NoRequest == [op |-> "none", time |-> NoValue, level |-> NoValue, colour |-> NoValue,
              effect |-> NoValue, tilt |-> NoValue, sound |-> NoValue]
Ask(op) == [NoRequest EXCEPT !.op = op]
Timed(op) == {[Ask(op) EXCEPT !.time = t] : t \in {NoValue, NonPositive, Explicit}}

Requests(k) ==
    CASE k = "switch"   -> Timed("turn_on") \cup {Ask("turn_off")}
      [] k = "light"    -> [op : {"turn_on"}, time : {NoValue, NonPositive, Explicit}, level : {NoValue, 1},
                            colour : {NoValue, 2}, effect : {NoValue, 3}, tilt : {NoValue}, sound : {NoValue}]
                             \cup {Ask("turn_off"), [Ask("set_level") EXCEPT !.level = 4]}
      [] k = "cover"    -> {Ask("open"), Ask("close"), Ask("stop"), [Ask("set_position") EXCEPT !.level = 5]}
      [] k = "blind"    -> {[Ask("set_position") EXCEPT !.level = 5, !.tilt = t] : t \in {NoValue, 6}}
                             \cup {Ask("open_tilt"), Ask("close_tilt"), Ask("stop_tilt"), [Ask("set_tilt") EXCEPT !.tilt = 7]}
      [] k = "garage"   -> {Ask("open"), Ask("close"), Ask("stop"), Ask("ventilate")}
      [] k = "climate"  -> {Ask(op) : op \in {"set_temperature", "set_mode", "set_profile", "enable_away", "disable_away"}}
      [] k = "lock"     -> {Ask("lock"), Ask("unlock"), Ask("open")}
      [] k = "siren"    -> {Ask("turn_on"), Ask("turn_off")}
      [] k = "valve"    -> Timed("open") \cup {Ask("close")}
      [] k = "display"  -> {[Ask("send_text") EXCEPT !.level = s, !.sound = n] : s \in {NoValue, 8}, n \in {NoValue, 9}}
                             \cup {Ask("clear")}
      [] k = "duration" -> {[Ask("send_value") EXCEPT !.level = v] : v \in {10, 11}}

SwitchesOn(r) == \/ kind \in {"switch", "light"} /\ r.op = "turn_on"
                 \/ kind = "valve" /\ r.op = "open"
SwitchesOff(r) == \/ kind \in {"switch", "light"} /\ r.op = "turn_off"
                  \/ kind = "valve" /\ r.op = "close"
Plain(r) == r.level = NoValue /\ r.colour = NoValue /\ r.effect = NoValue

-----------------------------------------------------------------------------
(* Scripts.                                                                 *)

(* One operation of the daemon and what it sets.                            *)
Op(name, sets) == [name |-> name, sets |-> sets]
On(seconds) == [power |-> 1, timer |-> seconds]
Off == [power |-> NoValue, timer |-> NoValue]

(* _consume_timer_on_time: explicit before staged, non-positive is none.    *)
Consumed(r) ==
    CASE r.time = NonPositive -> NoValue
      [] r.time = Explicit -> Explicit
      [] OTHER -> pending

SwitchScript(r, seconds) ==
    IF r.op = "turn_off" THEN <<Op("turn_off", Off)>>
    ELSE IF seconds # NoValue THEN <<Op("turn_on_for", On(seconds))>>
    ELSE <<Op("turn_on", On(NoValue))>>

(* Colour or kelvin (one aspect here), then the effect.                     *)
Colouring(r) ==
    (IF r.colour # NoValue THEN <<Op("set_color", [colour |-> r.colour, power |-> 1])>> ELSE <<>>) \o
    (IF r.effect # NoValue THEN <<Op("set_effect", [effect |-> r.effect, power |-> 1])>> ELSE <<>>)
SetLevel(r, seconds) == Op("set_level", [level |-> r.level, power |-> 1, timer |-> seconds])

(* _turn_on_bounded with the timer on the first operation.                  *)
LightScript_TimerFirst(r, seconds) ==
    IF r.op = "turn_off" THEN <<Op("turn_off", Off)>>
    ELSE <<Op("turn_on", On(seconds))>> \o Colouring(r)
         \o (IF r.level # NoValue THEN <<SetLevel(r, NoValue)>> ELSE <<>>)

(* CustomDpDimmer: bounded in the last operation, or, on an older daemon,   *)
(* staged there before a plain switch-on and left out otherwise.            *)
LightScript(r, seconds) ==
    CASE r.op = "turn_off" -> <<Op("turn_off", Off)>>
      [] r.op = "set_level" -> <<SetLevel(r, NoValue)>>
      [] seconds # NoValue /\ bounded ->
           Append(Colouring(r), IF r.level # NoValue THEN SetLevel(r, seconds) ELSE Op("turn_on", On(seconds)))
      [] seconds # NoValue /\ ~bounded /\ Plain(r) ->
           <<Op("set_timer_on_time", [stage |-> seconds]), Op("turn_on", On(NoValue))>>
      [] OTHER ->
           Colouring(r) \o (IF r.level # NoValue THEN <<SetLevel(r, NoValue)>>
                            ELSE IF Plain(r) THEN <<Op("turn_on", On(NoValue))>> ELSE <<>>)

CoverScript(r) ==
    CASE r.op = "set_position" ->
           <<Op("set_position", [position |-> r.level])>> \o
           (IF r.tilt # NoValue THEN <<Op("set_tilt", [tilt |-> r.tilt])>> ELSE <<>>)
      [] r.op = "set_tilt" -> <<Op("set_tilt", [tilt |-> r.tilt])>>
      [] r.op \in {"open_tilt", "close_tilt", "stop_tilt"} -> <<Op(r.op, [tilt |-> r.op])>>
      [] OTHER -> <<Op(r.op, [position |-> r.op])>>

ValveScript(r, seconds) ==
    IF r.op = "close" THEN <<Op("close", Off)>> ELSE <<Op("open", On(seconds))>>

(* send_text: a sound goes without the styling.                             *)
DisplayScript(r) ==
    CASE r.op = "clear" -> <<Op("clear", [text |-> NoValue])>>
      [] r.sound = NoValue -> <<Op("write", IF r.level # NoValue THEN [text |-> 1, style |-> r.level] ELSE [text |-> 1])>>
      [] OTHER -> <<Op("write_with_sound", [text |-> 1, sound |-> r.sound])>>

(* CombinedDurationDp.send_value: the unit, then the value.                 *)
DurationScript(r) == <<Op("set_value", [unit |-> 1]), Op("set_value", [value |-> r.level])>>

(* set_temperature, set_mode, set_profile, away mode: one operation each.   *)
ClimateScript(r) == <<Op(r.op, [mode |-> r.op])>>
LockScript(r) == <<Op(r.op, [bolt |-> r.op])>>
SirenScript(r) == <<Op(r.op, [sound |-> r.op])>>

Script(r, seconds) ==
    CASE kind = "switch" -> SwitchScript(r, seconds)
      [] kind = "light" -> LightScript(r, seconds)
      [] kind \in {"cover", "blind", "garage"} -> CoverScript(r)
      [] kind = "climate" -> ClimateScript(r)
      [] kind = "lock" -> LockScript(r)
      [] kind = "siren" -> SirenScript(r)
      [] kind = "valve" -> ValveScript(r, seconds)
      [] kind = "display" -> DisplayScript(r)
      [] kind = "duration" -> DurationScript(r)

-----------------------------------------------------------------------------
(* What a request is for, said without the script: aspects and values.      *)

Wanted(aspect, value) == IF value = NoValue THEN {} ELSE {<<aspect, value>>}
Goal(r, seconds) ==
    CASE SwitchesOff(r) -> {<<"power", NoValue>>, <<"timer", NoValue>>}
      [] SwitchesOn(r) ->
           {<<"power", 1>>}
             \cup (IF kind = "light" /\ ~bounded /\ ~Plain(r) THEN {} ELSE Wanted("timer", seconds))
             \cup Wanted("level", r.level) \cup Wanted("colour", r.colour) \cup Wanted("effect", r.effect)
      [] r.op = "set_position" -> {<<"position", r.level>>} \cup Wanted("tilt", r.tilt)
      [] r.op = "send_value" -> {<<"unit", 1>>, <<"value", r.level>>}
      [] r.op = "send_text" -> {<<"text", 1>>} \cup Wanted("sound", r.sound)
      [] OTHER -> {}

-----------------------------------------------------------------------------
(* The client.                                                              *)

Busy == {c \in Callers : doing[c] # CallerIdle}

(* set_timer_on_time: synchronous, sends nothing.                           *)
SetTimerOnTime ==
    /\ kind \in {"switch", "light", "valve"} /\ costs.stages < MaxStages
    /\ costs' = [costs EXCEPT !.stages = @ + 1]
    /\ pending' = costs.stages + 1
    /\ UNCHANGED <<kind, bounded, output, stage, doing, crossed, missed, uses, dropped, leaked>>

(* A command starts: it takes or drops the staged on-time and goes up to    *)
(* its first await.                                                         *)
Command(c, r) ==
    /\ doing[c] = CallerIdle /\ costs.calls < MaxCalls
    /\ costs' = [costs EXCEPT !.calls = @ + 1]
    /\ LET seconds == IF SwitchesOn(r) THEN Consumed(r) ELSE NoValue IN
       doing' = [doing EXCEPT ![c] = [op |-> r.op, req |-> r, seconds |-> seconds, rest |-> Script(r, seconds)]]
    /\ pending' = IF SwitchesOn(r) \/ SwitchesOff(r) THEN NoValue ELSE pending
    /\ dropped' = IF SwitchesOff(r) THEN dropped \cup ({pending} \ {NoValue}) ELSE dropped
    /\ crossed' = IF Busy = {} THEN crossed \ {c} ELSE crossed \cup Busy \cup {c}
    /\ UNCHANGED <<kind, bounded, output, stage, missed, uses, leaked>>

(* invoke: the daemon executes the next operation.  A switch-on of an older *)
(* daemon takes its stage.                                                  *)
Invoke(c) ==
    /\ doing[c] # CallerIdle
    /\ LET call == doing[c]
           op == Head(call.rest)
           takes == ~bounded /\ op.name = "turn_on" /\ kind = "light"
           given == IF takes THEN stage ELSE IF "timer" \in DOMAIN op.sets THEN op.sets["timer"] ELSE NoValue
           after == [a \in CdpAspects |-> IF a = "timer" /\ takes THEN stage
                                       ELSE IF a \in DOMAIN op.sets THEN op.sets[a] ELSE output[a]]
           goal == Goal(call.req, call.seconds)
           ends == Len(call.rest) = 1 IN
       /\ output' = after
       /\ stage' = IF op.name = "set_timer_on_time" THEN call.seconds ELSE IF takes THEN NoValue ELSE stage
       /\ doing' = [doing EXCEPT ![c] = IF ends THEN CallerIdle ELSE [call EXCEPT !.rest = Tail(@)]]
       /\ missed' = IF ends /\ c \notin crossed /\ leaked = {}
                    THEN {g[1] : g \in {h \in goal : after[h[1]] # h[2]}} ELSE missed
       /\ uses' = IF given \in DOMAIN uses THEN [uses EXCEPT ![given] = @ + 1] ELSE uses
       /\ leaked' = IF takes /\ stage # NoValue /\ stage # call.seconds THEN leaked \cup {stage} ELSE leaked
    /\ UNCHANGED <<kind, bounded, pending, costs, crossed, dropped>>

(* The daemon refuses: the exception ends the script.  On an older daemon   *)
(* the on-time staged there stays.                                          *)
InvokeFails(c) ==
    /\ doing[c] # CallerIdle /\ costs.refusals < MaxRefusals
    /\ costs' = [costs EXCEPT !.refusals = @ + 1]
    /\ doing' = [doing EXCEPT ![c] = CallerIdle]
    /\ leaked' = IF stage # NoValue /\ stage = doing[c].seconds THEN leaked \cup {stage} ELSE leaked
    /\ UNCHANGED <<kind, bounded, output, pending, stage, crossed, missed, uses, dropped>>

CmdNext ==
    \/ SetTimerOnTime
    \/ \E c \in Callers : Invoke(c) \/ InvokeFails(c) \/ \E r \in Requests(kind) : Command(c, r)

CmdSpec == CmdInit /\ [][CmdNext]_cmdVars

-----------------------------------------------------------------------------
(* Properties.                                                              *)

(* A command no other one overlapped ends with the device in the state it   *)
(* asked for, on-time included, however many operations it took; but for    *)
(* the on-time an older daemon was left with by a command that failed.  A   *)
(* staged on-time bounds one switch-on at most, and none once a switch-off  *)
(* has dropped it; but for an older daemon's own stage, which another       *)
(* command may take.                                                        *)
CommandsTakeEffect ==
    /\ missed = {}
    /\ \A n \in (1..MaxStages) \ leaked : uses[n] <= 1 /\ (n \in dropped => uses[n] = 0)
=============================================================================
