---------------------------- MODULE EntityValues ----------------------------
(***************************************************************************)
(* What an entity shows: the class the compat layer builds for a summary   *)
(* of the daemon, and how that class turns the raw values of the store     *)
(* into the value Home Assistant reads.                                    *)
(*                                                                         *)
(* The daemon tells one truth on several planes that arrive one by one:    *)
(* the configuration block of the summary, the state of the custom data    *)
(* point, the generic data points of its channel.  It may leave a key out  *)
(* and writes one value in several forms (an enum as index or as option, a *)
(* boolean as such or as index).  An entity reads the planes in a fixed    *)
(* order of preference and takes the first usable value.                   *)
(*                                                                         *)
(* A raw value is tagged with its JSON type.  Which event makes an entity  *)
(* read again is the matter of EventRouting, which object HA holds that of *)
(* CompatModel.                                                            *)
(***************************************************************************)
EXTENDS Naturals, Sequences, FiniteSets, SequencesExt

CONSTANTS
    MaxReports,   \* bound: changes of the truth
    MaxPresets    \* bound: presets in a thermostat's list

ASSUME ValuesAssumption == {MaxReports, MaxPresets} \subseteq Nat

Absent == [t |-> "absent", v |-> 0]
IntV(n) == [t |-> "int", v |-> n]
BoolV(b) == [t |-> "bool", v |-> IF b THEN 1 ELSE 0]
Decimal(n) == [t |-> "decimal", v |-> n]   \* a number written as a string
Option(n) == [t |-> "option", v |-> n]     \* the text of option n of the value list
Text(n) == [t |-> "text", v |-> n]         \* any other text

-----------------------------------------------------------------------------
(* Classes.                                                                 *)

WritableByType == [BOOL |-> "switch", ENUM |-> "select", FLOAT |-> "number", INTEGER |-> "number",
                   STRING |-> "text"]

(* resolve_generic_class: type and operations.                              *)
ResolveGenericClass(s) ==
    CASE s.write /\ s.type = "ACTION" -> IF s.read THEN "switch" ELSE "button"
      [] s.write /\ s.type # "ACTION" /\ ~s.read ->
           IF s.list # <<>> THEN "action_select"
           ELSE IF s.type \in {"FLOAT", "INTEGER"} THEN "action_number" ELSE "action"
      [] s.write /\ s.type # "ACTION" /\ s.read ->
           IF s.type \in DOMAIN WritableByType THEN WritableByType[s.type] ELSE "text"
      [] ~s.write -> IF s.type = "BOOL" THEN "binary_sensor" ELSE "sensor"

GenericCategories == {"switch", "binary_sensor", "sensor", "select", "text", "number", "action",
                      "button", "action_select", "action_number"}
(* make_generic_data_point: the daemon's category first.                    *)
MakeGeneric(s) == IF s.category \in GenericCategories THEN s.category ELSE ResolveGenericClass(s)

(* resolve_sysvar_class: the extended sysvars are writable.                 *)
ResolveSysvarClass(s) ==
    CASE s.write /\ s.type \in {"ALARM", "LOGIC"} -> "switch"
      [] s.write /\ s.type = "LIST" -> "select"
      [] s.write /\ s.type \in {"FLOAT", "INTEGER"} -> "number"
      [] s.write /\ s.type = "STRING" -> "text"
      [] OTHER -> IF s.type \in {"ALARM", "LOGIC"} THEN "binary_sensor" ELSE "sensor"

(* make_calculated_data_point, synthesize_summary.                          *)
MakeCalculated(s) == IF s.category = "binary_sensor" THEN "binary_sensor" ELSE "sensor"

(* resolve_custom_class: the kind, then the category, then a switch.        *)
KindToClass ==
    [light |-> "light", light_fixed_color |-> "light", light_sound_led |-> "light", cover |-> "cover",
     cover_blind |-> "cover", cover_garage |-> "garage", climate_rf |-> "climate", climate_hmip |-> "climate",
     lock |-> "lock", siren |-> "siren", siren_sound |-> "siren", switch |-> "switch",
     valve_irrigation |-> "valve", text_display |-> "text_display"]
CategoryFallback == {"light", "cover", "climate", "lock", "siren", "switch", "valve", "text_display"}
ResolveCustomClass(s) ==
    IF s.type \in DOMAIN KindToClass THEN KindToClass[s.type]
    ELSE IF s.category \in CategoryFallback THEN s.category ELSE "switch"

-----------------------------------------------------------------------------
(* Generic values.                                                          *)

(* _resolve_enum                                                            *)
ResolveEnum(s, raw) ==
    IF s.type = "ENUM" /\ raw.t = "int" /\ raw.v < Len(s.list) THEN Option(raw.v) ELSE raw

(* The value lists of a binary sensor whose second option means on.         *)
TrueValueByValueList == {<<"CLOSED", "OPEN">>, <<"DRY", "RAIN">>, <<"STABLE", "NOT_STABLE">>}
Known(list) == list \in TrueValueByValueList

(* bool() of a raw value.                                                   *)
Truthy(raw) ==
    CASE raw.t \in {"bool", "int"} -> raw.v # 0
      [] raw.t \in {"decimal", "option", "text"} -> TRUE
      [] raw.t = "absent" -> FALSE

(* DpBinarySensor: the option resolved as for any other sensor.             *)
AsBool_Resolved(s, raw) ==
    IF raw.t = "absent" THEN Absent ELSE BoolV(Truthy(ResolveEnum([s EXCEPT !.type = "ENUM"], raw)))

(* DpBinarySensor._as_bool: an index or option of a known list, else bool().*)
AsBool(s, raw) ==
    CASE raw.t = "absent" -> Absent
      [] raw.t = "bool" -> raw
      [] raw.t \in {"int", "option"} /\ Known(s.list) /\ raw.v < Len(s.list) -> BoolV(raw.v = 1)
      [] OTHER -> BoolV(Truthy(raw))

(* _SysvarEntitySurface.value: int() of the raw value as index of the list. *)
SysvarValue(s, raw) ==
    IF s.list # <<>> /\ raw.t \in {"int", "decimal"} /\ raw.v < Len(s.list)
    THEN Option(raw.v) ELSE raw

(* CombinedDurationDp.value: an index, a letter (Option) or a word    *)
(* (Text) names the unit; a missing one means seconds.                      *)
FactorByUnit(u) ==
    CASE u \in {IntV(1), Option(1), Text(1)} -> 60
      [] u \in {IntV(2), Option(2), Text(2)} -> 3600
      [] OTHER -> 1
Duration(value, unit) == IF value = Absent THEN Absent ELSE IntV(value.v * FactorByUnit(unit))

(* CustomDpDimmer: brightness 0-255 as a truncated percentage, and the two  *)
(* conversions to and from a level, here in thousandths.                    *)
BrightnessPct(b) == (b * 100) \div 255
LevelToBrightness(l) == (l * 255 + 500) \div 1000
BrightnessToLevel(b) == (b * 1000) \div 255

-----------------------------------------------------------------------------
(* Attributes of custom data points: where each is looked for, in order,    *)
(* which values count, and what is shown when none does.                    *)

Attributes ==
    [switch_value |-> [rungs |-> <<"state", "member">>, takes |-> "any", default |-> Absent],
     light_on |-> [rungs |-> <<"state">>, takes |-> "any", default |-> IntV(0)],
     brightness |-> [rungs |-> <<"state">>, takes |-> "number", default |-> Absent],
     cover_closed |-> [rungs |-> <<"state", "position">>, takes |-> "any", default |-> IntV(0)],
     current_temperature |-> [rungs |-> <<"state", "member">>, takes |-> "number", default |-> Absent],
     target_temperature |-> [rungs |-> <<"state", "member">>, takes |-> "number", default |-> Absent],
     current_humidity |-> [rungs |-> <<"state", "member">>, takes |-> "number", default |-> Absent],
     hvac_mode |-> [rungs |-> <<"state">>, takes |-> "any", default |-> IntV(0)],
     min_temp |-> [rungs |-> <<"config", "state">>, takes |-> "nonzero", default |-> IntV(4)],
     modes |-> [rungs |-> <<"config", "state">>, takes |-> "nonempty", default |-> IntV(1)],
     tones |-> [rungs |-> <<"config", "state">>, takes |-> "nonempty", default |-> IntV(0)],
     is_locked |-> [rungs |-> <<"state">>, takes |-> "any", default |-> IntV(0)],
     siren_on |-> [rungs |-> <<"state">>, takes |-> "any", default |-> IntV(0)],
     is_open |-> [rungs |-> <<"state">>, takes |-> "any", default |-> IntV(0)],
     text_options |-> [rungs |-> <<"state">>, takes |-> "nonempty", default |-> IntV(0)]]

Usable(takes, raw) ==
    CASE takes = "any" -> raw # Absent
      [] takes = "number" -> raw.t = "int"
      [] takes \in {"nonzero", "nonempty"} -> raw.t = "int" /\ raw.v # 0

(* The first usable plane, as the properties of the CustomDp* classes read. *)
Rendered(a, planes) ==
    LET at == Attributes[a]
        found == {i \in DOMAIN at.rungs : Usable(at.takes, planes[at.rungs[i]])}
    IN IF found = {} THEN at.default ELSE planes[at.rungs[Min(found)]]

(* BaseCustomDpClimate.profiles: the presets HA has a name for, in the      *)
(* daemon's order, and NONE behind the leading control modes.               *)
KnownPresets(raw) ==
    LET kept == {i \in DOMAIN raw : raw[i] # "unknown"}
    IN [n \in 1 .. Cardinality(kept) |->
            raw[CHOOSE i \in kept : Cardinality({j \in kept : j <= i}) = n]]
ControlBlock == {"boost", "comfort", "eco", "away"}
PresetProfiles(raw) ==
    LET known == KnownPresets(raw)
        ends == {i \in 0 .. Len(known) : /\ \A j \in 1 .. i : known[j] \in ControlBlock
                                         /\ i < Len(known) => known[i + 1] \notin ControlBlock}
    IN IF "none" \in {known[i] : i \in DOMAIN known} THEN known
       ELSE InsertAt(known, Min(ends) + 1, "none")

(* DpUpdate.latest_firmware: the newer version is offered only while one is *)
(* available.                                                               *)
LatestFirmware(ps) ==
    IF ps["status"] = Text(1) /\ ps["available"] # Absent THEN ps["available"] ELSE ps["firmware"]

-----------------------------------------------------------------------------
(* One entity of one of the families, and what the daemon tells about it.   *)

VARIABLES
    summary,  \* what the daemon says of the entity when it is built
    class,    \* the class that was built
    truth,    \* the daemon's value
    planes,   \* the raw values in the store, per plane
    unsent,  \* values on their way, per plane
    written,  \* HA's own value (the override), Absent: none
    reports   \* changes so far

valueVars == <<summary, class, truth, planes, unsent, written, reports>>

Binaries == {[family |-> "binary", category |-> c, type |-> "BOOL", read |-> TRUE, write |-> FALSE, list |-> l] :
                c \in {"none", "binary_sensor"}, l \in {<<>>, <<"CLOSED", "OPEN">>, <<"LOW", "HIGH">>}}
Enums == {[family |-> "enum", category |-> c, type |-> "ENUM", read |-> r, write |-> w, list |-> <<"A", "B", "C">>] :
             c \in {"none", "sensor"}, r \in BOOLEAN, w \in BOOLEAN}
Others == {[family |-> "plain", category |-> "none", type |-> t, read |-> r, write |-> w, list |-> <<>>] :
              t \in {"ACTION", "FLOAT", "STRING", "BOOL"}, r \in BOOLEAN, w \in BOOLEAN}
Sysvars == {[family |-> "sysvar", category |-> "none", type |-> t, read |-> TRUE, write |-> w,
             list |-> IF t = "LIST" THEN <<"A", "B", "C">> ELSE <<>>] : t \in {"LIST", "FLOAT", "LOGIC"}, w \in BOOLEAN}
Calculated == {[family |-> "calculated", category |-> c, type |-> "none", read |-> TRUE, write |-> FALSE, list |-> <<>>] :
                  c \in {"none", "binary_sensor"}}
Durations == {[family |-> "duration", category |-> "none", type |-> "FLOAT", read |-> TRUE, write |-> TRUE, list |-> <<>>]}
Customs == {[family |-> "custom", category |-> c, type |-> k, read |-> TRUE, write |-> TRUE, list |-> <<a>>] :
               c \in {"cover"}, k \in {"climate_rf", "novel"}, a \in DOMAIN Attributes}
Firmware == {[family |-> "update", category |-> "none", type |-> "none", read |-> TRUE, write |-> FALSE, list |-> <<>>]}
Presets == {[family |-> "profiles", category |-> "climate", type |-> "climate_rf", read |-> TRUE, write |-> TRUE, list |-> l] :
               l \in BoundedSeq({"boost", "eco", "week1", "none", "unknown"}, MaxPresets)}
Summaries == Binaries \cup Enums \cup Others \cup Sysvars \cup Calculated \cup Durations \cup Customs
             \cup Firmware \cup Presets

Make(s) ==
    CASE s.family \in {"binary", "enum", "plain"} -> MakeGeneric(s)
      [] s.family = "sysvar" -> ResolveSysvarClass(s)
      [] s.family = "calculated" -> MakeCalculated(s)
      [] s.family = "duration" -> "number"
      [] s.family = "update" -> "update"
      [] s.family \in {"custom", "profiles"} -> ResolveCustomClass(s)

MayOverride == summary.family \in {"binary", "enum", "plain", "calculated"}
PlanesOf(s) ==
    CASE s.family = "duration" -> {"value", "unit"}
      [] s.family = "custom" -> {Attributes[s.list[1]].rungs[i] : i \in DOMAIN Attributes[s.list[1]].rungs}
      [] s.family = "update" -> {"status", "firmware", "available"}
      [] OTHER -> {"member"}

ValuesInit ==
    /\ summary \in Summaries
    /\ class = Make(summary)
    /\ truth = 0
    /\ planes = [p \in PlanesOf(summary) |-> Absent]
    /\ unsent = [p \in {} |-> Absent]
    /\ written = Absent
    /\ reports = 0

-----------------------------------------------------------------------------
(* The daemon.                                                              *)

Truths(s) ==
    CASE s.family \in {"binary", "calculated", "update"} -> 0 .. 1
      [] s.family = "duration" -> {2, 120, 7200}
      [] s.family = "custom" /\ s.list[1] = "brightness" -> {0, 1, 127, 254, 255}
      [] OTHER -> 0 .. 2

(* The forms in which the daemon writes a truth on a plane.                 *)
Forms(s, p, v) ==
    CASE s.family = "binary" ->
           {BoolV(v = 1), IntV(v)} \cup (IF Known(s.list) THEN {Option(v)} ELSE {})
      [] s.family = "enum" -> {IntV(v), Option(v)}
      [] s.family = "calculated" -> IF Make(s) = "binary_sensor" THEN {BoolV(v = 1)} ELSE {IntV(v)}
      [] s.family = "sysvar" ->
           {IntV(v), Decimal(v)} \cup (IF s.list # <<>> THEN {Option(v)} ELSE {})
      [] s.family = "duration" /\ p = "value" -> {IntV(2)}
      [] s.family = "duration" /\ p = "unit" ->
           LET u == CASE v = 2 -> 0 [] v = 120 -> 1 [] v = 7200 -> 2
           IN {IntV(u), Option(u), Text(u)} \cup (IF u = 0 THEN {Absent} ELSE {})
      [] s.family = "custom" ->
           {IntV(v), Absent} \cup (IF Attributes[s.list[1]].takes = "number" THEN {Text(0)} ELSE {})
      [] s.family = "update" ->
           (CASE p = "status" -> {Text(v)} [] p = "firmware" -> {IntV(1)} [] p = "available" -> {IntV(2), Absent})
      [] OTHER -> {IntV(v)}

(* The value changes; the daemon tells it on every plane, one by one.       *)
Report ==
    /\ reports < MaxReports
    /\ DOMAIN unsent = {}
    /\ \E v \in Truths(summary) :
         /\ truth' = v
         /\ unsent' \in [DOMAIN planes -> UNION {Forms(summary, p, v) : p \in DOMAIN planes}]
         /\ \A p \in DOMAIN planes : unsent'[p] \in Forms(summary, p, v)
    /\ reports' = reports + 1
    /\ UNCHANGED <<summary, class, planes, written>>

(* apply_value_changed and _clear_value_override for a generic data point,  *)
(* the replaced state, sysvar value or summary otherwise.                   *)
Arrives ==
    \E p \in DOMAIN unsent :
        /\ planes' = [planes EXCEPT ![p] = unsent[p]]
        /\ unsent' = [o \in DOMAIN unsent \ {p} |-> unsent[o]]
        /\ written' = Absent
        /\ UNCHANGED <<summary, class, truth, reports>>

(* HA sets value: optimistic, or the default it restores.                   *)
UserWrites ==
    /\ MayOverride /\ written = Absent
    /\ \E v \in Truths(summary) : \E f \in Forms(summary, "member", v) : written' = f
    /\ UNCHANGED <<summary, class, truth, planes, unsent, reports>>

ValuesNext == Report \/ Arrives \/ UserWrites
ValuesSpec == ValuesInit /\ [][ValuesNext]_valueVars

-----------------------------------------------------------------------------
(* What HA reads, and what it should.                                       *)

Raw == IF written # Absent THEN written ELSE planes["member"]

(* The value property of the class.                                         *)
Shown ==
    CASE summary.family \in {"binary", "enum", "plain", "calculated"} ->
           IF class = "binary_sensor" THEN AsBool(summary, Raw)
           ELSE IF written # Absent THEN written ELSE ResolveEnum(summary, Raw)
      [] summary.family = "sysvar" -> SysvarValue(summary, planes["member"])
      [] summary.family = "duration" -> Duration(planes["value"], planes["unit"])
      [] summary.family = "custom" -> Rendered(summary.list[1], planes)
      [] summary.family = "update" -> LatestFirmware(planes)
      [] summary.family = "profiles" -> IntV(0)

(* The meaning of a truth, without a look at the raw values.                *)
Meaning ==
    CASE class = "binary_sensor" /\ summary.family # "sysvar" -> BoolV(truth # 0)
      [] summary.list # <<>> /\ summary.family \in {"enum", "sysvar"} -> Option(truth)
      [] summary.family = "update" -> IntV(1 + IF planes["available"] = Absent THEN 0 ELSE truth)
      [] OTHER -> IntV(truth)

Told ==
    CASE summary.family = "custom" ->
           LET at == Attributes[summary.list[1]] IN
           \E i \in DOMAIN at.rungs : Usable(at.takes, planes[at.rungs[i]])
      [] summary.family = "profiles" -> FALSE
      [] OTHER -> TRUE

(* Once everything has arrived; brightness survives the way to a level and  *)
(* back, and only full brightness is 100 %.                                 *)
ValueFits ==
    reports > 0 /\ DOMAIN unsent = {} /\ written = Absent /\ Told =>
        /\ \/ Shown = Meaning
           \/ summary.family = "sysvar" /\ summary.list = <<>> /\ Shown = Decimal(truth)
        /\ summary.list = <<"brightness">> =>
             /\ LevelToBrightness(BrightnessToLevel(truth)) = truth
             /\ BrightnessPct(truth) \in 0 .. 100 /\ (BrightnessPct(truth) = 100 <=> truth = 255)

WriteOnly == {"button", "action", "action_select", "action_number"}
ReadOnly == {"sensor", "binary_sensor"}
ClassFits ==
    summary.family \in {"binary", "enum", "plain", "sysvar"} /\ summary.category = "none" =>
        /\ class \in WriteOnly <=> summary.write /\ ~summary.read
        /\ class \in ReadOnly => ~summary.write
PresetsFit ==
    summary.family = "profiles" =>
        LET ps == PresetProfiles(summary.list)
            known == KnownPresets(summary.list)
        IN IF "none" \in {known[i] : i \in DOMAIN known} THEN ps = known
           ELSE \E i \in DOMAIN ps :
                    /\ ps[i] = "none" /\ RemoveAt(ps, i) = known
                    /\ \A j \in 1 .. i - 1 : ps[j] \in ControlBlock
                    /\ i < Len(ps) => ps[i + 1] \notin ControlBlock

(* Once everything the daemon told has arrived, an entity shows the daemon's *)
(* value, whatever forms and planes it came on; a value HA has written      *)
(* itself is gone by then.  What is offered to HA fits the daemon's         *)
(* description: only a parameter that can be written gets a class that      *)
(* writes, one that can only be written none that shows a value, and the    *)
(* presets of a thermostat are the daemon's, in its order, with NONE behind *)
(* the leading control modes.                                               *)
EntityShowsTruth == ValueFits /\ ClassFits /\ PresetsFit
=============================================================================
