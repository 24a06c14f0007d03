----------------------- MODULE EntityValues_proofs -----------------------
(***************************************************************************)
(* TLAPS proof about what an entity makes of the raw values the daemon     *)
(* tells (EntityValues).  The invariant says that every plane holds, or is *)
(* about to hold, a form of the truth; the rest is data: no form misleads  *)
(* the class that reads it.                                                *)
(***************************************************************************)
EXTENDS EntityValues, SequenceTheorems, FiniteSetTheorems, WellFoundedInduction, TLAPS

-----------------------------------------------------------------------------
(* What a plane holds, or is about to hold.                                 *)
Coming(p) == IF p \in DOMAIN unsent THEN unsent[p] ELSE planes[p]
FormsOK == \A p \in PlanesOf(summary) : Coming(p) \in Forms(summary, p, truth)

ValuesInv ==
    /\ summary \in Summaries /\ class = Make(summary) /\ reports \in Nat
    /\ DOMAIN planes = PlanesOf(summary) /\ DOMAIN unsent \subseteq PlanesOf(summary)
    /\ reports > 0 => truth \in Truths(summary) /\ FormsOK
    /\ reports = 0 => DOMAIN unsent = {}

LEMMA ValuesInitInv == ValuesInit => ValuesInv
<1> SUFFICES ASSUME ValuesInit PROVE ValuesInv
    OBVIOUS
<1>1. DOMAIN planes = PlanesOf(summary) /\ DOMAIN unsent = {} /\ reports = 0
    BY DEF ValuesInit
<1> QED BY <1>1 DEF ValuesInit, ValuesInv

LEMMA ValuesStepInv == ValuesInv /\ [ValuesNext]_valueVars => ValuesInv'
<1> SUFFICES ASSUME ValuesInv, [ValuesNext]_valueVars PROVE ValuesInv'
    OBVIOUS
<1>1. CASE Report
    <2>1. PICK v \in Truths(summary) :
            /\ truth' = v
            /\ unsent' \in [DOMAIN planes -> UNION {Forms(summary, p, v) : p \in DOMAIN planes}]
            /\ \A p \in DOMAIN planes : unsent'[p] \in Forms(summary, p, v)
        BY <1>1 DEF Report
    <2>2. UNCHANGED <<summary, class, planes>> /\ reports' = reports + 1
        BY <1>1 DEF Report
    <2>3. DOMAIN unsent' = PlanesOf(summary)
        BY <2>1 DEF ValuesInv
    <2>4. truth' \in Truths(summary)'
        BY <2>1, <2>2
    <2>5. FormsOK'
        BY <2>1, <2>2, <2>3 DEF FormsOK, Coming, ValuesInv
    <2> QED BY <2>2, <2>3, <2>4, <2>5 DEF ValuesInv
<1>2. CASE Arrives
    <2>1. PICK p \in DOMAIN unsent :
            /\ planes' = [planes EXCEPT ![p] = unsent[p]]
            /\ unsent' = [o \in DOMAIN unsent \ {p} |-> unsent[o]]
            /\ UNCHANGED <<summary, class, truth, reports>>
        BY <1>2 DEF Arrives
    <2>2. DOMAIN planes' = DOMAIN planes /\ DOMAIN unsent' = DOMAIN unsent \ {p}
        BY <2>1
    <2>3. \A o \in PlanesOf(summary) : Coming(o)' = Coming(o)
        BY <2>1, <2>2 DEF Coming, ValuesInv
    <2>4. FormsOK => FormsOK'
        BY <2>1, <2>3 DEF FormsOK
    <2>5. truth \in Truths(summary) => truth' \in Truths(summary)'
        BY <2>1
    <2> QED BY <2>1, <2>2, <2>4, <2>5 DEF ValuesInv
<1>3. CASE UserWrites \/ UNCHANGED valueVars
    <2>1. UNCHANGED <<summary, class, truth, planes, unsent, reports>>
        BY <1>3 DEF UserWrites, valueVars
    <2>2. truth \in Truths(summary) => truth' \in Truths(summary)'
        BY <2>1
    <2>3. FormsOK => FormsOK'
        BY <2>1 DEF FormsOK, Coming
    <2> QED BY <2>1, <2>2, <2>3 DEF ValuesInv
<1> QED BY <1>1, <1>2, <1>3 DEF ValuesNext

LEMMA ValuesInvariance == ValuesSpec => []ValuesInv
BY ValuesInitInv, ValuesStepInv, PTL DEF ValuesSpec

(* The families: class, forms and reading agree.                            *)
LEMMA BinaryFits ==
    ASSUME NEW s \in Binaries, NEW v \in 0 .. 1, NEW raw \in Forms(s, "member", v)
    PROVE  /\ s.family = "binary" /\ Make(s) = "binary_sensor" /\ ~s.write /\ s.read
           /\ AsBool(s, raw) = BoolV(v # 0)
<1>1. /\ s.family = "binary" /\ s.category \in {"none", "binary_sensor"} /\ s.type = "BOOL"
      /\ s.read = TRUE /\ s.write = FALSE
      /\ s.list \in {<<>>, <<"CLOSED", "OPEN">>, <<"LOW", "HIGH">>}
    BY DEF Binaries
<1>2. Make(s) = "binary_sensor"
    <2>1. ResolveGenericClass(s) = "binary_sensor"
        BY <1>1 DEF ResolveGenericClass
    <2>2. MakeGeneric(s) = "binary_sensor"
        BY <1>1, <2>1 DEF MakeGeneric, GenericCategories
    <2> QED BY <1>1, <2>2 DEF Make
<1>3. raw \in {BoolV(v = 1), IntV(v)} \/ (Known(s.list) /\ raw = Option(v))
    BY <1>1 DEF Forms
<1>4. Known(s.list) => Len(s.list) = 2
    BY <1>1 DEF Known, TrueValueByValueList
<1>5. AsBool(s, raw) = BoolV(v # 0)
    <2>1. CASE raw = BoolV(v = 1)
        <3>1. raw.t = "bool" /\ BoolV(v = 1) = BoolV(v # 0)
            BY <2>1 DEF BoolV
        <3> QED BY <2>1, <3>1 DEF AsBool
    <2>2. CASE raw = IntV(v)
        <3>1. raw.t = "int" /\ raw.v = v
            BY <2>2 DEF IntV
        <3>2. CASE Known(s.list)
            <4>1. Len(s.list) = 2
                BY <1>4, <3>2
            <4>2. raw.v < Len(s.list)
                BY <3>1, <4>1
            <4>3. AsBool(s, raw) = BoolV(raw.v = 1)
                BY <3>1, <3>2, <4>2 DEF AsBool
            <4> QED BY <3>1, <4>3 DEF BoolV
        <3>3. CASE ~Known(s.list)
            <4>1. AsBool(s, raw) = BoolV(Truthy(raw))
                BY <3>1, <3>3 DEF AsBool
            <4>2. Truthy(raw) <=> v # 0
                BY <3>1 DEF Truthy
            <4> QED BY <4>1, <4>2 DEF BoolV
        <3> QED BY <3>2, <3>3
    <2>3. CASE Known(s.list) /\ raw = Option(v)
        <3>1. raw.t = "option" /\ raw.v = v
            BY <2>3 DEF Option
        <3>2. Len(s.list) = 2
            BY <1>4, <2>3
        <3>3. raw.v < Len(s.list)
            BY <3>1, <3>2
        <3>4. AsBool(s, raw) = BoolV(raw.v = 1)
            BY <2>3, <3>1, <3>3 DEF AsBool
        <3> QED BY <3>1, <3>4 DEF BoolV
    <2> QED BY <1>3, <2>1, <2>2, <2>3
<1> QED BY <1>1, <1>2, <1>5

LEMMA EnumFits ==
    ASSUME NEW s \in Enums, NEW v \in 0 .. 2, NEW raw \in Forms(s, "member", v)
    PROVE  /\ s.family = "enum" /\ s.list # <<>> /\ Make(s) # "binary_sensor"
           /\ ResolveEnum(s, raw) = Option(v)
           /\ s.category = "none" =>
                /\ Make(s) \in WriteOnly <=> s.write /\ ~s.read
                /\ Make(s) \in ReadOnly => ~s.write
<1>1. /\ s.family = "enum" /\ s.category \in {"none", "sensor"} /\ s.type = "ENUM"
      /\ s.read \in BOOLEAN /\ s.write \in BOOLEAN /\ s.list = <<"A", "B", "C">>
    BY DEF Enums
<1>2. Len(s.list) = 3 /\ s.list # <<>>
    BY <1>1
<1>3. ResolveGenericClass(s) = IF ~s.write THEN "sensor" ELSE IF s.read THEN "select" ELSE "action_select"
    BY <1>1, <1>2 DEF ResolveGenericClass, WritableByType
<1>4. Make(s) = IF s.category = "sensor" THEN "sensor" ELSE ResolveGenericClass(s)
    BY <1>1 DEF Make, MakeGeneric, GenericCategories
<1>5. raw \in {IntV(v), Option(v)}
    BY <1>1 DEF Forms
<1>6. ResolveEnum(s, raw) = Option(v)
    BY <1>1, <1>2, <1>5 DEF ResolveEnum, IntV, Option
<1>7. s.category = "none" => Make(s) = ResolveGenericClass(s)
    BY <1>4
<1>8. Make(s) # "binary_sensor"
    BY <1>1, <1>3, <1>4
<1>9. s.category = "none" => (Make(s) \in WriteOnly <=> s.write /\ ~s.read)
    BY <1>1, <1>3, <1>7 DEF WriteOnly
<1>10. s.category = "none" => (Make(s) \in ReadOnly => ~s.write)
    BY <1>1, <1>3, <1>7 DEF ReadOnly
<1> QED BY <1>1, <1>2, <1>6, <1>8, <1>9, <1>10

LEMMA PlainFits ==
    ASSUME NEW s \in Others, NEW v \in 0 .. 2, NEW raw \in Forms(s, "member", v)
    PROVE  /\ s.family = "plain" /\ s.list = <<>>
           /\ ResolveEnum(s, raw) = IntV(v) /\ AsBool(s, raw) = BoolV(v # 0)
           /\ Make(s) \in WriteOnly <=> s.write /\ ~s.read
           /\ Make(s) \in ReadOnly => ~s.write
<1>1. /\ s.family = "plain" /\ s.category = "none" /\ s.type \in {"ACTION", "FLOAT", "STRING", "BOOL"}
      /\ s.read \in BOOLEAN /\ s.write \in BOOLEAN /\ s.list = <<>>
    BY DEF Others
<1>2. Make(s) = ResolveGenericClass(s)
    BY <1>1 DEF Make, MakeGeneric, GenericCategories
<1>3. /\ Make(s) \in WriteOnly <=> s.write /\ ~s.read
      /\ Make(s) \in ReadOnly => ~s.write
    <2>1. CASE s.write /\ s.type = "ACTION"
        <3>1. Make(s) = IF s.read THEN "switch" ELSE "button"
            BY <1>1, <1>2, <2>1 DEF ResolveGenericClass
        <3> QED BY <2>1, <3>1 DEF WriteOnly, ReadOnly
    <2>2. CASE s.write /\ s.type # "ACTION" /\ ~s.read
        <3>1. Make(s) \in {"action_number", "action"}
            BY <1>1, <1>2, <2>2 DEF ResolveGenericClass
        <3> QED BY <2>2, <3>1 DEF WriteOnly, ReadOnly
    <2>3. CASE s.write /\ s.type # "ACTION" /\ s.read
        <3>1. Make(s) \in {"switch", "number", "text"}
            BY <1>1, <1>2, <2>3 DEF ResolveGenericClass, WritableByType
        <3> QED BY <2>3, <3>1 DEF WriteOnly, ReadOnly
    <2>4. CASE ~s.write
        <3>1. Make(s) \in {"sensor", "binary_sensor"}
            BY <1>1, <1>2, <2>4 DEF ResolveGenericClass
        <3> QED BY <2>4, <3>1 DEF WriteOnly, ReadOnly
    <2> QED BY <2>1, <2>2, <2>3, <2>4
<1>7. raw = IntV(v)
    BY <1>1 DEF Forms
<1>8. ResolveEnum(s, raw) = IntV(v)
    BY <1>1, <1>7 DEF ResolveEnum
<1>9. AsBool(s, raw) = BoolV(v # 0)
    <2>1. ~Known(s.list)
        BY <1>1 DEF Known, TrueValueByValueList
    <2>2. raw.t = "int" /\ raw.v = v
        BY <1>7 DEF IntV
    <2>3. AsBool(s, raw) = BoolV(Truthy(raw)) /\ (Truthy(raw) <=> v # 0)
        BY <2>1, <2>2 DEF AsBool, Truthy
    <2> QED BY <2>3 DEF BoolV
<1> QED BY <1>1, <1>3, <1>8, <1>9

LEMMA SysvarFits ==
    ASSUME NEW s \in Sysvars, NEW v \in 0 .. 2, NEW raw \in Forms(s, "member", v)
    PROVE  /\ s.family = "sysvar"
           /\ SysvarValue(s, raw) = IF s.list # <<>> THEN Option(v) ELSE raw
           /\ s.list = <<>> => raw \in {IntV(v), Decimal(v)}
           /\ Make(s) \notin WriteOnly /\ s.read
           /\ Make(s) \in ReadOnly => ~s.write
<1>1. /\ s.family = "sysvar" /\ s.type \in {"LIST", "FLOAT", "LOGIC"}
      /\ s.read = TRUE /\ s.write \in BOOLEAN /\ s.list \in {<<>>, <<"A", "B", "C">>}
    BY DEF Sysvars
<1>2. Make(s) = ResolveSysvarClass(s)
    BY <1>1 DEF Make
<1>3. s.write => ResolveSysvarClass(s) \in {"switch", "select", "number"}
    BY <1>1 DEF ResolveSysvarClass
<1>4. ~s.write => ResolveSysvarClass(s) \in {"sensor", "binary_sensor"}
    BY <1>1 DEF ResolveSysvarClass
<1>5. Make(s) \notin WriteOnly /\ (Make(s) \in ReadOnly => ~s.write)
    BY <1>1, <1>2, <1>3, <1>4 DEF WriteOnly, ReadOnly
<1>6. raw \in {IntV(v), Decimal(v)} \/ (s.list # <<>> /\ raw = Option(v))
    BY <1>1 DEF Forms
<1>7. s.list # <<>> => Len(s.list) = 3
    BY <1>1
<1>8. SysvarValue(s, raw) = IF s.list # <<>> THEN Option(v) ELSE raw
    <2>1. raw.v = v /\ raw.t \in {"int", "decimal", "option"} /\ (raw.t = "option" => raw = Option(v))
        BY <1>6 DEF IntV, Decimal, Option
    <2>2. CASE s.list = <<>>
        BY <2>2 DEF SysvarValue
    <2>3. CASE s.list # <<>>
        <3>1. Len(s.list) = 3
            BY <1>7, <2>3
        <3>2. raw.v < Len(s.list)
            BY <2>1, <3>1
        <3>3. SysvarValue(s, raw) = IF raw.t \in {"int", "decimal"} THEN Option(raw.v) ELSE raw
            BY <2>3, <3>2 DEF SysvarValue
        <3> QED BY <2>1, <2>3, <3>3
    <2> QED BY <2>2, <2>3
<1> QED BY <1>1, <1>5, <1>6, <1>8

LEMMA CalculatedFits ==
    ASSUME NEW s \in Calculated, NEW v \in 0 .. 1, NEW raw \in Forms(s, "member", v)
    PROVE  /\ s.family = "calculated" /\ s.list = <<>> /\ s.type = "none"
           /\ IF Make(s) = "binary_sensor" THEN AsBool(s, raw) = BoolV(v # 0)
                                           ELSE ResolveEnum(s, raw) = IntV(v)
<1>1. s.family = "calculated" /\ s.list = <<>> /\ s.type = "none"
    BY DEF Calculated
<1>2. raw = IF Make(s) = "binary_sensor" THEN BoolV(v = 1) ELSE IntV(v)
    BY <1>1 DEF Forms
<1> QED BY <1>1, <1>2 DEF AsBool, BoolV, ResolveEnum, IntV

LEMMA DurationFits ==
    ASSUME NEW s \in Durations, NEW v \in {2, 120, 7200},
           NEW raw \in Forms(s, "value", v), NEW unit \in Forms(s, "unit", v)
    PROVE  s.family = "duration" /\ s.list = <<>> /\ Duration(raw, unit) = IntV(v)
<1>1. s.family = "duration" /\ s.list = <<>>
    BY DEF Durations
<1>2. raw = IntV(2)
    BY <1>1 DEF Forms
<1>3. /\ v = 2 => unit \in {IntV(0), Option(0), Text(0), Absent}
      /\ v = 120 => unit \in {IntV(1), Option(1), Text(1)}
      /\ v = 7200 => unit \in {IntV(2), Option(2), Text(2)}
    BY <1>1 DEF Forms
<1>4. raw # Absent /\ raw.v = 2
    BY <1>2 DEF IntV, Absent
<1>5. FactorByUnit(unit) = IF v = 2 THEN 1 ELSE IF v = 120 THEN 60 ELSE 3600
    BY <1>3 DEF FactorByUnit, IntV, Option, Text, Absent
<1>6. Duration(raw, unit) = IntV(raw.v * FactorByUnit(unit))
    BY <1>4 DEF Duration
<1>7. raw.v * FactorByUnit(unit) = v
    BY <1>4, <1>5
<1> QED BY <1>1, <1>6, <1>7

LEMMA UpdateFits ==
    ASSUME NEW s \in Firmware, NEW v \in 0 .. 1, NEW ps,
           \A p \in {"status", "firmware", "available"} : ps[p] \in Forms(s, p, v)
    PROVE  /\ s.family = "update" /\ s.list = <<>>
           /\ LatestFirmware(ps) = IntV(1 + IF ps["available"] = Absent THEN 0 ELSE v)
<1>1. s.family = "update" /\ s.list = <<>>
    BY DEF Firmware
<1>2. ps["status"] = Text(v)
    BY <1>1 DEF Forms
<1>3. ps["firmware"] = IntV(1)
    BY <1>1 DEF Forms
<1>4. ps["available"] \in {IntV(2), Absent}
    BY <1>1 DEF Forms
<1>5. Text(v) = Text(1) <=> v = 1
    BY DEF Text
<1>6. IntV(2) # Absent
    BY DEF IntV, Absent
<1> QED BY <1>1, <1>2, <1>3, <1>4, <1>5, <1>6 DEF LatestFirmware

LEMMA AttributeShape ==
    ASSUME NEW a \in DOMAIN Attributes
    PROVE  /\ Attributes[a].rungs \in {<<"state">>, <<"state", "member">>, <<"state", "position">>,
                                       <<"config", "state">>}
           /\ Attributes[a].takes \in {"any", "number", "nonzero", "nonempty"}
BY DEF Attributes

(* The first usable plane of at most two shows the truth.                   *)
LEMMA CustomFits ==
    ASSUME NEW a \in DOMAIN Attributes, NEW s, s.family = "custom", s.list = <<a>>, NEW v \in Nat, NEW ps,
           \A p \in PlanesOf(s) : ps[p] \in Forms(s, p, v),
           \E i \in DOMAIN Attributes[a].rungs : Usable(Attributes[a].takes, ps[Attributes[a].rungs[i]])
    PROVE  Rendered(a, ps) = IntV(v)
<1> DEFINE at == Attributes[a]
           found == {i \in DOMAIN at.rungs : Usable(at.takes, ps[at.rungs[i]])}
<1>1. PlanesOf(s) = {at.rungs[i] : i \in DOMAIN at.rungs}
    BY DEF PlanesOf
<1>2. ASSUME NEW i \in found PROVE ps[at.rungs[i]] = IntV(v)
    <2>1. ps[at.rungs[i]] \in Forms(s, at.rungs[i], v)
        BY <1>1
    <2>2. ps[at.rungs[i]] \in {IntV(v), Absent} \/ (at.takes = "number" /\ ps[at.rungs[i]] = Text(0))
        BY <2>1 DEF Forms
    <2>3. Usable(at.takes, ps[at.rungs[i]]) /\ at.takes \in {"any", "number", "nonzero", "nonempty"}
        BY AttributeShape
    <2>4. ps[at.rungs[i]] # Absent
        <3>1. CASE at.takes = "any"
            BY <2>3, <3>1 DEF Usable
        <3>2. CASE at.takes # "any"
            <4>1. ps[at.rungs[i]].t = "int"
                BY <2>3, <3>2 DEF Usable
            <4> QED BY <4>1 DEF Absent
        <3> QED BY <3>1, <3>2
    <2>5. at.takes = "number" => ps[at.rungs[i]] # Text(0)
        BY <2>3 DEF Usable, Text
    <2> QED BY <2>2, <2>4, <2>5
<1>3. found \subseteq {1, 2} /\ found # {}
    <2>1. DOMAIN at.rungs \subseteq {1, 2}
        BY AttributeShape
    <2> QED BY <2>1
<1> HIDE DEF found
<1>4. Min(found) \in found
    <2>1. \E x \in found : \A y \in found : x <= y
        <3>1. CASE 1 \in found
            <4>1. \A y \in found : 1 <= y
                BY <1>3
            <4> QED BY <3>1, <4>1
        <3>2. CASE 1 \notin found
            <4>1. found = {2}
                BY <1>3, <3>2
            <4> QED BY <4>1
        <3> QED BY <3>1, <3>2
    <2> QED BY <2>1 DEF Min
<1>5. Rendered(a, ps) = ps[at.rungs[Min(found)]]
    BY <1>3 DEF Rendered, found
<1> QED BY <1>2, <1>4, <1>5

(* Every brightness survives the way to a level and back.                   *)
LEMMA BrightnessFits ==
    ASSUME NEW b \in 0 .. 255
    PROVE  /\ LevelToBrightness(BrightnessToLevel(b)) = b
           /\ BrightnessPct(b) \in 0 .. 100 /\ (BrightnessPct(b) = 100 <=> b = 255)
<1>1. BrightnessPct(b) \in 0 .. 100 /\ (BrightnessPct(b) = 100 <=> b = 255)
    BY DEF BrightnessPct
<1>2. LevelToBrightness(BrightnessToLevel(b)) = b
    BY DEF LevelToBrightness, BrightnessToLevel
<1> QED BY <1>1, <1>2

(* A set of naturals has a least element.                                   *)
LEMMA LeastNatural ==
    ASSUME NEW T, T \subseteq Nat, T # {}
    PROVE  \E x \in T : \A y \in T : x <= y
<1>1. \E x \in T : \A y \in T : ~ (<<y, x>> \in OpToRel(<, Nat))
    BY ONLY NatLessThanWellFounded, WFMin, T \subseteq Nat, T # {}, Zenon
<1>2. ASSUME NEW x \in Nat, NEW y \in Nat, y < x PROVE <<y, x>> \in OpToRel(<, Nat)
    BY <1>2 DEF OpToRel
<1>3. \A x \in Nat, y \in Nat : y < x => <<y, x>> \in OpToRel(<, Nat)
    BY ONLY <1>2, Zenon
<1>4. \E x \in T : \A y \in T : ~ (y < x)
    BY ONLY <1>1, <1>3, T \subseteq Nat, Zenon
<1> QED BY ONLY <1>4, T \subseteq Nat, SMT

(* What an insertion does, and that a removal undoes it.                    *)
LEMMA Inserted ==
    ASSUME NEW S, NEW s \in Seq(S), NEW e \in S, NEW k \in 0 .. Len(s)
    PROVE  LET t == InsertAt(s, k + 1, e)
           IN  /\ t \in Seq(S) /\ Len(t) = Len(s) + 1 /\ t[k + 1] = e
               /\ \A j \in 1 .. k : t[j] = s[j]
               /\ \A j \in k + 1 .. Len(s) : t[j + 1] = s[j]
               /\ RemoveAt(t, k + 1) = s
<1> DEFINE t == InsertAt(s, k + 1, e)
           a == SubSeq(s, 1, k)
           b == SubSeq(s, k + 1, Len(s))
           m == a \o <<e>>
<1>1. Len(s) \in Nat /\ \A i \in 1 .. Len(s) : s[i] \in S
    BY LenProperties
<1>2. a \in Seq(S) /\ Len(a) = k /\ \A i \in 1 .. k : a[i] = s[i]
    BY <1>1, SubSeqProperties
<1>3. b \in Seq(S) /\ Len(b) = Len(s) - k /\ \A i \in 1 .. Len(s) - k : b[i] = s[k + i]
    BY <1>1, SubSeqProperties
<1>4. t = m \o b
    <2>1. (k + 1) - 1 = k
        BY <1>1
    <2> QED BY <2>1 DEF InsertAt
<1> HIDE DEF a, b, t
<1>5. /\ m \in Seq(S) /\ Len(m) = k + 1 /\ m[k + 1] = e
      /\ \A i \in 1 .. k : m[i] = s[i]
    <2>1. <<e>> \in Seq(S) /\ Len(<<e>>) = 1 /\ <<e>>[1] = e
        OBVIOUS
    <2> QED BY <1>2, <2>1, ConcatProperties
<1> HIDE DEF m
<1>6. /\ t \in Seq(S) /\ Len(t) = Len(s) + 1
      /\ \A i \in 1 .. Len(s) + 1 : t[i] = IF i <= k + 1 THEN m[i] ELSE b[i - (k + 1)]
    <2>1. /\ m \o b \in Seq(S) /\ Len(m \o b) = Len(m) + Len(b)
          /\ \A i \in 1 .. Len(m) + Len(b) :
                (m \o b)[i] = IF i <= Len(m) THEN m[i] ELSE b[i - Len(m)]
        BY <1>3, <1>5, ConcatProperties
    <2>2. Len(m) + Len(b) = Len(s) + 1
        BY <1>1, <1>3, <1>5
    <2> QED BY <1>4, <1>5, <2>1, <2>2
<1>7. t[k + 1] = e /\ \A j \in 1 .. k : t[j] = s[j]
    BY <1>1, <1>5, <1>6
<1>8. \A j \in k + 1 .. Len(s) : t[j + 1] = s[j]
    <2> SUFFICES ASSUME NEW j \in k + 1 .. Len(s) PROVE t[j + 1] = s[j]
        OBVIOUS
    <2>1. t[j + 1] = b[j - k] /\ j - k \in 1 .. Len(s) - k
        BY <1>1, <1>6
    <2> QED BY <1>1, <1>3, <2>1
<1>9. RemoveAt(t, k + 1) = s
    <2> DEFINE c == SubSeq(t, 1, k)
               d == SubSeq(t, k + 2, Len(s) + 1)
    <2>1. \A i \in 1 .. Len(s) + 1 : t[i] \in S
        BY <1>6
    <2>2. c \in Seq(S) /\ Len(c) = k /\ \A i \in 1 .. k : c[i] = t[i]
        BY <1>1, <2>1, SubSeqProperties
    <2>3. d \in Seq(S) /\ Len(d) = Len(s) - k /\ \A i \in 1 .. Len(s) - k : d[i] = t[k + 1 + i]
        BY <1>1, <2>1, SubSeqProperties
    <2>4. RemoveAt(t, k + 1) = c \o d
        <3>1. (k + 1) - 1 = k /\ (k + 1) + 1 = k + 2
            BY <1>1
        <3> QED BY <1>6, <3>1 DEF RemoveAt
    <2> HIDE DEF c, d
    <2>5. /\ c \o d \in Seq(S) /\ Len(c \o d) = Len(s)
          /\ \A i \in 1 .. Len(s) : (c \o d)[i] = IF i <= k THEN c[i] ELSE d[i - k]
        <3>1. /\ c \o d \in Seq(S) /\ Len(c \o d) = Len(c) + Len(d)
              /\ \A i \in 1 .. Len(c) + Len(d) :
                    (c \o d)[i] = IF i <= Len(c) THEN c[i] ELSE d[i - Len(c)]
            BY <2>2, <2>3, ConcatProperties
        <3>2. Len(c) + Len(d) = Len(s)
            BY <1>1, <2>2, <2>3
        <3> QED BY <2>2, <3>1, <3>2
    <2>6. ASSUME NEW i \in 1 .. Len(s) PROVE (c \o d)[i] = s[i]
        <3>1. CASE i <= k
            <4>1. i \in 1 .. k /\ (c \o d)[i] = c[i]
                BY <1>1, <2>5, <3>1
            <4>2. c[i] = t[i]
                BY <2>2, <4>1
            <4>3. t[i] = s[i]
                BY <1>7, <4>1
            <4> QED BY <4>1, <4>2, <4>3
        <3>2. CASE i > k
            <4>1. (c \o d)[i] = d[i - k] /\ i - k \in 1 .. Len(s) - k /\ i \in k + 1 .. Len(s)
                BY <1>1, <2>5, <3>2
            <4>2. d[i - k] = t[i + 1]
                BY <1>1, <2>3, <4>1
            <4> QED BY <1>8, <4>1, <4>2
        <3>3. i <= k \/ i > k
            BY <1>1
        <3> QED BY <3>1, <3>2, <3>3
    <2> QED BY <2>4, <2>5, <2>6, SeqEqual
<1> QED BY <1>6, <1>7, <1>8, <1>9 DEF t

LEMMA PresetsFitLists ==
    ASSUME NEW P, NEW raw \in Seq(P)
    PROVE  LET known == KnownPresets(raw)
               ps == PresetProfiles(raw)
           IN  IF "none" \in {known[i] : i \in DOMAIN known} THEN ps = known
               ELSE \E i \in DOMAIN ps :
                        /\ ps[i] = "none" /\ RemoveAt(ps, i) = known
                        /\ \A j \in 1 .. i - 1 : ps[j] \in ControlBlock
                        /\ i < Len(ps) => ps[i + 1] \notin ControlBlock
<1> DEFINE known == KnownPresets(raw)
           ps == PresetProfiles(raw)
           ends == {i \in 0 .. Len(known) : /\ \A j \in 1 .. i : known[j] \in ControlBlock
                                            /\ i < Len(known) => known[i + 1] \notin ControlBlock}
           N == Cardinality({i \in DOMAIN raw : raw[i] # "unknown"})
           S == {known[i] : i \in DOMAIN known} \cup {"none"}
<1>1. N \in Nat
    <2>1. IsFiniteSet(DOMAIN raw)
        <3>1. DOMAIN raw = 1 .. Len(raw) /\ Len(raw) \in Nat
            BY LenProperties
        <3> QED BY <3>1, FS_Interval
    <2> QED BY <2>1, FS_Subset, FS_CardinalityType
<1>2. DOMAIN known = 1 .. N /\ known = [i \in 1 .. N |-> known[i]]
    BY DEF KnownPresets
<1> HIDE DEF N
<1>3. known \in Seq(S) /\ Len(known) = N
    BY <1>1, <1>2
<1>4. PresetProfiles(raw) = IF "none" \in {known[i] : i \in DOMAIN known} THEN known
                            ELSE InsertAt(known, Min(ends) + 1, "none")
    BY DEF PresetProfiles
<1> HIDE DEF known, ps
<1>5. CASE "none" \in {known[i] : i \in DOMAIN known}
    BY <1>4, <1>5 DEF known, ps
<1>6. CASE "none" \notin {known[i] : i \in DOMAIN known}
    <2> DEFINE others == {j \in 1 .. N : known[j] \notin ControlBlock}
    <2>1. ends # {}
        <3>1. CASE others = {}
            <4>1. N \in ends
                BY <1>1, <1>3, <3>1
            <4> QED BY <4>1
        <3>2. CASE others # {}
            <4>1. PICK m \in others : \A y \in others : m <= y
                <5>1. others \subseteq Nat
                    BY <1>1
                <5> HIDE DEF others
                <5> QED BY <3>2, <5>1, LeastNatural
            <4>2. \A j \in 1 .. m - 1 : known[j] \in ControlBlock
                BY <1>1, <4>1
            <4>3. m - 1 \in ends
                BY <1>1, <1>3, <4>1, <4>2
            <4> QED BY <4>3
        <3> QED BY <3>1, <3>2
    <2>2. \E x \in ends : \A y \in ends : x <= y
        <3>1. ends \subseteq Nat
            BY <1>1, <1>3
        <3> HIDE DEF ends
        <3> QED BY <2>1, <3>1, LeastNatural
    <2>3. Min(ends) \in ends
        BY <2>2 DEF Min
    <2> DEFINE k == Min(ends)
    <2>4. /\ k \in 0 .. Len(known) /\ \A j \in 1 .. k : known[j] \in ControlBlock
          /\ k < Len(known) => known[k + 1] \notin ControlBlock
        BY <2>3
    <2>5. ps = InsertAt(known, k + 1, "none")
        BY <1>4, <1>6 DEF ps
    <2> HIDE DEF k
    <2>6. /\ ps \in Seq(S) /\ Len(ps) = N + 1 /\ ps[k + 1] = "none"
          /\ \A j \in 1 .. k : ps[j] = known[j]
          /\ \A j \in k + 1 .. N : ps[j + 1] = known[j]
          /\ RemoveAt(ps, k + 1) = known
        <3>1. "none" \in S
            OBVIOUS
        <3> HIDE DEF S
        <3> DEFINE t == InsertAt(known, k + 1, "none")
        <3>2. /\ t \in Seq(S) /\ Len(t) = Len(known) + 1 /\ t[k + 1] = "none"
              /\ \A j \in 1 .. k : t[j] = known[j]
              /\ \A j \in k + 1 .. Len(known) : t[j + 1] = known[j]
              /\ RemoveAt(t, k + 1) = known
            <4>1. known \in Seq(S)
                BY <1>3
            <4>2. k \in 0 .. Len(known)
                BY <2>4
            <4> QED BY ONLY <3>1, <4>1, <4>2, Inserted, SMTT(30)
        <3>3. ps = t
            BY <2>5
        <3> HIDE DEF t
        <3> QED BY <1>3, <3>2, <3>3
    <2>7. k + 1 \in DOMAIN ps
        BY <1>1, <1>3, <2>4, <2>6
    <2>8. \A j \in 1 .. (k + 1) - 1 : ps[j] \in ControlBlock
        BY <1>1, <1>3, <2>4, <2>6
    <2>9. k + 1 < Len(ps) => ps[(k + 1) + 1] \notin ControlBlock
        BY <1>1, <1>3, <2>4, <2>6
    <2> QED BY <1>6, <2>6, <2>7, <2>8, <2>9 DEF known, ps
<1> QED BY <1>5, <1>6

LEMMA ListsDiffer ==
    <<"brightness">> \notin {<<>>, <<"A", "B", "C">>, <<"CLOSED", "OPEN">>, <<"LOW", "HIGH">>}
<1>1. Len(<<"brightness">>) = 1 /\ Len(<<>>) = 0 /\ Len(<<"A", "B", "C">>) = 3
    OBVIOUS
<1>2. Len(<<"CLOSED", "OPEN">>) = 2 /\ Len(<<"LOW", "HIGH">>) = 2
    OBVIOUS
<1> QED BY <1>1, <1>2

LEMMA ClassesFit == ValuesInv => ClassFits
<1> SUFFICES ASSUME ValuesInv, summary.family \in {"binary", "enum", "plain", "sysvar"}, summary.category = "none"
             PROVE  /\ class \in WriteOnly <=> summary.write /\ ~summary.read
                    /\ class \in ReadOnly => ~summary.write
    BY DEF ClassFits
<1>1. class = Make(summary) /\ summary \in Binaries \cup Enums \cup Others \cup Sysvars
    BY DEF ValuesInv, Summaries, Calculated, Durations, Customs, Firmware, Presets
<1>2. summary.family \in {"binary", "enum", "plain", "sysvar"} => IntV(0) \in Forms(summary, "member", 0)
    BY DEF Forms
<1>3. CASE summary \in Binaries
    <2>1. class = "binary_sensor" /\ ~summary.write
        BY <1>1, <1>2, <1>3, BinaryFits
    <2> QED BY <2>1 DEF WriteOnly
<1>4. CASE summary \in Enums
    BY <1>1, <1>2, <1>4, EnumFits
<1>5. CASE summary \in Others
    BY <1>1, <1>2, <1>5, PlainFits
<1>6. CASE summary \in Sysvars
    BY <1>1, <1>2, <1>6, SysvarFits
<1> QED BY <1>1, <1>3, <1>4, <1>5, <1>6

LEMMA PresetsAreFit == ValuesInv => PresetsFit
<1> SUFFICES ASSUME ValuesInv, summary.family = "profiles" PROVE PresetsFit
    BY DEF PresetsFit
<1> DEFINE P == {"boost", "eco", "week1", "none", "unknown"}
<1>1. summary \in Presets
    BY DEF ValuesInv, Summaries, Binaries, Enums, Others, Sysvars, Calculated, Durations, Customs, Firmware
<1>2. PICK m \in 0 .. MaxPresets : summary.list \in [1 .. m -> P]
    BY <1>1 DEF Presets, BoundedSeq, SeqOf
<1>3. summary.list \in Seq(P)
    BY <1>2, ValuesAssumption
<1> HIDE DEF P
<1> QED BY <1>3, PresetsFitLists DEF PresetsFit

LEMMA ValuesAreFit == ValuesInv => ValueFits
<1> SUFFICES ASSUME ValuesInv, reports > 0, DOMAIN unsent = {}, written = Absent, Told
             PROVE  /\ \/ Shown = Meaning
                       \/ summary.family = "sysvar" /\ summary.list = <<>> /\ Shown = Decimal(truth)
                    /\ summary.list = <<"brightness">> =>
                         /\ LevelToBrightness(BrightnessToLevel(truth)) = truth
                         /\ BrightnessPct(truth) \in 0 .. 100 /\ (BrightnessPct(truth) = 100 <=> truth = 255)
    BY DEF ValueFits
<1>1. /\ class = Make(summary) /\ truth \in Truths(summary)
      /\ \A p \in PlanesOf(summary) : planes[p] \in Forms(summary, p, truth)
    BY DEF ValuesInv, FormsOK, Coming
<1>2. CASE summary \in Binaries
    <2>1. summary.family = "binary"
        BY <1>2 DEF Binaries
    <2>2. truth \in 0 .. 1 /\ "member" \in PlanesOf(summary)
        BY <1>1, <2>1 DEF Truths, PlanesOf
    <2>3. /\ class = "binary_sensor" /\ AsBool(summary, planes["member"]) = BoolV(truth # 0)
        BY <1>1, <1>2, <2>2, BinaryFits
    <2>4. Shown = BoolV(truth # 0) /\ Meaning = BoolV(truth # 0)
        BY <2>1, <2>3 DEF Shown, Raw, Meaning
    <2>5. summary.list # <<"brightness">>
        <3>1. summary.list \in {<<>>, <<"CLOSED", "OPEN">>, <<"LOW", "HIGH">>}
            BY <1>2 DEF Binaries
        <3> QED BY <3>1, ListsDiffer
    <2> QED BY <2>4, <2>5
<1>3. CASE summary \in Enums
    <2>1. summary.family = "enum" /\ summary.list # <<"brightness">>
        BY <1>3 DEF Enums
    <2>2. truth \in 0 .. 2 /\ "member" \in PlanesOf(summary)
        BY <1>1, <2>1 DEF Truths, PlanesOf
    <2>3. /\ class # "binary_sensor" /\ summary.list # <<>>
          /\ ResolveEnum(summary, planes["member"]) = Option(truth)
        BY <1>1, <1>3, <2>2, EnumFits
    <2>4. Shown = Option(truth) /\ Meaning = Option(truth)
        BY <2>1, <2>3 DEF Shown, Raw, Meaning
    <2> QED BY <2>1, <2>4
<1>4. CASE summary \in Others
    <2>1. summary.family = "plain" /\ summary.list = <<>>
        BY <1>4 DEF Others
    <2>2. truth \in 0 .. 2 /\ "member" \in PlanesOf(summary)
        BY <1>1, <2>1 DEF Truths, PlanesOf
    <2>3. /\ ResolveEnum(summary, planes["member"]) = IntV(truth)
          /\ AsBool(summary, planes["member"]) = BoolV(truth # 0)
        BY <1>1, <1>4, <2>2, PlainFits
    <2>4. CASE class = "binary_sensor"
        BY <2>1, <2>3, <2>4 DEF Shown, Raw, Meaning
    <2>5. CASE class # "binary_sensor"
        BY <2>1, <2>3, <2>5 DEF Shown, Raw, Meaning
    <2> QED BY <2>1, <2>4, <2>5
<1>5. CASE summary \in Sysvars
    <2>1. summary.family = "sysvar" /\ summary.list # <<"brightness">>
        <3>1. summary.family = "sysvar" /\ summary.list \in {<<>>, <<"A", "B", "C">>}
            BY <1>5 DEF Sysvars
        <3> QED BY <3>1, ListsDiffer
    <2>2. truth \in 0 .. 2 /\ "member" \in PlanesOf(summary)
        BY <1>1, <2>1 DEF Truths, PlanesOf
    <2>3. /\ SysvarValue(summary, planes["member"]) =
               IF summary.list # <<>> THEN Option(truth) ELSE planes["member"]
          /\ summary.list = <<>> => planes["member"] \in {IntV(truth), Decimal(truth)}
        BY <1>1, <1>5, <2>2, SysvarFits
    <2>4. Shown = IF summary.list # <<>> THEN Option(truth) ELSE planes["member"]
        BY <2>1, <2>3 DEF Shown
    <2>5. Meaning = IF summary.list # <<>> THEN Option(truth) ELSE IntV(truth)
        BY <2>1 DEF Meaning
    <2> QED BY <2>1, <2>3, <2>4, <2>5
<1>6. CASE summary \in Calculated
    <2>1. summary.family = "calculated" /\ summary.list = <<>>
        BY <1>6 DEF Calculated
    <2>2. truth \in 0 .. 1 /\ "member" \in PlanesOf(summary)
        BY <1>1, <2>1 DEF Truths, PlanesOf
    <2>3. IF class = "binary_sensor" THEN AsBool(summary, planes["member"]) = BoolV(truth # 0)
          ELSE ResolveEnum(summary, planes["member"]) = IntV(truth)
        BY <1>1, <1>6, <2>2, CalculatedFits
    <2>4. CASE class = "binary_sensor"
        BY <2>1, <2>3, <2>4 DEF Shown, Raw, Meaning
    <2>5. CASE class # "binary_sensor"
        BY <2>1, <2>3, <2>5 DEF Shown, Raw, Meaning
    <2> QED BY <2>1, <2>4, <2>5
<1>7. CASE summary \in Durations
    <2>1. summary.family = "duration" /\ summary.list = <<>> /\ Make(summary) = "number"
        BY <1>7 DEF Durations, Make
    <2>2. truth \in {2, 120, 7200} /\ {"value", "unit"} \subseteq PlanesOf(summary)
        BY <1>1, <2>1 DEF Truths, PlanesOf
    <2>3. Duration(planes["value"], planes["unit"]) = IntV(truth)
        BY <1>1, <1>7, <2>2, DurationFits
    <2>4. Shown = IntV(truth) /\ Meaning = IntV(truth)
        BY <1>1, <2>1, <2>3 DEF Shown, Meaning
    <2> QED BY <2>1, <2>4
<1>8. CASE summary \in Customs
    <2>1. PICK a \in DOMAIN Attributes : summary.list = <<a>>
        BY <1>8 DEF Customs
    <2>2. summary.family = "custom" /\ summary.category = "cover" /\ summary.type \in {"climate_rf", "novel"}
        BY <1>8 DEF Customs
    <2>3. truth \in Nat /\ (a = "brightness" => truth \in 0 .. 255)
        BY <1>1, <2>1, <2>2 DEF Truths
    <2>4. Rendered(a, planes) = IntV(truth)
        <3>1. \E i \in DOMAIN Attributes[a].rungs : Usable(Attributes[a].takes, planes[Attributes[a].rungs[i]])
            BY <2>1, <2>2 DEF Told
        <3> QED BY <1>1, <2>1, <2>2, <2>3, <3>1, CustomFits
    <2>5. Shown = IntV(truth)
        BY <2>1, <2>2, <2>4 DEF Shown
    <2>6. Meaning = IntV(truth)
        <3>1. class \in {"climate", "cover"}
            BY <1>1, <2>2 DEF Make, ResolveCustomClass, KindToClass, CategoryFallback
        <3> QED BY <2>2, <3>1 DEF Meaning
    <2>7. summary.list = <<"brightness">> => truth \in 0 .. 255
        BY <2>1, <2>3
    <2> QED BY <2>5, <2>6, <2>7, BrightnessFits
<1>9. CASE summary \in Firmware
    <2>1. summary.family = "update" /\ summary.list = <<>> /\ Make(summary) = "update"
        BY <1>9 DEF Firmware, Make
    <2>2. truth \in 0 .. 1 /\ PlanesOf(summary) = {"status", "firmware", "available"}
        BY <1>1, <2>1 DEF Truths, PlanesOf
    <2>3. LatestFirmware(planes) = IntV(1 + IF planes["available"] = Absent THEN 0 ELSE truth)
        BY <1>1, <1>9, <2>2, UpdateFits
    <2>4. Shown = LatestFirmware(planes)
        BY <2>1 DEF Shown
    <2>5. Meaning = IntV(1 + IF planes["available"] = Absent THEN 0 ELSE truth)
        BY <1>1, <2>1 DEF Meaning
    <2> QED BY <2>1, <2>3, <2>4, <2>5
<1>10. CASE summary \in Presets
    <2>1. summary.family = "profiles"
        BY <1>10 DEF Presets
    <2> QED BY <2>1 DEF Told
<1> QED BY <1>2, <1>3, <1>4, <1>5, <1>6, <1>7, <1>8, <1>9, <1>10 DEF ValuesInv, Summaries

(* model/generic, calculated, update and custom: for every number of        *)
(* changes and every length of a thermostat's preset list, an entity shows  *)
(* the daemon's value once all of it has arrived, whatever forms and planes *)
(* it came on, and what HA is offered fits the daemon's description.        *)
THEOREM EntitiesShowTheTruth == ValuesSpec => []EntityShowsTruth
<1>1. ValuesInv => EntityShowsTruth
    BY ValuesAreFit, ClassesFit, PresetsAreFit DEF EntityShowsTruth
<1> QED BY <1>1, ValuesInvariance, PTL
=============================================================================
