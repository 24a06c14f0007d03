------------------------------ MODULE Hub_proofs ------------------------------
(***************************************************************************)
(* TLAPS proofs about the alarm panels (AlarmPanels) and the hub's         *)
(* singletons (HubSingletons): the store's panels follow the daemon's      *)
(* zones, HA's entities follow the store's panels, and a singleton shows   *)
(* the daemon's value unless a named event excuses it; and one fetch that  *)
(* nothing disturbs repairs whatever was missed.                           *)
(*                                                                         *)
(* AlarmPanels.  Pushes are applied blindly and in order, so what matters  *)
(* of a queue is the last push about a zone.  The invariant says that it   *)
(* carries the zone's present state, and that a panel which is not up to   *)
(* date has such a push, or the walk, still before it.                     *)
(***************************************************************************)
EXTENDS AlarmPanels, HubSingletons, SequenceTheorems, FiniteSetTheorems, TLAPS

PanelObjects == [n : Nat, state : Nat, countdown : Nat, modes : BOOLEAN]
Pushes == [t : {"panel", "removed", "state", "tick"}, p : Panels, v : Nat]
ZoneValues == [Zones -> Nat]
Sweeps == [at : {"idle", "panels", "statuses", "announce"},
           ans : {<<>>} \cup {<<f>> : f \in ZoneValues}]

PanelTypeOK ==
    /\ zone \in ZoneValues
    /\ wires \in Seq(Pushes)
    /\ panel \in [Panels -> PanelObjects]
    /\ built \in [Panels -> Nat]
    /\ held \in [Panels -> Nat]
    /\ announced \subseteq Panels
    /\ sweep \in Sweeps
    /\ fan \subseteq [z : Zones, arm : BOOLEAN]

(* The pushes that decide whether a panel is there and what it shows, and   *)
(* those of them that leave it as the zone is now.                          *)
Decides(z, i) == wires[i].p = z /\ wires[i].t \in {"panel", "removed"}
Settles(z, i) ==
    /\ wires[i].p = z
    /\ IF zone[z] = Absent THEN wires[i].t = "removed"
       ELSE wires[i].t = "panel" /\ wires[i].v = zone[z]

(* The same of the countdown.                                               *)
Runs(z) == zone[z] # Absent /\ Counting(zone[z])
Ends(i) == wires[i].t = "removed" \/ (wires[i].t = "state" /\ ~Counting(wires[i].v))
Clocks(z, i) == wires[i].p = z /\ (wires[i].t = "tick" \/ Ends(i))
ClockSettles(z, i) == wires[i].p = z /\ (IF Runs(z) THEN wires[i].t = "tick" ELSE Ends(i))

(* The panel of a zone is there when the i-th push arrives.                 *)
Removes(z, i) == wires[i].p = z /\ wires[i].t = "removed"
PresentAt(z, i) ==
    \/ panel[z].n # 0 /\ \A j \in 1 .. i - 1 : ~Removes(z, j)
    \/ \E k \in 1 .. i - 1 : /\ wires[k].p = z /\ wires[k].t = "panel"
                             /\ \A j \in k .. i - 1 : ~Removes(z, j)

QueueOK ==
    \A z \in Zones : \A i \in 1 .. Len(wires) :
        /\ Decides(z, i) => \E j \in i .. Len(wires) : Settles(z, j)
        /\ Clocks(z, i) => \E j \in i .. Len(wires) : ClockSettles(z, j)
        /\ wires[i].p = z /\ wires[i].t = "tick" =>
             wires[i].v # 0 /\ (z \in overtaken \/ PresentAt(z, i))

(* The store's panel of a zone and its countdown.                           *)
Right(z) == /\ panel[z].n # 0 <=> zone[z] # Absent
            /\ panel[z].n # 0 => panel[z].state = zone[z]
ClockRight(z) == panel[z].countdown # 0 <=> Runs(z)

StoreOK ==
    /\ \A p \in Panels : panel[p].n = 0 => panel[p] = NoObject
    /\ \A z \in Zones \ overtaken :
         /\ Right(z) \/ sweep.at = "panels" \/ \E i \in 1 .. Len(wires) : Settles(z, i)
         /\ \/ ClockRight(z) \/ sweep.at = "panels" \/ (sweep.at = "statuses" /\ panel[z].n # 0)
            \/ \E i \in 1 .. Len(wires) : ClockSettles(z, i)

(* HA holds the store's object, or the walk is about to offer it.           *)
HeldOK ==
    \A p \in Panels \ ghosts :
        /\ held[p] = panel[p].n \/ (held[p] = 0 /\ sweep.at \in {"statuses", "announce"})
        /\ p \in announced <=> held[p] # 0

PanelInv == PanelTypeOK /\ QueueOK /\ StoreOK /\ HeldOK

-----------------------------------------------------------------------------
(* The zones at start are disarmed, and their panels say so.                *)
LEMMA PanelInitInv == PanelInit => PanelInv
<1> SUFFICES ASSUME PanelInit PROVE PanelInv
    OBVIOUS
<1>1. wires = <<>> /\ <<>> \in Seq(Pushes) /\ Len(<<>>) = 0
    BY EmptySeq DEF PanelInit
<1>2. \A q \in Panels : panel[q] = IF q \in PanelsOf(FirstZones)
                                   THEN [n |-> 1, state |-> 3, countdown |-> 0, modes |-> TRUE]
                                   ELSE NoObject
    BY DEF PanelInit
<1>3. PanelsOf(FirstZones) \subseteq Panels
      /\ \A z \in Zones : z \in PanelsOf(FirstZones) <=> z \in FirstZones
    BY PanelAssumption DEF PanelsOf, Panels
<1>4. panel \in [Panels -> PanelObjects]
    BY DEF PanelInit, PanelObjects, NoObject, Absent
<1>5. PanelTypeOK
    BY <1>1, <1>3, <1>4 DEF PanelInit, PanelTypeOK, ZoneValues, Sweeps, IdleSweep, Absent
<1>6. QueueOK
    BY <1>1 DEF QueueOK
<1>7. StoreOK
    <2>1. \A z \in Zones : Right(z) /\ ClockRight(z)
        BY <1>2, <1>3 DEF PanelInit, Right, ClockRight, Runs, Counting, NoObject, Absent, Panels
    <2> QED BY <1>2, <2>1 DEF StoreOK
<1>8. HeldOK
    BY <1>2, <1>3 DEF PanelInit, HeldOK, NoObject
<1> QED BY <1>5, <1>6, <1>7, <1>8 DEF PanelInv

-----------------------------------------------------------------------------
(* The queue after the delivery of a push.                                  *)
LEMMA Shift ==
    ASSUME PanelTypeOK, wires # <<>>, wires' = Tail(wires)
    PROVE  /\ Len(wires) \in Nat \ {0} /\ Len(wires') = Len(wires) - 1
           /\ Head(wires) = wires[1] /\ wires[1] \in Pushes /\ wires' \in Seq(Pushes)
           /\ \A i \in 1 .. Len(wires') : wires'[i] = wires[i + 1] /\ i + 1 \in 2 .. Len(wires)
BY EmptySeq, HeadTailProperties, LenProperties DEF PanelTypeOK

LEMMA Delivery ==
    ASSUME PanelInv, wires # <<>>, wires' = Tail(wires), zone' = zone, NEW z \in Zones
    PROVE  /\ (\E i \in 1 .. Len(wires) : Settles(z, i)) /\ ~Settles(z, 1) =>
                (\E i \in 1 .. Len(wires) : Settles(z, i))'
           /\ Decides(z, 1) /\ ~Settles(z, 1) => (\E i \in 1 .. Len(wires) : Settles(z, i))'
           /\ (\E i \in 1 .. Len(wires) : ClockSettles(z, i)) /\ ~ClockSettles(z, 1) =>
                (\E i \in 1 .. Len(wires) : ClockSettles(z, i))'
           /\ Clocks(z, 1) /\ ~ClockSettles(z, 1) =>
                (\E i \in 1 .. Len(wires) : ClockSettles(z, i))'
<1>1. /\ Len(wires) \in Nat \ {0} /\ Len(wires') = Len(wires) - 1
      /\ \A i \in 1 .. Len(wires') : wires'[i] = wires[i + 1]
    BY Shift DEF PanelInv
<1>2. ASSUME NEW i \in 2 .. Len(wires)
      PROVE  /\ i - 1 \in 1 .. Len(wires') /\ wires'[i - 1] = wires[i]
             /\ Settles(z, i) => Settles(z, i - 1)'
             /\ ClockSettles(z, i) => ClockSettles(z, i - 1)'
    <2>1. i - 1 \in 1 .. Len(wires') /\ wires'[i - 1] = wires[i]
        BY <1>1
    <2> QED BY <2>1 DEF Settles, ClockSettles, Runs, Ends
<1>3. (\E i \in 1 .. Len(wires) : Settles(z, i)) /\ ~Settles(z, 1) =>
        (\E i \in 1 .. Len(wires) : Settles(z, i))'
    BY <1>1, <1>2
<1>4. (\E i \in 1 .. Len(wires) : ClockSettles(z, i)) /\ ~ClockSettles(z, 1) =>
        (\E i \in 1 .. Len(wires) : ClockSettles(z, i))'
    BY <1>1, <1>2
<1>5. /\ Decides(z, 1) => \E i \in 1 .. Len(wires) : Settles(z, i)
      /\ Clocks(z, 1) => \E i \in 1 .. Len(wires) : ClockSettles(z, i)
    BY <1>1 DEF PanelInv, QueueOK
<1> QED BY <1>3, <1>4, <1>5

(* A push that does to the panel of its zone what its kind says keeps the   *)
(* queue and the store consistent.                                          *)
LEMMA Delivered ==
    ASSUME PanelInv, wires # <<>>, wires' = Tail(wires), UNCHANGED <<zone, sweep, overtaken>>,
           \A q \in Panels : panel'[q].n = 0 => panel'[q] = NoObject,
           \A z \in Zones :
             /\ ~Decides(z, 1) => panel'[z].n = panel[z].n /\ panel'[z].state = panel[z].state
             /\ ~Clocks(z, 1) => panel'[z].countdown = panel[z].countdown
             /\ Settles(z, 1) => Right(z)'
             /\ ClockSettles(z, 1) /\ z \notin overtaken => ClockRight(z)'
             /\ wires[1].p = z /\ wires[1].t = "panel" => panel'[z].n # 0
    PROVE  QueueOK' /\ StoreOK'
<1>1. /\ Len(wires) \in Nat \ {0} /\ Len(wires') = Len(wires) - 1
      /\ \A i \in 1 .. Len(wires') : wires'[i] = wires[i + 1] /\ i + 1 \in 2 .. Len(wires)
      /\ wires[1] \in Pushes
    BY Shift DEF PanelInv
<1>2. ASSUME NEW z \in Zones, NEW i \in 1 .. Len(wires')
      PROVE  /\ Decides(z, i)' => (\E j \in i .. Len(wires) : Settles(z, j))'
             /\ Clocks(z, i)' => (\E j \in i .. Len(wires) : ClockSettles(z, j))'
    <2>1. i + 1 \in 2 .. Len(wires) /\ wires'[i] = wires[i + 1]
        BY <1>1
    <2>2. (Decides(z, i)' => Decides(z, i + 1)) /\ (Clocks(z, i)' => Clocks(z, i + 1))
        BY <2>1 DEF Decides, Clocks, Ends
    <2>3. \A j \in i + 1 .. Len(wires) :
            /\ j - 1 \in i .. Len(wires') /\ wires'[j - 1] = wires[j]
        BY <1>1
    <2>4. \A j \in i + 1 .. Len(wires) : (Settles(z, j) => Settles(z, j - 1)')
                                         /\ (ClockSettles(z, j) => ClockSettles(z, j - 1)')
        BY <2>3 DEF Settles, ClockSettles, Runs, Ends
    <2>5. /\ Decides(z, i + 1) => \E j \in i + 1 .. Len(wires) : Settles(z, j)
          /\ Clocks(z, i + 1) => \E j \in i + 1 .. Len(wires) : ClockSettles(z, j)
        BY <2>1 DEF PanelInv, QueueOK
    <2> QED BY <2>2, <2>3, <2>4, <2>5
<1>3. ASSUME NEW z \in Zones, NEW i \in 1 .. Len(wires'), wires'[i].p = z, wires'[i].t = "tick"
      PROVE  wires'[i].v # 0 /\ (z \in overtaken' \/ PresentAt(z, i)')
    <2>1. i + 1 \in 2 .. Len(wires) /\ wires'[i] = wires[i + 1]
        BY <1>1
    <2>2. wires[i + 1].v # 0 /\ (z \in overtaken \/ PresentAt(z, i + 1))
        BY <1>3, <2>1 DEF PanelInv, QueueOK
    <2>3. ASSUME PresentAt(z, i + 1) PROVE PresentAt(z, i)'
        <3>1. \A j \in 1 .. i - 1 : wires'[j] = wires[j + 1] /\ j + 1 \in 1 .. i
            BY <1>1
        <3>2. CASE panel[z].n # 0 /\ \A j \in 1 .. i : ~Removes(z, j)
            <4>1. ~Removes(z, 1) /\ \A j \in 1 .. i - 1 : ~Removes(z, j + 1)
                BY <3>1, <3>2
            <4>2. panel'[z].n # 0
                BY <1>1, <3>2, <4>1 DEF Removes, Decides
            <4> QED BY <3>1, <4>1, <4>2 DEF PresentAt, Removes
        <3>3. ASSUME NEW k \in 1 .. i, wires[k].p = z, wires[k].t = "panel",
                     \A j \in k .. i : ~Removes(z, j)
              PROVE  PresentAt(z, i)'
            <4>1. CASE k = 1
                <5>1. panel'[z].n # 0 /\ \A j \in 1 .. i - 1 : ~Removes(z, j + 1)
                    BY <3>1, <3>3, <4>1
                <5> QED BY <3>1, <5>1 DEF PresentAt, Removes
            <4>2. CASE k # 1
                <5>1. k - 1 \in 1 .. i - 1 /\ wires'[k - 1] = wires[k]
                    BY <3>1, <4>2
                <5>2. \A j \in k - 1 .. i - 1 : ~Removes(z, j + 1) /\ wires'[j] = wires[j + 1]
                    BY <3>1, <3>3, <4>2
                <5> QED BY <3>3, <5>1, <5>2 DEF PresentAt, Removes
            <4> QED BY <4>1, <4>2
        <3> QED BY <2>3, <3>2, <3>3 DEF PresentAt
    <2> QED BY <2>1, <2>2, <2>3
<1>4. QueueOK'
    BY <1>2, <1>3 DEF QueueOK
<1>5. ASSUME NEW z \in Zones \ overtaken
      PROVE  /\ Right(z)' \/ sweep'.at = "panels" \/ (\E i \in 1 .. Len(wires) : Settles(z, i))'
             /\ \/ ClockRight(z)' \/ sweep'.at = "panels" \/ (sweep'.at = "statuses" /\ panel'[z].n # 0)
                \/ (\E i \in 1 .. Len(wires) : ClockSettles(z, i))'
    <2>1. ~Decides(z, 1) /\ Right(z) => Right(z)'
        BY DEF Right
    <2>2. ~Clocks(z, 1) /\ ClockRight(z) => ClockRight(z)'
        BY DEF ClockRight, Runs
    <2>3. ~Clocks(z, 1) /\ panel[z].n # 0 => panel'[z].n # 0
        BY <1>1 DEF Clocks, Ends, Decides
    <2> QED BY <2>1, <2>2, <2>3, Delivery DEF PanelInv, StoreOK
<1> QED BY <1>4, <1>5 DEF StoreOK

(* The four pushes.                                                         *)
LEMMA OnPanelChangedStep ==
    ASSUME PanelInv, OnPanelChanged
    PROVE  PanelInv'
<1> DEFINE p == Head(wires).p
           v == Head(wires).v
<1>1. /\ wires # <<>> /\ wires' = Tail(wires) /\ Head(wires).t = "panel"
      /\ UNCHANGED <<zone, sweep, fan, overtaken, ghosts>>
      /\ announced' = announced \cup {p}
      /\ Offer({p} \ announced)
      /\ IF panel[p].n = 0 THEN Register(p, v, FALSE)
         ELSE panel' = [panel EXCEPT ![p].state = v] /\ UNCHANGED built
    BY DEF OnPanelChanged, Delivering
<1>2. /\ Len(wires) \in Nat \ {0} /\ Head(wires) = wires[1] /\ wires[1] \in Pushes
      /\ wires' \in Seq(Pushes) /\ p \in Panels /\ v \in Nat
    BY <1>1, Shift DEF PanelInv, Pushes
<1>3. /\ panel' \in [Panels -> PanelObjects] /\ built' \in [Panels -> Nat]
      /\ \A q \in Panels \ {p} : panel'[q] = panel[q]
      /\ panel'[p].n # 0 /\ panel'[p].state = v /\ panel'[p].countdown = panel[p].countdown
      /\ panel[p].n # 0 => panel'[p].n = panel[p].n
    <2> HIDE DEF p, v
    <2>1. panel[p] \in PanelObjects /\ built[p] \in Nat
        BY <1>2 DEF PanelInv, PanelTypeOK
    <2>2. CASE panel[p].n = 0
        <3> DEFINE r == [n |-> built[p] + 1, state |-> v, countdown |-> 0, modes |-> FALSE]
        <3>1. /\ built' = [built EXCEPT ![p] = @ + 1] /\ panel' = [panel EXCEPT ![p] = r]
              /\ r \in PanelObjects /\ r.n # 0 /\ r.state = v /\ r.countdown = 0
            BY <1>1, <1>2, <2>1, <2>2 DEF Register, PanelObjects
        <3>2. panel[p].countdown = 0
            BY <1>2, <2>2 DEF PanelInv, StoreOK, NoObject
        <3> HIDE DEF r
        <3> QED BY <1>2, <2>1, <2>2, <3>1, <3>2 DEF PanelInv, PanelTypeOK
    <2>3. CASE panel[p].n # 0
        <3> DEFINE r == [panel[p] EXCEPT !.state = v]
        <3>1. /\ r \in PanelObjects /\ r.n = panel[p].n /\ r.state = v
              /\ r.countdown = panel[p].countdown
            BY <1>2, <2>1 DEF PanelObjects
        <3>2. built' = built /\ panel' = [panel EXCEPT ![p] = r]
            BY <1>1, <2>3
        <3> HIDE DEF r
        <3> QED BY <1>2, <2>1, <2>3, <3>1, <3>2 DEF PanelInv, PanelTypeOK
    <2> QED BY <2>2, <2>3
<1>4. /\ held' \in [Panels -> Nat] /\ \A q \in Panels \ {p} : held'[q] = held[q]
      /\ held'[p] = IF p \notin announced /\ held[p] = 0 THEN panel'[p].n ELSE held[p]
    BY <1>1, <1>2, <1>3 DEF Offer, PanelInv, PanelTypeOK, PanelObjects
<1>5. PanelTypeOK'
    BY <1>1, <1>2, <1>3, <1>4 DEF PanelInv, PanelTypeOK
<1> HIDE DEF p, v
<1>6. QueueOK' /\ StoreOK'
    <2>1. wires[1].p = p /\ wires[1].v = v /\ wires[1].t = "panel"
        BY <1>1, <1>2 DEF p, v
    <2>2. \A q \in Panels : panel'[q].n = 0 => panel'[q] = NoObject
        BY <1>3 DEF PanelInv, StoreOK
    <2>3. ASSUME NEW z \in Zones
          PROVE  /\ ~Decides(z, 1) => panel'[z].n = panel[z].n /\ panel'[z].state = panel[z].state
                 /\ ~Clocks(z, 1) => panel'[z].countdown = panel[z].countdown
                 /\ Settles(z, 1) => Right(z)'
                 /\ ClockSettles(z, 1) /\ z \notin overtaken => ClockRight(z)'
                 /\ wires[1].p = z /\ wires[1].t = "panel" => panel'[z].n # 0
        <3>1. z \in Panels
            BY DEF Panels
        <3> QED BY <1>1, <1>3, <2>1, <3>1 DEF Decides, Clocks, Settles, ClockSettles, Ends, Right, Runs
    <2> QED BY <1>1, <2>2, <2>3, Delivered
<1>7. HeldOK'
    <2> SUFFICES ASSUME NEW q \in Panels \ ghosts
                 PROVE  /\ held'[q] = panel'[q].n \/ (held'[q] = 0 /\ sweep.at \in {"statuses", "announce"})
                        /\ q \in announced' <=> held'[q] # 0
        BY <1>1 DEF HeldOK
    <2>1. /\ held[q] = panel[q].n \/ (held[q] = 0 /\ sweep.at \in {"statuses", "announce"})
          /\ q \in announced <=> held[q] # 0
        BY DEF PanelInv, HeldOK
    <2> QED BY <1>1, <1>3, <1>4, <2>1
<1> QED BY <1>5, <1>6, <1>7 DEF PanelInv

LEMMA OnPanelRemovedStep ==
    ASSUME PanelInv, OnPanelRemoved
    PROVE  PanelInv'
<1> DEFINE p == Head(wires).p
<1>1. /\ wires # <<>> /\ wires' = Tail(wires) /\ Head(wires).t = "removed"
      /\ UNCHANGED <<zone, built, sweep, fan, overtaken, ghosts>>
      /\ panel' = [panel EXCEPT ![p] = NoObject] /\ held' = [held EXCEPT ![p] = 0]
      /\ announced' = announced \ {p}
    BY DEF OnPanelRemoved, Delivering
<1>2. /\ Len(wires) \in Nat \ {0} /\ Head(wires) = wires[1] /\ wires[1] \in Pushes
      /\ wires' \in Seq(Pushes) /\ p \in Panels
    BY <1>1, Shift DEF PanelInv, Pushes
<1>3. /\ panel' \in [Panels -> PanelObjects] /\ panel'[p] = NoObject
      /\ \A q \in Panels \ {p} : panel'[q] = panel[q]
      /\ NoObject.n = 0 /\ NoObject.countdown = 0
    <2>1. NoObject \in PanelObjects
        BY DEF NoObject, PanelObjects, Absent
    <2> QED BY <1>1, <1>2, <2>1 DEF PanelInv, PanelTypeOK, NoObject
<1>4. PanelTypeOK'
    BY <1>1, <1>2, <1>3 DEF PanelInv, PanelTypeOK
<1>5. QueueOK' /\ StoreOK'
    <2>1. wires[1].p = p /\ wires[1].t = "removed"
        BY <1>1, <1>2
    <2>2. \A q \in Panels : panel'[q].n = 0 => panel'[q] = NoObject
        BY <1>2, <1>3 DEF PanelInv, StoreOK
    <2>3. ASSUME NEW z \in Zones
          PROVE  /\ ~Decides(z, 1) => panel'[z].n = panel[z].n /\ panel'[z].state = panel[z].state
                 /\ ~Clocks(z, 1) => panel'[z].countdown = panel[z].countdown
                 /\ Settles(z, 1) => Right(z)'
                 /\ ClockSettles(z, 1) /\ z \notin overtaken => ClockRight(z)'
                 /\ wires[1].p = z /\ wires[1].t = "panel" => panel'[z].n # 0
        <3>1. z \in Panels
            BY DEF Panels
        <3> HIDE DEF p
        <3> QED BY <1>1, <1>3, <2>1, <3>1
                DEF Decides, Clocks, Settles, ClockSettles, Ends, Right, Runs, ClockRight
    <2> QED BY <1>1, <2>2, <2>3, Delivered
<1> HIDE DEF p
<1>6. HeldOK'
    <2> SUFFICES ASSUME NEW q \in Panels \ ghosts
                 PROVE  /\ held'[q] = panel'[q].n \/ (held'[q] = 0 /\ sweep.at \in {"statuses", "announce"})
                        /\ q \in announced' <=> held'[q] # 0
        BY <1>1 DEF HeldOK
    <2>1. /\ held[q] = panel[q].n \/ (held[q] = 0 /\ sweep.at \in {"statuses", "announce"})
          /\ q \in announced <=> held[q] # 0
        BY DEF PanelInv, HeldOK
    <2>2. held'[q] = IF q = p THEN 0 ELSE held[q]
        BY <1>1, <1>2 DEF PanelInv, PanelTypeOK
    <2> QED BY <1>1, <1>3, <2>1, <2>2
<1> QED BY <1>4, <1>5, <1>6 DEF PanelInv

LEMMA CountdownStep ==
    ASSUME PanelInv, OnStateChanged \/ OnCountdown
    PROVE  PanelInv'
<1> DEFINE p == Head(wires).p
           v == Head(wires).v
           c == IF Head(wires).t = "tick" THEN v ELSE 0
<1>1. /\ wires # <<>> /\ wires' = Tail(wires) /\ Head(wires).t \in {"state", "tick"}
      /\ UNCHANGED <<zone, built, held, announced, sweep, fan, overtaken, ghosts>>
      /\ panel' = IF panel[p].n = 0 \/ (Head(wires).t = "state" /\ Counting(v)) THEN panel
                  ELSE [panel EXCEPT ![p].countdown = c]
    BY DEF OnStateChanged, OnCountdown, Delivering
<1>2. /\ Len(wires) \in Nat \ {0} /\ Head(wires) = wires[1] /\ wires[1] \in Pushes
      /\ wires' \in Seq(Pushes) /\ p \in Panels /\ v \in Nat /\ c \in Nat
    BY <1>1, Shift DEF PanelInv, Pushes
<1>3. wires[1].p = p /\ wires[1].v = v /\ wires[1].t \in {"state", "tick"}
      /\ (wires[1].t = "tick" => c = v) /\ (wires[1].t = "state" => c = 0)
    BY <1>1, <1>2
<1>4. panel[p] \in PanelObjects
    BY <1>2 DEF PanelInv, PanelTypeOK
<1> HIDE DEF p, v, c
<1> DEFINE r == [panel[p] EXCEPT !.countdown = c]
<1>5. r \in PanelObjects /\ r.n = panel[p].n /\ r.state = panel[p].state /\ r.countdown = c
    BY <1>2, <1>4 DEF PanelObjects
<1>6. \/ panel' = panel /\ (panel[p].n = 0 \/ (wires[1].t = "state" /\ Counting(v)))
      \/ panel' = [panel EXCEPT ![p] = r] /\ panel[p].n # 0
    BY <1>1, <1>2, <1>3
<1> HIDE DEF r
<1>7. /\ panel' \in [Panels -> PanelObjects] /\ \A q \in Panels \ {p} : panel'[q] = panel[q]
      /\ panel'[p].n = panel[p].n /\ panel'[p].state = panel[p].state
      /\ \/ panel'[p].countdown = c
         \/ panel' = panel /\ (panel[p].n = 0 \/ (wires[1].t = "state" /\ Counting(v)))
    BY <1>2, <1>5, <1>6 DEF PanelInv, PanelTypeOK
<1>8. PanelTypeOK'
    BY <1>1, <1>2, <1>7 DEF PanelInv, PanelTypeOK
<1>9. QueueOK' /\ StoreOK'
    <2>1. \A q \in Panels : panel'[q].n = 0 => panel'[q] = NoObject
        <3>1. panel[p].n = 0 => panel' = panel
            BY <1>6
        <3> QED BY <1>7, <3>1 DEF PanelInv, StoreOK
    <2>2. ASSUME NEW z \in Zones
          PROVE  /\ ~Decides(z, 1) => panel'[z].n = panel[z].n /\ panel'[z].state = panel[z].state
                 /\ ~Clocks(z, 1) => panel'[z].countdown = panel[z].countdown
                 /\ Settles(z, 1) => Right(z)'
                 /\ ClockSettles(z, 1) /\ z \notin overtaken => ClockRight(z)'
                 /\ wires[1].p = z /\ wires[1].t = "panel" => panel'[z].n # 0
        <3>1. z \in Panels
            BY DEF Panels
        <3>2. panel'[z].n = panel[z].n /\ panel'[z].state = panel[z].state
            BY <1>7, <3>1
        <3>3. ~Clocks(z, 1) => panel'[z].countdown = panel[z].countdown
            <4>1. CASE z = p
                BY <1>1, <1>2, <1>3, <4>1 DEF Clocks, Ends
            <4>2. CASE z # p
                BY <1>7, <3>1, <4>2
            <4> QED BY <4>1, <4>2
        <3>4. ~Settles(z, 1) /\ ~(wires[1].p = z /\ wires[1].t = "panel")
            BY <1>3 DEF Settles
        <3>5. ASSUME ClockSettles(z, 1), z \notin overtaken PROVE ClockRight(z)'
            <4>1. z = p
                BY <1>3, <3>5 DEF ClockSettles
            <4>2. CASE Runs(z)
                <5>1. wires[1].t = "tick" /\ 1 \in 1 .. Len(wires)
                    BY <1>2, <3>5, <4>2 DEF ClockSettles
                <5>2. v # 0 /\ PresentAt(z, 1)
                    BY <1>3, <3>5, <4>1, <5>1 DEF PanelInv, QueueOK
                <5>3. panel[z].n # 0
                    BY <5>2 DEF PresentAt
                <5>4. panel'[z].countdown = v
                    BY <1>3, <1>7, <4>1, <5>1, <5>3
                <5> QED BY <1>1, <4>2, <5>2, <5>4 DEF ClockRight, Runs
            <4>3. CASE ~Runs(z)
                <5>1. wires[1].t = "state" /\ ~Counting(v)
                    BY <1>3, <3>5, <4>3 DEF ClockSettles, Ends
                <5>2. panel[p].n = 0 => panel[p].countdown = 0
                    BY <1>2 DEF PanelInv, StoreOK, NoObject
                <5>3. panel'[z].countdown = 0
                    BY <1>3, <1>7, <4>1, <5>1, <5>2
                <5> QED BY <1>1, <4>3, <5>3 DEF ClockRight, Runs
            <4> QED BY <4>2, <4>3
        <3> QED BY <3>2, <3>3, <3>4, <3>5
    <2> QED BY <1>1, <2>1, <2>2, Delivered
<1>10. HeldOK'
    <2>1. \A q \in Panels : panel'[q].n = panel[q].n
        BY <1>7
    <2> QED BY <1>1, <2>1 DEF PanelInv, HeldOK
<1> QED BY <1>8, <1>9, <1>10 DEF PanelInv

-----------------------------------------------------------------------------
(* The zones.  NextDisarmed is the next multiple of three.                  *)
LEMMA NextDisarmedFact ==
    ASSUME NEW v \in Nat
    PROVE  /\ NextDisarmed(v) \in Nat \ {0} /\ NextDisarmed(v) % 3 = 0
           /\ (3 * (1 + v)) \in Nat \ {0} /\ (3 * (1 + v)) % 3 = 0
<1>1. PICK q \in Nat, r \in {0, 1, 2} : v = 3 * q + r
    <2>1. v = 3 * (v \div 3) + (v % 3) /\ v % 3 \in 0 .. 2 /\ v \div 3 \in Nat
        OBVIOUS
    <2> QED BY <2>1
<1>2. v % 3 = r
    BY <1>1
<1>3. NextDisarmed(v) = 3 * (q + 1)
    BY <1>1, <1>2 DEF NextDisarmed
<1> QED BY <1>1, <1>3

(* Two queues, one behind the other.                                        *)
LEMMA Joined ==
    ASSUME NEW s \in Seq(Pushes), NEW u \in Seq(Pushes)
    PROVE  /\ s \o u \in Seq(Pushes) /\ Len(s \o u) = Len(s) + Len(u)
           /\ Len(s) \in Nat /\ Len(u) \in Nat
           /\ \A i \in 1 .. Len(s) : (s \o u)[i] = s[i]
           /\ \A i \in 1 .. Len(u) : (s \o u)[Len(s) + i] = u[i]
BY ConcatProperties, LenProperties

LEMMA TransitionFact ==
    ASSUME NEW z \in Zones, NEW v \in Nat
    PROVE  LET s == TransitionPushes(z, v) IN
           /\ s \in Seq(Pushes)
           /\ Len(s) = IF Counting(v) THEN 3 ELSE 2
           /\ s[1] = [t |-> "panel", p |-> z, v |-> v]
           /\ s[2] = [t |-> "state", p |-> z, v |-> v]
           /\ Counting(v) => s[3] = [t |-> "tick", p |-> z, v |-> v]
<1> DEFINE a == [t |-> "panel", p |-> z, v |-> v]
           b == [t |-> "state", p |-> z, v |-> v]
           c == [t |-> "tick", p |-> z, v |-> v]
           m == IF Counting(v) THEN <<c>> ELSE <<>>
<1>1. a \in Pushes /\ b \in Pushes /\ c \in Pushes
    BY DEF Pushes, Panels
<1>2. TransitionPushes(z, v) = <<a, b>> \o m
    BY DEF TransitionPushes, PanelPush
<1> HIDE DEF a, b, c
<1>3. /\ m \in Seq(Pushes) /\ Len(m) = IF Counting(v) THEN 1 ELSE 0
      /\ Counting(v) => m[1] = c
    BY <1>1
<1>4. /\ <<a, b>> \in Seq(Pushes) /\ Len(<<a, b>>) = 2
      /\ <<a, b>>[1] = a /\ <<a, b>>[2] = b
    BY <1>1
<1> DEFINE ab == <<a, b>>
<1> HIDE DEF m, ab
<1>5. /\ ab \o m \in Seq(Pushes) /\ Len(ab \o m) = 2 + Len(m)
      /\ \A i \in 1 .. 2 : (ab \o m)[i] = ab[i]
      /\ \A i \in 1 .. Len(m) : (ab \o m)[2 + i] = m[i]
    BY <1>3, <1>4, Joined DEF ab
<1>6. (ab \o m)[1] = a /\ (ab \o m)[2] = b /\ (Counting(v) => (ab \o m)[3] = c)
    BY <1>3, <1>4, <1>5 DEF ab
<1> QED BY <1>2, <1>3, <1>5, <1>6 DEF a, b, c, ab

(* A change of a zone leaves the store alone and the others' pushes the     *)
(* last of theirs; what it queues says what the zone has become.            *)
LEMMA QueueGrows ==
    ASSUME PanelInv, NEW z \in Zones, NEW v \in Nat, NEW s \in Seq(Pushes),
           NEW n \in Nat, n = Len(wires),
           zone' = [zone EXCEPT ![z] = v], wires' = wires \o s,
           UNCHANGED <<panel, sweep, overtaken>>,
           \A i \in 1 .. Len(s) : s[i].p \in {z, Master},
           \E i \in 1 .. Len(s) :
              /\ Settles(z, n + i)'
              /\ \A j \in i + 1 .. Len(s) : ~Decides(z, n + j)',
           \/ ~Runs(z) /\ ~Runs(z)' /\ \A j \in 1 .. Len(s) : ~Clocks(z, n + j)'
           \/ \E i \in 1 .. Len(s) :
                /\ ClockSettles(z, n + i)'
                /\ \A j \in i + 1 .. Len(s) : ~Clocks(z, n + j)',
           \A i \in 1 .. Len(s) : s[i].p = z /\ s[i].t = "tick" =>
              s[i].v # 0 /\ PresentAt(z, n + i)'
    PROVE  QueueOK' /\ StoreOK'
<1>1. /\ wires' \in Seq(Pushes) /\ Len(wires') = n + Len(s) /\ Len(s) \in Nat
      /\ \A i \in 1 .. n : wires'[i] = wires[i]
      /\ \A i \in 1 .. Len(s) : wires'[n + i] = s[i]
    BY Joined DEF PanelInv, PanelTypeOK
<1>2. \A i \in 1 .. Len(wires') : i \in 1 .. n \/ (i - n \in 1 .. Len(s) /\ wires'[i] = s[i - n])
    BY <1>1
<1>3. \A y \in Zones \ {z} : /\ zone'[y] = zone[y] /\ Runs(y)' = Runs(y)
                             /\ \A i \in 1 .. Len(s) : s[i].p # y
    BY PanelAssumption DEF PanelInv, PanelTypeOK, ZoneValues, Runs
<1>4. ASSUME NEW y \in Zones, NEW i \in 1 .. n
      PROVE  /\ Decides(y, i)' <=> Decides(y, i)
             /\ Clocks(y, i)' <=> Clocks(y, i)
             /\ Removes(y, i)' <=> Removes(y, i)
             /\ y # z => (Settles(y, i)' <=> Settles(y, i)) /\ (ClockSettles(y, i)' <=> ClockSettles(y, i))
    BY <1>1, <1>3 DEF Decides, Clocks, Ends, Removes, Settles, ClockSettles
<1>5. ASSUME NEW y \in Zones, NEW i \in 1 .. n, PresentAt(y, i) PROVE PresentAt(y, i)'
    <2>1. \A j \in 1 .. i : j \in 1 .. n
        OBVIOUS
    <2>2. \A j \in 1 .. i : wires'[j] = wires[j]
        BY <1>1, <2>1
    <2>3. \A j \in 1 .. i : Removes(y, j)' <=> Removes(y, j)
        BY <2>2 DEF Removes
    <2>4. CASE panel[y].n # 0 /\ \A j \in 1 .. i - 1 : ~Removes(y, j)
        <3>1. \A j \in 1 .. i - 1 : j \in 1 .. i
            OBVIOUS
        <3> QED BY <2>3, <2>4, <3>1 DEF PresentAt
    <2>5. ASSUME NEW k \in 1 .. i - 1, wires[k].p = y, wires[k].t = "panel",
                 \A j \in k .. i - 1 : ~Removes(y, j)
          PROVE  PresentAt(y, i)'
        <3>1. k \in 1 .. i /\ \A j \in k .. i - 1 : j \in 1 .. i
            OBVIOUS
        <3>2. wires'[k] = wires[k] /\ \A j \in k .. i - 1 : ~Removes(y, j)'
            BY <2>2, <2>3, <2>5, <3>1
        <3> QED BY <2>5, <3>2 DEF PresentAt
    <2> QED BY <1>5, <2>4, <2>5 DEF PresentAt
<1>6. ASSUME NEW y \in Zones \ {z}, NEW i \in 1 .. Len(wires')
      PROVE  /\ Decides(y, i)' => (\E j \in i .. Len(wires) : Settles(y, j))'
             /\ Clocks(y, i)' => (\E j \in i .. Len(wires) : ClockSettles(y, j))'
             /\ wires'[i].p = y /\ wires'[i].t = "tick" =>
                  wires'[i].v # 0 /\ (y \in overtaken \/ PresentAt(y, i)')
    <2>1. CASE i \in 1 .. n
        <3>1. /\ Decides(y, i) => \E j \in i .. n : Settles(y, j)
              /\ Clocks(y, i) => \E j \in i .. n : ClockSettles(y, j)
              /\ wires[i].p = y /\ wires[i].t = "tick" =>
                   wires[i].v # 0 /\ (y \in overtaken \/ PresentAt(y, i))
            BY <2>1 DEF PanelInv, QueueOK
        <3>2. \A j \in i .. n : j \in 1 .. n /\ j \in i .. Len(wires')
            BY <1>1, <2>1
        <3> QED BY <1>1, <1>4, <1>5, <2>1, <3>1, <3>2
    <2>2. CASE i \notin 1 .. n
        <3>1. wires'[i].p # y
            BY <1>2, <1>3, <2>2
        <3> QED BY <3>1 DEF Decides, Clocks
    <2> QED BY <2>1, <2>2
<1>7. PICK d \in 1 .. Len(s) :
        /\ Settles(z, n + d)' /\ \A j \in d + 1 .. Len(s) : ~Decides(z, n + j)'
    OBVIOUS
<1>8. ASSUME NEW i \in 1 .. Len(wires'), Decides(z, i)'
      PROVE  (\E j \in i .. Len(wires) : Settles(z, j))'
    <2>1. i \notin n + d + 1 .. n + Len(s)
        <3>1. ASSUME i \in n + d + 1 .. n + Len(s) PROVE FALSE
            <4>1. i - n \in d + 1 .. Len(s) /\ n + (i - n) = i
                BY <1>1, <3>1
            <4> QED BY <1>7, <1>8, <4>1
        <3> QED BY <3>1
    <2>2. n + d \in i .. Len(wires')
        BY <1>1, <2>1
    <2> QED BY <1>7, <2>2
<1>9. ASSUME NEW i \in 1 .. Len(wires'), Clocks(z, i)'
      PROVE  (\E j \in i .. Len(wires) : ClockSettles(z, j))'
    <2>1. CASE ~Runs(z) /\ ~Runs(z)' /\ \A j \in 1 .. Len(s) : ~Clocks(z, n + j)'
        <3>1. i \in 1 .. n
            <4>1. ASSUME i - n \in 1 .. Len(s) PROVE FALSE
                <5>1. n + (i - n) = i
                    OBVIOUS
                <5> QED BY <1>9, <2>1, <4>1, <5>1
            <4> QED BY <1>2, <4>1
        <3>2. \E j \in i .. n : ClockSettles(z, j)
            BY <1>4, <1>9, <3>1 DEF PanelInv, QueueOK
        <3>3. \A j \in i .. n : j \in i .. Len(wires') /\ wires'[j] = wires[j]
            BY <1>1, <3>1
        <3> QED BY <2>1, <3>2, <3>3 DEF ClockSettles, Ends
    <2>2. ASSUME NEW c \in 1 .. Len(s), ClockSettles(z, n + c)',
                 \A j \in c + 1 .. Len(s) : ~Clocks(z, n + j)'
          PROVE  (\E j \in i .. Len(wires) : ClockSettles(z, j))'
        <3>1. ASSUME i \in n + c + 1 .. n + Len(s) PROVE FALSE
            <4>1. i - n \in c + 1 .. Len(s) /\ n + (i - n) = i
                BY <1>1, <3>1
            <4> QED BY <1>9, <2>2, <4>1
        <3>2. n + c \in i .. Len(wires')
            BY <1>1, <3>1
        <3> QED BY <2>2, <3>2
    <2> QED BY <2>1, <2>2
<1>10. ASSUME NEW i \in 1 .. Len(wires'), wires'[i].p = z, wires'[i].t = "tick"
       PROVE  wires'[i].v # 0 /\ (z \in overtaken \/ PresentAt(z, i)')
    <2>1. CASE i \in 1 .. n
        BY <1>1, <1>5, <1>10, <2>1 DEF PanelInv, QueueOK
    <2>2. CASE i - n \in 1 .. Len(s) /\ wires'[i] = s[i - n]
        <3>1. n + (i - n) = i
            OBVIOUS
        <3> QED BY <1>10, <2>2, <3>1
    <2> QED BY <1>2, <2>1, <2>2
<1>11. QueueOK'
    BY <1>6, <1>8, <1>9, <1>10 DEF QueueOK
<1>12. ASSUME NEW y \in Zones \ overtaken
       PROVE  /\ Right(y)' \/ sweep'.at = "panels" \/ (\E i \in 1 .. Len(wires) : Settles(y, i))'
              /\ \/ ClockRight(y)' \/ sweep'.at = "panels" \/ (sweep'.at = "statuses" /\ panel'[y].n # 0)
                 \/ (\E i \in 1 .. Len(wires) : ClockSettles(y, i))'
    <2>1. /\ Right(y) \/ sweep.at = "panels" \/ \E i \in 1 .. n : Settles(y, i)
          /\ \/ ClockRight(y) \/ sweep.at = "panels" \/ (sweep.at = "statuses" /\ panel[y].n # 0)
             \/ \E i \in 1 .. n : ClockSettles(y, i)
        BY DEF PanelInv, StoreOK
    <2>2. \A i \in 1 .. n : i \in 1 .. Len(wires')
        BY <1>1
    <2>3. CASE y # z
        BY <1>3, <1>4, <2>1, <2>2, <2>3 DEF Right, ClockRight
    <2>4. CASE y = z
        <3>1. \A i \in 1 .. Len(s) : n + i \in 1 .. Len(wires')
            BY <1>1
        <3>2. (\E i \in 1 .. Len(wires) : Settles(z, i))'
            BY <1>7, <3>1
        <3>3. CASE ~Runs(z) /\ ~Runs(z)' /\ \A j \in 1 .. Len(s) : ~Clocks(z, n + j)'
            BY <1>1, <2>1, <2>2, <2>4, <3>2, <3>3 DEF ClockRight, ClockSettles, Ends
        <3>4. CASE \E i \in 1 .. Len(s) : ClockSettles(z, n + i)'
            BY <2>4, <3>1, <3>2, <3>4
        <3> QED BY <3>3, <3>4
    <2> QED BY <2>3, <2>4
<1> QED BY <1>11, <1>12 DEF PanelInv, StoreOK

(* A zone's transition, whoever asked for it.                               *)
LEMMA ZoneTransits ==
    ASSUME PanelInv, NEW z \in Zones, NEW v \in Nat \ {0},
           zone' = [zone EXCEPT ![z] = v], wires' = wires \o TransitionPushes(z, v),
           UNCHANGED <<panel, built, held, announced, sweep, overtaken, ghosts>>,
           fan' \subseteq [z : Zones, arm : BOOLEAN]
    PROVE  PanelInv'
<1>1. PICK s \in Seq(Pushes) :
        /\ s = TransitionPushes(z, v)
        /\ Len(s) = IF Counting(v) THEN 3 ELSE 2
        /\ s[1] = [t |-> "panel", p |-> z, v |-> v]
        /\ s[2] = [t |-> "state", p |-> z, v |-> v]
        /\ Counting(v) => s[3] = [t |-> "tick", p |-> z, v |-> v]
    BY TransitionFact
<1>2. PICK n \in Nat : n = Len(wires) /\ wires' = wires \o s
    BY <1>1, LenProperties DEF PanelInv, PanelTypeOK
<1>3. /\ wires' \in Seq(Pushes) /\ Len(wires') = n + Len(s)
      /\ \A i \in 1 .. Len(s) : wires'[n + i] = s[i]
    BY <1>2, Joined DEF PanelInv, PanelTypeOK
<1>4. zone'[z] = v /\ (Runs(z)' <=> Counting(v)) /\ zone' \in ZoneValues
    BY DEF PanelInv, PanelTypeOK, ZoneValues, Runs, Absent
<1>5. n = Len(wires)
    BY <1>2
<1>6. /\ Len(s) \in {2, 3} /\ (Counting(v) <=> Len(s) = 3)
      /\ s[1].t = "panel" /\ s[2].t = "state" /\ (Len(s) = 3 => s[3].t = "tick")
      /\ \A i \in 1 .. Len(s) : s[i].p = z /\ s[i].v = v
    BY <1>1
<1>7. Settles(z, n + 1)' /\ \A j \in 2 .. Len(s) : ~Decides(z, n + j)'
    <2>0. 1 \in 1 .. Len(s) /\ \A j \in 2 .. Len(s) : j \in 1 .. Len(s)
        BY <1>6
    <2>1. wires'[n + 1] = s[1] /\ \A j \in 2 .. Len(s) : wires'[n + j] = s[j]
        <3>1. \A i \in 1 .. Len(s) : wires'[n + i] = s[i]
            BY <1>3
        <3> QED BY <2>0, <3>1
    <2>2. \A j \in 2 .. Len(s) : s[j].t \in {"state", "tick"}
        BY <1>6
    <2>3. s[1].p = z /\ s[1].v = v /\ s[1].t = "panel"
        BY <1>6
    <2>4. Settles(z, n + 1)'
        <3>1. wires'[n + 1].p = z /\ wires'[n + 1].t = "panel" /\ wires'[n + 1].v = v
            BY <2>1, <2>3
        <3> QED BY <1>4, <3>1 DEF Settles, Absent
    <2>5. ASSUME NEW j \in 2 .. Len(s) PROVE ~Decides(z, n + j)'
        <3>1. wires'[n + j] = s[j] /\ s[j].t \in {"state", "tick"}
            BY <2>1, <2>2
        <3> QED BY <3>1 DEF Decides
    <2> QED BY <2>4, <2>5
<1>8. \E i \in 1 .. Len(s) : /\ ClockSettles(z, n + i)'
                             /\ \A j \in i + 1 .. Len(s) : ~Clocks(z, n + j)'
    <2>1. CASE Counting(v)
        <3>1. ClockSettles(z, n + 3)' /\ Len(s) = 3
            BY <1>1, <1>3, <1>4, <2>1 DEF ClockSettles
        <3> QED BY <3>1
    <2>2. CASE ~Counting(v)
        <3>1. ClockSettles(z, n + 2)' /\ Len(s) = 2
            BY <1>1, <1>3, <1>4, <2>2 DEF ClockSettles, Ends
        <3> QED BY <3>1
    <2> QED BY <2>1, <2>2
<1>9. ASSUME NEW i \in 1 .. Len(s), s[i].t = "tick" PROVE s[i].v # 0 /\ PresentAt(z, n + i)'
    <2>1. i = 3
        BY <1>1, <1>9
    <2>2. \A j \in n + 1 .. n + 2 : wires'[j].t # "removed"
        <3>0. 1 \in 1 .. Len(s) /\ 2 \in 1 .. Len(s)
            BY <1>1
        <3>1. wires'[n + 1].t = "panel" /\ wires'[n + 2].t = "state"
            BY <1>3, <1>6, <3>0
        <3>2. \A j \in n + 1 .. n + 2 : j = n + 1 \/ j = n + 2
            OBVIOUS
        <3> QED BY <3>1, <3>2
    <2>3. wires'[n + 1].p = z /\ wires'[n + 1].t = "panel" /\ n + 1 \in 1 .. n + 3 - 1
        BY <1>1, <1>2, <1>3
    <2>4. (n + i) - 1 = n + 2 /\ n + 1 \in 1 .. n + 2
        BY <1>2, <2>1
    <2>5. \E k \in 1 .. n + 2 : /\ wires'[k].p = z /\ wires'[k].t = "panel"
                                 /\ \A j \in k .. n + 2 : wires'[j].t # "removed"
        BY <2>2, <2>3, <2>4
    <2> QED BY <1>6, <2>4, <2>5 DEF PresentAt, Removes
<1>10. QueueOK' /\ StoreOK'
    <2>1. 1 \in 1 .. Len(s) /\ \A j \in 1 + 1 .. Len(s) : j \in 2 .. Len(s)
        BY <1>1
    <2>2. \E i \in 1 .. Len(s) : /\ Settles(z, n + i)'
                                 /\ \A j \in i + 1 .. Len(s) : ~Decides(z, n + j)'
        BY <1>7, <2>1
    <2> QED BY <1>1, <1>2, <1>5, <1>6, <1>8, <1>9, <2>2, QueueGrows
<1>11. PanelTypeOK'
    BY <1>3, <1>4 DEF PanelInv, PanelTypeOK
<1>12. HeldOK'
    BY DEF PanelInv, HeldOK
<1> QED BY <1>10, <1>11, <1>12 DEF PanelInv

LEMMA ZoneMovesStep ==
    ASSUME PanelInv, NEW z \in Zones, ZoneMoves(z)
    PROVE  PanelInv'
<1>1. zone[z] \in Nat
    BY DEF PanelInv, PanelTypeOK, ZoneValues
<1>2. PICK v \in {zone[z] + 1, NextDisarmed(zone[z])} :
        zone' = [zone EXCEPT ![z] = v] /\ wires' = wires \o TransitionPushes(z, v)
    BY DEF ZoneMoves
<1>3. v \in Nat \ {0}
    <2>1. NextDisarmed(zone[z]) \in Nat \ {0} /\ zone[z] + 1 \in Nat \ {0}
        BY <1>1, NextDisarmedFact
    <2> QED BY <1>2, <2>1
<1>4. UNCHANGED <<panel, built, held, announced, sweep, overtaken, ghosts, fan>>
    BY DEF ZoneMoves
<1>5. fan' \subseteq [z : Zones, arm : BOOLEAN]
    BY <1>4 DEF PanelInv, PanelTypeOK
<1> QED BY <1>2, <1>3, <1>4, <1>5, ZoneTransits

(* A command that moves its zone is a transition like any other.            *)
LEMMA ZoneCommandedStep ==
    ASSUME PanelInv, NEW c \in fan, ZoneCommanded(c)
    PROVE  PanelInv'
<1> DEFINE v == IF c.arm THEN zone[c.z] + 1 ELSE NextDisarmed(zone[c.z])
<1>1. c.z \in Zones /\ zone[c.z] \in Nat
    BY DEF PanelInv, PanelTypeOK, ZoneValues
<1>2. v \in Nat \ {0}
    BY <1>1, NextDisarmedFact
<1>3. /\ fan' = fan \ {c}
      /\ UNCHANGED <<panel, built, held, announced, sweep, overtaken, ghosts>>
      /\ \/ UNCHANGED <<zone, wires>>
         \/ zone' = [zone EXCEPT ![c.z] = v] /\ wires' = wires \o TransitionPushes(c.z, v)
    BY DEF ZoneCommanded
<1>4. fan' \subseteq [z : Zones, arm : BOOLEAN]
    BY <1>3 DEF PanelInv, PanelTypeOK
<1> HIDE DEF v
<1>5. CASE UNCHANGED <<zone, wires>>
    BY <1>3, <1>4, <1>5 DEF PanelInv, PanelTypeOK, QueueOK, StoreOK, HeldOK, Decides, Clocks, Ends,
       Settles, ClockSettles, Runs, PresentAt, Removes, Right, ClockRight
<1>6. CASE zone' = [zone EXCEPT ![c.z] = v] /\ wires' = wires \o TransitionPushes(c.z, v)
    BY <1>1, <1>2, <1>3, <1>4, <1>6, ZoneTransits
<1> QED BY <1>3, <1>5, <1>6

(* Creation and deletion, with the master's.                                *)
LEMMA ZoneCreatedStep ==
    ASSUME PanelInv, NEW z \in Zones, ZoneCreated(z)
    PROVE  PanelInv'
<1> DEFINE m == IF Cardinality(ZonesNow) = 1 THEN <<PanelPush(Master, 3)>> ELSE <<>>
<1>1. PICK v \in Nat \ {0} : v = 3 * (1 + built[z]) /\ ~Counting(v)
    <2>1. PICK b \in Nat : b = built[z]
        BY DEF PanelInv, PanelTypeOK, Panels
    <2>2. 3 * (1 + b) \in Nat \ {0} /\ (3 * (1 + b)) % 3 = 0
        BY <2>1, NextDisarmedFact
    <2> QED BY <2>1, <2>2 DEF Counting
<1>2. /\ zone[z] = Absent /\ zone' = [zone EXCEPT ![z] = v]
      /\ wires' = wires \o <<PanelPush(z, v)>> \o m
      /\ UNCHANGED <<panel, built, held, announced, sweep, fan, overtaken, ghosts>>
    BY <1>1 DEF ZoneCreated
<1>3. PanelPush(z, v) \in Pushes /\ PanelPush(Master, 3) \in Pushes
    BY <1>1 DEF PanelPush, Pushes, Panels
<1>4. /\ m \in Seq(Pushes) /\ Len(m) \in {0, 1}
      /\ \A i \in 1 .. Len(m) : m[i] = PanelPush(Master, 3)
    BY <1>3
<1>5. /\ <<PanelPush(z, v)>> \in Seq(Pushes) /\ Len(<<PanelPush(z, v)>>) = 1
      /\ <<PanelPush(z, v)>>[1] = PanelPush(z, v)
    BY <1>3
<1> HIDE DEF m
<1>6. PICK s \in Seq(Pushes) :
        /\ s = <<PanelPush(z, v)>> \o m /\ Len(s) = 1 + Len(m) /\ s[1] = PanelPush(z, v)
        /\ \A i \in 1 .. Len(m) : s[1 + i] = PanelPush(Master, 3)
    <2> DEFINE h == <<PanelPush(z, v)>>
    <2>1. h \in Seq(Pushes) /\ Len(h) = 1 /\ h[1] = PanelPush(z, v)
        BY <1>5
    <2> HIDE DEF h
    <2>2. m \in Seq(Pushes)
        BY <1>4
    <2>3. /\ h \o m \in Seq(Pushes) /\ Len(h \o m) = Len(h) + Len(m)
          /\ \A i \in 1 .. Len(h) : (h \o m)[i] = h[i]
          /\ \A i \in 1 .. Len(m) : (h \o m)[Len(h) + i] = m[i]
        BY <2>1, <2>2, Joined
    <2>4. (h \o m)[1] = PanelPush(z, v)
        BY <2>1, <2>3
    <2>5. \A i \in 1 .. Len(m) : (h \o m)[1 + i] = PanelPush(Master, 3)
        BY <1>4, <2>1, <2>3
    <2> QED BY <2>1, <2>3, <2>4, <2>5 DEF h
<1>7. wires' = wires \o s
    <2> DEFINE h == <<PanelPush(z, v)>>
    <2>1. wires \in Seq(Pushes) /\ h \in Seq(Pushes) /\ m \in Seq(Pushes)
        BY <1>4, <1>5 DEF PanelInv, PanelTypeOK
    <2>2. wires' = (wires \o h) \o m /\ s = h \o m
        BY <1>2, <1>6
    <2> HIDE DEF h
    <2>3. (wires \o h) \o m = wires \o (h \o m)
        BY <2>1, ConcatAssociative
    <2> QED BY <2>2, <2>3
<1>8. PICK n \in Nat :
        /\ n = Len(wires) /\ wires' \in Seq(Pushes) /\ Len(wires') = n + Len(s)
        /\ \A i \in 1 .. Len(s) : wires'[n + i] = s[i]
    BY <1>6, <1>7, Joined DEF PanelInv, PanelTypeOK
<1>9. zone'[z] = v /\ ~Runs(z) /\ ~Runs(z)' /\ zone' \in ZoneValues
    BY <1>1, <1>2 DEF PanelInv, PanelTypeOK, ZoneValues, Runs, Absent
<1>10. \A i \in 1 .. Len(s) : /\ s[i].t = "panel" /\ s[i].p \in {z, Master}
                              /\ i # 1 => s[i].p = Master
    <2>1. \A i \in 1 .. Len(s) : i = 1 \/ (i - 1 \in 1 .. Len(m) /\ 1 + (i - 1) = i)
        BY <1>4, <1>6
    <2>2. \A i \in 1 .. Len(s) : i = 1 \/ s[i] = PanelPush(Master, 3)
        BY <1>6, <2>1
    <2> QED BY <1>6, <2>2 DEF PanelPush
<1>11. Settles(z, n + 1)' /\ 1 \in 1 .. Len(s)
    BY <1>1, <1>4, <1>6, <1>8, <1>9 DEF Settles, PanelPush, Absent
<1>12. ASSUME NEW j \in 1 + 1 .. Len(s) PROVE ~Decides(z, n + j)'
    <2>1. j \in 1 .. Len(s) /\ j # 1
        BY <1>11
    <2>2. wires'[n + j] = s[j] /\ s[j].p = Master
        BY <1>8, <1>10, <2>1
    <2> QED BY <2>2, PanelAssumption DEF Decides
<1>13. \A j \in 1 .. Len(s) : ~Clocks(z, n + j)'
    BY <1>6, <1>8, <1>10 DEF Clocks, Ends
<1>14. QueueOK' /\ StoreOK'
    <2>1. \E i \in 1 .. Len(s) : /\ Settles(z, n + i)'
                                 /\ \A j \in i + 1 .. Len(s) : ~Decides(z, n + j)'
        BY <1>11, <1>12
    <2>2. \A i \in 1 .. Len(s) : s[i].t # "tick" /\ s[i].p \in {z, Master}
        BY <1>10
    <2>3. UNCHANGED <<panel, sweep, overtaken>> /\ zone' = [zone EXCEPT ![z] = v]
        BY <1>2
    <2>4. n = Len(wires) /\ v \in Nat
        BY <1>8
    <2>5. ~Runs(z) /\ ~Runs(z)' /\ \A j \in 1 .. Len(s) : ~Clocks(z, n + j)'
        BY <1>9, <1>13
    <2>6. \A i \in 1 .. Len(s) : s[i].p = z /\ s[i].t = "tick" =>
             s[i].v # 0 /\ PresentAt(z, n + i)'
        BY <2>2
    <2>7. \A i \in 1 .. Len(s) : s[i].p \in {z, Master}
        BY <2>2
    <2> QED BY <1>7, <2>1, <2>3, <2>4, <2>5, <2>6, <2>7, QueueGrows
<1>15. PanelTypeOK'
    BY <1>2, <1>8, <1>9 DEF PanelInv, PanelTypeOK
<1>16. HeldOK'
    BY <1>2 DEF PanelInv, HeldOK
<1> QED BY <1>14, <1>15, <1>16 DEF PanelInv

LEMMA ZoneDeletedStep ==
    ASSUME PanelInv, NEW z \in Zones, ZoneDeleted(z)
    PROVE  PanelInv'
<1> DEFINE m == IF Cardinality(ZonesNow) = 2 THEN <<Removal(Master)>> ELSE <<>>
<1>1. /\ zone' = [zone EXCEPT ![z] = Absent]
      /\ wires' = wires \o <<Removal(z)>> \o m
      /\ UNCHANGED <<panel, built, held, announced, sweep, fan, overtaken, ghosts>>
    BY DEF ZoneDeleted
<1>2. Removal(z) \in Pushes /\ Removal(Master) \in Pushes
    BY DEF Removal, Pushes, Panels, Absent
<1>3. /\ m \in Seq(Pushes) /\ Len(m) \in {0, 1}
      /\ \A i \in 1 .. Len(m) : m[i] = Removal(Master)
    BY <1>2
<1>4. /\ <<Removal(z)>> \in Seq(Pushes) /\ Len(<<Removal(z)>>) = 1
      /\ <<Removal(z)>>[1] = Removal(z)
    BY <1>2
<1> HIDE DEF m
<1>5. PICK s \in Seq(Pushes) :
        /\ s = <<Removal(z)>> \o m /\ Len(s) = 1 + Len(m) /\ s[1] = Removal(z)
        /\ \A i \in 1 .. Len(m) : s[1 + i] = Removal(Master)
    <2> DEFINE h == <<Removal(z)>>
    <2>1. h \in Seq(Pushes) /\ Len(h) = 1 /\ h[1] = Removal(z)
        BY <1>4
    <2> HIDE DEF h
    <2>2. m \in Seq(Pushes)
        BY <1>3
    <2>3. /\ h \o m \in Seq(Pushes) /\ Len(h \o m) = Len(h) + Len(m)
          /\ \A i \in 1 .. Len(h) : (h \o m)[i] = h[i]
          /\ \A i \in 1 .. Len(m) : (h \o m)[Len(h) + i] = m[i]
        BY <2>1, <2>2, Joined
    <2>4. (h \o m)[1] = Removal(z)
        BY <2>1, <2>3
    <2>5. \A i \in 1 .. Len(m) : (h \o m)[1 + i] = Removal(Master)
        BY <1>3, <2>1, <2>3
    <2> QED BY <2>1, <2>3, <2>4, <2>5 DEF h
<1>6. wires' = wires \o s
    <2> DEFINE h == <<Removal(z)>>
    <2>1. wires \in Seq(Pushes) /\ h \in Seq(Pushes) /\ m \in Seq(Pushes)
        BY <1>3, <1>4 DEF PanelInv, PanelTypeOK
    <2>2. wires' = (wires \o h) \o m /\ s = h \o m
        BY <1>1, <1>5
    <2> HIDE DEF h
    <2>3. (wires \o h) \o m = wires \o (h \o m)
        BY <2>1, ConcatAssociative
    <2> QED BY <2>2, <2>3
<1>7. PICK n \in Nat :
        /\ n = Len(wires) /\ wires' \in Seq(Pushes) /\ Len(wires') = n + Len(s)
        /\ \A i \in 1 .. Len(s) : wires'[n + i] = s[i]
    BY <1>5, <1>6, Joined DEF PanelInv, PanelTypeOK
<1>8. zone'[z] = Absent /\ ~Runs(z)' /\ zone' \in ZoneValues
    BY <1>1 DEF PanelInv, PanelTypeOK, ZoneValues, Runs, Absent
<1>9. \A i \in 1 .. Len(s) : /\ s[i].t = "removed" /\ s[i].p \in {z, Master}
                             /\ i # 1 => s[i].p = Master
    <2>1. \A i \in 1 .. Len(s) : i = 1 \/ (i - 1 \in 1 .. Len(m) /\ 1 + (i - 1) = i)
        BY <1>3, <1>5
    <2>2. \A i \in 1 .. Len(s) : i = 1 \/ s[i] = Removal(Master)
        BY <1>5, <2>1
    <2> QED BY <1>5, <2>2 DEF Removal
<1>10. Settles(z, n + 1)' /\ ClockSettles(z, n + 1)' /\ 1 \in 1 .. Len(s)
    BY <1>3, <1>5, <1>7, <1>8 DEF Settles, ClockSettles, Ends, Removal
<1>11. ASSUME NEW j \in 1 + 1 .. Len(s) PROVE ~Decides(z, n + j)' /\ ~Clocks(z, n + j)'
    <2>1. j \in 1 .. Len(s) /\ j # 1
        BY <1>10
    <2>2. wires'[n + j] = s[j] /\ s[j].p = Master
        BY <1>7, <1>9, <2>1
    <2> QED BY <2>2, PanelAssumption DEF Decides, Clocks
<1>12. QueueOK' /\ StoreOK'
    <2>1. \E i \in 1 .. Len(s) : /\ Settles(z, n + i)'
                                 /\ \A j \in i + 1 .. Len(s) : ~Decides(z, n + j)'
        BY <1>10, <1>11
    <2>2. \E i \in 1 .. Len(s) : /\ ClockSettles(z, n + i)'
                                 /\ \A j \in i + 1 .. Len(s) : ~Clocks(z, n + j)'
        BY <1>10, <1>11
    <2>3. \A i \in 1 .. Len(s) : s[i].t # "tick" /\ s[i].p \in {z, Master}
        BY <1>9
    <2>4. Absent \in Nat
        BY DEF Absent
    <2> QED BY <1>1, <1>5, <1>6, <1>7, <2>1, <2>2, <2>3, <2>4, QueueGrows
<1>13. PanelTypeOK'
    BY <1>1, <1>7, <1>8 DEF PanelInv, PanelTypeOK
<1>14. HeldOK'
    BY <1>1 DEF PanelInv, HeldOK
<1> QED BY <1>12, <1>13, <1>14 DEF PanelInv

-----------------------------------------------------------------------------
(* The walk.                                                                *)
LEMMA AlarmStreamLostStep ==
    ASSUME PanelInv, AlarmStreamLost
    PROVE  PanelInv'
<1>1. /\ wires' = <<>> /\ sweep = IdleSweep /\ sweep' = [at |-> "panels", ans |-> <<>>]
      /\ UNCHANGED <<zone, panel, built, held, announced, fan, overtaken, ghosts>>
    BY DEF AlarmStreamLost
<1>2. wires' \in Seq(Pushes) /\ Len(wires') = 0
    BY <1>1, EmptySeq
<1>3. PanelTypeOK'
    BY <1>1, <1>2 DEF PanelInv, PanelTypeOK, Sweeps
<1>4. QueueOK'
    BY <1>2 DEF QueueOK
<1>5. StoreOK'
    BY <1>1 DEF PanelInv, StoreOK
<1>6. HeldOK'
    BY <1>1 DEF PanelInv, HeldOK, IdleSweep
<1> QED BY <1>3, <1>4, <1>5, <1>6 DEF PanelInv

LEMMA SweepAnsweredStep ==
    ASSUME PanelInv, SweepAnswered
    PROVE  PanelInv'
<1>1. /\ sweep' = [sweep EXCEPT !.ans = <<zone>>]
      /\ UNCHANGED <<zone, wires, panel, built, held, announced, fan, overtaken, ghosts>>
    BY DEF SweepAnswered
<1>2. sweep' \in Sweeps /\ sweep'.at = sweep.at
    BY <1>1 DEF PanelInv, PanelTypeOK, Sweeps
<1>3. PanelTypeOK' /\ HeldOK'
    BY <1>1, <1>2 DEF PanelInv, PanelTypeOK, HeldOK
<1>4. QueueOK' /\ StoreOK'
    BY <1>1, <1>2 DEF PanelInv, QueueOK, StoreOK, Decides, Clocks, Ends, Settles, ClockSettles,
       Runs, PresentAt, Removes, Right, ClockRight
<1> QED BY <1>3, <1>4 DEF PanelInv

(* A step of the walk leaves the queue alone, and every panel where it is.  *)
LEMMA QueueStays ==
    ASSUME PanelInv, UNCHANGED <<zone, wires>>, overtaken \subseteq overtaken',
           \A z \in Zones \ overtaken' : panel[z].n # 0 => panel'[z].n # 0
    PROVE  /\ QueueOK'
           /\ \A z \in Zones, i \in 1 .. Len(wires) :
                /\ Settles(z, i) => Settles(z, i)'
                /\ ClockSettles(z, i) => ClockSettles(z, i)'
           /\ \A z \in Zones : Runs(z)' = Runs(z)
<1>1. ASSUME NEW z \in Zones, NEW i \in 1 .. Len(wires)
      PROVE  /\ Decides(z, i)' <=> Decides(z, i)
             /\ Clocks(z, i)' <=> Clocks(z, i)
             /\ Settles(z, i)' <=> Settles(z, i)
             /\ ClockSettles(z, i)' <=> ClockSettles(z, i)
             /\ z \notin overtaken' /\ PresentAt(z, i) => PresentAt(z, i)'
             /\ Runs(z)' <=> Runs(z)
    BY DEF Decides, Clocks, Ends, Settles, ClockSettles, Runs, PresentAt, Removes
<1>2. QueueOK'
    <2>1. ASSUME NEW z \in Zones, NEW i \in 1 .. Len(wires)
          PROVE  /\ Decides(z, i)' => (\E j \in i .. Len(wires) : Settles(z, j))'
                 /\ Clocks(z, i)' => (\E j \in i .. Len(wires) : ClockSettles(z, j))'
                 /\ wires'[i].p = z /\ wires'[i].t = "tick" =>
                      wires'[i].v # 0 /\ (z \in overtaken' \/ PresentAt(z, i)')
        <3>1. /\ Decides(z, i) => \E j \in i .. Len(wires) : Settles(z, j)
              /\ Clocks(z, i) => \E j \in i .. Len(wires) : ClockSettles(z, j)
              /\ wires[i].p = z /\ wires[i].t = "tick" =>
                   wires[i].v # 0 /\ (z \in overtaken \/ PresentAt(z, i))
            BY DEF PanelInv, QueueOK
        <3>2. \A j \in i .. Len(wires) : j \in 1 .. Len(wires)
            OBVIOUS
        <3> QED BY <1>1, <3>1, <3>2
    <2> QED BY <2>1 DEF QueueOK
<1>3. \A z \in Zones : Runs(z)' = Runs(z)
    BY DEF Runs
<1> QED BY <1>1, <1>2, <1>3

(* The answer of a walk is a value of the zones.                            *)
LEMMA AnswerFact ==
    ASSUME PanelTypeOK, sweep.ans # <<>>
    PROVE  sweep.ans[1] \in ZoneValues
<1>1. PICK g \in ZoneValues : sweep.ans = <<g>>
    BY DEF PanelTypeOK, Sweeps
<1> QED BY <1>1

(* attach_alarm_panels: whoever is not overtaken is as the zone is now, and *)
(* its countdown is the next step's.                                        *)
LEMMA AttachAlarmPanelsStep ==
    ASSUME PanelInv, AttachAlarmPanels
    PROVE  PanelInv'
<1> DEFINE incoming == PanelsOf(Listed)
           value(p) == IF p = Master THEN 3 ELSE sweep.ans[1][p]
           dropped == {p \in Panels : panel[p].n # 0 /\ p \notin incoming}
<1>1. /\ panel' = [p \in Panels |->
                      IF p \notin incoming THEN NoObject
                      ELSE IF panel[p].n # 0 THEN [panel[p] EXCEPT !.state = value(p), !.modes = TRUE]
                      ELSE [n |-> built[p] + 1, state |-> value(p), countdown |-> 0, modes |-> TRUE]]
      /\ built' = [p \in Panels |-> IF p \in incoming /\ panel[p].n = 0 THEN built[p] + 1 ELSE built[p]]
      /\ ghosts \cup dropped \subseteq ghosts'
      /\ overtaken' = overtaken \cup dropped \cup {z \in Zones : sweep.ans[1][z] # zone[z]}
      /\ sweep' = [at |-> IF incoming = {} THEN "announce" ELSE "statuses", ans |-> <<>>]
      /\ sweep.at = "panels" /\ sweep.ans # <<>>
      /\ UNCHANGED <<zone, wires, held, announced, fan>>
    BY DEF AttachAlarmPanels
<1>2. sweep.ans[1] \in ZoneValues
    BY <1>1, AnswerFact DEF PanelInv
<1>3. \A p \in Panels : value(p) \in Nat /\ panel[p] \in PanelObjects /\ built[p] \in Nat
    BY <1>2 DEF PanelInv, PanelTypeOK, ZoneValues, Panels
<1>4. \A z \in Zones : /\ z \in Panels /\ value(z) = sweep.ans[1][z]
                       /\ z \in incoming <=> sweep.ans[1][z] # Absent
    BY PanelAssumption DEF Panels, PanelsOf, Listed
<1> HIDE DEF incoming, value
<1>5. NoObject \in PanelObjects /\ NoObject.n = 0 /\ NoObject.countdown = 0
    BY DEF NoObject, PanelObjects, Absent
<1>6. ASSUME NEW p \in Panels
      PROVE  /\ panel'[p] \in PanelObjects
             /\ p \notin incoming => panel'[p] = NoObject
             /\ p \in incoming => /\ panel'[p].n # 0 /\ panel'[p].state = value(p)
                                  /\ panel[p].n # 0 => panel'[p].n = panel[p].n
    <2>1. CASE p \notin incoming
        BY <1>1, <1>5, <2>1
    <2>2. CASE p \in incoming /\ panel[p].n # 0
        <3> DEFINE q == [panel[p] EXCEPT !.state = value(p), !.modes = TRUE]
        <3>1. q \in PanelObjects /\ q.n = panel[p].n /\ q.state = value(p)
            BY <1>3 DEF PanelObjects
        <3>2. panel'[p] = q
            BY <1>1, <2>2
        <3> HIDE DEF q
        <3> QED BY <2>2, <3>1, <3>2
    <2>3. CASE p \in incoming /\ panel[p].n = 0
        <3> DEFINE q == [n |-> built[p] + 1, state |-> value(p), countdown |-> 0, modes |-> TRUE]
        <3>1. q \in PanelObjects /\ q.n # 0 /\ q.state = value(p)
            BY <1>3 DEF PanelObjects
        <3>2. panel'[p] = q
            BY <1>1, <2>3
        <3> HIDE DEF q
        <3> QED BY <2>3, <3>1, <3>2
    <2> QED BY <2>1, <2>2, <2>3
<1>7. PanelTypeOK'
    <2>1. panel' \in [Panels -> PanelObjects]
        BY <1>1, <1>6
    <2>3. built' \in [Panels -> Nat]
        <3>1. built' = [p \in Panels |-> IF p \in incoming /\ panel[p].n = 0 THEN built[p] + 1 ELSE built[p]]
            BY <1>1
        <3>2. \A p \in Panels : built[p] \in Nat
            BY <1>3
        <3> QED BY <3>1, <3>2
    <2>2. sweep' \in Sweeps
        BY <1>1 DEF Sweeps
    <2> QED BY <1>1, <2>1, <2>2, <2>3 DEF PanelInv, PanelTypeOK
<1>8. /\ QueueOK'
      /\ \A z \in Zones, i \in 1 .. Len(wires) :
           /\ Settles(z, i) => Settles(z, i)'
           /\ ClockSettles(z, i) => ClockSettles(z, i)'
      /\ \A z \in Zones : Runs(z)' = Runs(z)
    <2>1. \A z \in Zones \ overtaken' : panel[z].n # 0 => panel'[z].n # 0
        BY <1>1, <1>4, <1>6
    <2> QED BY <1>1, <2>1, QueueStays
<1>9. StoreOK'
    <2>1. \A p \in Panels : panel'[p].n = 0 => panel'[p] = NoObject
        BY <1>6
    <2>2. ASSUME NEW z \in Zones \ overtaken'
          PROVE  Right(z)' /\ (ClockRight(z)' \/ (sweep'.at = "statuses" /\ panel'[z].n # 0))
        <3>1. sweep.ans[1][z] = zone[z]
            BY <1>1
        <3>2. CASE zone[z] = Absent
            BY <1>1, <1>4, <1>5, <1>6, <3>1, <3>2 DEF Right, ClockRight, Runs
        <3>3. CASE zone[z] # Absent
            BY <1>1, <1>4, <1>6, <3>1, <3>3 DEF Right
        <3> QED BY <3>2, <3>3
    <2> QED BY <2>1, <2>2 DEF StoreOK
<1>10. HeldOK'
    <2> SUFFICES ASSUME NEW q \in Panels \ ghosts'
                 PROVE  /\ held'[q] = panel'[q].n \/ (held'[q] = 0 /\ sweep'.at \in {"statuses", "announce"})
                        /\ q \in announced' <=> held'[q] # 0
        BY DEF HeldOK
    <2>1. /\ held[q] = panel[q].n /\ (q \in announced <=> held[q] # 0)
        BY <1>1 DEF PanelInv, HeldOK
    <2>2. panel[q].n # 0 => q \in incoming
        BY <1>1
    <2>3. sweep'.at \in {"statuses", "announce"}
        BY <1>1
    <2> QED BY <1>1, <1>5, <1>6, <2>1, <2>2, <2>3
<1> QED BY <1>7, <1>8, <1>9, <1>10 DEF PanelInv

(* attach_alarm_zone_statuses                                               *)
LEMMA AttachZoneStatusesStep ==
    ASSUME PanelInv, AttachZoneStatuses
    PROVE  PanelInv'
<1> DEFINE c(p) == IF Counting(sweep.ans[1][p]) THEN sweep.ans[1][p] ELSE 0
           Shown(p) == ~(p = Master \/ p \notin Listed \/ panel[p].n = 0)
<1>1. /\ panel' = [p \in Panels |-> IF Shown(p) THEN [panel[p] EXCEPT !.countdown = c(p)] ELSE panel[p]]
      /\ overtaken' = overtaken \cup {z \in Zones : sweep.ans[1][z] # zone[z]}
      /\ sweep' = [at |-> "announce", ans |-> <<>>]
      /\ sweep.at = "statuses" /\ sweep.ans # <<>>
      /\ UNCHANGED <<zone, wires, built, held, announced, fan, ghosts>>
    BY DEF AttachZoneStatuses
<1>2. sweep.ans[1] \in ZoneValues
    BY <1>1, AnswerFact DEF PanelInv
<1>3. \A p \in Panels : panel[p] \in PanelObjects /\ (Shown(p) => c(p) \in Nat /\ p \in Zones)
    BY <1>2 DEF PanelInv, PanelTypeOK, ZoneValues, Panels
<1>4. \A z \in Zones : /\ z \in Panels
                       /\ Shown(z) <=> sweep.ans[1][z] # Absent /\ panel[z].n # 0
                       /\ c(z) # 0 <=> sweep.ans[1][z] # 0 /\ Counting(sweep.ans[1][z])
    BY PanelAssumption DEF Panels, Listed
<1> HIDE DEF c, Shown
<1>5. ASSUME NEW p \in Panels
      PROVE  /\ panel'[p] \in PanelObjects /\ panel'[p].n = panel[p].n /\ panel'[p].state = panel[p].state
             /\ IF Shown(p) THEN panel'[p].countdown = c(p) ELSE panel'[p] = panel[p]
    BY <1>1, <1>3 DEF PanelObjects
<1>6. PanelTypeOK'
    <2>1. panel' \in [Panels -> PanelObjects]
        BY <1>1, <1>5
    <2>2. sweep' \in Sweeps
        BY <1>1 DEF Sweeps
    <2> QED BY <1>1, <2>1, <2>2 DEF PanelInv, PanelTypeOK
<1>7. /\ QueueOK'
      /\ \A z \in Zones, i \in 1 .. Len(wires) :
           /\ Settles(z, i) => Settles(z, i)'
           /\ ClockSettles(z, i) => ClockSettles(z, i)'
      /\ \A z \in Zones : Runs(z)' = Runs(z)
    BY <1>1, <1>4, <1>5, QueueStays
<1>8. StoreOK'
    <2>1. \A p \in Panels : panel'[p].n = 0 => panel'[p] = NoObject
        <3>1. ASSUME NEW p \in Panels, panel[p].n = 0 PROVE ~Shown(p)
            BY <3>1 DEF Shown
        <3> QED BY <1>5, <3>1 DEF PanelInv, StoreOK
    <2>2. ASSUME NEW z \in Zones \ overtaken'
          PROVE  /\ Right(z)' \/ (\E i \in 1 .. Len(wires) : Settles(z, i))'
                 /\ ClockRight(z)' \/ (\E i \in 1 .. Len(wires) : ClockSettles(z, i))'
        <3>1. sweep.ans[1][z] = zone[z] /\ z \notin overtaken /\ z \in Panels
            BY <1>1, <1>4
        <3>2. /\ Right(z) \/ \E i \in 1 .. Len(wires) : Settles(z, i)
              /\ \/ ClockRight(z) \/ panel[z].n # 0
                 \/ \E i \in 1 .. Len(wires) : ClockSettles(z, i)
            BY <1>1, <3>1 DEF PanelInv, StoreOK
        <3>3. Right(z) => Right(z)'
            BY <1>1, <1>5, <3>1 DEF Right
        <3>4. CASE Shown(z)
            <4>1. ClockRight(z)'
                BY <1>1, <1>4, <1>5, <3>1, <3>4 DEF ClockRight, Runs, Absent
            <4> QED BY <1>1, <1>7, <3>2, <3>3, <4>1
        <3>5. CASE ~Shown(z)
            <4>1. ClockRight(z) => ClockRight(z)'
                BY <1>1, <1>5, <3>1, <3>5 DEF ClockRight, Runs
            <4>2. ASSUME panel[z].n # 0, Right(z) PROVE FALSE
                BY <1>4, <3>1, <3>5, <4>2 DEF Right
            <4>3. ASSUME panel[z].n # 0, NEW i \in 1 .. Len(wires), Settles(z, i) PROVE ClockSettles(z, i)
                BY <1>4, <3>1, <3>5, <4>3 DEF Settles, ClockSettles, Runs, Ends
            <4> QED BY <1>1, <1>7, <3>2, <3>3, <4>1, <4>2, <4>3
        <3> QED BY <3>4, <3>5
    <2> QED BY <2>1, <2>2 DEF StoreOK
<1>9. HeldOK'
    BY <1>1, <1>5 DEF PanelInv, HeldOK
<1> QED BY <1>6, <1>7, <1>8, <1>9 DEF PanelInv

LEMMA SweepAnnouncesStep ==
    ASSUME PanelInv, SweepAnnounces
    PROVE  PanelInv'
<1> DEFINE new == {p \in Panels : panel[p].n # 0 /\ held[p] # panel[p].n}
<1>1. /\ sweep.at = "announce" /\ panel' = panel /\ sweep' = IdleSweep
      /\ held' = [p \in Panels |-> IF p \in new /\ held[p] = 0 THEN panel'[p].n ELSE held[p]]
      /\ announced' = announced \cup new
      /\ UNCHANGED <<zone, wires, built, fan, overtaken, ghosts>>
    BY DEF SweepAnnounces, Offer
<1>2. \A p \in Panels : panel[p].n \in Nat /\ held[p] \in Nat
    BY DEF PanelInv, PanelTypeOK, PanelObjects
<1>3. PanelTypeOK'
    BY <1>1, <1>2 DEF PanelInv, PanelTypeOK, Sweeps, IdleSweep
<1>4. /\ QueueOK'
      /\ \A z \in Zones, i \in 1 .. Len(wires) :
           /\ Settles(z, i) => Settles(z, i)'
           /\ ClockSettles(z, i) => ClockSettles(z, i)'
      /\ \A z \in Zones : Runs(z)' = Runs(z)
    BY <1>1, QueueStays
<1>6. StoreOK'
    <2>1. ASSUME NEW z \in Zones \ overtaken
          PROVE  /\ Right(z) \/ \E i \in 1 .. Len(wires) : Settles(z, i)
                 /\ ClockRight(z) \/ \E i \in 1 .. Len(wires) : ClockSettles(z, i)
        BY <1>1 DEF PanelInv, StoreOK
    <2>2. ASSUME NEW z \in Zones
          PROVE  (Right(z) => Right(z)') /\ (ClockRight(z) => ClockRight(z)')
        BY <1>1, <1>4 DEF Right, ClockRight
    <2>3. ASSUME NEW z \in Zones \ overtaken
          PROVE  /\ Right(z)' \/ (\E i \in 1 .. Len(wires) : Settles(z, i))'
                 /\ ClockRight(z)' \/ (\E i \in 1 .. Len(wires) : ClockSettles(z, i))'
        BY <1>1, <1>4, <2>1, <2>2
    <2>4. \A p \in Panels : panel'[p].n = 0 => panel'[p] = NoObject
        BY <1>1 DEF PanelInv, StoreOK
    <2> QED BY <1>1, <2>3, <2>4 DEF StoreOK
<1>5. HeldOK'
    BY <1>1, <1>2 DEF PanelInv, HeldOK
<1> QED BY <1>3, <1>4, <1>5, <1>6 DEF PanelInv

-----------------------------------------------------------------------------
(* A command of the master only queues its zones.                           *)
LEMMA MasterStep ==
    ASSUME PanelInv,
           (\E arm \in BOOLEAN : MasterCommand(arm)) \/ (\E c \in fan : ZoneRefuses(c)) \/ UNCHANGED panelVars
    PROVE  PanelInv'
<1>1. UNCHANGED <<zone, wires, panel, built, held, announced, sweep, overtaken, ghosts>>
    BY DEF MasterCommand, ZoneRefuses, panelVars
<1>2. fan' \subseteq [z : Zones, arm : BOOLEAN]
    BY DEF MasterCommand, ZoneRefuses, panelVars, PanelInv, PanelTypeOK
<1>3. PanelTypeOK' /\ HeldOK'
    BY <1>1, <1>2 DEF PanelInv, PanelTypeOK, HeldOK
<1>4. QueueOK' /\ StoreOK'
    BY <1>1 DEF PanelInv, QueueOK, StoreOK, Decides, Clocks, Ends, Settles, ClockSettles,
       Runs, PresentAt, Removes, Right, ClockRight
<1> QED BY <1>3, <1>4 DEF PanelInv

LEMMA PanelStepInv == PanelInv /\ [PanelNext]_panelVars => PanelInv'
<1> SUFFICES ASSUME PanelInv, [PanelNext]_panelVars PROVE PanelInv'
    OBVIOUS
<1>1. CASE \E z \in Zones : ZoneMoves(z) \/ ZoneCreated(z) \/ ZoneDeleted(z)
    BY <1>1, ZoneMovesStep, ZoneCreatedStep, ZoneDeletedStep
<1>2. CASE OnPanelChanged \/ OnPanelRemoved \/ OnStateChanged \/ OnCountdown
    BY <1>2, OnPanelChangedStep, OnPanelRemovedStep, CountdownStep
<1>3. CASE AlarmStreamLost \/ SweepAnswered \/ AttachAlarmPanels \/ AttachZoneStatuses \/ SweepAnnounces
    BY <1>3, AlarmStreamLostStep, SweepAnsweredStep, AttachAlarmPanelsStep, AttachZoneStatusesStep,
       SweepAnnouncesStep
<1>4. CASE \E c \in fan : ZoneCommanded(c)
    BY <1>4, ZoneCommandedStep
<1>5. CASE (\E arm \in BOOLEAN : MasterCommand(arm)) \/ (\E c \in fan : ZoneRefuses(c)) \/ UNCHANGED panelVars
    BY <1>5, MasterStep
<1> QED BY <1>1, <1>2, <1>3, <1>4, <1>5 DEF PanelNext

(* alarm_panel.py, store.py, adapter.py: for all zones and every number of  *)
(* transitions, creations, deletions and losses, at rest each panel is as   *)
(* its zone is, countdown included, unless a walk's answer was overtaken by *)
(* a push; and HA holds the store's object of every panel that no walk has  *)
(* dropped.                                                                 *)
THEOREM PanelsFollowTheirZones == PanelSpec => []PanelsFollowZones
<1>1. PanelInv => PanelsFollowZones
    <2> SUFFICES ASSUME PanelInv, PanelsAtRest
                 PROVE  /\ \A z \in Zones \ overtaken : Right(z) /\ ClockRight(z)
                        /\ \A p \in Panels \ ghosts : held[p] = panel[p].n
        BY DEF PanelsFollowZones, Right, ClockRight, Runs
    <2>1. Len(wires) = 0 /\ sweep.at = "idle"
        BY EmptySeq DEF PanelsAtRest, IdleSweep
    <2> QED BY <2>1 DEF PanelInv, StoreOK, HeldOK
<1> QED BY <1>1, PanelInitInv, PanelStepInv, PTL DEF PanelSpec

-----------------------------------------------------------------------------
(***************************************************************************)
(* HubSingletons.  Every write is a picture of the daemon no newer than    *)
(* its present, so a write either brings the daemon's value, replaces a    *)
(* newer one (and is excused as late), or leaves a value that was not the  *)
(* daemon's before it either.  What is not the daemon's and not excused    *)
(* has the daemon's value on its way: in a push, in the read a push made   *)
(* the dispatch loop do, or, before the push routing exists, in a read the *)
(* first fetch has still to do.                                            *)
(***************************************************************************)
HubPushes == {p \in [f : Singletons, v : Nat, n : Nat, local : BOOLEAN] : p.f \in Security => p.local}
HubValues == [Singletons -> Nat]
HubAnswers == [truth : HubValues, size : [Counted -> Nat]]
HubSteps == {"idle", "aggregate", "alarm", "service", "update", "addon", "security", "publish", "faults"}
HubTasks == [at : HubSteps, n : [Counted -> Nat], ans : Seq(HubAnswers),
             changed : SUBSET Singletons]

HubTypeOK ==
    /\ truth \in HubValues /\ shows \in HubValues
    /\ size \in [Counted -> Nat]
    /\ tally \in [moves : Nat, fetches : Nat, misses : Nat]
    /\ stream \in Seq(HubPushes)
    /\ calls \subseteq [f : InstallMode \cup Updates, v : Nat]
    /\ actor \in [Actors -> HubTasks]
    /\ have \subseteq Singletons

(* No value is newer than the daemon's.                                     *)
NoneNewer ==
    /\ \A f \in Singletons : truth[f] <= tally.moves + 1
    /\ \A i \in 1 .. Len(stream) : stream[i].local => stream[i].v <= truth[stream[i].f]
    /\ \A a \in Actors : actor[a].ans # <<>> => \A f \in Singletons : Answer(a).truth[f] <= truth[f]

(* What an actor may be at.                                                 *)
HubTasksOK ==
    /\ actor["dispatch"].at \in {"idle", "alarm", "service", "faults"}
    /\ \A a \in Fetchers :
         /\ actor[a].at # "faults"
         /\ actor[a].at \in {"idle", "aggregate"} => actor[a].changed = {}
    /\ \A a \in Actors :
         /\ actor[a].at = "idle" => actor[a].ans = <<>>
         /\ actor[a].at = "security" /\ actor[a].ans # <<>> => Severity \in have

(* What is built together, and what is at rest before it is.                *)
BuiltOK ==
    /\ Severity \in have => Security \ ClassSensors \subseteq have
    /\ ClassSensors \cap have # {} => Severity \in have
    /\ have = {} => /\ ~routed /\ \A f \in Singletons : shows[f] = Unseen
                    /\ actor["hook"].at = "idle"
    /\ ~routed => /\ stream = <<>> /\ calls = {}
                  /\ actor["loop"].at = "idle" /\ actor["dispatch"].at = "idle"

(* The daemon's value of a singleton is on its way.                         *)
Pushed(f) == \E i \in 1 .. Len(stream) : stream[i].f = f /\ stream[i].local /\ stream[i].v = truth[f]
NotOutdated(a, f) == actor[a].ans = <<>> \/ Answer(a).truth[f] = truth[f]
DispatchReads(f) ==
    /\ actor["dispatch"].at # "idle" /\ f = Hub(actor["dispatch"].at)
    /\ NotOutdated("dispatch", f)
StepsBefore(f) ==
    IF f \in Aggregated THEN {}
    ELSE IF f = Hub("alarm") THEN {"aggregate"}
    ELSE IF f = Hub("service") THEN {"aggregate", "alarm"}
    ELSE {"aggregate", "alarm", "service"}
StepOf(f) == IF f \in Aggregated THEN "aggregate" ELSE f[1]
HookReads(f) ==
    /\ f \in Aggregated \cup MessageLists \cup {Hub("update")} /\ shows[f] = Unseen
    /\ \/ actor["hook"].at \in StepsBefore(f)
       \/ actor["hook"].at = StepOf(f) /\ NotOutdated("hook", f)
OnTheWay(f) == IF routed THEN Pushed(f) \/ DispatchReads(f) ELSE HookReads(f)

HubExplained == \A f \in Expected : shows[f] = truth[f] \/ f \in excused \/ OnTheWay(f)

(* HA has been told, or is to be told by a fetch.                           *)
HubTold ==
    routed => \A f \in Singletons :
        rendered[f] = shows[f] \/ f \in silent \/ \E a \in Fetchers : f \in actor[a].changed

HubInv == HubTypeOK /\ NoneNewer /\ HubTasksOK /\ BuiltOK /\ HubExplained /\ HubTold

(* Which singleton is of which kind.                                        *)
LEMMA KindsOfSingletons ==
    /\ Counters \cup Connectivity \cup InstallMode = Aggregated
    /\ Aggregated \cup MessageLists \cup Updates \cup Security = Singletons
    /\ Severity \in Security /\ Faults \in Security /\ Severity \notin ClassSensors
    /\ Faults \notin ClassSensors /\ Reports \cap ClassSensors = {}
    /\ MessageLists = {Hub("alarm"), Hub("service")} /\ Updates = {Hub("update"), Hub("addon")}
    /\ Counted = MessageLists \cup {Faults} /\ Counted \subseteq Singletons
    /\ Aggregated \cap (MessageLists \cup Updates \cup Security) = {}
    /\ (MessageLists \cup Updates) \cap Security = {} /\ MessageLists \cap Updates = {}
    /\ ClassSensors \subseteq Security
<1>1. \A k : Hub(k) = <<k, "hub">>
    BY DEF Hub
<1>2. \A f \in Aggregated : f[1] \in {"inbox", "metric", "connectivity", "install"}
    BY <1>1 DEF Aggregated, Counters, Connectivity, InstallMode
<1>3. \A f \in MessageLists : f[1] \in {"alarm", "service"}
    BY <1>1 DEF MessageLists
<1>4. \A f \in Updates : f[1] \in {"update", "addon"}
    BY <1>1 DEF Updates
<1>5. \A f \in ClassSensors : f[1] = "class"
    BY DEF ClassSensors
<1>6. \A f \in {Severity, Faults} \cup Reports : f[1] \in {"severity", "faults", "alarm_report", "fault_report"}
    BY <1>1 DEF Severity, Faults, Reports
<1>7. Security = {Severity, Faults} \cup Reports \cup ClassSensors
    BY DEF Security
<1>8. Singletons = Aggregated \cup MessageLists \cup Updates \cup Security
    BY DEF Singletons
<1>9. /\ Counters \cup Connectivity \cup InstallMode = Aggregated
      /\ MessageLists = {Hub("alarm"), Hub("service")} /\ Updates = {Hub("update"), Hub("addon")}
      /\ Counted = MessageLists \cup {Faults}
    BY DEF Aggregated, MessageLists, Updates, Counted
<1>10. Severity \notin ClassSensors /\ Faults \notin ClassSensors /\ Reports \cap ClassSensors = {}
    BY <1>5, <1>6
<1>11. Aggregated \cap (MessageLists \cup Updates \cup Security) = {}
    BY <1>2, <1>3, <1>4, <1>5, <1>6, <1>7
<1>12. (MessageLists \cup Updates) \cap Security = {} /\ MessageLists \cap Updates = {}
    BY <1>3, <1>4, <1>5, <1>6, <1>7
<1> QED BY <1>7, <1>8, <1>9, <1>10, <1>11, <1>12

(* The singletons of the steps.                                             *)
LEMMA HubNames ==
    /\ \A j, k : Hub(j) = Hub(k) => j = k
    /\ \A k : Hub(k)[1] = k /\ ListOf(k) = Hub(k)
    /\ Faults = Hub("faults") /\ Severity = Hub("severity")
BY DEF Hub, ListOf, Faults, Severity

(* The order of the reads.                                                  *)
LEMMA AfterFact ==
    /\ After("aggregate") = "alarm" /\ After("alarm") = "service" /\ After("service") = "update"
    /\ After("update") = "addon" /\ After("addon") = "security" /\ After("security") = "publish"
<1>1. /\ Len(Plan) = 7 /\ Plan[1] = "aggregate" /\ Plan[2] = "alarm" /\ Plan[3] = "service"
      /\ Plan[4] = "update" /\ Plan[5] = "addon" /\ Plan[6] = "security" /\ Plan[7] = "publish"
    BY DEF Plan
<1>2. ASSUME NEW k \in 1 .. 6 PROVE After(Plan[k]) = Plan[k + 1]
    <2>1. \A i \in 1 .. Len(Plan) : Plan[i] = Plan[k] => i = k
        BY <1>1
    <2>2. (CHOOSE i \in 1 .. Len(Plan) : Plan[i] = Plan[k]) = k
        <3>1. k \in 1 .. Len(Plan) /\ Plan[k] = Plan[k]
            BY <1>1
        <3> QED BY <2>1, <3>1
    <2>3. Plan[1 + k] = Plan[k + 1]
        OBVIOUS
    <2> QED BY <2>2, <2>3 DEF After
<1> QED BY <1>1, <1>2

(* A write of something no newer than the daemon's value: it brings the     *)
(* daemon's value, is excused, or the singleton was wrong and not excused   *)
(* before.                                                                  *)
LEMMA WriteFact ==
    ASSUME HubTypeOK, shows' \in HubValues, truth' = truth, NEW fs, Excuses(fs),
           NEW f \in Singletons, shows'[f] <= truth[f] \/ f \in fs \/ shows'[f] = shows[f]
    PROVE  \/ shows'[f] = truth'[f] \/ f \in excused'
           \/ f \notin excused /\ shows[f] # truth[f]
<1>1. shows[f] \in Nat /\ shows'[f] \in Nat /\ truth[f] \in Nat
    BY DEF HubTypeOK, HubValues
<1>2. excused' = {h \in excused \cup fs \cup {g \in Singletons : shows'[g] < shows[g]} :
                    shows'[h] # truth[h] \/ shows'[h] = shows[h]}
    BY DEF Excuses
<1>3. CASE f \in excused \cup fs
    BY <1>2, <1>3
<1>4. CASE f \notin excused \cup fs
    <2>1. shows'[f] < shows[f] => shows'[f] = truth[f] \/ f \in excused'
        BY <1>2
    <2> QED BY <1>1, <1>4, <2>1
<1> QED BY <1>3, <1>4

(* What is left to show of a step that writes.                              *)
LEMMA ExplainedStep ==
    ASSUME HubInv, shows' \in HubValues, truth' = truth, NEW fs, Excuses(fs),
           \A f \in Singletons : shows'[f] <= truth[f] \/ f \in fs \/ shows'[f] = shows[f],
           \A f \in Expected' : f \in Expected \/ shows'[f] = truth[f],
           have' \subseteq Singletons,
           \A f \in Expected : OnTheWay(f) /\ shows[f] # truth[f] /\ f \notin excused =>
               shows'[f] = truth[f] \/ f \in excused' \/ OnTheWay(f)'
    PROVE  HubExplained'
<1>1. Expected' \subseteq Singletons
    BY KindsOfSingletons DEF Expected
<1> SUFFICES ASSUME NEW f \in Expected'
             PROVE  shows'[f] = truth'[f] \/ f \in excused' \/ OnTheWay(f)'
    BY DEF HubExplained
<1>2. CASE shows'[f] = truth[f]
    BY <1>2
<1>3. CASE shows'[f] # truth[f] /\ f \in Expected
    <2>1. f \in excused' \/ (f \notin excused /\ shows[f] # truth[f])
        BY <1>1, <1>3, WriteFact DEF HubInv
    <2>2. shows[f] = truth[f] \/ f \in excused \/ OnTheWay(f)
        BY <1>3 DEF HubInv, HubExplained
    <2> QED BY <1>3, <2>1, <2>2
<1> QED BY <1>2, <1>3

(* HA is told of what a step moves, at once or at the end of a fetch.       *)
LEMMA ToldStep ==
    ASSUME HubTold, routed' = routed, NEW fs,
           \/ PublishEach(fs)
           \/ fs = {} /\ UNCHANGED rendered /\ silent \subseteq silent',
           \A f \in Singletons : shows'[f] # shows[f] =>
               f \in fs \/ f \in silent' \/ \E a \in Fetchers : f \in actor'[a].changed,
           \A a \in Fetchers : \A f \in actor[a].changed : f \in actor'[a].changed \/ f \in fs
    PROVE  HubTold'
<1> SUFFICES ASSUME routed, NEW f \in Singletons
             PROVE  rendered'[f] = shows'[f] \/ f \in silent' \/ \E a \in Fetchers : f \in actor'[a].changed
    BY DEF HubTold
<1>1. f \in fs => rendered'[f] = shows'[f]
    BY DEF PublishEach
<1>2. f \notin fs => rendered'[f] = rendered[f] /\ (f \in silent => f \in silent')
    BY DEF PublishEach
<1> QED BY <1>1, <1>2 DEF HubTold

(* One actor goes on and the daemon stays as it is.                         *)
LEMMA TaskStep ==
    ASSUME HubInv, NEW a \in Actors, NEW t \in HubTasks, actor' = [actor EXCEPT ![a] = t],
           UNCHANGED <<truth, stream>>, tally' \in [moves : Nat, fetches : Nat, misses : Nat],
           tally'.moves = tally.moves, have \subseteq have',
           a = "dispatch" => t.at \in {"idle", "alarm", "service", "faults"},
           a \in Fetchers => t.at # "faults" /\ (t.at \in {"idle", "aggregate"} => t.changed = {}),
           t.at = "idle" => t.ans = <<>>,
           t.ans = <<>> \/ (t.ans[1].truth = truth /\ (t.at = "security" => Severity \in have))
    PROVE  /\ actor' \in [Actors -> HubTasks] /\ NoneNewer' /\ HubTasksOK'
           /\ actor'[a] = t /\ \A b \in Actors \ {a} : actor'[b] = actor[b]
<1>1. actor' \in [Actors -> HubTasks] /\ actor'[a] = t /\ \A b \in Actors \ {a} : actor'[b] = actor[b]
    BY DEF HubInv, HubTypeOK
<1>2. HubTasksOK'
    <2>1. actor'["dispatch"].at \in {"idle", "alarm", "service", "faults"}
        BY <1>1 DEF HubInv, HubTasksOK, Actors
    <2>2. ASSUME NEW b \in Fetchers
          PROVE  /\ actor'[b].at # "faults"
                 /\ actor'[b].at \in {"idle", "aggregate"} => actor'[b].changed = {}
        BY <1>1 DEF HubInv, HubTasksOK, Actors
    <2>3. ASSUME NEW b \in Actors
          PROVE  /\ actor'[b].at = "idle" => actor'[b].ans = <<>>
                 /\ actor'[b].at = "security" /\ actor'[b].ans # <<>> => Severity \in have'
        BY <1>1 DEF HubInv, HubTasksOK
    <2> QED BY <2>1, <2>2, <2>3 DEF HubTasksOK
<1>3. NoneNewer'
    <2>1. \A f \in Singletons : truth'[f] <= tally'.moves + 1
        BY DEF HubInv, NoneNewer
    <2>2. \A i \in 1 .. Len(stream') : stream'[i].local => stream'[i].v <= truth'[stream'[i].f]
        BY DEF HubInv, NoneNewer
    <2>3. ASSUME NEW b \in Actors, actor'[b].ans # <<>>, NEW f \in Singletons
          PROVE  actor'[b].ans[1].truth[f] <= truth'[f]
        <3>1. CASE b = a
            <4>1. truth[f] \in Nat
                BY DEF HubInv, HubTypeOK, HubValues
            <4> QED BY <1>1, <2>3, <3>1, <4>1
        <3>2. CASE b # a
            BY <1>1, <2>3, <3>2 DEF HubInv, NoneNewer, Answer
        <3> QED BY <3>1, <3>2
    <2> QED BY <2>1, <2>2, <2>3 DEF NoneNewer, Answer
<1> QED BY <1>1, <1>2, <1>3

(* Where the other actors read is not touched.                              *)
LEMMA OthersRead ==
    ASSUME NEW a, NEW f, UNCHANGED <<truth, shows>>, actor'[a] = actor[a]
    PROVE  /\ NotOutdated(a, f)' = NotOutdated(a, f)
           /\ a = "dispatch" => DispatchReads(f)' = DispatchReads(f)
           /\ a = "hook" => HookReads(f)' = HookReads(f)
<1>1. NotOutdated(a, f)' = NotOutdated(a, f)
    BY DEF NotOutdated, Answer
<1>2. a = "dispatch" => DispatchReads(f)' = DispatchReads(f)
    BY <1>1 DEF DispatchReads
<1>3. a = "hook" => HookReads(f)' = HookReads(f)
    BY <1>1 DEF HookReads
<1> QED BY <1>1, <1>2, <1>3

(* At first nothing is built and nothing is on its way.                     *)
LEMMA HubStarts == HubInit => HubInv
<1> SUFFICES ASSUME HubInit PROVE HubInv
    OBVIOUS
<1>1. /\ have = {} /\ stream = <<>> /\ routed = FALSE /\ calls = {} /\ actor = [a \in Actors |-> Resting]
      /\ tally = [moves |-> 0, fetches |-> 0, misses |-> 0]
      /\ truth = [f \in Singletons |-> IF f \in ClassSensors THEN Unseen ELSE 1]
      /\ shows = [f \in Singletons |-> Unseen] /\ size = [f \in Counted |-> 1]
    BY DEF HubInit
<1>2. Resting \in HubTasks /\ Resting.at = "idle" /\ Resting.ans = <<>> /\ Resting.changed = {}
    BY DEF Resting, HubTasks, HubSteps
<1>3. HubTypeOK
    BY <1>1, <1>2 DEF HubTypeOK, HubValues, Unseen
<1>4. NoneNewer
    BY <1>1, <1>2 DEF NoneNewer, Unseen
<1>5. HubTasksOK
    BY <1>1, <1>2 DEF HubTasksOK, Actors, Fetchers
<1>6. BuiltOK
    BY <1>1, <1>2 DEF BuiltOK, Actors, Fetchers
<1>7. HubExplained
    BY <1>1 DEF HubExplained, Expected
<1>8. HubTold
    BY <1>1 DEF HubTold
<1> QED BY <1>3, <1>4, <1>5, <1>6, <1>7, <1>8 DEF HubInv

(* A fetch begins; the first one builds the singletons.                     *)
LEMMA FetchBeginsStep ==
    ASSUME HubInv, NEW a \in Fetchers, FetchBegins(a)
    PROVE  HubInv'
<1>1. PICK t : t = [Resting EXCEPT !.at = "aggregate"] /\ actor' = [actor EXCEPT ![a] = t]
    BY DEF FetchBegins
<1>2. /\ t \in HubTasks /\ t.at = "aggregate" /\ t.ans = <<>> /\ t.changed = {} /\ a \in Actors
    <2>1. t = [at |-> "aggregate", n |-> [f \in Counted |-> 0], ans |-> <<>>, changed |-> {}]
        BY <1>1 DEF Resting
    <2>2. [f \in Counted |-> 0] \in [Counted -> Nat] /\ <<>> \in Seq(HubAnswers) /\ "aggregate" \in HubSteps
        BY DEF HubSteps
    <2> QED BY <2>1, <2>2 DEF HubTasks, Actors
<1>3. /\ actor[a].at = "idle" /\ (a = "loop" => routed)
      /\ UNCHANGED <<truth, size, stream, routed, rendered, calls, silent>>
      /\ HubTypeOK /\ NoneNewer /\ HubTasksOK /\ BuiltOK /\ HubExplained /\ HubTold
    BY DEF FetchBegins, HubInv
<1>4. tally' \in [moves : Nat, fetches : Nat, misses : Nat] /\ tally'.moves = tally.moves
    <2>1. tally \in [moves : Nat, fetches : Nat, misses : Nat]
        BY <1>3 DEF HubTypeOK
    <2>2. CASE have # {}
        <3>1. tally' = [tally EXCEPT !.fetches = @ + 1]
            BY <2>2 DEF FetchBegins
        <3> QED BY <2>1, <3>1
    <2>3. CASE have = {}
        <3>1. PICK ok \in [{"addon", "security", "interfaces"} -> BOOLEAN] :
                tally' = [tally EXCEPT !.fetches = @ + 1,
                                       !.misses = @ + Cardinality({r \in DOMAIN ok : ~ok[r]})]
            BY <2>3 DEF FetchBegins
        <3>2. Cardinality({r \in DOMAIN ok : ~ok[r]}) \in Nat
            <4>1. IsFiniteSet({"addon", "security", "interfaces"})
                <5>1. IsFiniteSet({} \cup {"addon"})
                    BY FS_EmptySet, FS_AddElement
                <5>2. IsFiniteSet(({} \cup {"addon"}) \cup {"security"})
                    BY <5>1, FS_AddElement
                <5>3. IsFiniteSet((({} \cup {"addon"}) \cup {"security"}) \cup {"interfaces"})
                    BY <5>2, FS_AddElement
                <5>4. (({} \cup {"addon"}) \cup {"security"}) \cup {"interfaces"} = {"addon", "security", "interfaces"}
                    OBVIOUS
                <5> QED BY <5>3, <5>4
            <4>2. {r \in DOMAIN ok : ~ok[r]} \subseteq {"addon", "security", "interfaces"}
                OBVIOUS
            <4> QED BY <4>1, <4>2, FS_Subset, FS_CardinalityType
        <3>3. PICK k \in Nat : tally' = [tally EXCEPT !.fetches = @ + 1, !.misses = @ + k]
            BY <3>1, <3>2
        <3>4. PICK m \in Nat, x \in Nat, y \in Nat : tally = [moves |-> m, fetches |-> x, misses |-> y]
            BY <2>1
        <3>5. tally' = [moves |-> m, fetches |-> x + 1, misses |-> y + k]
            BY <3>3, <3>4
        <3> QED BY <3>4, <3>5
    <2> QED BY <2>2, <2>3
<1>5. have \subseteq have'
    BY DEF FetchBegins
<1>6. /\ actor' \in [Actors -> HubTasks] /\ NoneNewer' /\ HubTasksOK'
      /\ actor'[a] = t /\ \A b \in Actors \ {a} : actor'[b] = actor[b]
    BY <1>1, <1>2, <1>3, <1>4, <1>5, TaskStep DEF Fetchers
<1>7. CASE have # {}
    <2>1. UNCHANGED <<have, shows, excused>>
        BY <1>7 DEF FetchBegins
    <2>2. HubTypeOK'
        BY <1>3, <1>4, <1>6, <2>1 DEF HubTypeOK, HubValues
    <2>3. BuiltOK'
        BY <1>3, <1>6, <1>7, <2>1 DEF BuiltOK, Actors, Fetchers
    <2>4. ASSUME NEW f, OnTheWay(f) PROVE OnTheWay(f)'
        <3>1. CASE routed
            <4>1. DispatchReads(f)' = DispatchReads(f)
                BY <1>3, <1>6, <2>1, OthersRead DEF Fetchers, Actors
            <4> QED BY <1>3, <2>4, <3>1, <4>1 DEF OnTheWay, Pushed
        <3>2. CASE ~routed
            <4>1. a = "hook"
                BY <1>3, <3>2 DEF Fetchers
            <4>2. actor["hook"].at # "idle"
                BY <2>4, <3>2 DEF OnTheWay, HookReads, StepsBefore, StepOf, Aggregated, MessageLists,
                                  Counters, Connectivity, InstallMode, Hub
            <4> QED BY <1>3, <4>1, <4>2
        <3> QED BY <3>1, <3>2
    <2>5. HubExplained'
        BY <1>3, <2>1, <2>4 DEF HubExplained, Expected
    <2>6. HubTold'
        BY <1>2, <1>3, <1>6, <2>1, ToldStep DEF HubTasksOK, Fetchers, Actors
    <2> QED BY <1>6, <2>2, <2>3, <2>5, <2>6 DEF HubInv
<1>8. CASE have = {}
    <2>1. PICK addon, security, interfaces \in BOOLEAN : EnsureSingletons(addon, security, interfaces) /\ Excuses({})
        BY <1>8 DEF FetchBegins
    <2> DEFINE seeded == (IF addon THEN {Hub("addon")} ELSE {}) \cup
                  (IF security THEN {f \in Security : f \notin ClassSensors \/ truth[f] # Unseen} ELSE {})
    <2>2. /\ have' = Counters \cup MessageLists \cup {Hub("update")} \cup seeded \cup
                     (IF interfaces THEN Connectivity \cup InstallMode ELSE {})
          /\ UpdateValue([f \in seeded |-> truth[f]])
        BY <2>1 DEF EnsureSingletons
    <2>3. seeded \subseteq Singletons /\ seeded \subseteq {Hub("addon")} \cup Security
        BY KindsOfSingletons
    <2>4. security => \A f \in Security : f \in seeded \/ (f \in ClassSensors /\ truth[f] = Unseen)
        OBVIOUS
    <2>5. ~security => seeded \subseteq {Hub("addon")}
        OBVIOUS
    <2> HIDE DEF seeded
    <2>6. /\ ~routed /\ a = "hook" /\ \A f \in Singletons : shows[f] = Unseen
        BY <1>3, <1>8 DEF BuiltOK, Fetchers
    <2>7. \A f \in Singletons : shows'[f] = IF f \in seeded THEN truth[f] ELSE Unseen
        BY <2>2, <2>6 DEF UpdateValue
    <2>8. shows' \in HubValues
        BY <1>3, <2>2, <2>3 DEF UpdateValue, HubTypeOK, HubValues
    <2>9. have' \subseteq Singletons
        BY <2>2, <2>3, KindsOfSingletons
    <2>10. HubTypeOK'
        BY <1>3, <1>4, <1>6, <2>8, <2>9 DEF HubTypeOK, HubValues
    <2>11. \A f \in have' : f \in seeded \/ f \in Aggregated \cup MessageLists \cup {Hub("update")}
        BY <2>2, KindsOfSingletons
    <2>12. Hub("addon") \notin Security /\ \A f \in Aggregated \cup MessageLists \cup {Hub("update")} : f \notin Security
        BY KindsOfSingletons
    <2>13. \A f \in have' \cap Security : security /\ f \in seeded
        BY <2>3, <2>5, <2>11, <2>12
    <2>14. BuiltOK'
        <3>1. Severity \in have' => Security \ ClassSensors \subseteq have'
            BY <2>2, <2>4, <2>13, KindsOfSingletons
        <3>2. ClassSensors \cap have' # {} => Severity \in have'
            BY <2>2, <2>4, <2>13, KindsOfSingletons
        <3>3. have' # {}
            BY <2>2 DEF Counters
        <3>4. /\ stream' = <<>> /\ calls' = {}
              /\ actor'["loop"].at = "idle" /\ actor'["dispatch"].at = "idle"
            <4>1. /\ stream = <<>> /\ calls = {} /\ actor["loop"].at = "idle" /\ actor["dispatch"].at = "idle"
                BY <1>3, <2>6 DEF BuiltOK
            <4> QED BY <1>3, <1>6, <2>6, <4>1 DEF Actors, Fetchers
        <3> QED BY <3>1, <3>2, <3>3, <3>4 DEF BuiltOK
    <2>15. HubExplained'
        <3> SUFFICES ASSUME NEW f \in Expected', f \notin seeded
                     PROVE  shows'[f] = truth'[f] \/ f \in excused' \/ OnTheWay(f)'
            BY <1>3, <2>3, <2>7 DEF HubExplained
        <3>1. f \in have'
            <4>1. f \in ClassSensors /\ Severity \in have' /\ truth'[f] # Unseen => f \in seeded
                BY <1>3, <2>4, <2>13, KindsOfSingletons
            <4> QED BY <4>1 DEF Expected
        <3>2. f \in Aggregated \cup MessageLists \cup {Hub("update")}
            BY <2>11, <3>1
        <3>3. shows'[f] = Unseen /\ actor'["hook"].at = "aggregate" /\ actor'["hook"].ans = <<>>
            BY <1>2, <1>6, <2>6, <2>7, <2>9, <3>1
        <3>4. HookReads(f)'
            BY <3>2, <3>3 DEF HookReads, StepsBefore, StepOf, NotOutdated
        <3> QED BY <1>3, <2>6, <3>4 DEF OnTheWay
    <2>16. HubTold'
        BY <1>3, <2>6 DEF HubTold
    <2> QED BY <1>6, <2>10, <2>14, <2>15, <2>16 DEF HubInv
<1> QED BY <1>7, <1>8

(* The singletons the first fetch gives their first value.                  *)
FirstRead == Aggregated \cup MessageLists \cup {Hub("update")}

(* A fetch goes on to its next read.                                        *)
LEMMA NextRead ==
    ASSUME NEW a \in Fetchers, NEW t, actor'[a] = t, UNCHANGED truth,
           actor[a].at \in {"aggregate", "alarm", "service", "update", "addon", "security"},
           t.at = After(actor[a].at), t.ans = <<>>, NEW f \in FirstRead,
           shows'[f] = Unseen, a = "hook", actor["hook"].at \in StepsBefore(f)
    PROVE  HookReads(f)'
<1>1. actor'["hook"].at = After(actor["hook"].at) /\ NotOutdated("hook", f)'
    BY DEF NotOutdated
<1>2. StepsBefore(f)' = StepsBefore(f) /\ StepOf(f)' = StepOf(f)
    BY DEF StepsBefore, StepOf
<1>3. actor'["hook"].at \in StepsBefore(f) \/ actor'["hook"].at = StepOf(f)
    <2>1. CASE f \in Aggregated
        BY <2>1 DEF StepsBefore
    <2>2. CASE f \notin Aggregated /\ f \in {Hub("alarm"), Hub("service"), Hub("update")}
        BY <1>1, <2>2, AfterFact, HubNames DEF StepsBefore, StepOf
    <2> QED BY <2>1, <2>2, KindsOfSingletons DEF FirstRead
<1> QED BY <1>1, <1>2, <1>3 DEF HookReads, FirstRead

(* A step of a fetch is over, its answer applied, skipped or missing.       *)
LEMMA ReadDone ==
    ASSUME HubInv, NEW a \in Fetchers, NEW t \in HubTasks, NEW fs, actor' = [actor EXCEPT ![a] = t],
           actor[a].at \in {"aggregate", "alarm", "service", "update", "addon", "security"},
           t.at = After(actor[a].at), t.ans = <<>>, actor[a].changed \subseteq t.changed,
           UNCHANGED <<truth, size, stream, routed, calls, rendered, silent>>,
           tally' \in [moves : Nat, fetches : Nat, misses : Nat], tally'.moves = tally.moves,
           \/ Excuses(fs)
           \/ UNCHANGED shows /\ excused \subseteq excused',
           shows' \in HubValues,
           \A f \in Singletons : shows'[f] # shows[f] =>
               actor[a].ans # <<>> /\ shows'[f] = Answer(a).truth[f] /\ f \in t.changed,
           \A f \in FirstRead : StepOf(f) # actor[a].at => shows'[f] = shows[f],
           \A f \in FirstRead \cap have : StepOf(f) = actor[a].at /\ shows[f] = Unseen =>
               f \in excused' \/ (actor[a].ans # <<>> /\ shows'[f] = Answer(a).truth[f]),
           have' \subseteq Singletons, have \subseteq have',
           have' = have \/ (Severity \in have /\ \A f \in have' \ have : f \in ClassSensors /\ truth[f] # Unseen)
    PROVE  HubInv'
<1>1. HubTypeOK /\ NoneNewer /\ HubTasksOK /\ BuiltOK /\ HubExplained /\ HubTold /\ a \in Actors
    BY DEF HubInv, Actors
<1>2. t.at \in {"alarm", "service", "update", "addon", "security", "publish"}
    BY AfterFact
<1>3. /\ actor' \in [Actors -> HubTasks] /\ NoneNewer' /\ HubTasksOK'
      /\ actor'[a] = t /\ \A b \in Actors \ {a} : actor'[b] = actor[b]
    BY <1>1, <1>2, TaskStep DEF Fetchers
<1>4. have # {} /\ have' # {}
    BY <1>1 DEF BuiltOK, Fetchers
<1>5. HubTypeOK'
    BY <1>1, <1>3 DEF HubTypeOK, HubValues
<1>6. a = "loop" => routed
    BY <1>1 DEF BuiltOK
<1>7. BuiltOK'
    <2>1. Severity \in have' => Security \ ClassSensors \subseteq have'
        BY <1>1, KindsOfSingletons DEF BuiltOK
    <2>2. ClassSensors \cap have' # {} => Severity \in have'
        BY <1>1 DEF BuiltOK
    <2>3. ~routed' => /\ stream' = <<>> /\ calls' = {}
                      /\ actor'["loop"].at = "idle" /\ actor'["dispatch"].at = "idle"
        BY <1>1, <1>3, <1>6 DEF BuiltOK, Actors, Fetchers
    <2> QED BY <1>4, <2>1, <2>2, <2>3 DEF BuiltOK
<1>8. Expected' = Expected
    BY <1>1, KindsOfSingletons DEF Expected, BuiltOK
<1>9. ASSUME NEW f \in Expected, OnTheWay(f), shows[f] # truth[f]
      PROVE  shows'[f] = truth[f] \/ f \in excused' \/ OnTheWay(f)'
    <2>1. CASE routed
        <3>1. NotOutdated("dispatch", f)' = NotOutdated("dispatch", f)
            BY <1>3 DEF NotOutdated, Answer, Fetchers, Actors
        <3>2. DispatchReads(f)' = DispatchReads(f)
            BY <1>3, <3>1 DEF DispatchReads, Fetchers, Actors
        <3> QED BY <1>9, <2>1, <3>2 DEF OnTheWay, Pushed
    <2>2. CASE ~routed
        <3>1. a = "hook" /\ HookReads(f) /\ f \in FirstRead /\ shows[f] = Unseen
            BY <1>6, <1>9, <2>2 DEF Fetchers, OnTheWay, HookReads, FirstRead
        <3>2. f \in have /\ f \notin ClassSensors
            BY <3>1, KindsOfSingletons DEF Expected, FirstRead
        <3>3. CASE actor["hook"].at \in StepsBefore(f)
            <4>1. StepOf(f) # actor["hook"].at
                <5>1. CASE f \in Aggregated
                    BY <3>3, <5>1 DEF StepsBefore
                <5>2. CASE f \notin Aggregated
                    BY <3>1, <3>3, <5>2, HubNames, KindsOfSingletons DEF StepsBefore, StepOf, FirstRead
                <5> QED BY <5>1, <5>2
            <4>2. shows'[f] = Unseen
                BY <3>1, <4>1
            <4>3. HookReads(f)'
                BY <1>3, <3>1, <3>3, <4>2, NextRead
            <4> QED BY <2>2, <4>3 DEF OnTheWay
        <3>4. CASE actor["hook"].at = StepOf(f) /\ NotOutdated("hook", f)
            BY <3>1, <3>2, <3>4 DEF NotOutdated
        <3> QED BY <3>1, <3>3, <3>4 DEF HookReads
    <2> QED BY <2>1, <2>2
<1>10. HubExplained'
    <2>1. CASE Excuses(fs)
        <3>1. \A f \in Singletons : shows'[f] <= truth[f] \/ f \in fs \/ shows'[f] = shows[f]
            BY <1>1 DEF NoneNewer
        <3> QED BY <1>8, <1>9, <2>1, <3>1, ExplainedStep
    <2>2. CASE UNCHANGED shows /\ excused \subseteq excused'
        BY <1>1, <1>8, <1>9, <2>2 DEF HubExplained
    <2> QED BY <2>1, <2>2
<1>11. HubTold'
    <2>1. \A f \in Singletons : shows'[f] # shows[f] => f \in actor'[a].changed
        BY <1>3
    <2>2. \A b \in Fetchers : \A f \in actor[b].changed : f \in actor'[b].changed
        BY <1>3 DEF Fetchers, Actors
    <2> QED BY <1>1, <2>1, <2>2, ToldStep
<1> QED BY <1>3, <1>5, <1>7, <1>10, <1>11 DEF HubInv

(* The step that first reads a singleton.                                   *)
LEMMA StepOfFact ==
    ASSUME NEW f \in FirstRead
    PROVE  /\ StepOf(f) = "aggregate" <=> f \in Aggregated
           /\ f \notin Aggregated => f = Hub(StepOf(f)) /\ StepOf(f) \in {"alarm", "service", "update"}
BY HubNames, KindsOfSingletons DEF FirstRead, StepOf

(* An answer is a picture of the daemon no newer than its present.          *)
LEMMA AnswerIs ==
    ASSUME HubInv, NEW a \in Actors, actor[a].ans # <<>>
    PROVE  /\ Answer(a).truth \in HubValues /\ Answer(a).size \in [Counted -> Nat]
           /\ \A f \in Singletons : Answer(a).truth[f] <= truth[f]
<1>1. actor[a] \in HubTasks
    BY DEF HubInv, HubTypeOK
<1>2. PICK s \in Seq(HubAnswers) : s = actor[a].ans
    BY <1>1 DEF HubTasks
<1>3. s[1] \in HubAnswers
    BY <1>2
<1> QED BY <1>2, <1>3 DEF Answer, HubAnswers, HubInv, NoneNewer

(* What a task is when its fetch goes on.                                   *)
LEMMA ProceedFact ==
    ASSUME HubInv, NEW a \in Actors, NEW moved \in SUBSET Singletons, Proceed(a, moved),
           actor[a].at \in {"aggregate", "alarm", "service", "update", "addon", "security"}
    PROVE  \E t \in HubTasks : /\ actor' = [actor EXCEPT ![a] = t] /\ t.at = After(actor[a].at)
                               /\ t.ans = <<>> /\ t.changed = actor[a].changed \cup moved /\ t.n = actor[a].n
<1>1. actor \in [Actors -> HubTasks]
    BY DEF HubInv, HubTypeOK
<1>2. PICK u \in HubTasks : u = actor[a]
    BY <1>1
<1>3. PICK next : next = After(u.at)
    OBVIOUS
<1>4. next \in HubSteps
    BY <1>2, <1>3, AfterFact DEF HubSteps
<1>5. PICK t : t = [at |-> next, n |-> u.n, ans |-> <<>>, changed |-> u.changed \cup moved]
    OBVIOUS
<1>6. t \in HubTasks
    BY <1>2, <1>4, <1>5 DEF HubTasks
<1>7. actor' = [actor EXCEPT ![a] = t]
    <2>1. actor' = [actor EXCEPT ![a].at = next, ![a].ans = <<>>, ![a].changed = @ \cup moved]
        BY <1>2, <1>3 DEF Proceed
    <2>2. actor' = [actor EXCEPT ![a] = [[[u EXCEPT !.at = next] EXCEPT !.ans = <<>>] EXCEPT !.changed = @ \cup moved]]
        BY <1>1, <1>2, <2>1
    <2>3. [[[u EXCEPT !.at = next] EXCEPT !.ans = <<>>] EXCEPT !.changed = @ \cup moved] = t
        <3>1. u = [at |-> u.at, n |-> u.n, ans |-> u.ans, changed |-> u.changed]
            BY <1>2 DEF HubTasks
        <3>2. PICK x : x = [u EXCEPT !.at = next]
            OBVIOUS
        <3>3. x = [at |-> next, n |-> u.n, ans |-> u.ans, changed |-> u.changed]
            BY <3>1, <3>2
        <3>4. PICK y : y = [x EXCEPT !.ans = <<>>]
            OBVIOUS
        <3>5. y = [at |-> next, n |-> u.n, ans |-> <<>>, changed |-> u.changed]
            BY <3>3, <3>4
        <3>6. [y EXCEPT !.changed = @ \cup moved] = t
            <4>1. PICK k : k = y.changed \cup moved
                OBVIOUS
            <4>2. k = u.changed \cup moved /\ t = [at |-> next, n |-> u.n, ans |-> <<>>, changed |-> k]
                BY <1>5, <3>5, <4>1
            <4>3. [y EXCEPT !.changed = k] = [at |-> next, n |-> u.n, ans |-> <<>>, changed |-> k]
                BY <3>5
            <4> QED BY <4>1, <4>2, <4>3
        <3> QED BY <3>2, <3>4, <3>6
    <2> QED BY <2>2, <2>3
<1> QED BY <1>2, <1>3, <1>5, <1>6, <1>7

(* A write of an actor's answer over a set of singletons.                   *)
LEMMA AnswerWritten ==
    ASSUME HubInv, NEW a \in Actors, actor[a].ans # <<>>, NEW S \in SUBSET Singletons,
           UpdateValue([f \in S |-> Answer(a).truth[f]])
    PROVE  /\ shows' \in HubValues
           /\ \A f \in Singletons : shows'[f] = IF f \in S THEN Answer(a).truth[f] ELSE shows[f]
           /\ MovedBy([f \in S |-> Answer(a).truth[f]]) \subseteq S
           /\ \A f \in Singletons : shows'[f] # shows[f] => f \in MovedBy([g \in S |-> Answer(a).truth[g]])
<1>1. PICK v \in HubValues : v = Answer(a).truth
    BY AnswerIs
<1>2. shows' = [f \in Singletons |-> IF f \in S THEN v[f] ELSE shows[f]]
    BY <1>1 DEF UpdateValue
<1>3. shows \in HubValues
    BY DEF HubInv, HubTypeOK
<1>4. MovedBy([f \in S |-> v[f]]) = {f \in S : v[f] # shows[f]}
    BY DEF MovedBy
<1> QED BY <1>1, <1>2, <1>3, <1>4 DEF HubValues

(* The aggregate's answer is applied.                                       *)
LEMMA AggregateAppliedStep ==
    ASSUME HubInv, NEW a \in Fetchers, AggregateApplied(a)
    PROVE  HubInv'
<1> DEFINE S == Aggregated \cap have
           vals == [f \in S |-> Answer(a).truth[f]]
<1>1. /\ actor[a].at = "aggregate" /\ actor[a].ans # <<>> /\ UpdateValue(vals) /\ Excuses({})
      /\ UNCHANGED <<truth, size, stream, routed, have, calls, tally, rendered, silent>> /\ a \in Actors
    BY DEF AggregateApplied, Reading, NothingPublished, Actors
<1>2. PICK t : /\ t = [at |-> "alarm", n |-> Answer(a).size, ans |-> <<>>, changed |-> MovedBy(vals)]
               /\ actor' = [actor EXCEPT ![a] = t]
    BY DEF AggregateApplied
<1>3. S \in SUBSET Singletons
    BY DEF HubInv, HubTypeOK
<1> HIDE DEF S
<1>4. /\ shows' \in HubValues /\ MovedBy(vals) \subseteq S
      /\ \A f \in Singletons : shows'[f] = IF f \in S THEN Answer(a).truth[f] ELSE shows[f]
      /\ \A f \in Singletons : shows'[f] # shows[f] => f \in MovedBy(vals)
    BY <1>1, <1>3, AnswerWritten
<1> HIDE DEF vals
<1>5. t \in HubTasks /\ t.at = After(actor[a].at) /\ t.ans = <<>> /\ t.changed = MovedBy(vals)
    BY <1>1, <1>2, <1>3, <1>4, AnswerIs, AfterFact DEF HubTasks, HubSteps
<1>6. actor[a].changed = {}
    BY <1>1 DEF HubInv, HubTasksOK
<1>7. /\ \A f \in FirstRead : StepOf(f) # actor[a].at => shows'[f] = shows[f]
      /\ \A f \in FirstRead \cap have : StepOf(f) = actor[a].at => shows'[f] = Answer(a).truth[f]
    BY <1>1, <1>4, StepOfFact, KindsOfSingletons DEF S, FirstRead
<1>8. tally' \in [moves : Nat, fetches : Nat, misses : Nat] /\ have' \subseteq Singletons
    BY <1>1 DEF HubInv, HubTypeOK
<1> QED BY <1>1, <1>2, <1>4, <1>5, <1>6, <1>7, <1>8, ReadDone

(* The answers of the update reads are applied.                             *)
LEMMA UpdateAppliedStep ==
    ASSUME HubInv, NEW a \in Fetchers, UpdateApplied(a)
    PROVE  HubInv'
<1> DEFINE f0 == Hub(actor[a].at)
           S == {f0}
           vals == [f \in S |-> Answer(a).truth[f]]
<1>1. /\ actor[a].at \in {"update", "addon"} /\ actor[a].ans # <<>> /\ UpdateValue(vals) /\ Excuses({})
      /\ UNCHANGED <<truth, size, stream, routed, have, calls, tally, rendered, silent>> /\ a \in Actors
      /\ Proceed(a, MovedBy(vals))
    BY DEF UpdateApplied, NothingPublished, Actors
<1>2. S \in SUBSET Singletons
    BY <1>1, KindsOfSingletons
<1> HIDE DEF S
<1>3. /\ shows' \in HubValues /\ MovedBy(vals) \subseteq S
      /\ \A f \in Singletons : shows'[f] = IF f \in S THEN Answer(a).truth[f] ELSE shows[f]
      /\ \A f \in Singletons : shows'[f] # shows[f] => f \in MovedBy(vals)
    BY <1>1, <1>2, AnswerWritten
<1> HIDE DEF vals
<1>4. PICK t \in HubTasks : /\ actor' = [actor EXCEPT ![a] = t] /\ t.at = After(actor[a].at)
                            /\ t.ans = <<>> /\ t.changed = actor[a].changed \cup MovedBy(vals)
    BY <1>1, <1>2, <1>3, ProceedFact
<1>5. /\ \A f \in FirstRead : StepOf(f) # actor[a].at => shows'[f] = shows[f]
      /\ \A f \in FirstRead \cap have : StepOf(f) = actor[a].at => shows'[f] = Answer(a).truth[f]
    <2>1. ASSUME NEW f \in FirstRead PROVE f \in S => StepOf(f) = actor[a].at
        BY <1>1, HubNames, KindsOfSingletons DEF S, StepOf
    <2>2. ASSUME NEW f \in FirstRead PROVE StepOf(f) = actor[a].at => f \in S
        BY <1>1, StepOfFact DEF S
    <2>3. FirstRead \subseteq Singletons
        BY KindsOfSingletons DEF FirstRead
    <2> QED BY <1>3, <2>1, <2>2, <2>3
<1>6. tally' \in [moves : Nat, fetches : Nat, misses : Nat] /\ have' \subseteq Singletons
    BY <1>1 DEF HubInv, HubTypeOK
<1> QED BY <1>1, <1>3, <1>4, <1>5, <1>6, ReadDone

(* The security snapshot is applied.                                        *)
LEMMA SecurityAppliedStep ==
    ASSUME HubInv, NEW a \in Fetchers, SecurityApplied(a)
    PROVE  HubInv'
<1> DEFINE S == {f \in Security : f \in ClassSensors => Answer(a).truth[f] # Unseen}
           vals == [f \in S |-> Answer(a).truth[f]]
           moved == MovedBy(vals) \cup (bare \cap S)
<1>1. /\ actor[a].at = "security" /\ actor[a].ans # <<>> /\ UpdateValue(vals) /\ Excuses({})
      /\ UNCHANGED <<truth, size, stream, routed, calls, tally, rendered, silent>> /\ a \in Actors
      /\ Proceed(a, moved) /\ have' = have \cup S
    BY DEF SecurityApplied, NothingPublished, Actors, Reading
<1>2. S \in SUBSET Singletons /\ S \subseteq Security
    BY KindsOfSingletons
<1>3. Severity \in have /\ \A f \in S \ have : f \in ClassSensors /\ truth[f] # Unseen
    <2>1. Severity \in have /\ Security \ ClassSensors \subseteq have
        BY <1>1 DEF HubInv, HubTasksOK, BuiltOK
    <2>2. ASSUME NEW f \in S \ have PROVE f \in ClassSensors /\ truth[f] # Unseen
        <3>1. f \in ClassSensors /\ Answer(a).truth[f] # Unseen
            BY <2>1, <2>2
        <3>2. Answer(a).truth[f] \in Nat /\ truth[f] \in Nat /\ Answer(a).truth[f] <= truth[f]
            BY <1>1, <1>2, AnswerIs DEF HubInv, HubTypeOK, HubValues
        <3> QED BY <3>1, <3>2 DEF Unseen
    <2> QED BY <2>1, <2>2
<1> HIDE DEF S
<1>4. /\ shows' \in HubValues /\ MovedBy(vals) \subseteq S
      /\ \A f \in Singletons : shows'[f] = IF f \in S THEN Answer(a).truth[f] ELSE shows[f]
      /\ \A f \in Singletons : shows'[f] # shows[f] => f \in MovedBy(vals)
    BY <1>1, <1>2, AnswerWritten
<1> HIDE DEF vals
<1>5. moved \in SUBSET Singletons /\ MovedBy(vals) \subseteq moved
    BY <1>2, <1>4
<1> HIDE DEF moved
<1>6. PICK t \in HubTasks : /\ actor' = [actor EXCEPT ![a] = t] /\ t.at = After(actor[a].at)
                            /\ t.ans = <<>> /\ t.changed = actor[a].changed \cup moved
    BY <1>1, <1>5, ProceedFact
<1>7. \A f \in FirstRead : StepOf(f) # actor[a].at /\ shows'[f] = shows[f]
    BY <1>1, <1>2, <1>4, StepOfFact, KindsOfSingletons DEF FirstRead
<1>8. tally' \in [moves : Nat, fetches : Nat, misses : Nat] /\ have' \subseteq Singletons
    BY <1>1, <1>2 DEF HubInv, HubTypeOK
<1>9. have' = have \/ (Severity \in have /\ \A f \in have' \ have : f \in ClassSensors /\ truth[f] # Unseen)
    BY <1>1, <1>3
<1> QED BY <1>1, <1>4, <1>5, <1>6, <1>7, <1>8, <1>9, ReadDone

(* A step without singleton returns at once.                                *)
LEMMA StepSkippedStep ==
    ASSUME HubInv, NEW a \in Fetchers, StepSkipped(a)
    PROVE  HubInv'
<1>1. /\ actor[a].at \in {"update", "addon", "security"} /\ Proceed(a, {}) /\ a \in Actors
      /\ UNCHANGED <<truth, size, stream, routed, have, shows, calls, tally, rendered, silent, excused>>
      /\ ~Exists(actor[a].at)
    BY DEF StepSkipped, Actors
<1>2. PICK t \in HubTasks : /\ actor' = [actor EXCEPT ![a] = t] /\ t.at = After(actor[a].at)
                            /\ t.ans = <<>> /\ t.changed = actor[a].changed \cup {}
    BY <1>1, ProceedFact
<1>3. \A f \in FirstRead \cap have : StepOf(f) # actor[a].at
    <2> SUFFICES ASSUME NEW f \in FirstRead, f \in have, StepOf(f) = actor[a].at PROVE FALSE
        OBVIOUS
    <2>1. actor[a].at = "update" /\ f = Hub("update")
        BY <1>1, StepOfFact
    <2> QED BY <1>1, <2>1 DEF Exists
<1>4. tally' \in [moves : Nat, fetches : Nat, misses : Nat] /\ have' \subseteq Singletons /\ shows' \in HubValues
    BY <1>1 DEF HubInv, HubTypeOK
<1> QED BY <1>1, <1>2, <1>3, <1>4, ReadDone

(* A write of nothing.                                                      *)
LEMMA NothingWritten ==
    ASSUME HubInv, UpdateValue(<<>>)
    PROVE  shows' = shows
<1>1. DOMAIN <<>> = {}
    OBVIOUS
<1>2. shows' = [f \in Singletons |-> shows[f]]
    BY <1>1 DEF UpdateValue
<1> QED BY <1>2 DEF HubInv, HubTypeOK, HubValues

(* What an actor at rest is.                                                *)
LEMMA RestingIs == Resting \in HubTasks /\ Resting.at = "idle" /\ Resting.ans = <<>> /\ Resting.changed = {}
BY DEF Resting, HubTasks, HubSteps

(* A fetch ends.                                                            *)
LEMMA FetchEnds ==
    ASSUME HubInv, NEW a \in Fetchers, NEW fs, actor' = [actor EXCEPT ![a] = Resting], actor[a].at # "idle",
           UNCHANGED <<truth, size, stream, routed, have, shows, calls>>, excused \subseteq excused',
           tally' \in [moves : Nat, fetches : Nat, misses : Nat], tally'.moves = tally.moves,
           PublishEach(fs) \/ (fs = {} /\ UNCHANGED <<rendered, silent>>), actor[a].changed \subseteq fs,
           \A f \in Expected : a = "hook" /\ HookReads(f) => f \in excused'
    PROVE  HubInv'
<1>1. HubTypeOK /\ NoneNewer /\ HubTasksOK /\ BuiltOK /\ HubExplained /\ HubTold /\ a \in Actors /\ have # {}
    BY DEF HubInv, Actors, BuiltOK, Fetchers
<1>2. /\ actor' \in [Actors -> HubTasks] /\ NoneNewer' /\ HubTasksOK'
      /\ actor'[a] = Resting /\ \A b \in Actors \ {a} : actor'[b] = actor[b]
    BY <1>1, RestingIs, TaskStep DEF Fetchers
<1>3. HubTypeOK'
    BY <1>1, <1>2 DEF HubTypeOK, HubValues
<1>4. a = "loop" => routed
    BY <1>1 DEF BuiltOK
<1>5. BuiltOK'
    BY <1>1, <1>2, <1>4 DEF BuiltOK, Actors, Fetchers
<1>6. HubExplained'
    <2> SUFFICES ASSUME NEW f \in Expected, OnTheWay(f), f \notin excused' PROVE OnTheWay(f)'
        BY <1>1 DEF HubExplained, Expected
    <2>1. CASE routed
        <3>1. DispatchReads(f)' = DispatchReads(f)
            BY <1>2, OthersRead DEF Fetchers, Actors
        <3> QED BY <2>1, <3>1 DEF OnTheWay, Pushed
    <2>2. CASE ~routed
        BY <1>4, <2>2 DEF Fetchers, OnTheWay
    <2> QED BY <2>1, <2>2
<1>7. HubTold'
    BY <1>1, <1>2, ToldStep DEF Fetchers, Actors
<1> QED BY <1>2, <1>3, <1>5, <1>6, <1>7 DEF HubInv

(* A failing read ends the fetch or its step; what never had a value is     *)
(* excused.                                                                 *)
LEMMA ReadFailsStep ==
    ASSUME HubInv, NEW a \in Fetchers, ReadFails(a)
    PROVE  HubInv'
<1>1. /\ actor[a].at \notin {"idle", "publish"} /\ a \in Actors
      /\ excused' = excused \cup {f \in have : shows[f] = Unseen}
      /\ IF actor[a].at = "aggregate" THEN actor' = [actor EXCEPT ![a] = Resting] ELSE Proceed(a, {})
      /\ UNCHANGED <<truth, size, stream, routed, have, shows, rendered, calls, silent>>
      /\ tally' = [tally EXCEPT !.misses = @ + 1]
    BY DEF ReadFails, Misses, Actors
<1>2. actor[a].at \in {"aggregate", "alarm", "service", "update", "addon", "security"}
    BY <1>1 DEF HubInv, HubTypeOK, HubTasksOK, HubTasks, HubSteps
<1>3. tally' \in [moves : Nat, fetches : Nat, misses : Nat] /\ tally'.moves = tally.moves
    BY <1>1 DEF HubInv, HubTypeOK
<1>4. CASE actor[a].at = "aggregate"
    <2>1. \A f \in Expected : HookReads(f) => f \in excused'
        BY <1>1, KindsOfSingletons DEF Expected, HookReads
    <2>2. actor[a].changed = {}
        BY <1>4 DEF HubInv, HubTasksOK
    <2> QED BY <1>1, <1>3, <1>4, <2>1, <2>2, FetchEnds
<1>5. CASE actor[a].at # "aggregate"
    <2>1. PICK t \in HubTasks : /\ actor' = [actor EXCEPT ![a] = t] /\ t.at = After(actor[a].at)
                                /\ t.ans = <<>> /\ t.changed = actor[a].changed \cup {}
        BY <1>1, <1>2, <1>5, ProceedFact
    <2>2. have' \subseteq Singletons /\ shows' \in HubValues
        BY <1>1 DEF HubInv, HubTypeOK
    <2> QED BY <1>1, <1>2, <1>3, <2>1, <2>2, ReadDone
<1> QED BY <1>4, <1>5

(* A fetch tells HA what it has moved.                                      *)
LEMMA FetchPublishesStep ==
    ASSUME HubInv, NEW a \in Fetchers, FetchPublishes(a)
    PROVE  HubInv'
<1>1. /\ actor[a].at = "publish" /\ PublishEach(actor[a].changed) /\ actor' = [actor EXCEPT ![a] = Resting]
      /\ UNCHANGED <<truth, size, stream, routed, have, calls, tally, excused>>
      /\ UpdateValue(<<>>)
    BY DEF FetchPublishes
<1>2. shows' = shows
    BY <1>1, NothingWritten
<1>3. \A f \in Expected : a = "hook" => ~HookReads(f)
    <2> SUFFICES ASSUME NEW f, a = "hook", HookReads(f) PROVE FALSE
        OBVIOUS
    <2>1. f \in FirstRead /\ (actor["hook"].at \in StepsBefore(f) \/ actor["hook"].at = StepOf(f))
        BY DEF HookReads, FirstRead
    <2>2. StepOf(f) # "publish" /\ "publish" \notin StepsBefore(f)
        BY <2>1, StepOfFact DEF StepsBefore
    <2> QED BY <1>1, <2>1, <2>2
<1>4. tally' \in [moves : Nat, fetches : Nat, misses : Nat]
    BY <1>1 DEF HubInv, HubTypeOK
<1> QED BY <1>1, <1>2, <1>3, <1>4, FetchEnds

(* The dispatch loop is free again: its read is applied or missing.         *)
LEMMA DispatchDone ==
    ASSUME HubInv, NEW fs, NEW ps, actor["dispatch"].at # "idle",
           actor' = [actor EXCEPT !["dispatch"] = Resting], Excuses(fs), PublishEach(ps),
           UNCHANGED <<truth, stream, routed, have, calls>>, size' \in [Counted -> Nat],
           tally' \in [moves : Nat, fetches : Nat, misses : Nat], tally'.moves = tally.moves,
           shows' \in HubValues,
           \A f \in Singletons : shows'[f] # shows[f] =>
               f \in ps /\ actor["dispatch"].ans # <<>> /\ shows'[f] = Answer("dispatch").truth[f],
           LET f0 == Hub(actor["dispatch"].at) IN
               f0 \in fs \/ (actor["dispatch"].ans # <<>> /\ shows'[f0] = Answer("dispatch").truth[f0])
    PROVE  HubInv'
<1>1. /\ HubTypeOK /\ NoneNewer /\ HubTasksOK /\ BuiltOK /\ HubExplained /\ HubTold
      /\ "dispatch" \in Actors /\ routed /\ have # {}
    BY DEF HubInv, Actors, BuiltOK
<1>2. /\ actor' \in [Actors -> HubTasks] /\ NoneNewer' /\ HubTasksOK'
      /\ actor'["dispatch"] = Resting /\ \A b \in Actors \ {"dispatch"} : actor'[b] = actor[b]
    BY <1>1, RestingIs, TaskStep DEF Fetchers
<1>3. HubTypeOK'
    BY <1>1, <1>2 DEF HubTypeOK
<1>4. BuiltOK'
    BY <1>1 DEF BuiltOK
<1>5. \A f \in Singletons : shows'[f] <= truth[f] \/ f \in fs \/ shows'[f] = shows[f]
    BY <1>1 DEF NoneNewer
<1>6. ASSUME NEW f \in Expected, OnTheWay(f), shows[f] # truth[f]
      PROVE  shows'[f] = truth[f] \/ f \in excused' \/ OnTheWay(f)'
    <2>1. CASE Pushed(f)
        BY <1>1, <2>1 DEF OnTheWay, Pushed
    <2>2. CASE DispatchReads(f)
        <3>1. f = Hub(actor["dispatch"].at) /\ NotOutdated("dispatch", f) /\ f \in Singletons
            BY <2>2, KindsOfSingletons, <1>1 DEF DispatchReads, Expected, HubTypeOK
        <3>2. CASE f \notin fs
            BY <3>1, <3>2 DEF NotOutdated
        <3>3. CASE f \in fs
            <4>1. shows'[f] = shows[f] \/ shows'[f] = Answer("dispatch").truth[f]
                BY <3>1
            <4> QED BY <3>1, <3>3 DEF Excuses
        <3> QED BY <3>2, <3>3
    <2> QED BY <1>1, <1>6, <2>1, <2>2 DEF OnTheWay
<1>7. Expected' = Expected /\ have' \subseteq Singletons
    BY <1>1 DEF Expected, HubTypeOK
<1>8. HubExplained'
    BY <1>5, <1>6, <1>7, ExplainedStep
<1>9. HubTold'
    BY <1>1, <1>2, ToldStep DEF Fetchers, Actors
<1> QED BY <1>2, <1>3, <1>4, <1>8, <1>9 DEF HubInv

(* A message list is as long as it was: nothing is read.                    *)
LEMMA ListSkippedStep ==
    ASSUME HubInv, NEW a \in Actors, ListSkipped(a)
    PROVE  HubInv'
<1> DEFINE f0 == Hub(actor[a].at)
<1>1. /\ actor[a].at \in {"alarm", "service"} /\ UpdateValue(<<>>) /\ ListDone(a, {}) /\ Excuses({f0})
      /\ UNCHANGED <<truth, size, stream, routed, have, counts, bare, listLock, calls, tally, calm>>
    BY HubNames DEF ListSkipped
<1>2. shows' = shows /\ shows' \in HubValues
    BY <1>1, NothingWritten DEF HubInv, HubTypeOK
<1>3. /\ tally' \in [moves : Nat, fetches : Nat, misses : Nat] /\ have' \subseteq Singletons
      /\ size' \in [Counted -> Nat]
    BY <1>1 DEF HubInv, HubTypeOK
<1>4. CASE a = "dispatch"
    <2>1. actor' = [actor EXCEPT ![a] = Resting] /\ PublishEach({})
        BY <1>1, <1>4 DEF ListDone
    <2> QED BY <1>1, <1>2, <1>3, <1>4, <2>1, DispatchDone
<1>5. CASE a # "dispatch"
    <2>1. a \in Fetchers /\ Proceed(a, {}) /\ UNCHANGED <<rendered, silent>>
        BY <1>1, <1>5 DEF ListDone, NothingPublished, Actors
    <2>2. PICK t \in HubTasks : /\ actor' = [actor EXCEPT ![a] = t] /\ t.at = After(actor[a].at)
                                /\ t.ans = <<>> /\ t.changed = actor[a].changed \cup {}
        BY <1>1, <2>1, ProceedFact
    <2>3. \A f \in FirstRead \cap have : StepOf(f) = actor[a].at => f \in excused'
        <3>1. f0 \in excused'
            BY <1>1, <1>2 DEF Excuses
        <3> QED BY <1>1, <3>1, StepOfFact
    <2> QED BY <1>1, <1>2, <1>3, <2>1, <2>2, <2>3, ReadDone
<1> QED BY <1>4, <1>5

(* A message list is read and applied.                                      *)
LEMMA ListAppliedStep ==
    ASSUME HubInv, NEW a \in Actors, ListApplied(a)
    PROVE  HubInv'
<1> DEFINE f0 == Hub(actor[a].at)
           S == {f0}
           vals == [f \in S |-> Answer(a).truth[f]]
<1>1. /\ actor[a].at \in {"alarm", "service"} /\ actor[a].ans # <<>> /\ UpdateValue(vals)
      /\ ListDone(a, MovedBy(vals)) /\ Excuses({})
      /\ UNCHANGED <<truth, size, stream, routed, have, bare, calls, tally, calm>>
    BY HubNames DEF ListApplied
<1>2. S \in SUBSET Singletons
    BY <1>1, KindsOfSingletons
<1> HIDE DEF S
<1>3. /\ shows' \in HubValues /\ MovedBy(vals) \subseteq S
      /\ \A f \in Singletons : shows'[f] = IF f \in S THEN Answer(a).truth[f] ELSE shows[f]
      /\ \A f \in Singletons : shows'[f] # shows[f] => f \in MovedBy(vals)
    BY <1>1, <1>2, AnswerWritten
<1> HIDE DEF vals
<1>4. shows'[f0] = Answer(a).truth[f0]
    BY <1>2, <1>3 DEF S
<1>5. /\ tally' \in [moves : Nat, fetches : Nat, misses : Nat] /\ have' \subseteq Singletons
      /\ size' \in [Counted -> Nat]
    BY <1>1 DEF HubInv, HubTypeOK
<1>6. CASE a = "dispatch"
    <2>1. actor' = [actor EXCEPT ![a] = Resting] /\ PublishEach(MovedBy(vals))
        BY <1>1, <1>6 DEF ListDone
    <2> QED BY <1>1, <1>3, <1>4, <1>5, <1>6, <2>1, DispatchDone
<1>7. CASE a # "dispatch"
    <2>1. a \in Fetchers /\ Proceed(a, MovedBy(vals)) /\ UNCHANGED <<rendered, silent>>
        BY <1>1, <1>7 DEF ListDone, NothingPublished, Actors
    <2>2. PICK t \in HubTasks : /\ actor' = [actor EXCEPT ![a] = t] /\ t.at = After(actor[a].at)
                                /\ t.ans = <<>> /\ t.changed = actor[a].changed \cup MovedBy(vals)
        BY <1>1, <1>2, <1>3, <2>1, ProceedFact
    <2>3. \A f \in FirstRead \cap have : StepOf(f) = actor[a].at => shows'[f] = Answer(a).truth[f]
        BY <1>1, <1>4, StepOfFact
    <2>4. ASSUME NEW f \in FirstRead, StepOf(f) # actor[a].at PROVE shows'[f] = shows[f]
        <3>1. f \notin S
            BY <1>1, <2>4, HubNames, KindsOfSingletons DEF S, StepOf
        <3>2. f \in Singletons
            BY KindsOfSingletons DEF FirstRead
        <3> QED BY <1>3, <3>1, <3>2
    <2> QED BY <1>1, <1>3, <1>5, <2>1, <2>2, <2>3, <2>4, ReadDone
<1> QED BY <1>6, <1>7

(* The fault ledger is read and applied.                                    *)
LEMMA FaultsAppliedStep ==
    ASSUME HubInv, FaultsApplied
    PROVE  HubInv'
<1> DEFINE S == {Faults}
           vals == [f \in S |-> Answer("dispatch").truth[f]]
           ps == MovedBy(vals) \cup (bare \cap {Faults})
<1>1. /\ actor["dispatch"].at = "faults" /\ actor["dispatch"].ans # <<>> /\ UpdateValue(vals)
      /\ PublishEach(ps) /\ Excuses({}) /\ actor' = [actor EXCEPT !["dispatch"] = Resting]
      /\ UNCHANGED <<truth, size, stream, routed, have, calls, tally>> /\ "dispatch" \in Actors
    BY DEF FaultsApplied, Reading, Handled, Actors
<1>2. S \in SUBSET Singletons
    BY KindsOfSingletons
<1>3. /\ shows' \in HubValues /\ MovedBy(vals) \subseteq S
      /\ \A f \in Singletons : shows'[f] = IF f \in S THEN Answer("dispatch").truth[f] ELSE shows[f]
      /\ \A f \in Singletons : shows'[f] # shows[f] => f \in MovedBy(vals)
    BY <1>1, <1>2, AnswerWritten
<1> HIDE DEF vals
<1>4. shows'[Hub("faults")] = Answer("dispatch").truth[Hub("faults")]
    BY <1>2, <1>3, HubNames
<1>5. tally' \in [moves : Nat, fetches : Nat, misses : Nat] /\ size' \in [Counted -> Nat]
    BY <1>1 DEF HubInv, HubTypeOK
<1> QED BY <1>1, <1>3, <1>4, <1>5, DispatchDone

(* A read of the dispatch loop fails.                                       *)
LEMMA HandlerReadFailsStep ==
    ASSUME HubInv, HandlerReadFails
    PROVE  HubInv'
<1>1. PICK ps :
        /\ actor["dispatch"].at # "idle" /\ UpdateValue(<<>>) /\ PublishEach(ps)
        /\ Excuses({Hub(actor["dispatch"].at)}) /\ actor' = [actor EXCEPT !["dispatch"] = Resting]
        /\ tally' = [tally EXCEPT !.misses = @ + 1]
        /\ UNCHANGED <<truth, size, stream, routed, have, calls>>
    BY HubNames DEF HandlerReadFails, Misses
<1>2. shows' = shows /\ shows' \in HubValues
    BY <1>1, NothingWritten DEF HubInv, HubTypeOK
<1>3. /\ tally' \in [moves : Nat, fetches : Nat, misses : Nat] /\ tally'.moves = tally.moves
      /\ size' \in [Counted -> Nat]
    BY <1>1 DEF HubInv, HubTypeOK
<1> QED BY <1>1, <1>2, <1>3, DispatchDone

(* Waiting for a list's lock changes nothing.                               *)
LEMMA ListLockedStep ==
    ASSUME HubInv, NEW a \in Actors, ListLocked(a)
    PROVE  HubInv'
<1>1. UNCHANGED <<truth, size, stream, routed, have, shows, rendered, actor, calls, tally, silent, excused>>
    BY DEF ListLocked
<1>2. HubTypeOK' /\ NoneNewer' /\ HubTasksOK' /\ BuiltOK'
    BY <1>1 DEF HubInv, HubTypeOK, HubValues, NoneNewer, Answer, HubTasksOK, BuiltOK
<1>3. \A f : OnTheWay(f)' = OnTheWay(f)
    BY <1>1, OthersRead DEF OnTheWay, Pushed
<1>4. HubExplained' /\ HubTold'
    BY <1>1, <1>3 DEF HubInv, HubExplained, Expected, HubTold
<1> QED BY <1>2, <1>4 DEF HubInv

(* The daemon answers a read.                                               *)
LEMMA AnsweredStep ==
    ASSUME HubInv, NEW a \in Actors, Answered(a)
    PROVE  HubInv'
<1>1. /\ actor[a].at \notin {"idle", "publish"} /\ actor[a].ans = <<>> /\ Exists(actor[a].at)
      /\ UNCHANGED <<truth, size, stream, routed, have, shows, rendered, calls, tally, silent, excused>>
      /\ actor' = [actor EXCEPT ![a].ans = <<[truth |-> truth, size |-> size]>>]
      /\ HubTypeOK /\ NoneNewer /\ HubTasksOK /\ BuiltOK /\ HubExplained /\ HubTold
    BY DEF Answered, HubInv
<1>2. PICK u \in HubTasks : u = actor[a]
    BY <1>1 DEF HubTypeOK
<1>3. PICK r \in HubAnswers : r = [truth |-> truth, size |-> size]
    BY <1>1 DEF HubTypeOK, HubAnswers
<1>4. PICK t : t = [u EXCEPT !.ans = <<r>>]
    OBVIOUS
<1>5. <<r>> \in Seq(HubAnswers) /\ <<r>>[1] = r /\ <<r>> # <<>>
    OBVIOUS
<1>6. /\ t \in HubTasks /\ t.at = u.at /\ t.ans = <<r>> /\ t.changed = u.changed
    BY <1>2, <1>4, <1>5 DEF HubTasks
<1>7. actor' = [actor EXCEPT ![a] = t]
    BY <1>1, <1>2, <1>3, <1>4 DEF HubTypeOK
<1>8. t.at = "security" => Severity \in have
    BY <1>1, <1>2, <1>6 DEF Exists
<1>9. t.ans[1].truth = truth
    BY <1>3, <1>5, <1>6
<1>10. /\ a = "dispatch" => t.at \in {"idle", "alarm", "service", "faults"}
       /\ a \in Fetchers => t.at # "faults" /\ (t.at \in {"idle", "aggregate"} => t.changed = {})
       /\ t.at # "idle"
    BY <1>1, <1>2, <1>6 DEF HubTasksOK
<1>11. tally' \in [moves : Nat, fetches : Nat, misses : Nat]
    BY <1>1 DEF HubTypeOK
<1>12. /\ actor' \in [Actors -> HubTasks] /\ NoneNewer' /\ HubTasksOK'
       /\ actor'[a] = t /\ \A b \in Actors \ {a} : actor'[b] = actor[b]
    BY <1>1, <1>6, <1>7, <1>8, <1>9, <1>10, <1>11, TaskStep
<1>13. HubTypeOK'
    BY <1>1, <1>12 DEF HubTypeOK, HubValues
<1>14. \A b \in Actors : actor'[b].at = actor[b].at /\ actor'[b].changed = actor[b].changed
    BY <1>2, <1>6, <1>12
<1>15. BuiltOK'
    BY <1>1, <1>14 DEF BuiltOK, Actors, Fetchers
<1>16. \A b \in Actors, f \in Singletons : NotOutdated(b, f) => NotOutdated(b, f)'
    BY <1>1, <1>9, <1>12 DEF NotOutdated, Answer
<1>17. ASSUME NEW f \in Singletons, OnTheWay(f) PROVE OnTheWay(f)'
    <2>1. DispatchReads(f) => DispatchReads(f)'
        BY <1>14, <1>16 DEF DispatchReads, Actors
    <2>2. HookReads(f) => HookReads(f)'
        <3>1. StepsBefore(f)' = StepsBefore(f) /\ StepOf(f)' = StepOf(f)
            BY DEF StepsBefore, StepOf
        <3> QED BY <1>1, <1>14, <1>16, <3>1 DEF HookReads, Actors, Fetchers
    <2> QED BY <1>1, <1>17, <2>1, <2>2 DEF OnTheWay, Pushed
<1>18. HubExplained'
    BY <1>1, <1>17, KindsOfSingletons DEF HubExplained, Expected, HubTypeOK
<1>19. HubTold'
    BY <1>1, <1>14 DEF HubTold, Fetchers, Actors
<1> QED BY <1>12, <1>13, <1>15, <1>18, <1>19 DEF HubInv

(* The push routing is installed when no fetch of start() is under way.     *)
LEMMA InstallPushRoutingStep ==
    ASSUME HubInv, InstallPushRouting
    PROVE  HubInv'
<1>1. /\ ~routed /\ have # {} /\ actor["hook"].at = "idle" /\ routed' = TRUE /\ rendered' = shows
      /\ UNCHANGED <<truth, size, stream, have, shows, actor, calls, tally, excused>>
      /\ HubTypeOK /\ NoneNewer /\ HubTasksOK /\ BuiltOK /\ HubExplained /\ HubTold
    BY DEF InstallPushRouting, HubInv
<1>2. HubTypeOK' /\ NoneNewer' /\ HubTasksOK' /\ BuiltOK'
    BY <1>1 DEF HubTypeOK, HubValues, NoneNewer, Answer, HubTasksOK, BuiltOK
<1>3. ASSUME NEW f \in Expected PROVE ~OnTheWay(f)
    <2> SUFFICES ASSUME HookReads(f) PROVE FALSE
        BY <1>1 DEF OnTheWay
    <2>1. f \in FirstRead /\ (actor["hook"].at \in StepsBefore(f) \/ actor["hook"].at = StepOf(f))
        BY DEF HookReads, FirstRead
    <2>2. StepOf(f) # "idle" /\ "idle" \notin StepsBefore(f)
        BY <2>1, StepOfFact DEF StepsBefore
    <2> QED BY <1>1, <2>1, <2>2
<1>4. HubExplained'
    BY <1>1, <1>3 DEF HubExplained, Expected
<1>5. HubTold'
    BY <1>1 DEF HubTold
<1> QED BY <1>2, <1>4, <1>5 DEF HubInv

(* Values written to singletons.                                            *)
LEMMA ValuesWritten ==
    ASSUME HubInv, NEW vals, DOMAIN vals \subseteq Singletons,
           \A f \in DOMAIN vals : vals[f] \in Nat, UpdateValue(vals)
    PROVE  /\ shows' \in HubValues /\ MovedBy(vals) \subseteq DOMAIN vals
           /\ \A f \in Singletons : shows'[f] = IF f \in DOMAIN vals THEN vals[f] ELSE shows[f]
           /\ \A f \in Singletons : shows'[f] # shows[f] => f \in MovedBy(vals)
<1>1. shows' = [f \in Singletons |-> IF f \in DOMAIN vals THEN vals[f] ELSE shows[f]]
    BY DEF UpdateValue
<1>2. shows \in HubValues
    BY DEF HubInv, HubTypeOK
<1>3. MovedBy(vals) = {f \in DOMAIN vals : vals[f] # shows[f]}
    BY DEF MovedBy
<1> QED BY <1>1, <1>2, <1>3 DEF HubValues

(* The first push of the stream is taken.                                   *)
LEMMA PushTaken ==
    ASSUME HubInv, NEW fs, Dispatching(fs)
    PROVE  /\ Head(stream) \in HubPushes /\ Head(stream).f \in fs
           /\ Head(stream).local => Head(stream).v <= truth[Head(stream).f]
           /\ routed /\ have # {} /\ actor["dispatch"].at = "idle"
           /\ stream' \in Seq(HubPushes)
           /\ \A i \in 1 .. Len(stream') : i + 1 \in 1 .. Len(stream) /\ stream'[i] = stream[i + 1]
           /\ \A i \in 1 .. Len(stream) :
                  \/ stream[i] = Head(stream)
                  \/ i - 1 \in 1 .. Len(stream') /\ stream[i] = stream'[i - 1]
<1>1. /\ stream # <<>> /\ stream' = Tail(stream) /\ Head(stream).f \in fs
      /\ actor["dispatch"].at = "idle" /\ stream \in Seq(HubPushes)
    BY DEF Dispatching, HubInv, HubTypeOK
<1>2. PICK s \in Seq(HubPushes) : s = stream
    BY <1>1
<1>3. s # <<>> /\ Len(s) \in Nat /\ Len(s) # 0 /\ Head(s) = s[1] /\ 1 \in 1 .. Len(s)
    BY <1>1, <1>2
<1>4. /\ Head(s) \in HubPushes /\ Tail(s) \in Seq(HubPushes)
      /\ \A i \in 1 .. Len(Tail(s)) : i + 1 \in 1 .. Len(s) /\ Tail(s)[i] = s[i + 1]
    BY <1>3
<1>5. \A i \in 1 .. Len(s) : s[i] = Head(s) \/ (i - 1 \in 1 .. Len(Tail(s)) /\ s[i] = Tail(s)[i - 1])
    BY <1>3
<1>6. stream[1].local => stream[1].v <= truth[stream[1].f]
    BY <1>2, <1>3 DEF HubInv, NoneNewer
<1>7. routed /\ have # {}
    BY <1>1 DEF HubInv, BuiltOK
<1> QED BY <1>1, <1>2, <1>3, <1>4, <1>5, <1>6, <1>7

(* A push is handled: the value it brought is shown, excused, or the loop   *)
(* goes to read it.                                                         *)
LEMMA PushDone ==
    ASSUME HubInv, NEW fs, Dispatching(fs), NEW p, p = Head(stream), NEW es, NEW ps,
           UNCHANGED <<truth, size, routed, calls, tally>>,
           shows' \in HubValues, have \subseteq have',
           have' \subseteq have \cup {f \in ClassSensors : Severity \in have},
           \A f \in Singletons : shows'[f] # shows[f] =>
               f \in ps /\ (f \in es \/ (p.local /\ f = p.f /\ shows'[f] = p.v)),
           Excuses(es) \/ UNCHANGED <<shows, excused>>,
           PublishEach(ps) \/ (ps = {} /\ UNCHANGED <<rendered, silent>>),
           \/ UNCHANGED actor
           \/ \E t \in HubTasks : /\ actor' = [actor EXCEPT !["dispatch"] = t] /\ t.ans = <<>>
                                  /\ t.at \in {"alarm", "service", "faults"},
           \A f \in have' : f \in Expected \/ shows'[f] = truth[f],
           p.local /\ p.f \in Expected /\ p.v = truth[p.f] /\ shows[p.f] # truth[p.f] =>
               \/ shows'[p.f] = truth[p.f] \/ p.f \in excused'
               \/ actor'["dispatch"].at # "idle" /\ p.f = Hub(actor'["dispatch"].at)
    PROVE  HubInv'
<1>1. /\ HubTypeOK /\ NoneNewer /\ HubTasksOK /\ BuiltOK /\ HubExplained /\ HubTold
      /\ "dispatch" \in Actors
    BY DEF HubInv, Actors
<1>2. /\ p \in HubPushes /\ p.f \in fs /\ (p.local => p.v <= truth[p.f])
      /\ routed /\ have # {} /\ actor["dispatch"].at = "idle" /\ stream' \in Seq(HubPushes)
      /\ \A i \in 1 .. Len(stream') : i + 1 \in 1 .. Len(stream) /\ stream'[i] = stream[i + 1]
      /\ \A i \in 1 .. Len(stream) :
             stream[i] = p \/ (i - 1 \in 1 .. Len(stream') /\ stream[i] = stream'[i - 1])
    BY PushTaken
<1>3. /\ actor' \in [Actors -> HubTasks] /\ \A b \in Actors \ {"dispatch"} : actor'[b] = actor[b]
      /\ actor'["dispatch"].ans = <<>> /\ actor'["dispatch"].at \in {"idle", "alarm", "service", "faults"}
    BY <1>1, <1>2 DEF HubTypeOK, HubTasksOK
<1>4. have' \subseteq Singletons
    BY <1>1, KindsOfSingletons DEF HubTypeOK
<1>5. HubTypeOK'
    BY <1>1, <1>2, <1>3, <1>4 DEF HubTypeOK, HubValues
<1>6. HubTasksOK'
    BY <1>1, <1>3 DEF HubTasksOK, Actors, Fetchers
<1>7. NoneNewer'
    <2>1. \A i \in 1 .. Len(stream') : stream'[i].local => stream'[i].v <= truth'[stream'[i].f]
        BY <1>1, <1>2 DEF NoneNewer
    <2>2. \A a \in Actors : actor'[a].ans # <<>> => actor'[a] = actor[a]
        BY <1>3
    <2> QED BY <1>1, <2>1, <2>2 DEF NoneNewer, Answer
<1>8. BuiltOK'
    <2>1. Severity \in have' => Severity \in have
        BY KindsOfSingletons
    <2> QED BY <1>1, <1>2, <2>1 DEF BuiltOK
<1>9. \A f \in Singletons : shows'[f] <= truth[f] \/ f \in es \/ shows'[f] = shows[f]
    BY <1>2
<1>10. \A f \in Expected' : f \in Expected \/ shows'[f] = truth[f]
    BY KindsOfSingletons DEF Expected
<1>11. ASSUME NEW f \in Expected, OnTheWay(f), shows[f] # truth[f]
       PROVE  shows'[f] = truth[f] \/ f \in excused' \/ OnTheWay(f)'
    <2>1. ~DispatchReads(f)
        BY <1>2 DEF DispatchReads
    <2>2. PICK i \in 1 .. Len(stream) : stream[i].f = f /\ stream[i].local /\ stream[i].v = truth[f]
        BY <1>2, <1>11, <2>1 DEF OnTheWay, Pushed
    <2>3. CASE stream[i] # p
        BY <1>2, <2>2, <2>3 DEF OnTheWay, Pushed
    <2>4. CASE stream[i] = p
        <3>1. NotOutdated("dispatch", f)'
            BY <1>3 DEF NotOutdated
        <3> QED BY <1>2, <1>11, <2>2, <2>4, <3>1 DEF OnTheWay, DispatchReads
    <2> QED BY <2>3, <2>4
<1>12. HubExplained'
    <2>1. CASE Excuses(es)
        BY <1>4, <1>9, <1>10, <1>11, <2>1, ExplainedStep
    <2>2. CASE UNCHANGED <<shows, excused>>
        BY <1>1, <1>10, <1>11, <2>2 DEF HubExplained
    <2> QED BY <2>1, <2>2
<1>13. HubTold'
    BY <1>1, <1>3, ToldStep DEF Fetchers, Actors
<1> QED BY <1>5, <1>6, <1>7, <1>8, <1>12, <1>13 DEF HubInv

(* Which singletons a push of a kind is about.                              *)
LEMMA ExpectedOf ==
    ASSUME HubInv, NEW f \in Expected
    PROVE  /\ f \in Singletons /\ (f \notin ClassSensors => f \in have)
           /\ f \in ClassSensors => Severity \in have
<1>1. /\ have \subseteq Singletons
      /\ ClassSensors \cap have # {} => Severity \in have
    BY DEF HubInv, HubTypeOK, BuiltOK
<1>2. f \in have \/ (f \in ClassSensors /\ Severity \in have)
    BY DEF Expected
<1> QED BY <1>1, <1>2, KindsOfSingletons

(* The value of a push is shown, if the push is for this central.           *)
LEMMA OnValuePushStep ==
    ASSUME HubInv, OnValuePush
    PROVE  HubInv'
<1> DEFINE fs == Counters \cup Connectivity \cup Updates
<1>1. PICK p : p = Head(stream)
    OBVIOUS
<1>2. PICK vals :
        /\ vals = [f \in {p.f} \cap have |-> IF MatchesCentral(p) THEN p.v ELSE shows[f]]
        /\ UpdateValue(vals) /\ PublishEach(MovedBy(vals))
    BY <1>1 DEF OnValuePush
<1>3. /\ Dispatching(fs) /\ Excuses({}) /\ UNCHANGED <<have, counts, bare, actor>>
      /\ UNCHANGED <<truth, size, routed, calls, tally>>
    BY DEF OnValuePush, Handled
<1>4. p \in HubPushes /\ p.f \in fs /\ routed /\ have # {}
    BY <1>1, <1>3, PushTaken
<1>5. /\ DOMAIN vals = {p.f} \cap have /\ DOMAIN vals \subseteq Singletons
      /\ \A f \in DOMAIN vals : vals[f] = (IF p.local THEN p.v ELSE shows[f]) /\ vals[f] \in Nat
    BY <1>2, <1>4 DEF MatchesCentral, HubInv, HubTypeOK, HubValues, HubPushes
<1>6. /\ shows' \in HubValues
      /\ \A f \in Singletons : shows'[f] = IF f \in DOMAIN vals THEN vals[f] ELSE shows[f]
      /\ \A f \in Singletons : shows'[f] # shows[f] => f \in MovedBy(vals)
    BY <1>2, <1>5, ValuesWritten
<1>7. \A f \in Singletons : shows'[f] # shows[f] => p.local /\ f = p.f /\ shows'[f] = p.v
    BY <1>5, <1>6
<1>8. ASSUME p.local, p.f \in Expected, p.v = truth[p.f] PROVE shows'[p.f] = truth[p.f]
    <2>1. p.f \notin ClassSensors
        BY <1>4, KindsOfSingletons
    <2> QED BY <1>5, <1>6, <1>8, <2>1, ExpectedOf
<1>9. have' \subseteq have \cup {f \in ClassSensors : Severity \in have} /\ have' \subseteq Expected
    BY <1>3 DEF Expected
<1> HIDE DEF fs
<1> QED BY <1>1, <1>2, <1>3, <1>6, <1>7, <1>8, <1>9, PushDone

(* The install-mode push, to every interface.                               *)
LEMMA OnInstallModePushStep ==
    ASSUME HubInv, OnInstallModePush
    PROVE  HubInv'
<1>1. PICK p : p = Head(stream)
    OBVIOUS
<1>2. PICK vals :
        /\ vals = [f \in InstallMode \cap have |-> IF MatchesCentral(p) THEN p.v ELSE shows[f]]
        /\ UpdateValue(vals) /\ PublishEach(MovedBy(vals))
    BY <1>1 DEF OnInstallModePush
<1>3. PICK es : es = InstallMode \ {p.f}
    OBVIOUS
<1>4. /\ Dispatching(InstallMode) /\ Excuses(es) /\ UNCHANGED <<have, counts, bare, actor>>
      /\ UNCHANGED <<truth, size, routed, calls, tally>>
    BY <1>1, <1>3 DEF OnInstallModePush, Handled
<1>5. p \in HubPushes /\ p.f \in InstallMode /\ routed /\ have # {}
    BY <1>1, <1>4, PushTaken
<1>6. /\ DOMAIN vals = InstallMode \cap have /\ DOMAIN vals \subseteq Singletons
      /\ \A f \in DOMAIN vals : vals[f] = (IF p.local THEN p.v ELSE shows[f]) /\ vals[f] \in Nat
    BY <1>2, <1>5 DEF MatchesCentral, HubInv, HubTypeOK, HubValues, HubPushes
<1>7. /\ shows' \in HubValues
      /\ \A f \in Singletons : shows'[f] = IF f \in DOMAIN vals THEN vals[f] ELSE shows[f]
      /\ \A f \in Singletons : shows'[f] # shows[f] => f \in MovedBy(vals)
    BY <1>2, <1>6, ValuesWritten
<1>8. \A f \in Singletons : shows'[f] # shows[f] => f \in es \/ (p.local /\ f = p.f /\ shows'[f] = p.v)
    BY <1>3, <1>6, <1>7
<1>9. ASSUME p.local, p.f \in Expected, p.v = truth[p.f] PROVE shows'[p.f] = truth[p.f]
    <2>1. p.f \notin ClassSensors
        BY <1>5, KindsOfSingletons
    <2> QED BY <1>5, <1>6, <1>7, <1>9, <2>1, ExpectedOf
<1>10. have' \subseteq have \cup {f \in ClassSensors : Severity \in have} /\ have' \subseteq Expected
    BY <1>4 DEF Expected
<1> QED BY <1>1, <1>2, <1>4, <1>7, <1>8, <1>9, <1>10, PushDone

(* The push of a message count: the loop goes to read the list.             *)
LEMMA OnMessageCountPushStep ==
    ASSUME HubInv, OnMessageCountPush
    PROVE  HubInv'
<1>1. PICK p : p = Head(stream)
    OBVIOUS
<1>2. /\ Dispatching(MessageLists) /\ UNCHANGED <<have, shows, counts, bare, rendered, silent, excused>>
      /\ UNCHANGED <<truth, size, routed, calls, tally>>
    BY DEF OnMessageCountPush, Handled
<1>3. p \in HubPushes /\ p.f \in MessageLists
    BY <1>1, <1>2, PushTaken
<1>4. p.f[1] \in {"alarm", "service"} /\ p.f = Hub(p.f[1]) /\ p.n \in Nat
    BY <1>3, HubNames, KindsOfSingletons DEF HubPushes
<1>5. PICK t : t = [Resting EXCEPT !.at = p.f[1], !.n[p.f] = p.n]
    OBVIOUS
<1>6. t \in HubTasks /\ t.ans = <<>> /\ t.at = p.f[1]
    BY <1>4, <1>5, RestingIs DEF HubTasks, HubSteps
<1>7. IF p.local THEN actor' = [actor EXCEPT !["dispatch"] = t] ELSE UNCHANGED actor
    BY <1>1, <1>5 DEF OnMessageCountPush, MatchesCentral
<1>8. actor \in [Actors -> HubTasks] /\ "dispatch" \in Actors
    BY DEF HubInv, HubTypeOK, Actors
<1>9. p.local => actor'["dispatch"].at # "idle" /\ p.f = Hub(actor'["dispatch"].at)
    BY <1>4, <1>6, <1>7, <1>8
<1>10. UNCHANGED actor \/ \E u \in HubTasks : /\ actor' = [actor EXCEPT !["dispatch"] = u] /\ u.ans = <<>>
                                             /\ u.at \in {"alarm", "service", "faults"}
    BY <1>4, <1>6, <1>7
<1>11. /\ have' \subseteq have \cup {f \in ClassSensors : Severity \in have} /\ have' \subseteq Expected
       /\ have \subseteq have' /\ shows' \in HubValues /\ shows' = shows
    BY <1>2 DEF Expected, HubInv, HubTypeOK
<1>12. /\ \A f \in Singletons : shows'[f] = shows[f]
       /\ \A f \in have' : f \in Expected
    BY <1>11
<1>13. PICK ps : ps = {}
    OBVIOUS
<1> QED BY <1>1, <1>2, <1>9, <1>10, <1>11, <1>12, <1>13, PushDone

(* The push of the fault ledger: the loop goes to read it.                  *)
LEMMA OnSecurityFaultPushStep ==
    ASSUME HubInv, OnSecurityFaultPush
    PROVE  HubInv'
<1>1. PICK p : p = Head(stream)
    OBVIOUS
<1>2. /\ Dispatching({Faults}) /\ UNCHANGED <<have, shows, counts, bare, rendered, silent, excused>>
      /\ UNCHANGED <<truth, size, routed, calls, tally>>
    BY DEF OnSecurityFaultPush, Handled
<1>3. p \in HubPushes /\ p.f = Faults /\ p.n \in Nat
    <2>1. p \in HubPushes /\ p.f = Faults
        BY <1>1, <1>2, PushTaken
    <2> QED BY <2>1 DEF HubPushes
<1>4. PICK t : t = [Resting EXCEPT !.at = "faults", !.n[Faults] = p.n]
    OBVIOUS
<1>5. t \in HubTasks /\ t.ans = <<>> /\ t.at = "faults"
    BY <1>3, <1>4, RestingIs DEF HubTasks, HubSteps
<1>6. IF Faults \in have THEN actor' = [actor EXCEPT !["dispatch"] = t] ELSE UNCHANGED actor
    BY <1>1, <1>4 DEF OnSecurityFaultPush
<1>7. actor \in [Actors -> HubTasks] /\ "dispatch" \in Actors
    BY DEF HubInv, HubTypeOK, Actors
<1>8. Faults \in have => actor'["dispatch"].at # "idle" /\ p.f = Hub(actor'["dispatch"].at)
    BY <1>3, <1>5, <1>6, <1>7, HubNames
<1>9. UNCHANGED actor \/ \E u \in HubTasks : /\ actor' = [actor EXCEPT !["dispatch"] = u] /\ u.ans = <<>>
                                            /\ u.at \in {"alarm", "service", "faults"}
    BY <1>5, <1>6
<1>10. /\ have' \subseteq have \cup {f \in ClassSensors : Severity \in have} /\ have' \subseteq Expected
       /\ have \subseteq have' /\ shows' \in HubValues /\ shows' = shows
    BY <1>2 DEF Expected, HubInv, HubTypeOK
<1>11. /\ \A f \in Singletons : shows'[f] = shows[f]
       /\ \A f \in have' : f \in Expected
    BY <1>10
<1>12. p.f \in Expected => Faults \in have
    BY <1>3, ExpectedOf, KindsOfSingletons
<1>13. PICK ps : ps = {}
    OBVIOUS
<1> QED BY <1>1, <1>2, <1>8, <1>9, <1>10, <1>11, <1>12, <1>13, PushDone

(* The push of the severity.                                                *)
LEMMA OnSecurityStatePushStep ==
    ASSUME HubInv, OnSecurityStatePush
    PROVE  HubInv'
<1>1. PICK p : p = Head(stream)
    OBVIOUS
<1>2. PICK vals, ps :
        /\ vals = [f \in {Severity} \cap have |-> p.v] /\ UpdateValue(vals)
        /\ ps = MovedBy(vals) \cup (DOMAIN vals \ bare) /\ PublishEach(ps)
    BY <1>1 DEF OnSecurityStatePush
<1>3. /\ Dispatching({Severity}) /\ Excuses({}) /\ UNCHANGED <<have, actor>>
      /\ UNCHANGED <<truth, size, routed, calls, tally>>
    BY DEF OnSecurityStatePush, Handled
<1>4. p \in HubPushes /\ p.f = Severity
    BY <1>1, <1>3, PushTaken
<1>5. p.v \in Nat /\ p.local
    BY <1>4, KindsOfSingletons DEF HubPushes
<1>6. /\ DOMAIN vals = {p.f} \cap have /\ DOMAIN vals \subseteq Singletons
      /\ \A f \in DOMAIN vals : vals[f] = p.v /\ vals[f] \in Nat
    BY <1>2, <1>4, <1>5, KindsOfSingletons
<1>7. /\ shows' \in HubValues
      /\ \A f \in Singletons : shows'[f] = IF f \in DOMAIN vals THEN vals[f] ELSE shows[f]
      /\ \A f \in Singletons : shows'[f] # shows[f] => f \in ps
    BY <1>2, <1>6, ValuesWritten
<1>8. \A f \in Singletons : shows'[f] # shows[f] => p.local /\ f = p.f /\ shows'[f] = p.v
    BY <1>5, <1>6, <1>7
<1>9. ASSUME p.f \in Expected, p.v = truth[p.f] PROVE shows'[p.f] = truth[p.f]
    <2>1. p.f \in have /\ p.f \in Singletons
        BY <1>4, <1>9, ExpectedOf, KindsOfSingletons
    <2> QED BY <1>6, <1>7, <1>9, <2>1
<1>10. have' \subseteq have \cup {f \in ClassSensors : Severity \in have} /\ have' \subseteq Expected
    BY <1>3 DEF Expected
<1> QED BY <1>1, <1>2, <1>3, <1>7, <1>8, <1>9, <1>10, PushDone

(* The push of a report.                                                    *)
LEMMA OnSecurityNotificationPushStep ==
    ASSUME HubInv, OnSecurityNotificationPush
    PROVE  HubInv'
<1>1. PICK p : p = Head(stream)
    OBVIOUS
<1>2. PICK vals : /\ vals = [f \in {p.f} \cap have |-> p.v] /\ UpdateValue(vals)
                  /\ PublishEach(MovedBy(vals))
    BY <1>1 DEF OnSecurityNotificationPush
<1>3. /\ Dispatching(Reports) /\ Excuses({}) /\ UNCHANGED <<have, actor>>
      /\ UNCHANGED <<truth, size, routed, calls, tally>>
    BY DEF OnSecurityNotificationPush, Handled
<1>4. p \in HubPushes /\ p.f \in Reports
    BY <1>1, <1>3, PushTaken
<1>5. p.f \in Security /\ p.f \in Singletons /\ p.f \notin ClassSensors
    BY <1>4, KindsOfSingletons DEF Security
<1>6. p.v \in Nat /\ p.local
    BY <1>4, <1>5 DEF HubPushes
<1>7. /\ DOMAIN vals = {p.f} \cap have /\ DOMAIN vals \subseteq Singletons
      /\ \A f \in DOMAIN vals : vals[f] = p.v /\ vals[f] \in Nat
    BY <1>2, <1>5, <1>6
<1>8. /\ shows' \in HubValues
      /\ \A f \in Singletons : shows'[f] = IF f \in DOMAIN vals THEN vals[f] ELSE shows[f]
      /\ \A f \in Singletons : shows'[f] # shows[f] => f \in MovedBy(vals)
    BY <1>2, <1>7, ValuesWritten
<1>9. \A f \in Singletons : shows'[f] # shows[f] => p.local /\ f = p.f /\ shows'[f] = p.v
    BY <1>6, <1>7, <1>8
<1>10. ASSUME p.f \in Expected, p.v = truth[p.f] PROVE shows'[p.f] = truth[p.f]
    <2>1. p.f \in have
        BY <1>5, <1>10, ExpectedOf
    <2> QED BY <1>5, <1>7, <1>8, <1>10, <2>1
<1>11. have' \subseteq have \cup {f \in ClassSensors : Severity \in have} /\ have' \subseteq Expected
    BY <1>3 DEF Expected
<1> QED BY <1>1, <1>2, <1>3, <1>8, <1>9, <1>10, <1>11, PushDone

(* The push of a hazard class builds its sensor.                            *)
LEMMA OnSecurityClassPushStep ==
    ASSUME HubInv, OnSecurityClassPush
    PROVE  HubInv'
<1>1. PICK p : p = Head(stream)
    OBVIOUS
<1>2. PICK S : S = IF Severity \in have THEN {p.f} ELSE {}
    OBVIOUS
<1>3. PICK vals : /\ vals = [f \in S |-> p.v] /\ UpdateValue(vals) /\ have' = have \cup DOMAIN vals
                  /\ PublishEach(MovedBy(vals))
    BY <1>1, <1>2 DEF OnSecurityClassPush
<1>4. /\ Dispatching(ClassSensors) /\ Excuses({}) /\ UNCHANGED actor
      /\ UNCHANGED <<truth, size, routed, calls, tally>>
    BY DEF OnSecurityClassPush, Handled
<1>5. p \in HubPushes /\ p.f \in ClassSensors /\ (p.local => p.v <= truth[p.f])
    BY <1>1, <1>4, PushTaken
<1>6. p.f \in Security /\ p.f \in Singletons
    BY <1>5, KindsOfSingletons
<1>7. p.v \in Nat /\ p.local
    BY <1>5, <1>6 DEF HubPushes
<1>8. /\ DOMAIN vals = S /\ DOMAIN vals \subseteq Singletons /\ S \subseteq {p.f}
      /\ \A f \in DOMAIN vals : vals[f] = p.v /\ vals[f] \in Nat
    BY <1>2, <1>3, <1>6, <1>7
<1>9. /\ shows' \in HubValues
      /\ \A f \in Singletons : shows'[f] = IF f \in DOMAIN vals THEN vals[f] ELSE shows[f]
      /\ \A f \in Singletons : shows'[f] # shows[f] => f \in MovedBy(vals)
    BY <1>3, <1>8, ValuesWritten
<1>10. \A f \in Singletons : shows'[f] # shows[f] => p.local /\ f = p.f /\ shows'[f] = p.v
    BY <1>7, <1>8, <1>9
<1>11. ASSUME p.f \in Expected, p.v = truth[p.f] PROVE shows'[p.f] = truth[p.f]
    <2>1. Severity \in have
        BY <1>5, <1>11, ExpectedOf
    <2> QED BY <1>2, <1>6, <1>8, <1>9, <1>11, <2>1
<1>12. have \subseteq have' /\ have' \subseteq have \cup {f \in ClassSensors : Severity \in have}
    BY <1>2, <1>3, <1>5, <1>8
<1>13. ASSUME NEW f \in have' PROVE f \in Expected \/ shows'[f] = truth[f]
    <2>1. CASE f \in have
        BY <2>1 DEF Expected
    <2>2. CASE f \notin have
        <3>1. f = p.f /\ f \in DOMAIN vals /\ Severity \in have
            BY <1>2, <1>3, <1>8, <2>2
        <3>2. CASE truth[f] # Unseen
            BY <1>5, <3>1, <3>2 DEF Expected
        <3>3. CASE truth[f] = Unseen
            BY <1>5, <1>6, <1>7, <1>8, <1>9, <3>1, <3>3 DEF Unseen
        <3> QED BY <3>2, <3>3
    <2> QED BY <2>1, <2>2
<1> QED BY <1>1, <1>3, <1>4, <1>9, <1>10, <1>11, <1>12, <1>13, PushDone

(* The daemon goes on: what it changes is pushed or excused.                *)
LEMMA DaemonGoesOn ==
    ASSUME HubInv, truth' \in HubValues, size' \in [Counted -> Nat],
           NEW qs \in Seq(HubPushes), stream' = IF routed THEN stream \o qs ELSE stream,
           \A i \in 1 .. Len(qs) : qs[i].local => qs[i].v <= truth'[qs[i].f],
           tally' \in [moves : Nat, fetches : Nat, misses : Nat], tally.moves <= tally'.moves,
           \A f \in Singletons : truth[f] <= truth'[f] /\ truth'[f] <= tally'.moves + 1,
           calls' \subseteq [f : InstallMode \cup Updates, v : Nat], ~routed => calls' = {},
           UNCHANGED <<routed, have, shows, actor, rendered, silent>>, excused \subseteq excused',
           \A f \in Singletons :
               \/ truth'[f] = truth[f] \/ f \in excused'
               \/ routed /\ \E i \in 1 .. Len(qs) : qs[i].f = f /\ qs[i].local /\ qs[i].v = truth'[f]
    PROVE  HubInv'
<1>1. /\ HubTypeOK /\ NoneNewer /\ HubTasksOK /\ BuiltOK /\ HubExplained /\ HubTold
    BY DEF HubInv
<1>2. PICK s \in Seq(HubPushes) : s = stream
    BY <1>1 DEF HubTypeOK
<1>3. /\ s \o qs \in Seq(HubPushes) /\ Len(s \o qs) = Len(s) + Len(qs)
      /\ \A i \in 1 .. Len(s) + Len(qs) : (s \o qs)[i] = IF i <= Len(s) THEN s[i] ELSE qs[i - Len(s)]
      /\ Len(s) \in Nat /\ Len(qs) \in Nat
    OBVIOUS
<1>4. HubTypeOK'
    BY <1>1, <1>2, <1>3 DEF HubTypeOK
<1>5. HubTasksOK'
    BY <1>1 DEF HubTasksOK
<1>6. BuiltOK'
    BY <1>1 DEF BuiltOK
<1>7. NoneNewer'
    <2>1. ASSUME NEW i \in 1 .. Len(stream'), stream'[i].local
          PROVE  stream'[i].v <= truth'[stream'[i].f]
        <3>1. \A j \in 1 .. Len(s) : s[j].local => s[j].v <= truth'[s[j].f]
            <4> SUFFICES ASSUME NEW j \in 1 .. Len(s), s[j].local PROVE s[j].v <= truth'[s[j].f]
                OBVIOUS
            <4>1. s[j] \in HubPushes
                OBVIOUS
            <4>2. s[j].f \in Singletons /\ s[j].v \in Nat
                BY <4>1 DEF HubPushes
            <4>3. s[j].v <= truth[s[j].f]
                BY <1>1, <1>2 DEF NoneNewer
            <4>4. truth[s[j].f] \in Nat /\ truth'[s[j].f] \in Nat /\ truth[s[j].f] <= truth'[s[j].f]
                BY <1>1, <4>2 DEF HubTypeOK, HubValues
            <4> QED BY <4>2, <4>3, <4>4
        <3>2. CASE ~routed
            BY <1>2, <2>1, <3>1, <3>2
        <3>3. CASE routed
            <4>1. stream' = s \o qs
                BY <1>2, <3>3
            <4>2. CASE i <= Len(s)
                <5>1. i \in 1 .. Len(s) /\ stream'[i] = s[i]
                    BY <1>3, <2>1, <4>1, <4>2
                <5> QED BY <2>1, <3>1, <5>1
            <4>3. CASE ~(i <= Len(s))
                <5>1. i - Len(s) \in 1 .. Len(qs) /\ stream'[i] = qs[i - Len(s)]
                    BY <1>3, <2>1, <4>1, <4>3
                <5> QED BY <2>1, <5>1
            <4> QED BY <4>2, <4>3
        <3> QED BY <3>2, <3>3
    <2>2. ASSUME NEW a \in Actors, actor[a].ans # <<>>, NEW f \in Singletons
          PROVE  Answer(a).truth[f] <= truth'[f]
        <3>1. Answer(a).truth \in HubValues /\ Answer(a).truth[f] <= truth[f]
            BY <2>2, AnswerIs
        <3> QED BY <1>1, <3>1 DEF HubTypeOK, HubValues
    <2>3. \A a \in Actors : Answer(a)' = Answer(a)
        BY DEF Answer
    <2> QED BY <2>1, <2>2, <2>3 DEF NoneNewer
<1>8. ASSUME NEW f \in Singletons, truth'[f] = truth[f] PROVE OnTheWay(f) => OnTheWay(f)'
    <2>1. Pushed(f) /\ routed => Pushed(f)'
        <3> SUFFICES ASSUME NEW i \in 1 .. Len(s), s[i].f = f, s[i].local, s[i].v = truth[f], routed
                     PROVE  Pushed(f)'
            BY <1>2 DEF Pushed
        <3>1. i \in 1 .. Len(stream') /\ stream'[i] = s[i]
            BY <1>2, <1>3
        <3> QED BY <1>8, <3>1 DEF Pushed
    <2>2. \A a \in Actors : NotOutdated(a, f) => NotOutdated(a, f)'
        BY <1>8 DEF NotOutdated, Answer
    <2>3. DispatchReads(f) => DispatchReads(f)'
        BY <2>2 DEF DispatchReads, Actors
    <2>4. HookReads(f) => HookReads(f)'
        BY <2>2 DEF HookReads, Actors, Fetchers, StepsBefore, StepOf
    <2> QED BY <2>1, <2>3, <2>4 DEF OnTheWay
<1>9. ASSUME NEW f \in Expected' PROVE shows'[f] = truth'[f] \/ f \in excused' \/ OnTheWay(f)'
    <2>1. f \in Singletons
        BY <1>1, KindsOfSingletons DEF HubTypeOK, Expected
    <2>2. CASE truth'[f] = truth[f]
        <3>1. f \in Expected
            BY <2>2 DEF Expected
        <3>2. shows[f] = truth[f] \/ f \in excused \/ OnTheWay(f)
            BY <1>1, <3>1 DEF HubExplained
        <3>3. OnTheWay(f) => OnTheWay(f)'
            BY <1>8, <2>1, <2>2
        <3> QED BY <2>2, <3>2, <3>3
    <2>3. CASE truth'[f] # truth[f] /\ f \notin excused'
        <3>1. routed
            BY <2>1, <2>3
        <3>2. PICK i \in 1 .. Len(qs) : qs[i].f = f /\ qs[i].local /\ qs[i].v = truth'[f]
            BY <2>1, <2>3
        <3>3. Len(s) + i \in 1 .. Len(stream') /\ stream'[Len(s) + i] = qs[i]
            <4>1. stream' = s \o qs
                BY <1>2, <3>1
            <4>2. Len(s) + i \in 1 .. Len(s) + Len(qs) /\ ~(Len(s) + i <= Len(s)) /\ (Len(s) + i) - Len(s) = i
                BY <1>3
            <4> QED BY <1>3, <4>1, <4>2
        <3> QED BY <3>1, <3>2, <3>3 DEF OnTheWay, Pushed
    <2> QED BY <2>2, <2>3
<1>10. HubExplained'
    BY <1>9 DEF HubExplained
<1>11. HubTold'
    BY <1>1 DEF HubTold
<1> QED BY <1>4, <1>5, <1>6, <1>7, <1>10, <1>11 DEF HubInv

(* The daemon's next value is newer than its last.                          *)
LEMMA NewValueFact ==
    ASSUME HubInv, NEW f \in Singletons, tally'.moves = tally.moves + 1,
           truth' = [truth EXCEPT ![f] = NewValue(f)]
    PROVE  /\ truth' \in HubValues /\ truth'[f] \in Nat
           /\ \A g \in Singletons : truth[g] <= truth'[g] /\ truth'[g] <= tally'.moves + 1
           /\ \A g \in Singletons : g # f => truth'[g] = truth[g]
<1>1. PICK v : v = NewValue(f)
    OBVIOUS
<1>2. truth \in HubValues /\ tally.moves \in Nat /\ \A g \in Singletons : truth[g] <= tally.moves + 1
    BY DEF HubInv, HubTypeOK, NoneNewer
<1>3. v \in Nat /\ truth[f] <= v /\ v <= tally.moves + 2
    BY <1>1, <1>2 DEF NewValue, HubValues
<1>4. truth' = [truth EXCEPT ![f] = v]
    BY <1>1
<1> QED BY <1>2, <1>3, <1>4 DEF HubValues

(* Home Assistant's call is executed at the daemon.                         *)
LEMMA HaCallsStep ==
    ASSUME HubInv, NEW f \in Moving, HaCalls(f)
    PROVE  HubInv'
<1>1. /\ f \in InstallMode \cup Updates /\ f \in have /\ routed
      /\ tally' = [tally EXCEPT !.moves = @ + 1] /\ truth' = [truth EXCEPT ![f] = NewValue(f)]
      /\ UNCHANGED <<size, routed, have, shows, actor, rendered, silent, excused>>
      /\ f \in Singletons /\ tally \in [moves : Nat, fetches : Nat, misses : Nat]
    BY DEF HaCalls, HubInv, HubTypeOK
<1>2. tally' \in [moves : Nat, fetches : Nat, misses : Nat] /\ tally'.moves = tally.moves + 1
    BY <1>1
<1>3. /\ truth' \in HubValues /\ truth'[f] \in Nat
      /\ \A g \in Singletons : truth[g] <= truth'[g] /\ truth'[g] <= tally'.moves + 1
      /\ \A g \in Singletons : g # f => truth'[g] = truth[g]
    BY <1>1, <1>2, NewValueFact
<1>4. PICK v \in Nat : v = truth'[f]
    BY <1>3
<1>5. PICK q : q = [f |-> f, v |-> v, n |-> 0, local |-> TRUE]
    OBVIOUS
<1>6. q \in HubPushes /\ q.f = f /\ q.v = v /\ q.local
    BY <1>1, <1>5 DEF HubPushes
<1>7. PICK qs : qs = <<q>>
    OBVIOUS
<1>8. qs \in Seq(HubPushes) /\ Len(qs) = 1 /\ qs[1] = q
    BY <1>6, <1>7
<1>9. stream' = IF routed THEN stream \o qs ELSE stream
    BY <1>4, <1>5, <1>7 DEF HaCalls, Emit
<1>10. calls' \subseteq [f : InstallMode \cup Updates, v : Nat]
    <2>1. calls' = calls \cup {[f |-> f, v |-> v]}
        BY <1>4 DEF HaCalls
    <2> QED BY <1>1, <1>4, <2>1 DEF HubInv, HubTypeOK
<1>11. \A i \in 1 .. Len(qs) : qs[i].local => qs[i].v <= truth'[qs[i].f]
    BY <1>3, <1>4, <1>6, <1>8
<1>12. ASSUME NEW g \in Singletons
       PROVE  \/ truth'[g] = truth[g] \/ g \in excused'
              \/ routed /\ \E i \in 1 .. Len(qs) : qs[i].f = g /\ qs[i].local /\ qs[i].v = truth'[g]
    <2>1. 1 \in 1 .. Len(qs) /\ qs[1] = q
        BY <1>8
    <2> QED BY <1>1, <1>3, <1>4, <1>6, <2>1
<1>13. size' \in [Counted -> Nat] /\ tally.moves <= tally'.moves
    BY <1>1, <1>2 DEF HubInv, HubTypeOK
<1> QED BY <1>1, <1>2, <1>3, <1>8, <1>9, <1>10, <1>11, <1>12, <1>13, DaemonGoesOn

(* The optimistic write of the call's answer.                               *)
LEMMA HaAnsweredStep ==
    ASSUME HubInv, NEW c \in calls, HaAnswered(c)
    PROVE  HubInv'
<1>1. /\ HubTypeOK /\ NoneNewer /\ HubTasksOK /\ BuiltOK /\ HubExplained /\ HubTold
    BY DEF HubInv
<1>2. c.f \in Singletons /\ c.v \in Nat /\ routed
    BY <1>1, KindsOfSingletons DEF HubTypeOK, BuiltOK
<1>3. PICK v \in Nat : v = IF c.f \in InstallMode \/ shows[c.f] \in {c.v - 1, c.v} THEN c.v ELSE Mixed
    BY <1>2 DEF Mixed
<1>4. PICK vals :
        /\ vals = [f \in {c.f} |-> v] /\ UpdateValue(vals)
        /\ silent' = silent \cup MovedBy(vals)
    BY <1>3 DEF HaAnswered
<1>5. PICK es : es = {c.f}
    OBVIOUS
<1>6. /\ Excuses(es) /\ calls' \subseteq calls
      /\ UNCHANGED <<truth, size, stream, routed, have, rendered, actor, tally>>
    BY <1>5 DEF HaAnswered
<1>7. DOMAIN vals = {c.f} /\ DOMAIN vals \subseteq Singletons /\ \A f \in DOMAIN vals : vals[f] \in Nat
    BY <1>2, <1>3, <1>4
<1>8. /\ shows' \in HubValues
      /\ \A f \in Singletons : shows'[f] = IF f \in DOMAIN vals THEN vals[f] ELSE shows[f]
      /\ \A f \in Singletons : shows'[f] # shows[f] => f \in MovedBy(vals)
    BY <1>4, <1>7, ValuesWritten
<1>9. HubTypeOK' /\ HubTasksOK'
    BY <1>1, <1>6, <1>8 DEF HubTypeOK, HubTasksOK
<1>10. NoneNewer'
    BY <1>1, <1>6 DEF NoneNewer, Answer
<1>11. BuiltOK'
    BY <1>1, <1>2, <1>6 DEF BuiltOK
<1>12. HubExplained'
    <2>1. \A f \in Singletons : shows'[f] <= truth[f] \/ f \in es \/ shows'[f] = shows[f]
        BY <1>5, <1>7, <1>8
    <2>2. Expected' = Expected /\ have' \subseteq Singletons
        BY <1>1, <1>6 DEF Expected, HubTypeOK
    <2>3. \A f \in Expected : OnTheWay(f) => OnTheWay(f)'
        BY <1>2, <1>6 DEF OnTheWay, Pushed, DispatchReads, NotOutdated, Answer
    <2> QED BY <1>6, <1>8, <2>1, <2>2, <2>3, ExplainedStep
<1>13. HubTold'
    <2>1. PICK ps : ps = {}
        OBVIOUS
    <2> QED BY <1>1, <1>4, <1>6, <1>8, <2>1, ToldStep
<1> QED BY <1>9, <1>10, <1>11, <1>12, <1>13 DEF HubInv

(* A change at the daemon, with its push or without.                        *)
LEMMA DaemonMovesStep ==
    ASSUME HubInv, NEW f \in Moving, NEW n \in 0 .. MaxMessages, NEW lost \in BOOLEAN,
           DaemonMoves(f, n, lost)
    PROVE  HubInv'
<1>1. /\ tally' = [tally EXCEPT !.moves = @ + 1, !.misses = IF lost THEN @ + 1 ELSE @]
      /\ truth' = [truth EXCEPT ![f] = NewValue(f)]
      /\ size' = IF f \in Counted THEN [size EXCEPT ![f] = n] ELSE size
      /\ excused' = excused \cup (IF lost \/ ~routed THEN {f} ELSE {})
      /\ UNCHANGED <<routed, have, shows, actor, calls, rendered, silent>>
      /\ tally \in [moves : Nat, fetches : Nat, misses : Nat]
    BY DEF DaemonMoves, HubInv, HubTypeOK
<1>2. f \in Singletons /\ n \in Nat
    BY HubAssumption
<1>3. tally' \in [moves : Nat, fetches : Nat, misses : Nat] /\ tally'.moves = tally.moves + 1
    <2>1. PICK m \in Nat : m = IF lost THEN tally.misses + 1 ELSE tally.misses
        BY <1>1
    <2>2. PICK u : u = [tally EXCEPT !.moves = @ + 1]
        OBVIOUS
    <2>3. u \in [moves : Nat, fetches : Nat, misses : Nat] /\ u.moves = tally.moves + 1
        BY <1>1, <2>2
    <2>4. tally' = [u EXCEPT !.misses = m]
        BY <1>1, <2>1, <2>2
    <2> QED BY <2>1, <2>3, <2>4
<1>4. /\ truth' \in HubValues /\ truth'[f] \in Nat
      /\ \A g \in Singletons : truth[g] <= truth'[g] /\ truth'[g] <= tally'.moves + 1
      /\ \A g \in Singletons : g # f => truth'[g] = truth[g]
    BY <1>1, <1>2, <1>3, NewValueFact
<1>5. PICK v \in Nat : v = truth'[f]
    BY <1>4
<1>6. PICK q : q = [f |-> f, v |-> v, n |-> n, local |-> TRUE]
    OBVIOUS
<1>7. q \in HubPushes /\ q.f = f /\ q.v = v /\ q.local
    BY <1>2, <1>6 DEF HubPushes
<1>8. PICK qs : qs = IF lost THEN <<>> ELSE <<q>>
    OBVIOUS
<1>9. stream' = IF routed THEN stream \o qs ELSE stream
    BY <1>5, <1>6, <1>8 DEF DaemonMoves, Emit
<1>10. /\ qs \in Seq(HubPushes) /\ \A i \in 1 .. Len(qs) : qs[i] = q
       /\ ~lost => Len(qs) = 1 /\ qs[1] = q
    BY <1>7, <1>8
<1>11. \A i \in 1 .. Len(qs) : qs[i].local => qs[i].v <= truth'[qs[i].f]
    BY <1>4, <1>5, <1>7, <1>10
<1>12. ASSUME NEW g \in Singletons
       PROVE  \/ truth'[g] = truth[g] \/ g \in excused'
              \/ routed /\ \E i \in 1 .. Len(qs) : qs[i].f = g /\ qs[i].local /\ qs[i].v = truth'[g]
    <2>1. CASE g # f
        BY <1>4, <2>1
    <2>2. CASE g = f /\ (lost \/ ~routed)
        BY <1>1, <2>2
    <2>3. CASE g = f /\ ~lost /\ routed
        <3>1. 1 \in 1 .. Len(qs) /\ qs[1] = q
            BY <1>10, <2>3
        <3> QED BY <1>5, <1>7, <2>3, <3>1
    <2> QED BY <2>1, <2>2, <2>3
<1>13. size' \in [Counted -> Nat] /\ tally.moves <= tally'.moves /\ excused \subseteq excused'
    BY <1>1, <1>2, <1>3 DEF HubInv, HubTypeOK
<1>14. calls' \subseteq [f : InstallMode \cup Updates, v : Nat] /\ (~routed => calls' = {})
    BY <1>1 DEF HubInv, HubTypeOK, BuiltOK
<1> QED BY <1>1, <1>3, <1>4, <1>9, <1>10, <1>11, <1>12, <1>13, <1>14, DaemonGoesOn

(* A change of another central.                                             *)
LEMMA OtherCentralMovesStep ==
    ASSUME HubInv, NEW f \in Moving, OtherCentralMoves(f)
    PROVE  HubInv'
<1>1. /\ routed /\ f \in Moving \ (Security \cup {Hub("addon")})
      /\ tally' = [tally EXCEPT !.moves = @ + 1]
      /\ UNCHANGED <<truth, size, routed, have, shows, rendered, actor, calls, silent, excused>>
      /\ tally \in [moves : Nat, fetches : Nat, misses : Nat]
    BY DEF OtherCentralMoves, HubInv, HubTypeOK
<1>2. PICK q : q = [f |-> f, v |-> Foreign, n |-> Foreign, local |-> FALSE]
    OBVIOUS
<1>3. q \in HubPushes /\ ~q.local
    BY <1>1, <1>2, HubAssumption DEF HubPushes, Foreign
<1>4. stream' = IF routed THEN stream \o <<q>> ELSE stream
    BY <1>2 DEF OtherCentralMoves, Emit
<1>5. <<q>> \in Seq(HubPushes) /\ \A i \in 1 .. Len(<<q>>) : <<q>>[i] = q
    BY <1>3
<1>6. \A i \in 1 .. Len(<<q>>) : <<q>>[i].local => <<q>>[i].v <= truth'[<<q>>[i].f]
    BY <1>3, <1>5
<1>7. tally' \in [moves : Nat, fetches : Nat, misses : Nat] /\ tally'.moves = tally.moves + 1
    BY <1>1
<1>8. /\ truth' \in HubValues /\ size' \in [Counted -> Nat] /\ tally.moves <= tally'.moves
      /\ calls' \subseteq [f : InstallMode \cup Updates, v : Nat] /\ (~routed => calls' = {})
    BY <1>1, <1>7 DEF HubInv, HubTypeOK, BuiltOK
<1>9. \A g \in Singletons : truth[g] <= truth'[g] /\ truth'[g] <= tally'.moves + 1
    BY <1>1, <1>7 DEF HubInv, HubTypeOK, HubValues, NoneNewer
<1> QED BY <1>1, <1>4, <1>5, <1>6, <1>7, <1>8, <1>9, DaemonGoesOn

(* No step of the singletons takes the invariant away.                      *)
LEMMA HubStep ==
    ASSUME HubInv, [HubNext]_hubVars
    PROVE  HubInv'
<1>1. ASSUME NEW a \in Fetchers,
             \/ FetchBegins(a) \/ AggregateApplied(a) \/ UpdateApplied(a) \/ SecurityApplied(a)
             \/ StepSkipped(a) \/ ReadFails(a) \/ FetchPublishes(a)
      PROVE  HubInv'
    BY <1>1, FetchBeginsStep, AggregateAppliedStep, UpdateAppliedStep, SecurityAppliedStep,
       StepSkippedStep, ReadFailsStep, FetchPublishesStep
<1>2. ASSUME NEW a \in Actors, Answered(a) \/ ListLocked(a) \/ ListSkipped(a) \/ ListApplied(a)
      PROVE  HubInv'
    BY <1>2, AnsweredStep, ListLockedStep, ListSkippedStep, ListAppliedStep
<1>3. CASE InstallPushRouting
    BY <1>3, InstallPushRoutingStep
<1>4. CASE \/ OnValuePush \/ OnInstallModePush \/ OnMessageCountPush
           \/ OnSecurityStatePush \/ OnSecurityClassPush \/ OnSecurityNotificationPush
           \/ OnSecurityFaultPush \/ FaultsApplied \/ HandlerReadFails
    BY <1>4, OnValuePushStep, OnInstallModePushStep, OnMessageCountPushStep, OnSecurityStatePushStep,
       OnSecurityClassPushStep, OnSecurityNotificationPushStep, OnSecurityFaultPushStep,
       FaultsAppliedStep, HandlerReadFailsStep
<1>5. ASSUME NEW f \in Moving, HaCalls(f) \/ OtherCentralMoves(f)
      PROVE  HubInv'
    BY <1>5, HaCallsStep, OtherCentralMovesStep
<1>6. ASSUME NEW c \in calls, HaAnswered(c)
      PROVE  HubInv'
    BY <1>6, HaAnsweredStep
<1>7. ASSUME NEW f \in Moving, NEW n \in 0 .. MaxMessages, NEW lost \in BOOLEAN, DaemonMoves(f, n, lost)
      PROVE  HubInv'
    BY <1>7, DaemonMovesStep
<1>8. CASE UNCHANGED hubVars
    <2>1. UNCHANGED <<truth, size, stream, routed, have, shows, rendered, actor, calls, tally, silent, excused>>
        BY <1>8 DEF hubVars
    <2>2. HubTypeOK' /\ NoneNewer' /\ HubTasksOK' /\ BuiltOK'
        BY <2>1 DEF HubInv, HubTypeOK, HubValues, NoneNewer, Answer, HubTasksOK, BuiltOK
    <2>3. \A f : OnTheWay(f)' = OnTheWay(f)
        BY <2>1, OthersRead DEF OnTheWay, Pushed
    <2>4. HubExplained' /\ HubTold'
        BY <2>1, <2>3 DEF HubInv, HubExplained, Expected, HubTold
    <2> QED BY <2>2, <2>4 DEF HubInv
<1> QED BY <1>1, <1>2, <1>3, <1>4, <1>5, <1>6, <1>7, <1>8 DEF HubNext

(* Once every push and read is worked off, a singleton shows the daemon's   *)
(* value or is excused, and HA has been told of what is shown, but for its  *)
(* own optimistic writes.                                                   *)
THEOREM SingletonsAreExplained == HubSpec => []SingletonsExplained
<1>1. ASSUME HubInv PROVE SingletonsExplained
    <2> SUFFICES ASSUME routed, Quiet
                 PROVE  /\ \A f \in Expected : shows[f] = truth[f] \/ f \in excused
                        /\ \A f \in have \ silent : rendered[f] = shows[f]
        BY DEF SingletonsExplained
    <2>1. stream = <<>> /\ \A a \in Actors : actor[a].at = "idle"
        BY DEF Quiet
    <2>2. \A f : ~OnTheWay(f)
        BY <2>1 DEF OnTheWay, Pushed, DispatchReads, Actors
    <2>3. \A a \in Fetchers : actor[a].changed = {}
        BY <1>1, <2>1 DEF HubInv, HubTasksOK, Actors
    <2>4. have \subseteq Singletons
        BY <1>1 DEF HubInv, HubTypeOK
    <2> QED BY <1>1, <2>2, <2>3, <2>4 DEF HubInv, HubExplained, HubTold
<1> QED BY <1>1, HubStarts, HubStep, PTL DEF HubSpec

-----------------------------------------------------------------------------
(* What a fetch repairs.                                                    *)

(* A fetch nothing has disturbed: nobody else is at work, what is queued is *)
(* another central's, an answer is the daemon's present, and the singletons *)
(* of the reads that are done are as the daemon has them.                   *)
CalmRun(a) ==
    /\ calls = {} /\ \A b \in Actors \ {a} : actor[b].at = "idle"
    /\ \A i \in 1 .. Len(stream) : ~stream[i].local
    /\ actor[a].ans # <<>> => Answer(a).truth = truth /\ Answer(a).size = size
    /\ actor[a].at # "aggregate" =>
         /\ \A f \in Aggregated \cap have : shows[f] = truth[f]
         /\ actor[a].n = size
    /\ actor[a].at \notin {"aggregate", "alarm"} => counts[Hub("alarm")] = size[Hub("alarm")]
    /\ actor[a].at \in {"update", "addon", "security", "publish"} =>
         counts[Hub("service")] = size[Hub("service")]
    /\ actor[a].at \in {"addon", "security", "publish"} =>
         (Hub("update") \in have => shows[Hub("update")] = truth[Hub("update")])
    /\ actor[a].at \in {"security", "publish"} =>
         (Hub("addon") \in have => shows[Hub("addon")] = truth[Hub("addon")])
    /\ actor[a].at = "publish" /\ Severity \in have =>
         \A f \in Security : (f \in ClassSensors => truth[f] # Unseen) =>
             f \in have /\ Shows(f) /\ f \notin bare

(* Only Security & Safety sensors lack attributes, and the sensor of a      *)
(* class is built once the daemon has seen the class, and after the others. *)
BareOK == bare \subseteq Security /\ counts \in [Counted -> Nat]
SeenOK ==
    /\ Security \cap have # {} => Severity \in have
    /\ \A f \in ClassSensors \cap have : truth[f] # Unseen
    /\ \A i \in 1 .. Len(stream) : stream[i].f \in ClassSensors => stream[i].v # Unseen

CalmInv == BareOK /\ SeenOK /\ \A a \in Fetchers : a \in calm /\ actor[a].at # "idle" => CalmRun(a)

LEMMA CalmEnds ==
    ASSUME BareOK', SeenOK', calm' = {}
    PROVE  CalmInv'
BY DEF CalmInv

(* What is built, what has been pushed and what lacks attributes stays.     *)
LEMMA SeenStays ==
    ASSUME CalmInv, UNCHANGED <<truth, stream, have>>
    PROVE  SeenOK'
BY DEF CalmInv, SeenOK

(* Somebody else takes a step that an undisturbed fetch does not see.       *)
LEMMA CalmStays ==
    ASSUME CalmInv, BareOK', SeenOK', calm' = calm,
           \A a \in Fetchers : actor'[a] = actor[a],
           \A a \in Fetchers : a \in calm /\ actor[a].at # "idle" =>
               /\ UNCHANGED <<truth, size, have, shows, counts, bare, calls>>
               /\ actor'["dispatch"].at = "idle"
               /\ \A i \in 1 .. Len(stream') : ~stream'[i].local
    PROVE  CalmInv'
<1> SUFFICES ASSUME NEW a \in Fetchers, a \in calm, actor[a].at # "idle" PROVE CalmRun(a)'
    BY DEF CalmInv
<1>1. CalmRun(a)
    BY DEF CalmInv
<1>2. /\ UNCHANGED <<truth, size, have, shows, counts, bare, calls>> /\ actor'[a] = actor[a]
      /\ \A i \in 1 .. Len(stream') : ~stream'[i].local
    OBVIOUS
<1>3. \A b \in Actors \ {a} : actor'[b].at = "idle"
    BY <1>1 DEF CalmRun, Actors
<1> QED BY <1>1, <1>2, <1>3 DEF CalmRun, Answer, Shows

(* The undisturbed fetch takes a step itself.                               *)
LEMMA CalmSteps ==
    ASSUME HubInv, CalmInv, BareOK', SeenOK', calm' = calm,
           NEW a \in Fetchers, NEW t, actor' = [actor EXCEPT ![a] = t], actor[a].at # "idle",
           CalmRun(a) => t.at = "idle" \/ CalmRun(a)'
    PROVE  CalmInv'
<1>1. actor'[a] = t /\ \A b \in Fetchers \ {a} : actor'[b] = actor[b]
    BY DEF HubInv, HubTypeOK, Actors
<1> SUFFICES ASSUME NEW b \in Fetchers, b \in calm, actor'[b].at # "idle" PROVE CalmRun(b)'
    BY DEF CalmInv
<1>2. CASE b = a
    BY <1>1, <1>2 DEF CalmInv
<1>3. CASE b # a
    <2>1. CalmRun(b)
        BY <1>1, <1>3 DEF CalmInv
    <2>2. a \in Actors \ {b}
        BY <1>3 DEF Actors
    <2> QED BY <2>1, <2>2 DEF CalmRun
<1> QED BY <1>2, <1>3

(* A push is taken from the stream.                                         *)
LEMMA CalmPush ==
    ASSUME HubInv, CalmInv, NEW fs, Dispatching(fs), BareOK', SeenOK', UNCHANGED <<truth, size, calls, calm>>,
           \A a \in Fetchers : actor'[a] = actor[a],
           ~Head(stream).local => UNCHANGED <<have, shows, counts, bare, actor>>
    PROVE  CalmInv'
<1>1. /\ \A i \in 1 .. Len(stream') : i + 1 \in 1 .. Len(stream) /\ stream'[i] = stream[i + 1]
      /\ actor["dispatch"].at = "idle"
    BY PushTaken
<1>2. ASSUME NEW a \in Fetchers, a \in calm, actor[a].at # "idle" PROVE ~Head(stream).local
    <2>1. \A i \in 1 .. Len(stream) : ~stream[i].local
        BY <1>2 DEF CalmInv, CalmRun
    <2>2. PICK s \in Seq(HubPushes) : s = stream
        BY DEF HubInv, HubTypeOK
    <2>3. s # <<>>
        BY <2>2 DEF Dispatching
    <2>4. Head(s) = s[1] /\ 1 \in 1 .. Len(s)
        BY <2>3
    <2> QED BY <2>1, <2>2, <2>4
<1>3. ASSUME NEW a \in Fetchers, a \in calm, actor[a].at # "idle"
      PROVE  /\ UNCHANGED <<truth, size, have, shows, counts, bare, calls>>
             /\ actor'["dispatch"].at = "idle"
             /\ \A i \in 1 .. Len(stream') : ~stream'[i].local
    <2>1. \A i \in 1 .. Len(stream) : ~stream[i].local
        BY <1>3 DEF CalmInv, CalmRun
    <2> QED BY <1>1, <1>2, <1>3, <2>1
<1> QED BY <1>3, CalmStays

(* Nothing new is seen by taking a push.                                    *)
LEMMA SeenLess ==
    ASSUME HubInv, CalmInv, NEW fs, Dispatching(fs), UNCHANGED <<truth, have>>
    PROVE  SeenOK'
<1>1. \A i \in 1 .. Len(stream') : i + 1 \in 1 .. Len(stream) /\ stream'[i] = stream[i + 1]
    BY PushTaken
<1> QED BY <1>1 DEF CalmInv, SeenOK

(* A fetch begins.                                                          *)
LEMMA FetchBeginsCalm ==
    ASSUME HubInv, CalmInv, NEW a \in Fetchers, FetchBegins(a)
    PROVE  CalmInv'
<1>1. /\ actor[a].at = "idle" /\ calm' = (IF Quiet THEN {a} ELSE {})
      /\ UNCHANGED <<truth, size, stream, bare, calls>>
    BY DEF FetchBegins
<1>2. PICK t : t = [Resting EXCEPT !.at = "aggregate"] /\ actor' = [actor EXCEPT ![a] = t]
    BY DEF FetchBegins
<1>3. t.at = "aggregate" /\ t.ans = <<>>
    BY <1>2 DEF Resting
<1>4. actor'[a] = t /\ \A b \in Actors \ {a} : actor'[b] = actor[b]
    BY <1>2 DEF HubInv, HubTypeOK, Actors
<1>5. BareOK' /\ SeenOK'
    <2>1. CASE have # {}
        <3>1. UNCHANGED <<have, counts>>
            BY <2>1 DEF FetchBegins
        <3> QED BY <3>1, <1>1 DEF CalmInv, BareOK, SeenOK
    <2>2. CASE have = {}
        <3>1. PICK ok \in [{"addon", "security", "interfaces"} -> BOOLEAN] :
                EnsureSingletons(ok["addon"], ok["security"], ok["interfaces"])
            BY <2>2 DEF FetchBegins
        <3>2. PICK security \in BOOLEAN : counts' = [counts EXCEPT ![Faults] = IF security THEN size[Faults] ELSE @]
            BY <3>1 DEF EnsureSingletons
        <3>3. counts' \in [Counted -> Nat]
            BY <3>2 DEF CalmInv, BareOK, HubInv, HubTypeOK, Counted
        <3>4. \A f \in have' : f \in ClassSensors => truth[f] # Unseen
            <4>1. \A f \in have' :
                    \/ f \in Counters \cup MessageLists \cup {Hub("update"), Hub("addon")} \cup Connectivity \cup InstallMode
                    \/ f \in Security /\ (f \notin ClassSensors \/ truth[f] # Unseen)
                BY <3>1 DEF EnsureSingletons
            <4> QED BY <4>1, KindsOfSingletons
        <3>5. Security \cap have' # {} => Severity \in have'
            <4>1. \A f \in have' : f \in Security => ok["security"]
                BY <3>1, HubNames, KindsOfSingletons DEF EnsureSingletons
            <4>2. ok["security"] => Severity \in have'
                BY <3>1, KindsOfSingletons DEF EnsureSingletons
            <4> QED BY <4>1, <4>2
        <3> QED BY <3>3, <3>4, <3>5, <1>1 DEF CalmInv, BareOK, SeenOK
    <2> QED BY <2>1, <2>2
<1>6. CASE Quiet
    <2>1. CalmRun(a)'
        <3>1. calls = {} /\ stream = <<>> /\ \A b \in Actors : actor[b].at = "idle"
            BY <1>6 DEF Quiet
        <3>2. Len(stream') = 0
            BY <3>1, <1>1
        <3> QED BY <3>1, <3>2, <1>1, <1>3, <1>4 DEF CalmRun
    <2> QED BY <2>1, <1>1, <1>5, <1>6 DEF CalmInv
<1>7. CASE ~Quiet
    BY <1>1, <1>5, <1>7, CalmEnds
<1> QED BY <1>6, <1>7

(* The picture an undisturbed fetch has been given.                         *)
LEMMA CalmAnswer ==
    ASSUME NEW a \in Fetchers, CalmRun(a), actor[a].ans # <<>>
    PROVE  Answer(a).truth = truth /\ Answer(a).size = size
BY DEF CalmRun

LEMMA AggregateAppliedCalm ==
    ASSUME HubInv, CalmInv, NEW a \in Fetchers, AggregateApplied(a)
    PROVE  CalmInv'
<1> DEFINE S == Aggregated \cap have
           vals == [f \in S |-> Answer(a).truth[f]]
<1>1. /\ actor[a].at = "aggregate" /\ actor[a].ans # <<>> /\ UpdateValue(vals)
      /\ UNCHANGED <<truth, size, stream, have, counts, bare, calls, calm>> /\ a \in Actors
    BY DEF AggregateApplied, Reading, NothingPublished, Actors
<1>2. PICK t : /\ t = [at |-> "alarm", n |-> Answer(a).size, ans |-> <<>>, changed |-> MovedBy(vals)]
               /\ actor' = [actor EXCEPT ![a] = t]
    BY DEF AggregateApplied
<1>3. S \in SUBSET Singletons
    BY DEF HubInv, HubTypeOK
<1>4. \A f \in Singletons : shows'[f] = IF f \in S THEN Answer(a).truth[f] ELSE shows[f]
    BY <1>1, <1>3, AnswerWritten
<1>5. t.at = "alarm" /\ t.n = Answer(a).size /\ t.ans = <<>>
    BY <1>2
<1>6. actor'[a] = t /\ \A b \in Actors \ {a} : actor'[b] = actor[b]
    BY <1>1, <1>2 DEF HubInv, HubTypeOK
<1>7. BareOK' /\ SeenOK'
    BY <1>1, SeenStays DEF CalmInv, BareOK
<1>8. ASSUME CalmRun(a) PROVE CalmRun(a)'
    <2>1. Answer(a).truth = truth /\ Answer(a).size = size
        BY <1>1, <1>8, CalmAnswer
    <2>2. \A f \in S : shows'[f] = truth[f]
        BY <2>1, <1>3, <1>4
    <2> QED BY <2>1, <2>2, <1>1, <1>5, <1>6, <1>8 DEF CalmRun
<1> QED BY <1>1, <1>2, <1>7, <1>8, CalmSteps

(* A fetch goes on to its next read, having written no singleton of an      *)
(* earlier one.                                                             *)
LEMMA CalmProceeds ==
    ASSUME HubInv, CalmInv, NEW a \in Fetchers, NEW t, actor' = [actor EXCEPT ![a] = t],
           actor[a].at \in {"alarm", "service", "update", "addon", "security"},
           t.at = After(actor[a].at), t.ans = <<>>, t.n = actor[a].n,
           UNCHANGED <<truth, size, stream, calls, calm>>, BareOK', SeenOK',
           have \cap (Aggregated \cup Updates) = have' \cap (Aggregated \cup Updates),
           \A f \in Aggregated : shows'[f] = shows[f],
           CalmRun(a) =>
             /\ \A f \in MessageLists : f # ListOf(actor[a].at) => counts'[f] = counts[f]
             /\ actor[a].at \in {"alarm", "service"} => counts'[ListOf(actor[a].at)] = size[ListOf(actor[a].at)]
             /\ \A f \in Updates : f # Hub(actor[a].at) => shows'[f] = shows[f]
             /\ actor[a].at \in {"update", "addon"} =>
                  (Hub(actor[a].at) \in have => shows'[Hub(actor[a].at)] = truth[Hub(actor[a].at)])
             /\ actor[a].at = "security" /\ Severity \in have' =>
                  \A f \in Security : (f \in ClassSensors => truth[f] # Unseen) =>
                     f \in have' /\ Shows(f)' /\ f \notin bare'
    PROVE  CalmInv'
<1>1. actor'[a] = t /\ \A b \in Actors \ {a} : actor'[b] = actor[b]
    BY DEF HubInv, HubTypeOK, Actors
<1> SUFFICES ASSUME CalmRun(a) PROVE CalmRun(a)'
    BY CalmSteps
<1>2. /\ calls' = {} /\ \A b \in Actors \ {a} : actor'[b].at = "idle"
      /\ \A i \in 1 .. Len(stream') : ~stream'[i].local
      /\ actor'[a].ans = <<>> /\ actor'[a].n = size'
    BY <1>1 DEF CalmRun
<1>3. \A f \in Aggregated \cap have' : shows'[f] = truth'[f]
    BY DEF CalmRun
<1>4. actor'[a].at # "alarm" /\ actor'[a].at # "aggregate"
    BY <1>1, AfterFact
<1>5. counts'[Hub("alarm")] = size'[Hub("alarm")]
    <2>1. CASE actor[a].at = "alarm"
        BY <2>1, HubNames
    <2>2. CASE actor[a].at # "alarm"
        BY <2>2, HubNames, KindsOfSingletons DEF CalmRun
    <2> QED BY <2>1, <2>2
<1>6. actor'[a].at \in {"update", "addon", "security", "publish"} => counts'[Hub("service")] = size'[Hub("service")]
    <2>1. CASE actor[a].at = "alarm"
        BY <2>1, <1>1, AfterFact
    <2>2. CASE actor[a].at = "service"
        BY <2>2, HubNames
    <2>3. CASE actor[a].at \in {"update", "addon", "security"}
        BY <2>3, HubNames, KindsOfSingletons DEF CalmRun
    <2> QED BY <2>1, <2>2, <2>3
<1>7. actor'[a].at \in {"addon", "security", "publish"} =>
        (Hub("update") \in have' => shows'[Hub("update")] = truth'[Hub("update")])
    <2>1. CASE actor[a].at \in {"alarm", "service"}
        BY <2>1, <1>1, AfterFact
    <2>2. CASE actor[a].at = "update"
        BY <2>2, KindsOfSingletons
    <2>3. CASE actor[a].at \in {"addon", "security"}
        BY <2>3, HubNames, KindsOfSingletons DEF CalmRun
    <2> QED BY <2>1, <2>2, <2>3
<1>8. actor'[a].at \in {"security", "publish"} =>
        (Hub("addon") \in have' => shows'[Hub("addon")] = truth'[Hub("addon")])
    <2>1. CASE actor[a].at \in {"alarm", "service", "update"}
        BY <2>1, <1>1, AfterFact
    <2>2. CASE actor[a].at = "addon"
        BY <2>2, KindsOfSingletons
    <2>3. CASE actor[a].at = "security"
        BY <2>3, HubNames, KindsOfSingletons DEF CalmRun
    <2> QED BY <2>1, <2>2, <2>3
<1>9. actor'[a].at = "publish" /\ Severity \in have' =>
        \A f \in Security : (f \in ClassSensors => truth'[f] # Unseen) => f \in have' /\ Shows(f)' /\ f \notin bare'
    <2>1. actor'[a].at = "publish" => actor[a].at = "security"
        BY <1>1, AfterFact
    <2> QED BY <2>1
<1> QED BY <1>2, <1>3, <1>4, <1>5, <1>6, <1>7, <1>8, <1>9 DEF CalmRun

LEMMA UpdateAppliedCalm ==
    ASSUME HubInv, CalmInv, NEW a \in Fetchers, UpdateApplied(a)
    PROVE  CalmInv'
<1> DEFINE f0 == Hub(actor[a].at)
           S == {f0}
           vals == [g \in S |-> Answer(a).truth[g]]
<1>1. /\ actor[a].at \in {"update", "addon"} /\ actor[a].ans # <<>> /\ UpdateValue(vals)
      /\ Proceed(a, MovedBy(vals)) /\ a \in Actors
      /\ UNCHANGED <<truth, size, stream, have, counts, bare, calls, calm>>
    BY DEF UpdateApplied, NothingPublished, Actors
<1>2. S \in SUBSET Singletons /\ f0 \in Updates
    BY <1>1, KindsOfSingletons
<1> HIDE DEF S
<1>3. /\ MovedBy(vals) \subseteq S
      /\ \A f \in Singletons : shows'[f] = IF f \in S THEN Answer(a).truth[f] ELSE shows[f]
    BY <1>1, <1>2, AnswerWritten
<1> HIDE DEF vals
<1>4. PICK t \in HubTasks : /\ actor' = [actor EXCEPT ![a] = t] /\ t.at = After(actor[a].at)
                            /\ t.ans = <<>> /\ t.n = actor[a].n
    BY <1>1, <1>2, <1>3, ProceedFact
<1>5. BareOK' /\ SeenOK'
    BY <1>1, SeenStays DEF CalmInv, BareOK
<1>6. \A f \in Singletons : f # f0 => shows'[f] = shows[f]
    BY <1>3 DEF S
<1>7. CalmRun(a) => shows'[f0] = truth[f0]
    BY <1>1, <1>2, <1>3, CalmAnswer, KindsOfSingletons DEF S
<1>8. \A f \in Aggregated : shows'[f] = shows[f]
    BY <1>2, <1>6, KindsOfSingletons
<1>9. \A f \in Updates : f # f0 => shows'[f] = shows[f]
    BY <1>6, KindsOfSingletons
<1> QED BY <1>1, <1>4, <1>5, <1>7, <1>8, <1>9, CalmProceeds

LEMMA SecurityAppliedCalm ==
    ASSUME HubInv, CalmInv, NEW a \in Fetchers, SecurityApplied(a)
    PROVE  CalmInv'
<1> DEFINE S == {f \in Security : f \in ClassSensors => Answer(a).truth[f] # Unseen}
           vals == [f \in S |-> Answer(a).truth[f]]
           moved == MovedBy(vals) \cup (bare \cap S)
<1>1. /\ actor[a].at = "security" /\ actor[a].ans # <<>> /\ UpdateValue(vals) /\ Proceed(a, moved)
      /\ UNCHANGED <<truth, size, stream, calls, calm>> /\ a \in Actors
      /\ have' = have \cup S /\ bare' = bare \ S
      /\ counts' = [counts EXCEPT ![Faults] = Answer(a).size[Faults]]
    BY DEF SecurityApplied, NothingPublished, Actors, Reading
<1>2. S \in SUBSET Singletons /\ S \subseteq Security
    BY KindsOfSingletons
<1>3. \A f \in S : f \in ClassSensors => truth[f] # Unseen
    <2> SUFFICES ASSUME NEW f \in ClassSensors, f \in S PROVE truth[f] # Unseen
        OBVIOUS
    <2>1. Answer(a).truth[f] \in Nat /\ truth[f] \in Nat /\ Answer(a).truth[f] <= truth[f]
        BY <1>1, <1>2, AnswerIs DEF HubInv, HubTypeOK, HubValues
    <2> QED BY <2>1 DEF Unseen
<1>4. CalmRun(a) => \A f \in Security : (f \in ClassSensors => truth[f] # Unseen) => f \in S /\ Answer(a).truth[f] = truth[f]
    BY <1>1, CalmAnswer
<1> HIDE DEF S
<1>5. /\ MovedBy(vals) \subseteq S
      /\ \A f \in Singletons : shows'[f] = IF f \in S THEN Answer(a).truth[f] ELSE shows[f]
    BY <1>1, <1>2, AnswerWritten
<1> HIDE DEF vals
<1>6. moved \in SUBSET Singletons
    BY <1>2, <1>5
<1> HIDE DEF moved
<1>7. PICK t \in HubTasks : /\ actor' = [actor EXCEPT ![a] = t] /\ t.at = After(actor[a].at)
                            /\ t.ans = <<>> /\ t.n = actor[a].n
    BY <1>1, <1>6, ProceedFact
<1>8. /\ Faults \in Counted /\ Faults \notin MessageLists /\ counts \in [Counted -> Nat]
      /\ Answer(a).size[Faults] \in Nat
    BY <1>1, AnswerIs, KindsOfSingletons DEF CalmInv, BareOK
<1>9. counts' \in [Counted -> Nat] /\ counts'[Faults] = Answer(a).size[Faults]
    BY <1>1, <1>8
<1>10. \A f \in MessageLists : counts'[f] = counts[f]
    BY <1>1, <1>8 DEF Counted
<1>11. BareOK' /\ SeenOK'
    <2>1. bare' \subseteq Security
        BY <1>1 DEF CalmInv, BareOK
    <2>2. SeenOK'
        BY <1>1, <1>3 DEF CalmInv, SeenOK, HubInv, HubTasksOK
    <2> QED BY <1>9, <2>1, <2>2 DEF BareOK
<1>12. have \cap (Aggregated \cup Updates) = have' \cap (Aggregated \cup Updates)
    BY <1>1, <1>2, KindsOfSingletons
<1>13. \A f \in Aggregated \cup Updates : shows'[f] = shows[f]
    BY <1>2, <1>5, KindsOfSingletons
<1>14. ASSUME CalmRun(a), NEW f \in Security, f \in ClassSensors => truth[f] # Unseen
       PROVE  f \in have' /\ Shows(f)' /\ f \notin bare'
    <2>1. f \in S /\ Answer(a).truth[f] = truth[f]
        BY <1>4, <1>14
    <2>2. shows'[f] = truth'[f]
        BY <2>1, <1>1, <1>2, <1>5
    <2>3. f \in Counted => f = Faults
        BY KindsOfSingletons
    <2>4. Answer(a).size = size
        BY <1>1, <1>14, CalmAnswer
    <2>5. f \in Counted => counts'[f] = size'[f]
        BY <2>3, <2>4, <1>1, <1>9
    <2> QED BY <2>1, <2>2, <2>5, <1>1 DEF Shows
<1> QED BY <1>1, <1>7, <1>10, <1>11, <1>12, <1>13, <1>14, CalmProceeds

LEMMA StepSkippedCalm ==
    ASSUME HubInv, CalmInv, NEW a \in Fetchers, StepSkipped(a)
    PROVE  CalmInv'
<1>1. /\ actor[a].at \in {"update", "addon", "security"} /\ Proceed(a, {}) /\ a \in Actors
      /\ UNCHANGED <<truth, size, stream, have, shows, counts, bare, calls, calm>>
      /\ ~Exists(actor[a].at)
    BY DEF StepSkipped, Actors
<1>2. PICK t \in HubTasks : /\ actor' = [actor EXCEPT ![a] = t] /\ t.at = After(actor[a].at)
                            /\ t.ans = <<>> /\ t.n = actor[a].n
    BY <1>1, ProceedFact
<1>3. BareOK' /\ SeenOK'
    BY <1>1, SeenStays DEF CalmInv, BareOK
<1>4. actor[a].at \in {"update", "addon"} => Hub(actor[a].at) \notin have
    BY <1>1 DEF Exists
<1>5. actor[a].at = "security" => Severity \notin have'
    BY <1>1 DEF Exists
<1> QED BY <1>1, <1>2, <1>3, <1>4, <1>5, CalmProceeds

LEMMA ListSkippedCalm ==
    ASSUME HubInv, CalmInv, NEW a \in Actors, ListSkipped(a)
    PROVE  CalmInv'
<1>1. /\ actor[a].at \in {"alarm", "service"} /\ UpdateValue(<<>>) /\ ListDone(a, {})
      /\ UNCHANGED <<truth, size, stream, have, counts, bare, calls, calm>>
      /\ actor[a].n[ListOf(actor[a].at)] = counts[ListOf(actor[a].at)]
    BY DEF ListSkipped, CountMoved
<1>2. shows' = shows
    BY <1>1, NothingWritten
<1>3. BareOK' /\ SeenOK'
    BY <1>1, SeenStays DEF CalmInv, BareOK
<1>4. CASE a = "dispatch"
    <2>1. actor' = [actor EXCEPT ![a] = Resting]
        BY <1>1, <1>4 DEF ListDone
    <2>2. \A b \in Fetchers : actor'[b] = actor[b]
        BY <1>4, <2>1 DEF HubInv, HubTypeOK, Actors, Fetchers
    <2>3. \A b \in Fetchers : ~(b \in calm /\ actor[b].at # "idle")
        BY <1>1, <1>4 DEF CalmInv, CalmRun, Actors, Fetchers
    <2> QED BY <1>1, <1>3, <2>2, <2>3, CalmStays
<1>5. CASE a # "dispatch"
    <2>1. a \in Fetchers /\ Proceed(a, {})
        BY <1>1, <1>5 DEF ListDone, Actors
    <2>2. PICK t \in HubTasks : /\ actor' = [actor EXCEPT ![a] = t] /\ t.at = After(actor[a].at)
                                /\ t.ans = <<>> /\ t.n = actor[a].n
        BY <1>1, <2>1, ProceedFact
    <2>3. CalmRun(a) => counts'[ListOf(actor[a].at)] = size[ListOf(actor[a].at)]
        BY <1>1 DEF CalmRun
    <2> QED BY <1>1, <1>2, <1>3, <2>1, <2>2, <2>3, CalmProceeds
<1> QED BY <1>4, <1>5

LEMMA ListAppliedCalm ==
    ASSUME HubInv, CalmInv, NEW a \in Actors, ListApplied(a)
    PROVE  CalmInv'
<1> DEFINE f0 == ListOf(actor[a].at)
           S == {f0}
           vals == [f \in S |-> Answer(a).truth[f]]
<1>1. /\ actor[a].at \in {"alarm", "service"} /\ actor[a].ans # <<>> /\ UpdateValue(vals)
      /\ ListDone(a, MovedBy(vals))
      /\ counts' = [counts EXCEPT ![f0] = Answer(a).size[f0]]
      /\ UNCHANGED <<truth, size, stream, have, bare, calls, calm>>
    BY DEF ListApplied
<1>2. S \in SUBSET Singletons /\ f0 \in MessageLists /\ f0 \in Counted
    BY <1>1, HubNames, KindsOfSingletons
<1> HIDE DEF S
<1>3. /\ MovedBy(vals) \subseteq S
      /\ \A f \in Singletons : shows'[f] = IF f \in S THEN Answer(a).truth[f] ELSE shows[f]
    BY <1>1, <1>2, AnswerWritten
<1> HIDE DEF vals
<1>4. counts \in [Counted -> Nat] /\ Answer(a).size[f0] \in Nat
    BY <1>1, <1>2, AnswerIs DEF CalmInv, BareOK
<1>5. /\ counts' \in [Counted -> Nat] /\ counts'[f0] = Answer(a).size[f0]
      /\ \A f \in MessageLists : f # f0 => counts'[f] = counts[f]
    BY <1>1, <1>2, <1>4 DEF Counted
<1>6. BareOK' /\ SeenOK'
    BY <1>1, <1>5, SeenStays DEF CalmInv, BareOK
<1>7. CASE a = "dispatch"
    <2>1. actor' = [actor EXCEPT ![a] = Resting]
        BY <1>1, <1>7 DEF ListDone
    <2>2. \A b \in Fetchers : actor'[b] = actor[b]
        BY <1>7, <2>1 DEF HubInv, HubTypeOK, Actors, Fetchers
    <2>3. \A b \in Fetchers : ~(b \in calm /\ actor[b].at # "idle")
        BY <1>1, <1>7 DEF CalmInv, CalmRun, Actors, Fetchers
    <2> QED BY <1>1, <1>6, <2>2, <2>3, CalmStays
<1>8. CASE a # "dispatch"
    <2>1. a \in Fetchers /\ Proceed(a, MovedBy(vals))
        BY <1>1, <1>8 DEF ListDone, Actors
    <2>2. PICK t \in HubTasks : /\ actor' = [actor EXCEPT ![a] = t] /\ t.at = After(actor[a].at)
                                /\ t.ans = <<>> /\ t.n = actor[a].n
        BY <1>1, <1>2, <1>3, <2>1, ProceedFact
    <2>3. CalmRun(a) => counts'[f0] = size[f0]
        BY <1>1, <1>5, <2>1, CalmAnswer
    <2>4. \A f \in Aggregated \cup Updates : shows'[f] = shows[f]
        <3>1. \A f \in Aggregated \cup Updates : f \notin S /\ f \in Singletons
            BY <1>2, KindsOfSingletons DEF S
        <3> QED BY <1>3, <3>1
    <2> QED BY <1>1, <1>5, <1>6, <2>1, <2>2, <2>3, <2>4, CalmProceeds
<1> QED BY <1>7, <1>8

LEMMA AnsweredCalm ==
    ASSUME HubInv, CalmInv, NEW a \in Actors, Answered(a)
    PROVE  CalmInv'
<1>1. /\ actor[a].at # "idle"
      /\ UNCHANGED <<truth, size, stream, have, shows, counts, bare, calls, calm>>
      /\ actor' = [actor EXCEPT ![a].ans = <<[truth |-> truth, size |-> size]>>]
    BY DEF Answered
<1>2. PICK u \in HubTasks : u = actor[a]
    BY DEF HubInv, HubTypeOK
<1>3. PICK r : r = [truth |-> truth, size |-> size]
    OBVIOUS
<1>4. PICK t : t = [u EXCEPT !.ans = <<r>>]
    OBVIOUS
<1>5. t.at = u.at /\ t.ans = <<r>> /\ t.n = u.n /\ r.truth = truth /\ r.size = size /\ <<r>>[1] = r
    BY <1>2, <1>3, <1>4 DEF HubTasks
<1>6. actor' = [actor EXCEPT ![a] = t]
    BY <1>1, <1>2, <1>3, <1>4 DEF HubInv, HubTypeOK
<1>7. actor'[a] = t /\ \A b \in Actors \ {a} : actor'[b] = actor[b]
    BY <1>6 DEF HubInv, HubTypeOK
<1>8. BareOK' /\ SeenOK'
    BY <1>1, SeenStays DEF CalmInv, BareOK
<1>9. CASE a = "dispatch"
    <2>1. \A b \in Fetchers : actor'[b] = actor[b]
        BY <1>7, <1>9 DEF Actors, Fetchers
    <2>2. \A b \in Fetchers : ~(b \in calm /\ actor[b].at # "idle")
        BY <1>1, <1>9 DEF CalmInv, CalmRun, Actors, Fetchers
    <2> QED BY <1>1, <1>8, <2>1, <2>2, CalmStays
<1>10. CASE a # "dispatch"
    <2>1. a \in Fetchers
        BY <1>10 DEF Actors
    <2>2. ASSUME CalmRun(a) PROVE CalmRun(a)'
        <3>1. Answer(a)' = r
            BY <1>5, <1>7 DEF Answer
        <3>2. actor'[a].at = actor[a].at /\ actor'[a].n = actor[a].n
            BY <1>2, <1>5, <1>7
        <3> QED BY <2>2, <3>1, <3>2, <1>1, <1>5, <1>7 DEF CalmRun, Shows
    <2> QED BY <1>1, <1>6, <1>8, <2>1, <2>2, CalmSteps
<1> QED BY <1>9, <1>10

LEMMA ReadFailsCalm ==
    ASSUME HubInv, CalmInv, NEW a \in Fetchers, ReadFails(a)
    PROVE  CalmInv'
<1>1. UNCHANGED <<truth, stream, have, counts, bare>> /\ calm' = {}
    BY DEF ReadFails
<1> QED BY <1>1, SeenStays, CalmEnds DEF CalmInv, BareOK

LEMMA FetchPublishesCalm ==
    ASSUME HubInv, CalmInv, NEW a \in Fetchers, FetchPublishes(a)
    PROVE  CalmInv'
<1>1. /\ UNCHANGED <<truth, stream, have, counts, bare, calm>> /\ actor[a].at # "idle"
      /\ actor' = [actor EXCEPT ![a] = Resting]
    BY DEF FetchPublishes
<1>2. BareOK' /\ SeenOK'
    BY <1>1, SeenStays DEF CalmInv, BareOK
<1> QED BY <1>1, <1>2, RestingIs, CalmSteps

(* Steps an undisturbed fetch does not notice.                              *)
LEMMA ListLockedCalm ==
    ASSUME HubInv, CalmInv,
           (\E a \in Actors : ListLocked(a)) \/ InstallPushRouting \/ UNCHANGED hubVars
    PROVE  CalmInv'
<1>1. UNCHANGED <<truth, size, stream, have, shows, counts, bare, actor, calls, calm>>
    BY DEF ListLocked, InstallPushRouting, hubVars
<1>2. BareOK' /\ SeenOK'
    BY <1>1, SeenStays DEF CalmInv, BareOK
<1>3. \A a \in Fetchers : a \in calm /\ actor[a].at # "idle" =>
        actor["dispatch"].at = "idle" /\ \A i \in 1 .. Len(stream) : ~stream[i].local
    BY DEF CalmInv, CalmRun, Actors, Fetchers
<1> QED BY <1>1, <1>2, <1>3, CalmStays

(* The dispatch loop is at work, so no fetch is undisturbed.                *)
LEMMA FaultsAppliedCalm ==
    ASSUME HubInv, CalmInv, FaultsApplied
    PROVE  CalmInv'
<1>1. /\ actor["dispatch"].at # "idle" /\ actor["dispatch"].ans # <<>> /\ actor' = [actor EXCEPT !["dispatch"] = Resting]
      /\ UNCHANGED <<truth, size, stream, have, calls, calm>> /\ bare' = bare \ {Faults}
      /\ counts' = [counts EXCEPT ![Faults] = Answer("dispatch").size[Faults]]
    BY DEF FaultsApplied, Reading, Handled
<1>2. counts' \in [Counted -> Nat]
    BY <1>1, AnswerIs, KindsOfSingletons DEF CalmInv, BareOK, Actors
<1>3. BareOK' /\ SeenOK'
    BY <1>1, <1>2, SeenStays DEF CalmInv, BareOK
<1>4. \A b \in Fetchers : actor'[b] = actor[b] /\ ~(b \in calm /\ actor[b].at # "idle")
    BY <1>1 DEF CalmInv, CalmRun, Actors, Fetchers, HubInv, HubTypeOK
<1> QED BY <1>1, <1>3, <1>4, CalmStays

LEMMA HandlerReadFailsCalm ==
    ASSUME HubInv, CalmInv, HandlerReadFails
    PROVE  CalmInv'
<1>1. PICK f : f = ListOf(actor["dispatch"].at)
    OBVIOUS
<1>2. /\ actor["dispatch"].at # "idle" /\ calm' = {} /\ UNCHANGED <<truth, stream, have>>
      /\ counts' = IF f = Faults THEN [counts EXCEPT ![f] = actor["dispatch"].n[f]] ELSE counts
      /\ bare' = IF f = Faults THEN bare \cup {f} ELSE bare
    BY <1>1 DEF HandlerReadFails
<1>3. actor["dispatch"] \in HubTasks
    BY DEF HubInv, HubTypeOK, Actors
<1>4. BareOK'
    BY <1>2, <1>3, KindsOfSingletons DEF CalmInv, BareOK, HubTasks
<1> QED BY <1>2, <1>4, SeenStays, CalmEnds

(* Pushes.                                                                  *)
LEMMA OnValuePushCalm ==
    ASSUME HubInv, CalmInv, OnValuePush
    PROVE  CalmInv'
<1>1. PICK p : p = Head(stream)
    OBVIOUS
<1>2. PICK vals : /\ vals = [f \in {p.f} \cap have |-> IF MatchesCentral(p) THEN p.v ELSE shows[f]]
                  /\ UpdateValue(vals)
    BY <1>1 DEF OnValuePush
<1>3. /\ Dispatching(Counters \cup Connectivity \cup Updates)
      /\ UNCHANGED <<have, counts, bare, actor, truth, size, calls, calm>>
    BY DEF OnValuePush, Handled
<1>4. ~p.local => shows' = shows
    BY <1>2 DEF UpdateValue, MatchesCentral, HubInv, HubTypeOK, HubValues
<1>5. BareOK' /\ SeenOK'
    BY <1>3, SeenLess DEF CalmInv, BareOK
<1> QED BY <1>1, <1>3, <1>4, <1>5, CalmPush

LEMMA OnInstallModePushCalm ==
    ASSUME HubInv, CalmInv, OnInstallModePush
    PROVE  CalmInv'
<1>1. PICK p : p = Head(stream)
    OBVIOUS
<1>2. PICK vals : /\ vals = [f \in InstallMode \cap have |-> IF MatchesCentral(p) THEN p.v ELSE shows[f]]
                  /\ UpdateValue(vals)
    BY <1>1 DEF OnInstallModePush
<1>3. /\ Dispatching(InstallMode)
      /\ UNCHANGED <<have, counts, bare, actor, truth, size, calls, calm>>
    BY DEF OnInstallModePush, Handled
<1>4. ~p.local => shows' = shows
    BY <1>2 DEF UpdateValue, MatchesCentral, HubInv, HubTypeOK, HubValues
<1>5. BareOK' /\ SeenOK'
    BY <1>3, SeenLess DEF CalmInv, BareOK
<1> QED BY <1>1, <1>3, <1>4, <1>5, CalmPush

LEMMA OnMessageCountPushCalm ==
    ASSUME HubInv, CalmInv, OnMessageCountPush
    PROVE  CalmInv'
<1>1. /\ Dispatching(MessageLists)
      /\ UNCHANGED <<have, shows, counts, bare, truth, size, calls, calm>>
    BY DEF OnMessageCountPush, Handled
<1>2. ~Head(stream).local => UNCHANGED actor
    BY DEF OnMessageCountPush, MatchesCentral
<1>3. \A a \in Fetchers : actor'[a] = actor[a]
    <2>1. UNCHANGED actor \/ \E t : actor' = [actor EXCEPT !["dispatch"] = t]
        BY DEF OnMessageCountPush
    <2> QED BY <2>1 DEF HubInv, HubTypeOK, Actors, Fetchers
<1>4. BareOK' /\ SeenOK'
    BY <1>1, SeenLess DEF CalmInv, BareOK
<1> QED BY <1>1, <1>2, <1>3, <1>4, CalmPush

(* Security & Safety is this client's alone.                                *)
LEMMA SecurityIsLocal ==
    ASSUME HubInv, NEW fs, fs \subseteq Security, Dispatching(fs)
    PROVE  Head(stream).local
BY PushTaken DEF HubPushes

LEMMA OnSecurityFaultPushCalm ==
    ASSUME HubInv, CalmInv, OnSecurityFaultPush
    PROVE  CalmInv'
<1>1. /\ Dispatching({Faults}) /\ UNCHANGED <<have, shows, counts, bare, truth, size, calls, calm>>
    BY DEF OnSecurityFaultPush, Handled
<1>2. Head(stream).local
    BY <1>1, SecurityIsLocal, KindsOfSingletons
<1>3. \A a \in Fetchers : actor'[a] = actor[a]
    <2>1. UNCHANGED actor \/ \E t : actor' = [actor EXCEPT !["dispatch"] = t]
        BY DEF OnSecurityFaultPush
    <2> QED BY <2>1 DEF HubInv, HubTypeOK, Actors, Fetchers
<1>4. BareOK' /\ SeenOK'
    BY <1>1, SeenLess DEF CalmInv, BareOK
<1> QED BY <1>1, <1>2, <1>3, <1>4, CalmPush

LEMMA OnSecurityStatePushCalm ==
    ASSUME HubInv, CalmInv, OnSecurityStatePush \/ OnSecurityNotificationPush
    PROVE  CalmInv'
<1>1. PICK fs : fs \in {{Severity}, Reports} /\ Dispatching(fs)
    BY DEF OnSecurityStatePush, OnSecurityNotificationPush
<1>2. UNCHANGED <<have, counts, actor, truth, size, calls, calm>>
    BY DEF OnSecurityStatePush, OnSecurityNotificationPush, Handled
<1>3. bare' \subseteq bare \cup {Severity}
    BY DEF OnSecurityStatePush, OnSecurityNotificationPush
<1>4. Head(stream).local
    <2>1. fs \subseteq Security
        BY <1>1 DEF Security
    <2> QED BY <1>1, <2>1, SecurityIsLocal
<1>5. BareOK' /\ SeenOK'
    BY <1>1, <1>2, <1>3, SeenLess, KindsOfSingletons DEF CalmInv, BareOK
<1> QED BY <1>1, <1>2, <1>4, <1>5, CalmPush

LEMMA OnSecurityClassPushCalm ==
    ASSUME HubInv, CalmInv, OnSecurityClassPush
    PROVE  CalmInv'
<1>1. PICK p : p = Head(stream)
    OBVIOUS
<1>2. PICK vals : /\ vals = [f \in IF Severity \in have THEN {p.f} ELSE {} |-> p.v]
                  /\ have' = have \cup DOMAIN vals /\ bare' = bare \cup MovedBy(vals)
    BY <1>1 DEF OnSecurityClassPush
<1>3. Dispatching(ClassSensors) /\ UNCHANGED <<counts, actor, truth, size, calls, calm>>
    BY DEF OnSecurityClassPush, Handled
<1>4. p \in HubPushes /\ p.f \in ClassSensors /\ p.f \in Security /\ p.f \in Singletons /\ p.local /\ p.v <= truth[p.f]
    BY <1>1, <1>3, PushTaken, SecurityIsLocal, KindsOfSingletons
<1>5. DOMAIN vals \subseteq {p.f} /\ MovedBy(vals) \subseteq {p.f}
    BY <1>2 DEF MovedBy
<1>6. p.v # Unseen
    <2>1. PICK s \in Seq(HubPushes) : s = stream
        BY DEF HubInv, HubTypeOK
    <2>2. s # <<>>
        BY <1>3, <2>1 DEF Dispatching
    <2>3. Head(s) = s[1] /\ 1 \in 1 .. Len(s)
        BY <2>2
    <2> QED BY <1>1, <1>4, <2>1, <2>3 DEF CalmInv, SeenOK
<1>7. truth[p.f] # Unseen
    BY <1>4, <1>6 DEF Unseen, HubPushes, HubInv, HubTypeOK, HubValues
<1>8. SeenOK'
    <2>1. \A i \in 1 .. Len(stream') : i + 1 \in 1 .. Len(stream) /\ stream'[i] = stream[i + 1]
        BY <1>3, PushTaken
    <2>2. \A f \in ClassSensors \cap have' : truth[f] # Unseen
        BY <1>2, <1>5, <1>7 DEF CalmInv, SeenOK
    <2>3. Security \cap have' # {} => Severity \in have'
        BY <1>2, <1>5 DEF CalmInv, SeenOK
    <2> QED BY <1>3, <2>1, <2>2, <2>3 DEF CalmInv, SeenOK
<1>9. BareOK'
    BY <1>2, <1>3, <1>4, <1>5 DEF CalmInv, BareOK
<1> QED BY <1>1, <1>3, <1>4, <1>8, <1>9, CalmPush

(* A change at the daemon.                                                  *)
LEMMA SeenMore ==
    ASSUME HubInv, CalmInv, NEW f \in Singletons, tally'.moves = tally.moves + 1, have' = have,
           truth' = [truth EXCEPT ![f] = NewValue(f)],
           stream' = stream \/ \E q : q.f = f /\ q.v = truth'[f] /\ stream' = stream \o <<q>>
    PROVE  SeenOK'
<1>1. /\ \A g \in Singletons : truth[g] <= truth'[g] /\ truth[g] \in Nat /\ truth'[g] \in Nat
      /\ truth \in HubValues /\ tally.moves \in Nat
    BY NewValueFact DEF HubInv, HubTypeOK, HubValues
<1>2. truth'[f] # Unseen
    <2>1. truth'[f] = NewValue(f)
        BY <1>1 DEF HubValues
    <2> QED BY <1>1, <2>1 DEF NewValue, Unseen, HubValues
<1>3. \A g \in ClassSensors \cap have' : truth'[g] # Unseen
    BY <1>1, KindsOfSingletons DEF CalmInv, SeenOK, Unseen
<1>4. \A i \in 1 .. Len(stream') : stream'[i].f \in ClassSensors => stream'[i].v # Unseen
    <2>1. CASE stream' = stream
        BY <2>1 DEF CalmInv, SeenOK
    <2>2. CASE stream' # stream
        <3>1. PICK q : q.f = f /\ q.v = truth'[f] /\ stream' = stream \o <<q>>
            BY <2>2
        <3>2. PICK s \in Seq(HubPushes) : s = stream
            BY DEF HubInv, HubTypeOK
        <3>3. s \in Seq(HubPushes \cup {q}) /\ <<q>> \in Seq(HubPushes \cup {q})
            BY SMT
        <3>4. /\ Len(s \o <<q>>) = Len(s) + 1 /\ Len(s) \in Nat
              /\ \A i \in 1 .. Len(s) : (s \o <<q>>)[i] = s[i]
              /\ (s \o <<q>>)[Len(s) + 1] = q
            BY <3>3
        <3> QED BY <1>2, <3>1, <3>2, <3>4 DEF CalmInv, SeenOK
    <2> QED BY <2>1, <2>2
<1> QED BY <1>3, <1>4 DEF CalmInv, SeenOK

LEMMA HaCallsCalm ==
    ASSUME HubInv, CalmInv, NEW f \in Moving, HaCalls(f)
    PROVE  CalmInv'
<1>1. /\ truth' = [truth EXCEPT ![f] = NewValue(f)] /\ tally' = [tally EXCEPT !.moves = @ + 1]
      /\ calm' = {} /\ UNCHANGED <<have, counts, bare>>
    BY DEF HaCalls
<1>2. f \in Singletons /\ tally'.moves = tally.moves + 1
    BY <1>1, HubAssumption DEF HubInv, HubTypeOK
<1>3. stream' = stream \/ \E q : q.f = f /\ q.v = truth'[f] /\ stream' = stream \o <<q>>
    <2>1. PICK q : q = [f |-> f, v |-> truth'[f], n |-> 0, local |-> TRUE]
        OBVIOUS
    <2>2. q.f = f /\ q.v = truth'[f]
        BY <2>1
    <2>3. stream' = stream \/ stream' = stream \o <<q>>
        BY <2>1 DEF HaCalls, Emit
    <2> QED BY <2>2, <2>3
<1>4. SeenOK'
    BY <1>1, <1>2, <1>3, SeenMore
<1> QED BY <1>1, <1>4, CalmEnds DEF CalmInv, BareOK

LEMMA DaemonMovesCalm ==
    ASSUME HubInv, CalmInv, NEW f \in Moving, NEW n, NEW lost \in BOOLEAN, DaemonMoves(f, n, lost)
    PROVE  CalmInv'
<1>1. /\ truth' = [truth EXCEPT ![f] = NewValue(f)]
      /\ tally' = [tally EXCEPT !.moves = @ + 1, !.misses = IF lost THEN @ + 1 ELSE @]
      /\ calm' = {} /\ UNCHANGED <<have, counts, bare>>
    BY DEF DaemonMoves
<1>2. f \in Singletons /\ tally'.moves = tally.moves + 1
    <2>1. PICK u : u = [tally EXCEPT !.moves = @ + 1]
        OBVIOUS
    <2>2. u \in [moves : Nat, fetches : Nat, misses : Nat] /\ u.moves = tally.moves + 1
        BY <2>1 DEF HubInv, HubTypeOK
    <2>3. PICK m : tally' = [u EXCEPT !.misses = m]
        BY <1>1, <2>1
    <2> QED BY <2>2, <2>3, HubAssumption
<1>3. stream' = stream \/ \E q : q.f = f /\ q.v = truth'[f] /\ stream' = stream \o <<q>>
    <2>1. PICK q : q = [f |-> f, v |-> truth'[f], n |-> n, local |-> TRUE]
        OBVIOUS
    <2>2. q.f = f /\ q.v = truth'[f]
        BY <2>1
    <2>3. stream' = stream \/ stream' = stream \o <<q>>
        <3>1. stream' = stream \/ stream' = stream \o <<>> \/ stream' = stream \o <<q>>
            BY <2>1 DEF DaemonMoves, Emit
        <3>2. stream \o <<>> = stream
            BY DEF HubInv, HubTypeOK
        <3> QED BY <3>1, <3>2
    <2> QED BY <2>2, <2>3
<1>4. SeenOK'
    BY <1>1, <1>2, <1>3, SeenMore
<1> QED BY <1>1, <1>4, CalmEnds DEF CalmInv, BareOK

LEMMA HaAnsweredCalm ==
    ASSUME HubInv, CalmInv, NEW c \in calls, HaAnswered(c)
    PROVE  CalmInv'
<1>1. UNCHANGED <<truth, size, stream, have, counts, bare, actor, calm>>
    BY DEF HaAnswered
<1>2. BareOK' /\ SeenOK'
    BY <1>1, SeenStays DEF CalmInv, BareOK
<1>3. \A b \in Fetchers : ~(b \in calm /\ actor[b].at # "idle")
    BY DEF CalmInv, CalmRun
<1> QED BY <1>1, <1>2, <1>3, CalmStays

(* Another central's change reaches the stream, and nothing else.           *)
LEMMA OtherCentralMovesCalm ==
    ASSUME HubInv, CalmInv, NEW f \in Moving, OtherCentralMoves(f)
    PROVE  CalmInv'
<1>1. UNCHANGED <<truth, size, have, shows, counts, bare, actor, calls, calm>> /\ f \notin Security
    BY DEF OtherCentralMoves
<1>2. PICK q : q = [f |-> f, v |-> Foreign, n |-> Foreign, local |-> FALSE]
    OBVIOUS
<1>3. q.f = f /\ ~q.local /\ f \notin ClassSensors
    BY <1>1, <1>2, KindsOfSingletons
<1>4. PICK s \in Seq(HubPushes) : s = stream
    BY DEF HubInv, HubTypeOK
<1>5. stream' = s \/ stream' = s \o <<q>>
    BY <1>2, <1>4 DEF OtherCentralMoves, Emit
<1>6. s \in Seq(HubPushes \cup {q}) /\ <<q>> \in Seq(HubPushes \cup {q})
    BY SMT
<1>7. /\ Len(s \o <<q>>) = Len(s) + 1 /\ Len(s) \in Nat
      /\ \A i \in 1 .. Len(s) : (s \o <<q>>)[i] = s[i]
      /\ (s \o <<q>>)[Len(s) + 1] = q
    BY <1>6
<1>8. \A i \in 1 .. Len(stream') : stream'[i] = q \/ (i \in 1 .. Len(stream) /\ stream'[i] = stream[i])
    BY <1>4, <1>5, <1>7
<1>9. BareOK' /\ SeenOK'
    BY <1>1, <1>3, <1>8 DEF CalmInv, BareOK, SeenOK
<1>10. ASSUME NEW a \in Fetchers, a \in calm, actor[a].at # "idle"
       PROVE  actor'["dispatch"].at = "idle" /\ \A i \in 1 .. Len(stream') : ~stream'[i].local
    <2>1. CalmRun(a) /\ "dispatch" \in Actors \ {a}
        BY <1>10 DEF CalmInv, Actors, Fetchers
    <2> QED BY <2>1, <1>1, <1>3, <1>8 DEF CalmRun
<1> QED BY <1>1, <1>9, <1>10, CalmStays

LEMMA CalmStep ==
    ASSUME HubInv, CalmInv, [HubNext]_hubVars
    PROVE  CalmInv'
<1>1. ASSUME NEW a \in Fetchers,
             \/ FetchBegins(a) \/ AggregateApplied(a) \/ UpdateApplied(a) \/ SecurityApplied(a)
             \/ StepSkipped(a) \/ ReadFails(a) \/ FetchPublishes(a)
      PROVE  CalmInv'
    BY <1>1, FetchBeginsCalm, AggregateAppliedCalm, UpdateAppliedCalm, SecurityAppliedCalm,
       StepSkippedCalm, ReadFailsCalm, FetchPublishesCalm
<1>2. ASSUME NEW a \in Actors, Answered(a) \/ ListLocked(a) \/ ListSkipped(a) \/ ListApplied(a)
      PROVE  CalmInv'
    BY <1>2, AnsweredCalm, ListLockedCalm, ListSkippedCalm, ListAppliedCalm
<1>3. CASE InstallPushRouting \/ UNCHANGED hubVars
    BY <1>3, ListLockedCalm
<1>4. CASE \/ OnValuePush \/ OnInstallModePush \/ OnMessageCountPush
           \/ OnSecurityStatePush \/ OnSecurityClassPush \/ OnSecurityNotificationPush
           \/ OnSecurityFaultPush \/ FaultsApplied \/ HandlerReadFails
    BY <1>4, OnValuePushCalm, OnInstallModePushCalm, OnMessageCountPushCalm, OnSecurityStatePushCalm,
       OnSecurityClassPushCalm, OnSecurityFaultPushCalm, FaultsAppliedCalm, HandlerReadFailsCalm
<1>5. ASSUME NEW f \in Moving, HaCalls(f) \/ OtherCentralMoves(f)
      PROVE  CalmInv'
    BY <1>5, HaCallsCalm, OtherCentralMovesCalm
<1>6. ASSUME NEW c \in calls, HaAnswered(c)
      PROVE  CalmInv'
    BY <1>6, HaAnsweredCalm
<1>7. ASSUME NEW f \in Moving, NEW n \in 0 .. MaxMessages, NEW lost \in BOOLEAN, DaemonMoves(f, n, lost)
      PROVE  CalmInv'
    BY <1>7, DaemonMovesCalm
<1> QED BY <1>1, <1>2, <1>3, <1>4, <1>5, <1>6, <1>7 DEF HubNext

LEMMA CalmStarts == HubInit => CalmInv
<1> SUFFICES ASSUME HubInit PROVE CalmInv
    OBVIOUS
<1>1. Len(stream) = 0 /\ have = {} /\ calm = {} /\ bare = {} /\ counts = [f \in Counted |-> Unseen]
    BY DEF HubInit
<1> QED BY <1>1 DEF CalmInv, BareOK, SeenOK, Unseen

(* Nobody but the fetch itself ends it.                                     *)
LEMMA OnlyPublishEnds ==
    ASSUME HubInv, [HubNext]_hubVars, NEW a \in Fetchers, actor[a].at = "publish", actor'[a].at = "idle"
    PROVE  FetchPublishes(a)
<1>0. actor \in [Actors -> HubTasks] /\ a \in Actors /\ a # "dispatch" /\ "dispatch" \in Actors
    BY DEF HubInv, HubTypeOK, Actors, Fetchers
<1> SUFFICES ASSUME ~FetchPublishes(a) PROVE actor'[a].at = actor[a].at
    OBVIOUS
<1>1. ASSUME NEW b \in Fetchers, FetchBegins(b) \/ FetchPublishes(b) PROVE actor'[a].at = actor[a].at
    <2>1. b # a
        BY <1>1 DEF FetchBegins
    <2>2. PICK t : actor' = [actor EXCEPT ![b] = t]
        BY <1>1 DEF FetchBegins, FetchPublishes
    <2> QED BY <2>1, <2>2, <1>0
<1>2. ASSUME NEW b \in Actors, b # a, NEW moved, Proceed(b, moved) PROVE actor'[a].at = actor[a].at
    BY <1>0, <1>2 DEF Proceed
<1>3. ASSUME NEW b \in Fetchers, AggregateApplied(b) PROVE actor'[a].at = actor[a].at
    <2>1. b # a
        BY <1>3 DEF AggregateApplied, Reading
    <2>2. PICK t : actor' = [actor EXCEPT ![b] = t]
        BY <1>3 DEF AggregateApplied
    <2> QED BY <2>1, <2>2, <1>0
<1>4. ASSUME NEW b \in Fetchers, UpdateApplied(b) \/ SecurityApplied(b) \/ StepSkipped(b)
      PROVE  actor'[a].at = actor[a].at
    <2>1. b # a /\ b \in Actors
        BY <1>4 DEF UpdateApplied, SecurityApplied, StepSkipped, Reading, Actors
    <2>2. PICK moved : Proceed(b, moved)
        BY <1>4 DEF UpdateApplied, SecurityApplied, StepSkipped
    <2> QED BY <2>1, <2>2, <1>2
<1>5. ASSUME NEW b \in Fetchers, ReadFails(b) PROVE actor'[a].at = actor[a].at
    <2>1. b # a /\ b \in Actors
        BY <1>5 DEF ReadFails, Actors
    <2>2. actor' = [actor EXCEPT ![b] = Resting] \/ Proceed(b, {})
        BY <1>5 DEF ReadFails
    <2> QED BY <2>1, <2>2, <1>0, <1>2
<1>6. ASSUME NEW b \in Actors, NEW moved, ListDone(b, moved), b # a PROVE actor'[a].at = actor[a].at
    <2>1. actor' = [actor EXCEPT ![b] = Resting] \/ Proceed(b, moved)
        BY <1>6 DEF ListDone
    <2> QED BY <2>1, <1>0, <1>2, <1>6
<1>7. ASSUME NEW b \in Actors, Answered(b) \/ ListLocked(b) \/ ListSkipped(b) \/ ListApplied(b)
      PROVE  actor'[a].at = actor[a].at
    <2>1. b # a
        BY <1>7 DEF Answered, ListLocked, ListSkipped, ListApplied
    <2>2. CASE Answered(b)
        BY <2>1, <2>2, <1>0 DEF Answered
    <2>3. CASE ListLocked(b)
        BY <2>3 DEF ListLocked
    <2>4. CASE ListSkipped(b) \/ ListApplied(b)
        <3>1. PICK moved : ListDone(b, moved)
            BY <2>4 DEF ListSkipped, ListApplied
        <3> QED BY <3>1, <2>1, <1>6
    <2> QED BY <1>7, <2>2, <2>3, <2>4
<1>8. CASE \/ OnValuePush \/ OnInstallModePush \/ OnMessageCountPush
           \/ OnSecurityStatePush \/ OnSecurityClassPush \/ OnSecurityNotificationPush
           \/ OnSecurityFaultPush \/ FaultsApplied \/ HandlerReadFails
    <2>1. UNCHANGED actor \/ \E t : actor' = [actor EXCEPT !["dispatch"] = t]
        BY <1>8 DEF OnValuePush, OnInstallModePush, OnMessageCountPush, OnSecurityStatePush, OnSecurityClassPush,
                    OnSecurityNotificationPush, OnSecurityFaultPush, FaultsApplied, HandlerReadFails
    <2> QED BY <2>1, <1>0
<1>9. CASE \/ InstallPushRouting \/ UNCHANGED hubVars
           \/ \E f \in Moving : HaCalls(f) \/ OtherCentralMoves(f)
           \/ \E c \in calls : HaAnswered(c)
           \/ \E f \in Moving, n \in 0 .. MaxMessages, lost \in BOOLEAN : DaemonMoves(f, n, lost)
    BY <1>9 DEF InstallPushRouting, hubVars, HaCalls, OtherCentralMoves, HaAnswered, DaemonMoves
<1> QED BY <1>1, <1>3, <1>4, <1>5, <1>7, <1>8, <1>9 DEF HubNext

(* A fetch that nothing disturbed leaves every singleton, its sources and   *)
(* its grade as the daemon has them.                                        *)
THEOREM FetchesRepair == HubSpec => FetchRepairs
<1>1. ASSUME HubInv, CalmInv, [HubNext]_hubVars, NEW a \in Fetchers,
             a \in calm, actor[a].at = "publish", actor'[a].at = "idle"
      PROVE  /\ \A f \in Expected' \ MessageLists : f \in have' /\ Shows(f)' /\ f \notin bare'
             /\ \A f \in MessageLists : counts'[f] = size'[f]
    <2>1. CalmRun(a)
        BY <1>1 DEF CalmInv
    <2>2. FetchPublishes(a)
        BY <1>1, OnlyPublishEnds
    <2>3. UNCHANGED <<truth, size, have, shows, counts, bare>>
        BY <1>1, <2>2, NothingWritten DEF FetchPublishes
    <2>4. \A f \in MessageLists : counts'[f] = size'[f]
        BY <1>1, <2>1, <2>3, KindsOfSingletons DEF CalmRun
    <2>5. ASSUME NEW f \in Expected, f \notin MessageLists
          PROVE  f \in have /\ Shows(f) /\ f \notin bare
        <3>1. f \in Singletons
            BY <1>1, <2>5, KindsOfSingletons DEF Expected, HubInv, HubTypeOK
        <3>2. CASE f \in Aggregated \cup Updates
            <4>1. f \in have /\ f \notin Security /\ f \notin Counted
                BY <2>5, <3>2, KindsOfSingletons DEF Expected
            <4>2. shows[f] = truth[f]
                BY <1>1, <2>1, <3>2, <4>1, KindsOfSingletons DEF CalmRun
            <4> QED BY <1>1, <4>1, <4>2 DEF CalmInv, BareOK, Shows
        <3>3. CASE f \in Security
            <4>1. Severity \in have
                BY <1>1, <2>5, <3>3 DEF Expected, CalmInv, SeenOK
            <4>2. f \in ClassSensors => truth[f] # Unseen
                BY <1>1 DEF Expected, CalmInv, SeenOK
            <4> QED BY <1>1, <2>1, <3>3, <4>1, <4>2 DEF CalmRun
        <3> QED BY <2>5, <3>1, <3>2, <3>3, KindsOfSingletons
    <2>6. Expected' = Expected /\ \A f : Shows(f)' <=> Shows(f)
        BY <2>3 DEF Expected, Shows
    <2> QED BY <2>3, <2>4, <2>5, <2>6
<1>2. HubInv /\ CalmInv /\ [HubNext]_hubVars =>
        \A a \in Fetchers :
          (a \in calm /\ actor[a].at = "publish" /\ actor'[a].at = "idle") =>
            /\ \A f \in Expected' \ MessageLists :
                 /\ f \in have' /\ Shows(f)' /\ f \notin bare'
            /\ \A f \in MessageLists : counts'[f] = size'[f]
    BY <1>1
<1> QED BY <1>2, HubStarts, HubStep, CalmStarts, CalmStep, PTL DEF HubSpec, FetchRepairs
=============================================================================
