--------------------------- MODULE EventSync_proofs ---------------------------
(***************************************************************************)
(* TLAPS proofs about the event path (EventSync): broadcasts reach the     *)
(* reader without gap or repetition, a stale value of the store is always  *)
(* explained, the path refines the mirror of StoreMirror, and it drives    *)
(* WsTransport as that module's specification allows.                      *)
(*                                                                         *)
(* The invariant follows a change from the daemon to the store: ring,      *)
(* frames in flight, queue, the envelope the getter holds.  A key whose    *)
(* stored value is not the daemon's is blamed already, has the daemon's    *)
(* value somewhere on that way, or is in reach of a walk or of a frame     *)
(* that will ask for one.                                                  *)
(***************************************************************************)
EXTENDS EventSync, WsTransport_proofs, SequenceTheorems, TLAPS

EventRecs == [seq : Nat, key : Keys, ver : Nat]
EventFrames == [op : {"event"}, event : EventRecs]
LostFrames == [op : {"replay_lost"}, oldest : Nat]
Frames == EventFrames \cup LostFrames
Envelopes == [seq : Nat, size : {1}, payload : [key : Keys, ver : Nat]]

DaemonTypeOK ==
    /\ live \in [Keys -> Nat] /\ changes \in Nat /\ epoch \in Nat /\ top \in Nat
    /\ ring \in Seq(EventRecs)
    /\ session \in {"none", "upgraded", "live"}
    /\ since \in Nat \cup {NoSeq}
    /\ wire \in Seq(Frames)
ClientTypeOK ==
    /\ lastSeq \in Nat \cup {NoSeq}
    /\ queue \in Seq(Envelopes)
    /\ held \in {<<>>} \cup {<<e>> : e \in Envelopes}
    /\ consumer = "got" <=> held # <<>>
    /\ store \in [Keys -> Nat] /\ snap \in [Keys -> Nat]
    /\ boot \in {"idle", "asked", "answered", "hook"}
    /\ cursorEpoch \in Nat /\ cursorEpoch <= epoch
    /\ drift \in [Reasons -> SUBSET Keys]

IsEvent(i) == wire[i].op = "event"
IsLost(i) == wire[i].op = "replay_lost"
SeqAt(i) == wire[i].event.seq

(* The ring is the end of what was broadcast.                               *)
RingOK == \A i \in 1 .. Len(ring) : ring[i].seq = top - Len(ring) + i

(* So are the events in flight, and they are those of the ring.             *)
WireOK ==
    /\ session # "live" => wire = <<>>
    /\ session = "upgraded" => since = lastSeq
    /\ \A i \in 1 .. Len(wire) :
         /\ IsLost(i) => wire[i].oldest <= top
         /\ IsEvent(i) => SeqAt(i) <= top
         /\ IsEvent(i) => \A n \in SeqAt(i) + 1 .. top :
                            \E j \in i + 1 .. Len(wire) : IsEvent(j) /\ SeqAt(j) = n
    /\ \A j \in 1 .. Len(wire) : \A i \in 1 .. j - 1 :
         IsEvent(j) => (IF IsEvent(i) THEN SeqAt(i) ELSE wire[i].oldest) < SeqAt(j)
    /\ \A i \in 1 .. Len(wire), j \in 1 .. Len(ring) :
         IsEvent(i) /\ SeqAt(i) = ring[j].seq => wire[i].event = ring[j]

(* The cursor is behind what is in flight, and right behind it unless it    *)
(* was re-anchored or is about to be.                                       *)
Behind ==
    /\ lastSeq <= top
    /\ \A i \in 1 .. Len(wire) : IsEvent(i) => SeqAt(i) > lastSeq
RightBehind ==
    \A n \in lastSeq + 1 .. top : \E i \in 1 .. Len(wire) : IsEvent(i) /\ SeqAt(i) = n
CursorOK ==
    lastSeq # NoSeq =>
        /\ cursorEpoch = epoch => Behind
        /\ session = "live" /\ ~anchored =>
             (wire # <<>> /\ IsLost(1)) \/ (Behind /\ RightBehind)

(* No copy of a value is newer than the daemon's.                           *)
AgesOK ==
    /\ \A k \in Keys : store[k] <= live[k] /\ snap[k] <= live[k] /\ live[k] <= changes
    /\ \A i \in 1 .. Len(ring) : ring[i].ver <= live[ring[i].key]
    /\ \A i \in 1 .. Len(wire) : IsEvent(i) => wire[i].event.ver <= live[wire[i].event.key]
    /\ \A i \in 1 .. Len(queue) : queue[i].payload.ver <= live[queue[i].payload.key]
    /\ held # <<>> => held[1].payload.ver <= live[held[1].payload.key]

(* Where the daemon's value of a stale key is.                              *)
Blamed(k) == \E r \in Reasons : k \in drift[r]
InWalk(k) == boot = "asked" \/ (boot = "answered" /\ snap[k] = live[k])
InHand(k) == held # <<>> /\ held[1].payload.key = k /\ held[1].payload.ver = live[k]
Queued(k) == \E i \in 1 .. Len(queue) : queue[i].payload.key = k /\ queue[i].payload.ver = live[k]
InFlight(k) == \E i \in 1 .. Len(wire) : IsEvent(i) /\ wire[i].event.key = k /\ wire[i].event.ver = live[k]
LostInFlight == \E i \in 1 .. Len(wire) : IsLost(i)
(* Not connected: the replay will bring it, or will be refused.             *)
InRing(k) == \E i \in 1 .. Len(ring) :
                ring[i].key = k /\ ring[i].ver = live[k] /\ ring[i].seq > lastSeq
Owed(k) ==
    /\ session # "live" /\ lastSeq # NoSeq
    /\ cursorEpoch # epoch \/ top - lastSeq > Len(ring) \/ InRing(k)

Covered(k) ==
    \/ store[k] = live[k] \/ Blamed(k) \/ InWalk(k)
    \/ InHand(k) \/ Queued(k) \/ InFlight(k) \/ LostInFlight \/ Owed(k)
CoverOK == \A k \in Keys : Covered(k)

SyncInv == DaemonTypeOK /\ ClientTypeOK /\ RingOK /\ WireOK /\ CursorOK /\ AgesOK /\ CoverOK

-----------------------------------------------------------------------------
(* Sequences that gain and lose one element.                                *)
LEMMA Appended ==
    ASSUME NEW S, NEW s \in Seq(S), NEW e \in S
    PROVE  /\ Append(s, e) \in Seq(S) /\ Len(s) \in Nat /\ Len(Append(s, e)) = Len(s) + 1
           /\ \A i \in 1 .. Len(s) : Append(s, e)[i] = s[i]
           /\ Append(s, e)[Len(s) + 1] = e
BY AppendProperties, LenProperties

LEMMA Shortened ==
    ASSUME NEW S, NEW s \in Seq(S), s # <<>>
    PROVE  /\ Tail(s) \in Seq(S) /\ Len(s) \in Nat \ {0} /\ Len(Tail(s)) = Len(s) - 1
           /\ Head(s) = s[1] /\ s[1] \in S
           /\ \A i \in 1 .. Len(Tail(s)) : Tail(s)[i] = s[i + 1]
BY EmptySeq, HeadTailProperties, LenProperties

LEMMA Listed ==
    ASSUME NEW S, NEW d \in Nat, NEW g \in [1 .. d -> S]
    PROVE  g \in Seq(S) /\ Len(g) = d
<1>1. g \in Seq(S)
    BY SeqDef
<1>2. DOMAIN g = 1 .. d
    OBVIOUS
<1>3. Len(g) \in Nat /\ DOMAIN g = 1 .. Len(g)
    BY <1>1, LenProperties
<1>4. 1 .. d = 1 .. Len(g)
    BY <1>2, <1>3
<1>5. PICK n \in Nat : n = Len(g)
    BY <1>3
<1>6. 1 .. d = 1 .. n
    BY <1>4, <1>5
<1>7. d = n
    <2>1. d \in 1 .. d \/ d = 0
        OBVIOUS
    <2>2. n \in 1 .. n \/ n = 0
        OBVIOUS
    <2> QED BY <1>6, <2>1, <2>2
<1> QED BY <1>1, <1>5, <1>7

LEMMA SyncInitInv == SyncInit => SyncInv
<1> SUFFICES ASSUME SyncInit PROVE SyncInv
    OBVIOUS
<1> USE DEF SyncInit, TransportInit, Hub!HubInit
<1>1. wire = <<>> /\ ring = <<>> /\ queue = <<>> /\ held = <<>> /\ Len(<<>>) = 0
    BY EmptySeq
<1>2. DaemonTypeOK
    BY EmptySeq DEF DaemonTypeOK
<1>3. ClientTypeOK
    BY EmptySeq DEF ClientTypeOK, Reasons
<1>4. RingOK /\ WireOK /\ CursorOK
    BY <1>1 DEF RingOK, WireOK, CursorOK
<1>5. AgesOK /\ CoverOK
    BY <1>1 DEF AgesOK, CoverOK, Covered
<1> QED BY <1>2, <1>3, <1>4, <1>5 DEF SyncInv

-----------------------------------------------------------------------------
(* Steps that leave hub, cursor and frames alone.                           *)
LEMMA WireStays ==
    ASSUME RingOK, WireOK, CursorOK,
           UNCHANGED <<top, ring, session, since, wire, lastSeq, cursorEpoch, epoch, anchored>>
    PROVE  RingOK' /\ WireOK' /\ CursorOK'
<1>1. RingOK' /\ WireOK'
    BY DEF RingOK, WireOK, IsEvent, IsLost, SeqAt
<1>2. CursorOK'
    BY DEF CursorOK, Behind, RightBehind, IsEvent, IsLost, SeqAt
<1> QED BY <1>1, <1>2

(* A step is harmless to a key that stays covered the way it was.           *)
LEMMA SilentStep ==
    ASSUME SyncInv, StreamStarts \/ Reconnects \/ CooldownEnds \/ WalkEnds \/ UNCHANGED syncVars
    PROVE  SyncInv'
<1>1. /\ UNCHANGED <<hubVars, store, snap, cursorHist, drift, lastSeq, queueVars, consVars>>
      /\ boot' = boot \/ (boot = "hook" /\ boot' = "idle")
    BY DEF StreamStarts, Start, Reconnects, Retry, CooldownEnds, WalkEnds, syncVars, transportVars,
           bootVars, queueVars, consVars
<1> USE DEF hubVars, cursorHist, queueVars, consVars
<1>2. DaemonTypeOK' /\ ClientTypeOK'
    BY <1>1 DEF SyncInv, DaemonTypeOK, ClientTypeOK
<1>3. RingOK' /\ WireOK' /\ CursorOK'
    BY <1>1, WireStays DEF SyncInv
<1>4. AgesOK'
    BY <1>1 DEF SyncInv, AgesOK, IsEvent
<1>5. CoverOK'
    BY <1>1 DEF SyncInv, CoverOK, Covered, Blamed, InWalk, InHand, Queued, InFlight, LostInFlight,
                Owed, InRing, IsEvent, IsLost
<1> QED BY <1>2, <1>3, <1>4, <1>5 DEF SyncInv

-----------------------------------------------------------------------------
(* The walk.                                                                *)
LEMMA DriftGrows ==
    ASSUME ClientTypeOK, NEW r \in Reasons, NEW ks \in SUBSET Keys, Blame(r, ks)
    PROVE  /\ drift' \in [Reasons -> SUBSET Keys]
           /\ \A k \in Keys : Blamed(k) => Blamed(k)'
           /\ \A k \in ks : Blamed(k)'
BY DEF ClientTypeOK, Blame, Blamed

LEMMA SnapshotReadStep ==
    ASSUME SyncInv, SnapshotRead
    PROVE  SyncInv'
<1>1. /\ UNCHANGED <<hubVars, store, cursorHist, drift, lastSeq, queueVars, consVars>>
      /\ boot' = "answered" /\ snap' = live
    BY DEF SnapshotRead, transportVars
<1> USE DEF hubVars, cursorHist, queueVars, consVars
<1>2. DaemonTypeOK' /\ ClientTypeOK'
    BY <1>1 DEF SyncInv, DaemonTypeOK, ClientTypeOK
<1>3. RingOK' /\ WireOK' /\ CursorOK'
    BY <1>1, WireStays DEF SyncInv
<1>4. AgesOK'
    <2>1. \A k \in Keys : live[k] \in Nat
        BY DEF SyncInv, DaemonTypeOK
    <2> QED BY <1>1, <2>1 DEF SyncInv, AgesOK, IsEvent
<1>5. CoverOK'
    BY <1>1 DEF CoverOK, Covered, InWalk
<1> QED BY <1>2, <1>3, <1>4, <1>5 DEF SyncInv

(* An answer older than what it replaces is blamed; any other is as good.   *)
LEMMA SnapshotAppliedStep ==
    ASSUME SyncInv, SnapshotApplied
    PROVE  SyncInv'
<1> DEFINE older == {k \in Keys : snap[k] < store[k]}
<1>1. /\ UNCHANGED <<hubVars, snap, cursorHist, lastSeq, queueVars, consVars>>
      /\ boot = "answered" /\ boot' = "hook" /\ store' = snap /\ Blame("overwritten", older)
    BY DEF SnapshotApplied, transportVars
<1> USE DEF hubVars, cursorHist, queueVars, consVars
<1>2. /\ drift' \in [Reasons -> SUBSET Keys]
      /\ \A k \in Keys : Blamed(k) => Blamed(k)'
      /\ \A k \in older : Blamed(k)'
    BY <1>1, DriftGrows DEF SyncInv, Reasons
<1>3. DaemonTypeOK' /\ ClientTypeOK'
    BY <1>1, <1>2 DEF SyncInv, DaemonTypeOK, ClientTypeOK
<1>4. RingOK' /\ WireOK' /\ CursorOK'
    BY <1>1, WireStays DEF SyncInv
<1>5. AgesOK'
    BY <1>1 DEF SyncInv, AgesOK, IsEvent
<1>6. CoverOK'
    <2> SUFFICES ASSUME NEW k \in Keys PROVE Covered(k)'
        BY DEF CoverOK
    <2>1. /\ live'[k] = live[k] /\ store'[k] = snap[k]
          /\ store[k] \in Nat /\ snap[k] \in Nat /\ live[k] \in Nat /\ snap[k] <= live[k]
        BY <1>1 DEF SyncInv, ClientTypeOK, DaemonTypeOK, AgesOK
    <2>2. CASE store[k] = live[k]
        <3>1. snap[k] = live[k] \/ k \in older
            BY <2>1, <2>2
        <3> QED BY <1>2, <2>1, <3>1 DEF Covered
    <2>3. CASE InWalk(k)
        BY <1>1, <2>1, <2>3 DEF InWalk, Covered
    <2>4. CASE InHand(k) \/ Queued(k) \/ InFlight(k) \/ LostInFlight \/ Owed(k)
        BY <1>1, <2>1, <2>4 DEF Covered, InHand, Queued, InFlight, LostInFlight, Owed, InRing, IsEvent, IsLost
    <2>5. CASE Blamed(k)
        BY <1>2, <2>5 DEF Covered
    <2> QED BY <2>2, <2>3, <2>4, <2>5 DEF SyncInv, CoverOK, Covered
<1> QED BY <1>3, <1>4, <1>5, <1>6 DEF SyncInv

LEMMA WalkFailsStep ==
    ASSUME SyncInv, WalkFails
    PROVE  SyncInv'
<1>1. /\ UNCHANGED <<hubVars, store, snap, cursorHist, lastSeq, queueVars, consVars>>
      /\ boot' = "idle" /\ Blame("failed", Keys)
    BY DEF WalkFails, transportVars
<1> USE DEF hubVars, cursorHist, queueVars, consVars
<1>2. drift' \in [Reasons -> SUBSET Keys] /\ \A k \in Keys : Blamed(k)'
    BY <1>1, DriftGrows DEF SyncInv, Reasons
<1>3. DaemonTypeOK' /\ ClientTypeOK'
    BY <1>1, <1>2 DEF SyncInv, DaemonTypeOK, ClientTypeOK
<1>4. RingOK' /\ WireOK' /\ CursorOK'
    BY <1>1, WireStays DEF SyncInv
<1>5. AgesOK'
    BY <1>1 DEF SyncInv, AgesOK, IsEvent
<1>6. CoverOK'
    BY <1>2 DEF CoverOK, Covered
<1> QED BY <1>3, <1>4, <1>5, <1>6 DEF SyncInv

-----------------------------------------------------------------------------
(* The consumer.                                                            *)
LEMMA ConsumerStep ==
    ASSUME SyncInv, ConsumerMoves
    PROVE  SyncInv'
<1>1. UNCHANGED <<hubVars, store, boot, snap, cursorHist, drift, lastSeq>>
    BY DEF ConsumerMoves, NextIteration, GetterTake, bootVars
<1> USE DEF hubVars, cursorHist
<1>2. RingOK' /\ WireOK' /\ CursorOK'
    BY <1>1, WireStays DEF SyncInv
<1>3. CASE UNCHANGED <<queue, held>> /\ consumer # "got" /\ consumer' # "got"
    <2>1. DaemonTypeOK' /\ ClientTypeOK'
        BY <1>1, <1>3 DEF SyncInv, DaemonTypeOK, ClientTypeOK
    <2>2. AgesOK'
        BY <1>1, <1>3 DEF SyncInv, AgesOK, IsEvent
    <2>3. CoverOK'
        BY <1>1, <1>3 DEF SyncInv, CoverOK, Covered, Blamed, InWalk, InHand, Queued, InFlight,
                          LostInFlight, Owed, InRing, IsEvent, IsLost
    <2> QED BY <1>2, <2>1, <2>2, <2>3 DEF SyncInv
<1>4. CASE /\ consumer = "get" /\ queue # <<>> /\ held' = <<Head(queue)>>
           /\ queue' = Tail(queue) /\ consumer' = "got"
    <2>1. /\ queue' \in Seq(Envelopes) /\ Len(queue) \in Nat \ {0} /\ Len(queue') = Len(queue) - 1
          /\ held' = <<queue[1]>> /\ queue[1] \in Envelopes
          /\ \A i \in 1 .. Len(queue') : queue'[i] = queue[i + 1]
        BY <1>4, Shortened DEF SyncInv, ClientTypeOK
    <2>2. /\ held = <<>> /\ held' # <<>> /\ held'[1] = queue[1]
          /\ 1 \in 1 .. Len(queue) /\ \A i \in 1 .. Len(queue') : i + 1 \in 1 .. Len(queue)
          /\ \A i \in 1 .. Len(queue) : i # 1 => i - 1 \in 1 .. Len(queue') /\ queue'[i - 1] = queue[i]
        BY <1>4, <2>1 DEF SyncInv, ClientTypeOK
    <2>3. DaemonTypeOK' /\ ClientTypeOK'
        BY <1>1, <1>4, <2>1, <2>2 DEF SyncInv, DaemonTypeOK, ClientTypeOK
    <2>4. AgesOK'
        BY <1>1, <2>1, <2>2 DEF SyncInv, AgesOK, IsEvent
    <2>5. \A k \in Keys : Queued(k) => Queued(k)' \/ InHand(k)'
        BY <1>1, <2>1, <2>2 DEF Queued, InHand
    <2>6. CoverOK'
        <3> SUFFICES ASSUME NEW k \in Keys PROVE Covered(k)'
            BY DEF CoverOK
        <3>1. ~InHand(k)
            BY <2>2 DEF InHand
        <3>2. CASE Queued(k)
            BY <2>5, <3>2 DEF Covered
        <3>3. CASE ~Queued(k)
            BY <1>1, <3>1, <3>3 DEF SyncInv, CoverOK, Covered, Blamed, InWalk, InFlight,
                                    LostInFlight, Owed, InRing, IsEvent, IsLost
        <3> QED BY <3>2, <3>3
    <2> QED BY <1>2, <2>3, <2>4, <2>6 DEF SyncInv
<1> QED BY <1>3, <1>4 DEF ConsumerMoves, NextIteration, GetterTake, queueVars

(* A push that is not the present value goes unblamed only onto a store     *)
(* that has not got it either.                                              *)
LEMMA DispatchesStep ==
    ASSUME SyncInv, Dispatches
    PROVE  SyncInv'
<1>1. /\ UNCHANGED <<hubVars, boot, snap, cursorHist, lastSeq, queue>>
      /\ consumer = "got" /\ consumer' = "body" /\ held' = <<>>
    BY DEF Dispatches, Yield, bootVars, connVars
<1> USE DEF hubVars, cursorHist
<1>2. PICK e \in Envelopes : held = <<e>>
    BY <1>1 DEF SyncInv, ClientTypeOK
<1> DEFINE key == e.payload.key
           ver == e.payload.ver
           ks == IF ver < store[key] THEN {key} ELSE {}
<1>3. /\ store' = [store EXCEPT ![key] = ver] /\ Blame("backlog", ks)
      /\ held # <<>> /\ held[1] = e
    BY <1>2 DEF Dispatches
<1>4. key \in Keys /\ ver \in Nat /\ ver <= live[key]
    BY <1>3 DEF Envelopes, SyncInv, AgesOK
<1>5. /\ drift' \in [Reasons -> SUBSET Keys]
      /\ \A k \in Keys : Blamed(k) => Blamed(k)'
      /\ \A k \in ks : Blamed(k)'
    BY <1>3, <1>4, DriftGrows DEF SyncInv, Reasons
<1> HIDE DEF key, ver
<1>6. DaemonTypeOK' /\ ClientTypeOK'
    BY <1>1, <1>3, <1>4, <1>5 DEF SyncInv, DaemonTypeOK, ClientTypeOK
<1>7. RingOK' /\ WireOK' /\ CursorOK'
    BY <1>1, WireStays DEF SyncInv
<1>8. \A k \in Keys : store'[k] = IF k = key THEN ver ELSE store[k]
    BY <1>3, <1>4 DEF SyncInv, ClientTypeOK
<1>9. AgesOK'
    BY <1>1, <1>4, <1>8 DEF SyncInv, AgesOK, IsEvent
<1>10. CoverOK'
    <2> SUFFICES ASSUME NEW k \in Keys PROVE Covered(k)'
        BY DEF CoverOK
    <2>1. CASE store[k] = live[k]
        <3>1. CASE k # key
            BY <1>1, <1>8, <2>1, <3>1 DEF Covered
        <3>2. CASE k = key
            <4>1. ver = live[k] \/ k \in ks
                BY <1>4, <2>1, <3>2 DEF SyncInv, DaemonTypeOK
            <4> QED BY <1>1, <1>5, <1>8, <3>2, <4>1 DEF Covered
        <3> QED BY <3>1, <3>2
    <2>2. CASE InHand(k)
        BY <1>1, <1>3, <1>8, <2>2 DEF InHand, Covered, key, ver
    <2>3. CASE InWalk(k) \/ Queued(k) \/ InFlight(k) \/ LostInFlight \/ Owed(k)
        BY <1>1, <2>3 DEF Covered, InWalk, Queued, InFlight, LostInFlight, Owed, InRing, IsEvent, IsLost
    <2>4. CASE Blamed(k)
        BY <1>5, <2>4 DEF Covered
    <2> QED BY <2>1, <2>2, <2>3, <2>4 DEF SyncInv, CoverOK, Covered
<1> QED BY <1>6, <1>7, <1>9, <1>10 DEF SyncInv

-----------------------------------------------------------------------------
(* The daemon.                                                              *)
LEMMA OldestFact == DaemonTypeOK /\ RingOK => Hub!Oldest \in Nat /\ Hub!Oldest <= top
<1> SUFFICES ASSUME DaemonTypeOK, RingOK PROVE Hub!Oldest \in Nat /\ Hub!Oldest <= top
    OBVIOUS
<1>1. CASE ring = <<>>
    BY <1>1 DEF DaemonTypeOK, Hub!Oldest
<1>2. CASE ring # <<>>
    <2>1. Len(ring) \in Nat \ {0} /\ ring[1] \in EventRecs
        BY <1>2, Shortened DEF DaemonTypeOK
    <2>2. ring[1].seq = top - Len(ring) + 1 /\ ring[1].seq \in Nat
        BY <2>1 DEF RingOK, EventRecs
    <2> QED BY <1>2, <2>1, <2>2 DEF DaemonTypeOK, Hub!Oldest
<1> QED BY <1>1, <1>2

(* A value that changes is newer than all its copies.                       *)
LEMMA ChangeFact ==
    ASSUME SyncInv, NEW k \in Keys, changes' = changes + 1, live' = [live EXCEPT ![k] = changes']
    PROVE  /\ live' \in [Keys -> Nat] /\ changes' \in Nat
           /\ live'[k] = changes' /\ \A q \in Keys \ {k} : live'[q] = live[q]
           /\ \A q \in Keys : live[q] <= live'[q] /\ live'[q] <= changes'
BY DEF SyncInv, DaemonTypeOK, AgesOK

(* New copies are as old as the daemon says; the others only get older.     *)
LEMMA AgesGrow ==
    ASSUME SyncInv, NEW k \in Keys, changes' = changes + 1, live' = [live EXCEPT ![k] = changes'],
           UNCHANGED <<store, snap, queue, held>>,
           \A i \in 1 .. Len(ring') : \/ \E j \in 1 .. Len(ring) : ring'[i] = ring[j]
                                     \/ ring'[i].ver <= live'[ring'[i].key],
           \A i \in 1 .. Len(wire') :
               IsEvent(i)' => \/ \E j \in 1 .. Len(wire) : IsEvent(j) /\ wire'[i] = wire[j]
                              \/ wire'[i].event.ver <= live'[wire'[i].event.key]
    PROVE  AgesOK'
<1>1. /\ \A q \in Keys : live[q] \in Nat /\ live'[q] \in Nat /\ live[q] <= live'[q] /\ live'[q] <= changes'
      /\ \A q \in Keys : store[q] \in Nat /\ snap[q] \in Nat
    BY ChangeFact DEF SyncInv, DaemonTypeOK, ClientTypeOK
<1>2. \A q \in Keys, v \in Nat : v <= live[q] => v <= live'[q]
    BY <1>1
<1>3. /\ \A i \in 1 .. Len(ring) : ring[i].key \in Keys /\ ring[i].ver \in Nat
      /\ \A i \in 1 .. Len(queue) : queue[i].payload.key \in Keys /\ queue[i].payload.ver \in Nat
      /\ held # <<>> => held[1].payload.key \in Keys /\ held[1].payload.ver \in Nat
    <2>1. /\ \A i \in 1 .. Len(ring) : ring[i] \in EventRecs
          /\ \A i \in 1 .. Len(queue) : queue[i] \in Envelopes
          /\ held # <<>> => held[1] \in Envelopes
        BY DEF SyncInv, DaemonTypeOK, ClientTypeOK
    <2> QED BY <2>1 DEF EventRecs, Envelopes
<1>4. \A i \in 1 .. Len(wire) : IsEvent(i) => wire[i].event.key \in Keys /\ wire[i].event.ver \in Nat
    <2>1. \A i \in 1 .. Len(wire) : wire[i] \in Frames
        BY DEF SyncInv, DaemonTypeOK
    <2> QED BY <2>1 DEF Frames, EventFrames, LostFrames, IsEvent, EventRecs
<1>5. \A q \in Keys : store'[q] <= live'[q] /\ snap'[q] <= live'[q] /\ live'[q] <= changes'
    BY <1>1, <1>2 DEF SyncInv, AgesOK
<1>6. \A i \in 1 .. Len(ring') : ring'[i].ver <= live'[ring'[i].key]
    BY <1>2, <1>3 DEF SyncInv, AgesOK
<1>7. \A i \in 1 .. Len(wire') : IsEvent(i)' => wire'[i].event.ver <= live'[wire'[i].event.key]
    BY <1>2, <1>4 DEF SyncInv, AgesOK
<1>8. /\ \A i \in 1 .. Len(queue') : queue'[i].payload.ver <= live'[queue'[i].payload.key]
      /\ held' # <<>> => held'[1].payload.ver <= live'[held'[1].payload.key]
    BY <1>2, <1>3 DEF SyncInv, AgesOK
<1> QED BY <1>5, <1>6, <1>7, <1>8 DEF AgesOK

LEMMA DaemonReloadsStep ==
    ASSUME SyncInv, DaemonReloads
    PROVE  SyncInv'
<1>1. PICK k \in Keys : Hub!Reload(k)
    BY DEF DaemonReloads
<1> DEFINE f == Hub!LostFrame(Hub!Oldest)
<1>2. /\ UNCHANGED <<store, boot, snap, cursorHist, drift, lastSeq, queue, consVars>>
      /\ changes' = changes + 1 /\ live' = [live EXCEPT ![k] = changes']
      /\ session = "live" /\ wire' = Append(wire, f)
      /\ UNCHANGED <<epoch, top, ring, session, since>>
    BY <1>1 DEF DaemonReloads, Hub!Reload, transportVars, queueVars, bootVars
<1> USE DEF cursorHist, consVars
<1>3. f \in Frames /\ f.op = "replay_lost" /\ f.oldest <= top
    BY OldestFact DEF SyncInv, Frames, LostFrames, Hub!LostFrame
<1> HIDE DEF f
<1>4. PICK m \in Nat :
        /\ m = Len(wire) /\ wire' \in Seq(Frames) /\ Len(wire') = m + 1 /\ wire'[m + 1] = f
        /\ \A i \in 1 .. m : wire'[i] = wire[i]
    BY <1>2, <1>3, Appended DEF SyncInv, DaemonTypeOK
<1>5. DaemonTypeOK' /\ ClientTypeOK'
    BY <1>2, <1>4, ChangeFact DEF SyncInv, DaemonTypeOK, ClientTypeOK
<1>6. RingOK'
    BY <1>2 DEF SyncInv, RingOK
<1>7. IsLost(m + 1)' /\ ~IsEvent(m + 1)'
    BY <1>3, <1>4 DEF IsLost, IsEvent
<1>8. \A i \in 1 .. m + 1 : i # m + 1 => i \in 1 .. m
    BY <1>4
<1>9. WireOK'
    <2>1. ASSUME NEW i \in 1 .. m + 1
          PROVE  /\ IsLost(i)' => wire'[i].oldest <= top
                 /\ IsEvent(i)' => SeqAt(i)' <= top
                 /\ IsEvent(i)' => \A n \in SeqAt(i)' + 1 .. top :
                                     \E j \in i + 1 .. m + 1 : IsEvent(j)' /\ SeqAt(j)' = n
        <3>1. CASE i = m + 1
            BY <1>3, <1>4, <1>7, <3>1
        <3>2. CASE i \in 1 .. m
            BY <1>4, <3>2 DEF SyncInv, WireOK, IsEvent, IsLost, SeqAt
        <3> QED BY <1>8, <3>1, <3>2
    <2>2. ASSUME NEW j \in 1 .. m + 1, NEW i \in 1 .. j - 1, IsEvent(j)'
          PROVE  (IF IsEvent(i) THEN SeqAt(i) ELSE wire[i].oldest)' < SeqAt(j)'
        <3>1. j \in 1 .. m /\ i \in 1 .. m
            BY <1>7, <1>8, <2>2
        <3> QED BY <1>4, <2>2, <3>1 DEF SyncInv, WireOK, IsEvent, SeqAt
    <2>3. \A i \in 1 .. m + 1, j \in 1 .. Len(ring) :
            IsEvent(i)' /\ SeqAt(i)' = ring[j].seq => wire'[i].event = ring[j]
        BY <1>4, <1>7, <1>8 DEF SyncInv, WireOK, IsEvent, SeqAt
    <2> QED BY <1>2, <1>4, <2>1, <2>2, <2>3 DEF WireOK
<1>10. CursorOK'
    <2>1. Behind => Behind'
        BY <1>2, <1>4, <1>7, <1>8 DEF Behind, IsEvent, SeqAt
    <2>2. RightBehind => RightBehind'
        BY <1>2, <1>4 DEF RightBehind, IsEvent, SeqAt
    <2>3. wire # <<>> /\ IsLost(1) => wire' # <<>> /\ IsLost(1)'
        <3>1. wire # <<>> => m \in Nat \ {0}
            BY <1>4, Shortened DEF SyncInv, DaemonTypeOK
        <3>2. wire' # <<>>
            BY <1>4
        <3> QED BY <1>4, <3>1, <3>2 DEF IsLost
    <2> QED BY <1>2, <2>1, <2>2, <2>3 DEF SyncInv, CursorOK
<1>11. AgesOK'
    <2>1. \A i \in 1 .. m + 1 : IsEvent(i)' => i \in 1 .. m /\ IsEvent(i) /\ wire'[i] = wire[i]
        BY <1>4, <1>7, <1>8 DEF IsEvent
    <2> QED BY <1>2, <1>4, <2>1, AgesGrow
<1>12. CoverOK'
    <2>1. m + 1 \in 1 .. Len(wire')
        BY <1>4
    <2> QED BY <1>7, <2>1 DEF CoverOK, Covered, LostInFlight
<1> QED BY <1>5, <1>6, <1>9, <1>10, <1>11, <1>12 DEF SyncInv

(* The ring takes the new broadcast and, when full, drops its oldest.       *)
LEMMA PushFact ==
    ASSUME NEW r \in Seq(EventRecs), NEW e \in EventRecs
    PROVE  /\ Hub!Push(r, e) \in Seq(EventRecs) /\ Len(r) \in Nat
           /\ \/ /\ Len(Hub!Push(r, e)) = Len(r) + 1 /\ Hub!Push(r, e)[Len(r) + 1] = e
                 /\ \A i \in 1 .. Len(r) : Hub!Push(r, e)[i] = r[i]
              \/ /\ Len(Hub!Push(r, e)) = Len(r) /\ Len(r) # 0 /\ Hub!Push(r, e)[Len(r)] = e
                 /\ \A i \in 1 .. Len(r) - 1 : Hub!Push(r, e)[i] = r[i + 1]
<1>1. CASE Len(r) < RingSize
    BY <1>1, Appended DEF Hub!Push
<1>2. CASE ~(Len(r) < RingSize)
    <2>1. Len(r) \in Nat \ {0} /\ r # <<>>
        BY <1>2, SyncAssumption, EmptySeq, LenProperties
    <2>2. PICK t \in Seq(EventRecs) :
            t = Tail(r) /\ Len(t) = Len(r) - 1 /\ \A i \in 1 .. Len(t) : t[i] = r[i + 1]
        BY <2>1, Shortened
    <2>3. /\ Append(t, e) \in Seq(EventRecs) /\ Len(Append(t, e)) = Len(t) + 1
          /\ \A i \in 1 .. Len(t) : Append(t, e)[i] = t[i]
          /\ Append(t, e)[Len(t) + 1] = e
        BY <2>2, Appended
    <2>4. Hub!Push(r, e) = Append(t, e)
        BY <1>2, <2>2 DEF Hub!Push
    <2>5. Len(t) = Len(r) - 1 /\ Len(t) + 1 = Len(r) /\ Len(r) # 0
        BY <2>1, <2>2
    <2>6. Len(Hub!Push(r, e)) = Len(r) /\ Hub!Push(r, e)[Len(r)] = e
        BY <2>3, <2>4, <2>5
    <2>7. \A i \in 1 .. Len(r) - 1 : Hub!Push(r, e)[i] = r[i + 1]
        BY <2>2, <2>3, <2>4, <2>5
    <2> QED BY <2>1, <2>3, <2>4, <2>6, <2>7
<1> QED BY <1>1, <1>2

LEMMA DaemonBroadcastsStep ==
    ASSUME SyncInv, DaemonBroadcasts
    PROVE  SyncInv'
<1>1. PICK k \in Keys :
        /\ Hub!Broadcast(k)
        /\ IF session # "live" /\ lastSeq = NoSeq
             THEN \E r \in Reasons : Blame(r, {k})
             ELSE UNCHANGED drift
    BY DEF DaemonBroadcasts, Reasons
<1> DEFINE e == [seq |-> top', key |-> k, ver |-> changes']
           f == Hub!EventFrame(e)
<1>2. /\ UNCHANGED <<store, boot, snap, cursorHist, lastSeq, queue, consVars>>
      /\ changes' = changes + 1 /\ live' = [live EXCEPT ![k] = changes'] /\ top' = top + 1
      /\ ring' = Hub!Push(ring, e)
      /\ wire' = IF session = "live" THEN Append(wire, f) ELSE wire
      /\ UNCHANGED <<epoch, session, since>>
    BY <1>1 DEF DaemonBroadcasts, Hub!Broadcast, transportVars, queueVars, bootVars
<1> USE DEF cursorHist, consVars
<1>3. /\ e \in EventRecs /\ e.seq = top + 1 /\ e.key = k /\ e.ver = live'[k]
      /\ f \in Frames /\ f.op = "event" /\ f.event = e
    BY <1>2, ChangeFact DEF SyncInv, DaemonTypeOK, EventRecs, Frames, EventFrames, Hub!EventFrame
<1> HIDE DEF e, f
<1>4. /\ ring' \in Seq(EventRecs) /\ Len(ring) \in Nat
      /\ \/ /\ Len(ring') = Len(ring) + 1 /\ ring'[Len(ring) + 1] = e
            /\ \A i \in 1 .. Len(ring) : ring'[i] = ring[i]
         \/ /\ Len(ring') = Len(ring) /\ Len(ring) # 0 /\ ring'[Len(ring)] = e
            /\ \A i \in 1 .. Len(ring) - 1 : ring'[i] = ring[i + 1]
    BY <1>2, <1>3, PushFact DEF SyncInv, DaemonTypeOK
<1>5. PICK m \in Nat :
        /\ m = Len(wire) /\ wire' \in Seq(Frames)
        /\ session = "live" => Len(wire') = m + 1 /\ wire'[m + 1] = f
        /\ session # "live" => Len(wire') = 0 /\ m = 0
        /\ \A i \in 1 .. m : wire'[i] = wire[i]
    <2>1. session # "live" => wire = <<>> /\ Len(wire) = 0
        BY EmptySeq DEF SyncInv, WireOK
    <2> QED BY <1>2, <1>3, <2>1, Appended DEF SyncInv, DaemonTypeOK
<1>6. session = "live" => IsEvent(m + 1)' /\ SeqAt(m + 1)' = top + 1 /\ wire'[m + 1].event = e
    BY <1>3, <1>5 DEF IsEvent, SeqAt
<1>7. /\ top \in Nat
      /\ \A i \in 1 .. Len(wire') : (i = m + 1 /\ session = "live") \/ i \in 1 .. m
    BY <1>5 DEF SyncInv, DaemonTypeOK
<1>8. \A i \in 1 .. Len(ring') :
        \/ ring'[i] = e
        \/ \E j \in 1 .. Len(ring) : ring'[i] = ring[j]
    <2>1. CASE Len(ring') = Len(ring) + 1
        BY <1>4, <2>1
    <2>2. CASE Len(ring') = Len(ring)
        <3>1. ASSUME NEW i \in 1 .. Len(ring), i # Len(ring) PROVE i + 1 \in 1 .. Len(ring) /\ ring'[i] = ring[i + 1]
            BY <1>4, <2>2, <3>1
        <3> QED BY <1>4, <2>2, <3>1
    <2> QED BY <1>4, <2>1, <2>2
<1>9. RingOK'
    <2>1. \A i \in 1 .. Len(ring) : ring[i].seq = top - Len(ring) + i
        BY DEF SyncInv, RingOK
    <2> SUFFICES ASSUME NEW i \in 1 .. Len(ring') PROVE ring'[i].seq = top' - Len(ring') + i
        BY DEF RingOK
    <2>5. top' = top + 1
        BY <1>2
    <2>2. CASE Len(ring') = Len(ring) + 1 /\ i # Len(ring) + 1
        <3>1. i \in 1 .. Len(ring) /\ ring'[i] = ring[i]
            BY <1>4, <2>2
        <3> QED BY <1>4, <1>7, <2>1, <2>2, <2>5, <3>1
    <2>3. CASE Len(ring') = Len(ring) /\ i # Len(ring)
        <3>1. i + 1 \in 1 .. Len(ring) /\ ring'[i] = ring[i + 1]
            BY <1>4, <2>3
        <3> QED BY <1>4, <1>7, <2>1, <2>3, <2>5, <3>1
    <2>4. CASE i = Len(ring')
        <3>1. ring'[i] = e
            BY <1>4, <2>4
        <3> QED BY <1>3, <1>4, <1>7, <2>4, <2>5, <3>1
    <2> QED BY <1>4, <2>2, <2>3, <2>4
<1>10. drift' \in [Reasons -> SUBSET Keys] /\ \A q \in Keys : Blamed(q) => Blamed(q)'
    BY <1>1, DriftGrows DEF SyncInv, ClientTypeOK, Blamed
<1>11. DaemonTypeOK' /\ ClientTypeOK'
    BY <1>2, <1>4, <1>5, <1>7, <1>10, ChangeFact DEF SyncInv, DaemonTypeOK, ClientTypeOK
<1>12. \A i \in 1 .. m : /\ IsEvent(i)' <=> IsEvent(i)
                         /\ IsLost(i)' <=> IsLost(i)
                         /\ SeqAt(i)' = SeqAt(i)
                         /\ wire'[i] = wire[i]
    BY <1>5 DEF IsEvent, IsLost, SeqAt
<1>13. \A i \in 1 .. m : wire[i] \in Frames
                         /\ (IsEvent(i) => wire[i].event \in EventRecs /\ SeqAt(i) \in Nat)
                         /\ (IsLost(i) => wire[i].oldest \in Nat)
                         /\ (IsEvent(i) \/ IsLost(i))
                         /\ ~(IsEvent(i) /\ IsLost(i))
    <2>1. \A i \in 1 .. m : wire[i] \in Frames
        BY <1>5 DEF SyncInv, DaemonTypeOK
    <2> QED BY <2>1 DEF Frames, EventFrames, LostFrames, IsEvent, IsLost, SeqAt, EventRecs
<1>14. WireOK'
    <2>1. ASSUME NEW i \in 1 .. Len(wire')
          PROVE  /\ IsLost(i)' => wire'[i].oldest <= top'
                 /\ IsEvent(i)' => SeqAt(i)' <= top'
        <3>1. CASE i = m + 1 /\ session = "live"
            BY <1>2, <1>3, <1>5, <1>6, <1>7, <3>1 DEF IsLost
        <3>2. CASE i \in 1 .. m
            BY <1>2, <1>5, <1>7, <1>12, <1>13, <3>2 DEF SyncInv, WireOK
        <3> QED BY <1>7, <3>1, <3>2
    <2>2. ASSUME NEW i \in 1 .. Len(wire'), IsEvent(i)', NEW n \in SeqAt(i)' + 1 .. top'
          PROVE  \E j \in i + 1 .. Len(wire') : IsEvent(j)' /\ SeqAt(j)' = n
        <3>1. session = "live" /\ Len(wire') = m + 1
            BY <1>5
        <3>2. i \in 1 .. m
            BY <1>2, <1>6, <1>7, <2>2, <3>1
        <3>3. CASE n = top + 1
            <4>1. m + 1 \in i + 1 .. Len(wire')
                BY <3>1, <3>2
            <4> QED BY <1>6, <3>1, <3>3, <4>1
        <3>4. CASE n # top + 1
            <4>1. SeqAt(i) \in Nat /\ n \in SeqAt(i) + 1 .. top
                BY <1>2, <1>7, <1>12, <1>13, <2>2, <3>2, <3>4
            <4>2. PICK j \in i + 1 .. m : IsEvent(j) /\ SeqAt(j) = n
                BY <1>5, <1>12, <2>2, <3>2, <4>1 DEF SyncInv, WireOK
            <4>3. j \in 1 .. m /\ j \in i + 1 .. Len(wire')
                BY <3>1, <3>2, <4>2
            <4> QED BY <1>12, <4>2, <4>3
        <3> QED BY <3>3, <3>4
    <2>3. ASSUME NEW j \in 1 .. Len(wire'), NEW i \in 1 .. j - 1, IsEvent(j)'
          PROVE  (IF IsEvent(i) THEN SeqAt(i) ELSE wire[i].oldest)' < SeqAt(j)'
        <3>1. CASE j = m + 1 /\ session = "live"
            <4>1. i \in 1 .. m
                BY <3>1
            <4>2. (IF IsEvent(i) THEN SeqAt(i) ELSE wire[i].oldest) <= top
                BY <1>5, <1>13, <4>1 DEF SyncInv, WireOK
            <4> QED BY <1>6, <1>7, <1>12, <1>13, <3>1, <4>1, <4>2
        <3>2. CASE j \in 1 .. m
            <4>1. i \in 1 .. m
                BY <3>2
            <4> QED BY <1>5, <1>12, <2>3, <3>2, <4>1 DEF SyncInv, WireOK
        <3> QED BY <1>7, <3>1, <3>2
    <2>4. ASSUME NEW i \in 1 .. Len(wire'), NEW j \in 1 .. Len(ring'), IsEvent(i)', SeqAt(i)' = ring'[j].seq
          PROVE  wire'[i].event = ring'[j]
        <3>1. \A r \in 1 .. Len(ring) : ring[r].seq <= top
            BY <1>4, <1>7 DEF SyncInv, RingOK
        <3>2. CASE i = m + 1 /\ session = "live"
            BY <1>6, <1>7, <1>8, <2>4, <3>1, <3>2
        <3>3. CASE i \in 1 .. m
            <4>1. ring'[j] # e
                BY <1>3, <1>5, <1>7, <1>12, <1>13, <2>4, <3>3 DEF SyncInv, WireOK
            <4>2. PICK r \in 1 .. Len(ring) : ring'[j] = ring[r]
                BY <1>8, <4>1
            <4> QED BY <1>5, <1>12, <2>4, <3>3, <4>2 DEF SyncInv, WireOK
        <3> QED BY <1>7, <3>2, <3>3
    <2>5. /\ session' # "live" => wire' = <<>>
          /\ session' = "upgraded" => since' = lastSeq'
        BY <1>2 DEF SyncInv, WireOK
    <2> QED BY <2>1, <2>2, <2>3, <2>4, <2>5 DEF WireOK
<1>15. lastSeq # NoSeq /\ Behind => Behind'
    <2> SUFFICES ASSUME lastSeq # NoSeq, Behind PROVE Behind'
        OBVIOUS
    <2>1. lastSeq \in Nat
        BY DEF SyncInv, ClientTypeOK
    <2>2. ASSUME NEW i \in 1 .. Len(wire'), IsEvent(i)' PROVE SeqAt(i)' > lastSeq
        <3>1. CASE i = m + 1 /\ session = "live"
            BY <1>6, <1>7, <2>1, <3>1 DEF Behind
        <3>2. CASE i \in 1 .. m
            BY <1>5, <1>12, <2>2, <3>2 DEF Behind
        <3> QED BY <1>7, <3>1, <3>2
    <2> QED BY <1>2, <1>7, <2>1, <2>2 DEF Behind
<1>16. lastSeq # NoSeq /\ session = "live" /\ RightBehind => RightBehind'
    <2> SUFFICES ASSUME lastSeq # NoSeq, session = "live", RightBehind, NEW n \in lastSeq + 1 .. top + 1
                 PROVE  \E i \in 1 .. m + 1 : IsEvent(i)' /\ SeqAt(i)' = n
        BY <1>2, <1>5 DEF RightBehind
    <2>1. CASE n = top + 1
        <3>1. m + 1 \in 1 .. m + 1
            OBVIOUS
        <3> QED BY <1>6, <2>1, <3>1
    <2>2. CASE n # top + 1
        <3>1. n \in lastSeq + 1 .. top
            BY <1>7, <2>2 DEF SyncInv, ClientTypeOK
        <3>2. PICK i \in 1 .. m : IsEvent(i) /\ SeqAt(i) = n
            BY <1>5, <3>1 DEF RightBehind
        <3> QED BY <1>12, <3>2
    <2> QED BY <2>1, <2>2
<1>17. session = "live" /\ wire # <<>> /\ IsLost(1) => wire' # <<>> /\ IsLost(1)'
    <2>1. wire # <<>> => 1 \in 1 .. m
        BY <1>5, Shortened DEF SyncInv, DaemonTypeOK
    <2>2. session = "live" => wire' # <<>>
        BY <1>5, EmptySeq
    <2> QED BY <1>12, <2>1, <2>2
<1>18. CursorOK'
    BY <1>2, <1>15, <1>16, <1>17 DEF SyncInv, CursorOK
<1>19. AgesOK'
    <2>0. e.ver <= live'[e.key]
        <3>1. live'[k] \in Nat
            BY <1>2, ChangeFact
        <3> QED BY <1>3, <3>1
    <2>1. \A i \in 1 .. Len(ring') : \/ \E j \in 1 .. Len(ring) : ring'[i] = ring[j]
                                     \/ ring'[i].ver <= live'[ring'[i].key]
        BY <1>8, <2>0
    <2>2. \A i \in 1 .. Len(wire') :
               IsEvent(i)' => \/ \E j \in 1 .. Len(wire) : IsEvent(j) /\ wire'[i] = wire[j]
                              \/ wire'[i].event.ver <= live'[wire'[i].event.key]
        BY <1>5, <1>6, <1>7, <1>12, <2>0
    <2> QED BY <1>2, <2>1, <2>2, AgesGrow
<1>20. CoverOK'
    <2> SUFFICES ASSUME NEW q \in Keys PROVE Covered(q)'
        BY DEF CoverOK
    <2>1. CASE q = k
        <3>1. CASE session = "live"
            <4>1. m + 1 \in 1 .. Len(wire')
                BY <1>5, <3>1
            <4> QED BY <1>3, <1>6, <2>1, <3>1, <4>1 DEF Covered, InFlight
        <3>2. CASE session # "live" /\ lastSeq = NoSeq
            BY <1>1, <2>1, <3>2, DriftGrows DEF SyncInv, Covered
        <3>3. CASE session # "live" /\ lastSeq # NoSeq
            <4>1. cursorEpoch = epoch => lastSeq < top + 1
                BY <1>7, <3>3 DEF SyncInv, CursorOK, Behind, ClientTypeOK
            <4>2. \E i \in 1 .. Len(ring') : ring'[i] = e
                BY <1>4
            <4>3. cursorEpoch = epoch => InRing(k)'
                BY <1>2, <1>3, <1>7, <4>1, <4>2 DEF InRing, SyncInv, ClientTypeOK
            <4> QED BY <1>2, <2>1, <3>3, <4>3 DEF Covered, Owed
        <3> QED BY <3>1, <3>2, <3>3
    <2>2. CASE q # k
        <3>1. live'[q] = live[q]
            BY <1>2, <2>2, ChangeFact
        <3>2. CASE store[q] = live[q] \/ InWalk(q) \/ InHand(q) \/ Queued(q)
            BY <1>2, <3>1, <3>2 DEF Covered, InWalk, InHand, Queued
        <3>3. CASE Blamed(q)
            BY <1>10, <3>3 DEF Covered
        <3>4. CASE InFlight(q) \/ LostInFlight
            <4>1. PICK i \in 1 .. m : \/ IsLost(i)
                                      \/ IsEvent(i) /\ wire[i].event.key = q /\ wire[i].event.ver = live[q]
                BY <1>5, <3>4 DEF InFlight, LostInFlight
            <4>2. i \in 1 .. Len(wire')
                BY <1>5, <4>1
            <4> QED BY <1>12, <3>1, <4>1, <4>2 DEF Covered, InFlight, LostInFlight
        <3>5. CASE Owed(q)
            <4>1. lastSeq \in Nat
                BY <3>5 DEF SyncInv, ClientTypeOK, Owed
            <4>2. CASE top - lastSeq > Len(ring)
                <5>1. top' - lastSeq > Len(ring')
                    BY <1>2, <1>4, <1>7, <4>1, <4>2
                <5> QED BY <1>2, <3>5, <5>1 DEF Covered, Owed
            <4>3. CASE InRing(q)
                <5>1. PICK i \in 1 .. Len(ring) : ring[i].key = q /\ ring[i].ver = live[q] /\ ring[i].seq > lastSeq
                    BY <4>3 DEF InRing
                <5>2. (\E j \in 1 .. Len(ring') : ring'[j] = ring[i]) \/ (i = 1 /\ Len(ring') = Len(ring))
                    <6>1. CASE Len(ring') = Len(ring) + 1
                        BY <1>4, <6>1
                    <6>2. CASE Len(ring') = Len(ring) /\ i # 1
                        <7>1. i - 1 \in 1 .. Len(ring) - 1 /\ (i - 1) + 1 = i
                            BY <1>4, <6>2
                        <7>2. ring'[i - 1] = ring[(i - 1) + 1]
                            BY <1>4, <6>2, <7>1
                        <7>3. i - 1 \in 1 .. Len(ring')
                            BY <1>4, <6>2, <7>1
                        <7> QED BY <7>1, <7>2, <7>3
                    <6> QED BY <1>4, <6>1, <6>2
                <5>3. CASE \E j \in 1 .. Len(ring') : ring'[j] = ring[i]
                    BY <1>2, <3>1, <3>5, <5>1, <5>3 DEF Covered, Owed, InRing
                <5>4. CASE i = 1 /\ Len(ring') = Len(ring)
                    <6>1. top - Len(ring) + 1 > lastSeq
                        BY <5>1, <5>4 DEF SyncInv, RingOK
                    <6>2. top' - lastSeq > Len(ring')
                        BY <1>2, <1>4, <1>7, <4>1, <5>4, <6>1
                    <6> QED BY <1>2, <3>5, <6>2 DEF Covered, Owed
                <5> QED BY <5>2, <5>3, <5>4
            <4>4. CASE cursorEpoch # epoch
                BY <1>2, <3>5, <4>4 DEF Covered, Owed
            <4> QED BY <3>5, <4>2, <4>3, <4>4 DEF Owed
        <3> QED BY <3>2, <3>3, <3>4, <3>5 DEF SyncInv, CoverOK, Covered
    <2> QED BY <2>1, <2>2
<1> QED BY <1>9, <1>11, <1>14, <1>18, <1>19, <1>20 DEF SyncInv

-----------------------------------------------------------------------------
(* The connection.                                                          *)
LEMMA ConnectsStep ==
    ASSUME SyncInv, Connects
    PROVE  SyncInv'
<1>1. /\ UNCHANGED <<store, boot, snap, cursorHist, drift, lastSeq, queue, consVars>>
      /\ session = "none" /\ session' = "upgraded" /\ since' = lastSeq
      /\ UNCHANGED <<live, changes, epoch, top, ring, wire>>
    BY DEF Connects, Connected, Hub!Upgrade, queueVars, bootVars
<1> USE DEF cursorHist, consVars
<1>2. DaemonTypeOK' /\ ClientTypeOK'
    BY <1>1 DEF SyncInv, DaemonTypeOK, ClientTypeOK
<1>3. RingOK' /\ WireOK'
    BY <1>1 DEF SyncInv, RingOK, WireOK, IsEvent, IsLost, SeqAt
<1>4. CursorOK'
    BY <1>1 DEF SyncInv, CursorOK, Behind, IsEvent, SeqAt
<1>5. AgesOK'
    BY <1>1 DEF SyncInv, AgesOK, IsEvent
<1>6. CoverOK'
    BY <1>1 DEF SyncInv, CoverOK, Covered, Blamed, InWalk, InHand, Queued, InFlight, LostInFlight,
                Owed, InRing, IsEvent, IsLost
<1> QED BY <1>2, <1>3, <1>4, <1>5, <1>6 DEF SyncInv

(* What a cut takes with it is blamed, or the cursor will bring it back.    *)
LEMMA CutFact ==
    ASSUME SyncInv, CutBlame
    PROVE  /\ drift' \in [Reasons -> SUBSET Keys]
           /\ \A k \in Keys : Blamed(k) => Blamed(k)'
           /\ lastSeq = NoSeq => \A k \in Keys : InFlight(k) => Blamed(k)'
           /\ LostInFlight => \A k \in Keys : Blamed(k)'
<1> DEFINE inFlight == {wire[i] : i \in 1 .. Len(wire)}
           events == {f \in inFlight : f.op = "event"}
           A == IF lastSeq = NoSeq THEN {f.event.key : f \in events} ELSE {}
           B == IF events # inFlight THEN Keys ELSE {}
<1>1. drift' = [drift EXCEPT !["no_cursor"] = @ \cup A, !["failed"] = @ \cup B]
    BY DEF CutBlame
<1>2. \A i \in 1 .. Len(wire) : wire[i] \in Frames
    BY DEF SyncInv, DaemonTypeOK
<1>3. A \subseteq Keys
    BY <1>2 DEF Frames, EventFrames, LostFrames, EventRecs
<1>4. B \subseteq Keys
    OBVIOUS
<1>5. lastSeq = NoSeq => \A k \in Keys : InFlight(k) => k \in A
    BY DEF InFlight, IsEvent
<1>6. LostInFlight => B = Keys
    BY DEF LostInFlight, IsLost
<1> HIDE DEF A, B
<1>7. /\ drift' \in [Reasons -> SUBSET Keys]
      /\ \A r \in Reasons : drift[r] \subseteq drift'[r]
      /\ A \subseteq drift'["no_cursor"] /\ B \subseteq drift'["failed"]
      /\ "no_cursor" \in Reasons /\ "failed" \in Reasons
    BY <1>1, <1>3, <1>4 DEF SyncInv, ClientTypeOK, Reasons
<1> QED BY <1>5, <1>6, <1>7 DEF Blamed

LEMMA CutStep ==
    ASSUME SyncInv, CutBlame,
           UNCHANGED <<live, changes, store, boot, snap, cursorHist, lastSeq, queue, consVars>>,
           session' = "none", since' = NoSeq, wire' = <<>>,
           \/ UNCHANGED <<epoch, top, ring>>
           \/ epoch' = epoch + 1 /\ top' = 0 /\ ring' = <<>>
    PROVE  SyncInv'
<1> USE DEF cursorHist, consVars
<1>1. wire' \in Seq(Frames) /\ Len(wire') = 0 /\ <<>> \in Seq(EventRecs) /\ Len(<<>>) = 0
    BY EmptySeq
<1>2. DaemonTypeOK' /\ ClientTypeOK'
    <2>1. epoch' \in Nat /\ top' \in Nat /\ ring' \in Seq(EventRecs) /\ cursorEpoch' <= epoch'
        <3>1. /\ epoch \in Nat /\ top \in Nat /\ ring \in Seq(EventRecs)
              /\ cursorEpoch \in Nat /\ cursorEpoch <= epoch /\ cursorEpoch' = cursorEpoch
            BY DEF SyncInv, DaemonTypeOK, ClientTypeOK
        <3>2. CASE UNCHANGED <<epoch, top, ring>>
            BY <3>1, <3>2
        <3>3. CASE epoch' = epoch + 1 /\ top' = 0 /\ ring' = <<>>
            <4>1. ring' \in Seq(EventRecs) /\ top' \in Nat
                BY <1>1, <3>3
            <4>2. epoch' \in Nat /\ cursorEpoch' <= epoch'
                BY <3>1, <3>3
            <4> QED BY <4>1, <4>2
        <3> QED BY <3>2, <3>3
    <2>2. DaemonTypeOK'
        BY <1>1, <2>1 DEF SyncInv, DaemonTypeOK
    <2>3. drift' \in [Reasons -> SUBSET Keys]
        BY CutFact
    <2>4. ClientTypeOK'
        BY <2>1, <2>3 DEF SyncInv, ClientTypeOK
    <2> QED BY <2>2, <2>4
<1>3. RingOK'
    BY <1>1 DEF SyncInv, RingOK
<1>4. WireOK'
    BY <1>1 DEF WireOK
<1>5. CursorOK'
    BY <1>1 DEF SyncInv, CursorOK, Behind, ClientTypeOK, DaemonTypeOK
<1>6. AgesOK'
    BY <1>1 DEF SyncInv, AgesOK
<1>7. CoverOK'
    <2> SUFFICES ASSUME NEW k \in Keys PROVE Covered(k)'
        BY DEF CoverOK
    <2>1. CASE store[k] = live[k] \/ InWalk(k) \/ InHand(k) \/ Queued(k)
        BY <2>1 DEF Covered, InWalk, InHand, Queued
    <2>2. CASE Blamed(k) \/ LostInFlight
        BY <2>2, CutFact DEF Covered
    <2>3. CASE (InFlight(k) \/ Owed(k)) /\ lastSeq # NoSeq
        <3>1. CASE epoch' = epoch + 1
            <4>1. cursorEpoch' # epoch'
                BY <3>1 DEF SyncInv, ClientTypeOK, DaemonTypeOK
            <4> QED BY <2>3, <4>1 DEF Covered, Owed
        <3>2. CASE UNCHANGED <<epoch, top, ring>> /\ Owed(k)
            BY <2>3, <3>2 DEF Covered, Owed, InRing
        <3>3. CASE UNCHANGED <<epoch, top, ring>> /\ InFlight(k) /\ cursorEpoch = epoch
            <4>1. PICK i \in 1 .. Len(wire) :
                    IsEvent(i) /\ wire[i].event.key = k /\ wire[i].event.ver = live[k]
                BY <3>3 DEF InFlight
            <4>2. /\ lastSeq \in Nat /\ SeqAt(i) > lastSeq /\ SeqAt(i) <= top /\ SeqAt(i) \in Nat
                  /\ top \in Nat /\ Len(ring) \in Nat
                <5>1. wire[i] \in Frames /\ lastSeq \in Nat /\ top \in Nat /\ Len(ring) \in Nat
                    BY <2>3, LenProperties DEF SyncInv, DaemonTypeOK, ClientTypeOK
                <5>2. SeqAt(i) \in Nat
                    BY <4>1, <5>1 DEF Frames, EventFrames, LostFrames, EventRecs, IsEvent, SeqAt
                <5> QED BY <2>3, <3>3, <4>1, <5>1, <5>2 DEF SyncInv, CursorOK, Behind, WireOK
            <4>3. CASE top - lastSeq > Len(ring)
                BY <2>3, <3>3, <4>3 DEF Covered, Owed
            <4>4. CASE ~(top - lastSeq > Len(ring))
                <5> DEFINE j == SeqAt(i) - (top - Len(ring))
                <5>1. j \in 1 .. Len(ring) /\ top - Len(ring) + j = SeqAt(i)
                    BY <4>2, <4>4
                <5> HIDE DEF j
                <5>2. ring[j].seq = SeqAt(i)
                    BY <5>1 DEF SyncInv, RingOK
                <5>3. wire[i].event = ring[j]
                    BY <4>1, <5>1, <5>2 DEF SyncInv, WireOK
                <5>4. InRing(k)'
                    BY <3>3, <4>1, <4>2, <5>1, <5>2, <5>3 DEF InRing
                <5> QED BY <2>3, <5>4 DEF Covered, Owed
            <4> QED BY <4>3, <4>4
        <3>4. CASE UNCHANGED <<epoch, top, ring>> /\ cursorEpoch # epoch
            BY <2>3, <3>4 DEF Covered, Owed
        <3> QED BY <2>3, <3>1, <3>2, <3>3, <3>4
    <2>4. CASE (InFlight(k) \/ Owed(k)) /\ lastSeq = NoSeq
        BY <2>4, CutFact DEF Covered, Owed
    <2> QED BY <2>1, <2>2, <2>3, <2>4 DEF SyncInv, CoverOK, Covered
<1> QED BY <1>2, <1>3, <1>4, <1>5, <1>6, <1>7 DEF SyncInv

LEMMA DaemonRestartsStep ==
    ASSUME SyncInv, DaemonRestarts
    PROVE  SyncInv'
<1>1. /\ CutBlame /\ session' = "none" /\ since' = NoSeq /\ wire' = <<>>
      /\ UNCHANGED <<live, changes, store, boot, snap, cursorHist, lastSeq, queue, consVars>>
      /\ epoch' = epoch + 1 /\ top' = 0 /\ ring' = <<>>
    BY DEF DaemonRestarts, Hub!Restart, transportVars, queueVars, bootVars
<1> QED BY <1>1, CutStep

(* After a restart the socket ends without a session behind it.             *)
LEMMA DisconnectsStep ==
    ASSUME SyncInv, Disconnects
    PROVE  SyncInv'
<1>1. /\ UNCHANGED <<store, boot, snap, cursorHist, lastSeq, queue, consVars>>
      /\ IF session = "none" THEN UNCHANGED <<hubVars, drift>> ELSE Hub!Drop /\ CutBlame
    BY DEF Disconnects, ConnectionFails, BackOff, queueVars, bootVars
<1>2. CASE session = "none"
    <2> USE DEF hubVars, cursorHist, consVars
    <2>1. UNCHANGED <<hubVars, drift>>
        BY <1>1, <1>2
    <2>2. DaemonTypeOK' /\ ClientTypeOK'
        BY <1>1, <2>1 DEF SyncInv, DaemonTypeOK, ClientTypeOK
    <2>3. RingOK' /\ WireOK' /\ CursorOK'
        BY <1>1, <2>1, WireStays DEF SyncInv
    <2>4. AgesOK'
        BY <1>1, <2>1 DEF SyncInv, AgesOK, IsEvent
    <2>5. CoverOK'
        BY <1>1, <2>1 DEF SyncInv, CoverOK, Covered, Blamed, InWalk, InHand, Queued, InFlight,
                          LostInFlight, Owed, InRing, IsEvent, IsLost
    <2> QED BY <2>2, <2>3, <2>4, <2>5 DEF SyncInv
<1>3. CASE session # "none"
    <2>1. /\ CutBlame /\ session' = "none" /\ since' = NoSeq /\ wire' = <<>>
          /\ UNCHANGED <<live, changes, epoch, top, ring>>
        BY <1>1, <1>3 DEF Hub!Drop
    <2> QED BY <1>1, <2>1, CutStep
<1> QED BY <1>2, <1>3

(* The subscribe frame arrives: what the cursor has missed, or the news     *)
(* that it cannot be had.                                                   *)
LEMMA DaemonServesStep ==
    ASSUME SyncInv, DaemonServes
    PROVE  SyncInv'
<1> DEFINE g == IF since = NoSeq THEN <<>>
                ELSE IF Hub!CanReplay
                  THEN [i \in 1 .. top - since |-> Hub!EventFrame(ring[Len(ring) - (top - since) + i])]
                  ELSE <<Hub!LostFrame(Hub!Oldest)>>
           alias == since # NoSeq /\ Hub!CanReplay /\ cursorEpoch # epoch
<1>1. /\ UNCHANGED <<store, boot, snap, cursorEpoch, anchored, lastSeq, queue, consVars>>
      /\ session = "upgraded" /\ session' = "live" /\ since' = NoSeq /\ wire' = wire \o g
      /\ UNCHANGED <<live, changes, epoch, top, ring>>
      /\ IF alias THEN Blame("alias", Keys) ELSE UNCHANGED drift
    BY DEF DaemonServes, Hub!Serve, transportVars, queueVars, bootVars
<1> USE DEF consVars
<1>2. /\ since = lastSeq /\ wire = <<>> /\ top \in Nat /\ Len(ring) \in Nat /\ ring \in Seq(EventRecs)
      /\ since \in Nat \cup {NoSeq}
    BY <1>1, LenProperties DEF SyncInv, WireOK, DaemonTypeOK
<1>3. /\ drift' \in [Reasons -> SUBSET Keys]
      /\ \A k \in Keys : Blamed(k) => Blamed(k)'
      /\ alias => \A k \in Keys : Blamed(k)'
    BY <1>1, DriftGrows DEF SyncInv, ClientTypeOK, Reasons, Blamed
<1>4. CASE since = NoSeq
    <2>1. wire' = <<>> /\ wire' \in Seq(Frames) /\ Len(wire') = 0
        BY <1>1, <1>2, <1>4, EmptySeq, ConcatEmptySeq
    <2>2. DaemonTypeOK' /\ ClientTypeOK'
        BY <1>1, <1>3, <2>1 DEF SyncInv, DaemonTypeOK, ClientTypeOK
    <2>3. RingOK' /\ WireOK' /\ CursorOK'
        BY <1>1, <1>2, <1>4, <2>1 DEF SyncInv, RingOK, WireOK, CursorOK
    <2>4. AgesOK'
        <3>1. UNCHANGED <<store, snap, live, changes, ring, queue, held>>
            BY <1>1
        <3> QED BY <2>1, <3>1 DEF SyncInv, AgesOK
    <2>5. CoverOK'
        <3> SUFFICES ASSUME NEW k \in Keys PROVE Covered(k)'
            BY DEF CoverOK
        <3>1. ~InFlight(k) /\ ~LostInFlight /\ ~Owed(k)
            BY <1>2, <1>4, EmptySeq DEF InFlight, LostInFlight, Owed
        <3> QED BY <1>1, <1>3, <3>1 DEF SyncInv, CoverOK, Covered, InWalk, InHand, Queued
    <2> QED BY <2>2, <2>3, <2>4, <2>5 DEF SyncInv
<1>5. CASE since # NoSeq /\ ~Hub!CanReplay
    <2> DEFINE f == Hub!LostFrame(Hub!Oldest)
    <2>1. f \in Frames /\ f.op = "replay_lost" /\ f.oldest <= top
        BY OldestFact DEF SyncInv, Frames, LostFrames, Hub!LostFrame
    <2>2. wire' = <<f>>
        <3>1. g = <<f>> /\ g \in Seq(Frames)
            BY <1>5, <2>1
        <3> HIDE DEF g, f
        <3> QED BY <1>1, <1>2, <3>1, ConcatEmptySeq
    <2> HIDE DEF f, g
    <2>3. wire' \in Seq(Frames) /\ Len(wire') = 1 /\ wire'[1] = f /\ wire' # <<>>
        BY <2>1, <2>2
    <2>4. IsLost(1)' /\ ~IsEvent(1)' /\ wire'[1].oldest <= top
        BY <2>1, <2>3 DEF IsLost, IsEvent
    <2>5. DaemonTypeOK' /\ ClientTypeOK'
        BY <1>1, <1>3, <2>3 DEF SyncInv, DaemonTypeOK, ClientTypeOK
    <2>6. RingOK'
        BY <1>1 DEF SyncInv, RingOK
    <2>7. WireOK'
        <3>1. \A i \in 1 .. Len(wire') : i = 1
            BY <2>3
        <3> QED BY <1>1, <2>4, <3>1 DEF WireOK
    <2>8. CursorOK'
        <3>1. \A i \in 1 .. Len(wire') : i = 1
            BY <2>3
        <3> QED BY <1>1, <2>3, <2>4, <3>1 DEF SyncInv, CursorOK, Behind
    <2>9. AgesOK'
        <3>1. \A i \in 1 .. Len(wire') : i = 1
            BY <2>3
        <3> QED BY <1>1, <2>4, <3>1 DEF SyncInv, AgesOK
    <2>10. CoverOK'
        <3>1. 1 \in 1 .. Len(wire')
            BY <2>3
        <3> QED BY <2>4, <3>1 DEF CoverOK, Covered, LostInFlight
    <2> QED BY <2>5, <2>6, <2>7, <2>8, <2>9, <2>10 DEF SyncInv
<1>6. CASE since # NoSeq /\ Hub!CanReplay
    <2>1. PICK c \in Nat, d \in Nat, o \in Nat :
            c = since /\ d = top - since /\ o = Len(ring) - (top - since)
        <3>1. since \in Nat /\ since <= top /\ top - since <= Len(ring)
            BY <1>2, <1>6 DEF Hub!CanReplay
        <3>2. top - since \in Nat /\ Len(ring) - (top - since) \in Nat
            BY <1>2, <3>1
        <3> QED BY <3>1, <3>2
    <2>2. c = lastSeq /\ top = c + d /\ Len(ring) = o + d /\ \A i \in 1 .. d : o + i \in 1 .. Len(ring)
        BY <1>2, <2>1
    <2>3. ASSUME NEW i \in 1 .. d PROVE ring[o + i] \in EventRecs /\ ring[o + i].seq = c + i
        <3>1. o + i \in 1 .. Len(ring)
            BY <2>2
        <3>2. ring[o + i] \in EventRecs
            BY <1>2, <3>1
        <3>3. ring[o + i].seq = top - Len(ring) + (o + i)
            BY <3>1 DEF SyncInv, RingOK
        <3>4. top - Len(ring) + (o + i) = c + i
            BY <2>2
        <3> QED BY <3>2, <3>3, <3>4
    <2>4. g = [i \in 1 .. d |-> Hub!EventFrame(ring[o + i])]
        BY <1>6, <2>1
    <2>5. \A i \in 1 .. d : Hub!EventFrame(ring[o + i]) \in Frames
        BY <2>3 DEF Hub!EventFrame, Frames, EventFrames
    <2> HIDE DEF g
    <2>6. g \in Seq(Frames) /\ Len(g) = d
        <3>1. g \in [1 .. d -> Frames]
            BY <2>4, <2>5
        <3> QED BY <3>1, Listed
    <2>7. \A i \in 1 .. d : g[i] = [op |-> "event", event |-> ring[o + i]]
        BY <2>4 DEF Hub!EventFrame
    <2>8. /\ wire' \in Seq(Frames) /\ Len(wire') = d
          /\ \A i \in 1 .. d : wire'[i] = [op |-> "event", event |-> ring[o + i]]
        <3>1. wire' = g
            BY <1>1, <1>2, <2>6, ConcatEmptySeq
        <3> QED BY <2>6, <2>7, <3>1
    <2>9. \A i \in 1 .. d : /\ IsEvent(i)' /\ ~IsLost(i)' /\ SeqAt(i)' = c + i
                            /\ wire'[i].event = ring[o + i]
        BY <2>3, <2>8 DEF IsEvent, IsLost, SeqAt
    <2>10. DaemonTypeOK' /\ ClientTypeOK'
        BY <1>1, <1>3, <2>8 DEF SyncInv, DaemonTypeOK, ClientTypeOK
    <2>11. RingOK'
        BY <1>1 DEF SyncInv, RingOK
    <2>12. top' = c + d /\ lastSeq' = c /\ Len(ring') = o + d /\ ring' = ring
        BY <1>1, <2>2
    <2>13. WireOK'
        <3>1. ASSUME NEW i \in 1 .. Len(wire')
              PROVE  (IsLost(i)' => wire'[i].oldest <= top') /\ SeqAt(i)' <= top'
            BY <2>8, <2>9, <2>12
        <3>2. ASSUME NEW i \in 1 .. Len(wire'), NEW n \in SeqAt(i)' + 1 .. top'
              PROVE  \E j \in i + 1 .. Len(wire') : IsEvent(j)' /\ SeqAt(j)' = n
            <4>1. i \in 1 .. d /\ n \in c + i + 1 .. c + d
                BY <2>8, <2>9, <2>12
            <4>2. PICK j \in i + 1 .. d : n = c + j
                <5>1. n - c \in i + 1 .. d /\ n = c + (n - c)
                    BY <4>1
                <5> QED BY <5>1
            <4>3. j \in 1 .. d /\ j \in i + 1 .. Len(wire')
                BY <2>8, <4>1, <4>2
            <4> QED BY <2>9, <4>2, <4>3
        <3>3. ASSUME NEW j \in 1 .. Len(wire'), NEW i \in 1 .. j - 1
              PROVE  IsEvent(i)' /\ SeqAt(i)' < SeqAt(j)'
            <4>1. i \in 1 .. d /\ j \in 1 .. d /\ i < j
                BY <2>8
            <4> QED BY <2>9, <4>1
        <3>4. ASSUME NEW i \in 1 .. Len(wire'), NEW j \in 1 .. Len(ring'), SeqAt(i)' = ring'[j].seq
              PROVE  wire'[i].event = ring'[j]
            <4>1. i \in 1 .. d /\ j \in 1 .. Len(ring) /\ ring'[j] = ring[j]
                BY <2>8, <2>12
            <4>2. ring[j].seq = top - Len(ring) + j
                BY <4>1 DEF SyncInv, RingOK
            <4>3. j = o + i
                BY <2>2, <2>9, <3>4, <4>1, <4>2
            <4> QED BY <2>9, <4>1, <4>3
        <3> QED BY <1>1, <3>1, <3>2, <3>3, <3>4 DEF WireOK
    <2>14. Behind' /\ RightBehind'
        <3>1. \A i \in 1 .. Len(wire') : SeqAt(i)' > c
            BY <2>8, <2>9
        <3>2. ASSUME NEW n \in c + 1 .. c + d
              PROVE  \E i \in 1 .. Len(wire') : IsEvent(i)' /\ SeqAt(i)' = n
            <4>1. PICK i \in 1 .. d : n = c + i
                <5>1. n - c \in 1 .. d /\ n = c + (n - c)
                    OBVIOUS
                <5> QED BY <5>1
            <4> QED BY <2>8, <2>9, <4>1
        <3> QED BY <2>12, <3>1, <3>2 DEF Behind, RightBehind
    <2>15. CursorOK'
        BY <2>14 DEF CursorOK
    <2>16. AgesOK'
        <3>1. \A i \in 1 .. Len(wire') : wire'[i].event.ver <= live'[wire'[i].event.key]
            BY <1>1, <2>2, <2>8, <2>9 DEF SyncInv, AgesOK
        <3>2. UNCHANGED <<store, snap, live, changes, ring, queue, held>>
            BY <1>1
        <3> QED BY <3>1, <3>2 DEF SyncInv, AgesOK
    <2>17. CoverOK'
        <3> SUFFICES ASSUME NEW k \in Keys, ~alias PROVE Covered(k)'
            BY <1>3 DEF CoverOK, Covered
        <3>1. ~InFlight(k) /\ ~LostInFlight
            BY <1>2, EmptySeq DEF InFlight, LostInFlight
        <3>2. CASE Owed(k)
            <4>1. PICK j \in 1 .. Len(ring) : ring[j].key = k /\ ring[j].ver = live[k] /\ ring[j].seq > c
                <5>1. cursorEpoch = epoch /\ ~(top - lastSeq > Len(ring))
                    BY <1>6, <2>1, <2>2
                <5> QED BY <2>2, <3>2, <5>1 DEF Owed, InRing
            <4>2. ring[j].seq = top - Len(ring) + j
                BY DEF SyncInv, RingOK
            <4>3. PICK i \in 1 .. d : o + i = j
                <5>1. j - o \in 1 .. d /\ o + (j - o) = j
                    BY <2>2, <4>1, <4>2
                <5> QED BY <5>1
            <4>4. IsEvent(i)' /\ wire'[i].event.key = k /\ wire'[i].event.ver = live'[k] /\ i \in 1 .. Len(wire')
                BY <1>1, <2>8, <2>9, <4>1, <4>3
            <4> QED BY <4>4 DEF Covered, InFlight
        <3> QED BY <1>1, <1>3, <3>1, <3>2 DEF SyncInv, CoverOK, Covered, InWalk, InHand, Queued
    <2> QED BY <2>10, <2>11, <2>13, <2>15, <2>16, <2>17 DEF SyncInv
<1> QED BY <1>4, <1>5, <1>6

-----------------------------------------------------------------------------
(* A frame is received.                                                     *)
LEMMA FrameTaken ==
    ASSUME SyncInv, wire # <<>>, wire' = Tail(wire), UNCHANGED <<top, ring, session, since>>
    PROVE  /\ Len(wire) \in Nat \ {0} /\ Len(wire') = Len(wire) - 1 /\ wire' \in Seq(Frames)
           /\ Head(wire) = wire[1] /\ wire[1] \in Frames /\ session = "live"
           /\ \A i \in 1 .. Len(wire') : /\ i + 1 \in 2 .. Len(wire) /\ wire'[i] = wire[i + 1]
                                         /\ IsEvent(i)' <=> IsEvent(i + 1)
                                         /\ IsLost(i)' <=> IsLost(i + 1)
                                         /\ SeqAt(i)' = SeqAt(i + 1)
           /\ \A i \in 2 .. Len(wire) : /\ i - 1 \in 1 .. Len(wire') /\ (i - 1) + 1 = i
           /\ RingOK' /\ WireOK'
<1>1. /\ Len(wire) \in Nat \ {0} /\ Len(wire') = Len(wire) - 1 /\ wire' \in Seq(Frames)
      /\ Head(wire) = wire[1] /\ wire[1] \in Frames
      /\ \A i \in 1 .. Len(wire') : wire'[i] = wire[i + 1]
    BY Shortened DEF SyncInv, DaemonTypeOK
<1>2. session = "live"
    BY DEF SyncInv, WireOK
<1>3. \A i \in 1 .. Len(wire') : i + 1 \in 2 .. Len(wire) /\ i + 1 \in 1 .. Len(wire)
    BY <1>1
<1>4. \A i \in 1 .. Len(wire') : /\ wire'[i] = wire[i + 1]
                                 /\ IsEvent(i)' <=> IsEvent(i + 1)
                                 /\ IsLost(i)' <=> IsLost(i + 1)
                                 /\ SeqAt(i)' = SeqAt(i + 1)
    BY <1>1 DEF IsEvent, IsLost, SeqAt
<1>5. \A i \in 2 .. Len(wire) : i - 1 \in 1 .. Len(wire') /\ (i - 1) + 1 = i
    BY <1>1
<1>6. RingOK'
    BY DEF SyncInv, RingOK
<1>7. WireOK'
    <2>1. ASSUME NEW i \in 1 .. Len(wire')
          PROVE  /\ IsLost(i)' => wire'[i].oldest <= top'
                 /\ IsEvent(i)' => SeqAt(i)' <= top'
        BY <1>3, <1>4 DEF SyncInv, WireOK
    <2>2. ASSUME NEW i \in 1 .. Len(wire'), IsEvent(i)', NEW n \in SeqAt(i)' + 1 .. top'
          PROVE  \E j \in i + 1 .. Len(wire') : IsEvent(j)' /\ SeqAt(j)' = n
        <3>1. i + 1 \in 1 .. Len(wire) /\ IsEvent(i + 1) /\ n \in SeqAt(i + 1) + 1 .. top
            BY <1>3, <1>4, <2>2
        <3>2. PICK j \in (i + 1) + 1 .. Len(wire) : IsEvent(j) /\ SeqAt(j) = n
            BY <3>1 DEF SyncInv, WireOK
        <3>3. PICK h \in i + 1 .. Len(wire') : h + 1 = j
            <4>1. j - 1 \in i + 1 .. Len(wire') /\ (j - 1) + 1 = j
                BY <1>1, <3>2
            <4> QED BY <4>1
        <3>4. h \in 1 .. Len(wire')
            BY <3>3
        <3> QED BY <1>4, <3>2, <3>3, <3>4
    <2>3. ASSUME NEW j \in 1 .. Len(wire'), NEW i \in 1 .. j - 1, IsEvent(j)'
          PROVE  (IF IsEvent(i) THEN SeqAt(i) ELSE wire[i].oldest)' < SeqAt(j)'
        <3>1. i \in 1 .. Len(wire') /\ i + 1 \in 1 .. (j + 1) - 1 /\ j + 1 \in 1 .. Len(wire)
            BY <1>1, <1>3
        <3>2. (IF IsEvent(i + 1) THEN SeqAt(i + 1) ELSE wire[i + 1].oldest) < SeqAt(j + 1)
            BY <1>4, <2>3, <3>1 DEF SyncInv, WireOK
        <3> QED BY <1>4, <3>1, <3>2
    <2>4. ASSUME NEW i \in 1 .. Len(wire'), NEW j \in 1 .. Len(ring'), IsEvent(i)', SeqAt(i)' = ring'[j].seq
          PROVE  wire'[i].event = ring'[j]
        BY <1>3, <1>4, <2>4 DEF SyncInv, WireOK
    <2> QED BY <1>2, <2>1, <2>2, <2>3, <2>4 DEF WireOK
<1> QED BY <1>1, <1>2, <1>3, <1>4, <1>5, <1>6, <1>7

(* A loss that no walk will repair is blamed.                               *)
LEMMA LossFact ==
    ASSUME SyncInv, NEW ks \in SUBSET Keys, NEW fired \in BOOLEAN, LossBlame(ks, fired)
    PROVE  /\ drift' \in [Reasons -> SUBSET Keys]
           /\ \A k \in Keys : Blamed(k) => Blamed(k)'
           /\ boot' = "asked" \/ \A k \in ks : Blamed(k)'
<1>1. CASE boot' = "asked"
    BY <1>1 DEF LossBlame, Blamed, SyncInv, ClientTypeOK
<1>2. CASE boot' # "asked"
    <2>1. PICK r \in Reasons : Blame(r, ks)
        BY <1>2 DEF LossBlame, Reasons
    <2> QED BY <2>1, DriftGrows DEF SyncInv
<1> QED BY <1>1, <1>2

LEMMA ReceivesLostStep ==
    ASSUME SyncInv, ReceivesLost
    PROVE  SyncInv'
<1>1. /\ wire # <<>> /\ wire' = Tail(wire) /\ Head(wire).op = "replay_lost" /\ lastSeq' = Head(wire).oldest
      /\ UNCHANGED <<live, changes, epoch, top, ring, session, since, store, snap, queue, held, consumer>>
      /\ LossBlame(Keys, TRUE) /\ cursorEpoch' = epoch /\ anchored' = TRUE
      /\ boot' \in {boot, "asked"}
    BY DEF ReceivesLost, RecvReplayLost, OnReplayLost, Received, queueVars, consVars
<1>2. /\ drift' \in [Reasons -> SUBSET Keys]
      /\ boot' = "asked" \/ \A k \in Keys : Blamed(k)'
    BY <1>1, LossFact
<1>3. /\ Len(wire) \in Nat \ {0} /\ wire' \in Seq(Frames) /\ Head(wire) = wire[1] /\ wire[1] \in Frames
      /\ \A i \in 1 .. Len(wire') : /\ i + 1 \in 2 .. Len(wire) /\ wire'[i] = wire[i + 1]
                                    /\ IsEvent(i)' <=> IsEvent(i + 1)
                                    /\ SeqAt(i)' = SeqAt(i + 1)
      /\ RingOK' /\ WireOK'
    BY <1>1, FrameTaken
<1>4. /\ lastSeq' = wire[1].oldest /\ lastSeq' \in Nat /\ IsLost(1) /\ ~IsEvent(1)
      /\ 1 \in 1 .. Len(wire)
    BY <1>1, <1>3 DEF Frames, EventFrames, LostFrames, IsLost, IsEvent
<1>5. DaemonTypeOK'
    BY <1>1, <1>3 DEF SyncInv, DaemonTypeOK
<1>6. ClientTypeOK'
    <2>1. epoch \in Nat
        BY DEF SyncInv, DaemonTypeOK
    <2> QED BY <1>1, <1>2, <1>4, <2>1 DEF SyncInv, ClientTypeOK
<1>7. CursorOK'
    <2>1. wire[1].oldest <= top
        BY <1>4 DEF SyncInv, WireOK
    <2>2. ASSUME NEW i \in 1 .. Len(wire'), IsEvent(i)' PROVE SeqAt(i)' > wire[1].oldest
        <3>1. i + 1 \in 1 .. Len(wire) /\ 1 \in 1 .. (i + 1) - 1 /\ IsEvent(i + 1)
            BY <1>3, <2>2
        <3>2. wire[1].oldest < SeqAt(i + 1)
            BY <1>4, <3>1 DEF SyncInv, WireOK
        <3>3. SeqAt(i + 1) \in Nat
            <4>1. wire[i + 1] \in Frames
                BY <3>1 DEF SyncInv, DaemonTypeOK
            <4> QED BY <3>1, <4>1 DEF Frames, EventFrames, LostFrames, IsEvent, SeqAt, EventRecs
        <3> QED BY <1>3, <1>4, <3>2, <3>3
    <2>3. Behind'
        BY <1>1, <1>4, <2>1, <2>2 DEF Behind
    <2> QED BY <1>1, <2>3 DEF CursorOK
<1>8. AgesOK'
    <2>1. \A i \in 1 .. Len(wire') : IsEvent(i)' => wire'[i].event.ver <= live[wire'[i].event.key]
        BY <1>3 DEF SyncInv, AgesOK
    <2> QED BY <1>1, <2>1 DEF SyncInv, AgesOK
<1>9. CoverOK'
    BY <1>2 DEF CoverOK, Covered, InWalk
<1> QED BY <1>3, <1>5, <1>6, <1>7, <1>8, <1>9 DEF SyncInv

LEMMA ReceivesEventStep ==
    ASSUME SyncInv, ReceivesEvent
    PROVE  SyncInv'
<1> DEFINE ev == Head(wire).event
           e == EnvelopeOf(ev)
<1>1. /\ wire # <<>> /\ wire' = Tail(wire) /\ Head(wire).op = "event"
      /\ UNCHANGED <<live, changes, epoch, top, ring, session, since, store, snap, held, consumer>>
      /\ lastSeq' = Advance(e.seq)
      /\ queue' = queue \/ queue' = Append(queue, e)
      /\ boot' = boot \/ (boot = "idle" /\ boot' = "asked")
      /\ IF queue' = queue THEN LossBlame({e.payload.key}, OverflowResync) ELSE UNCHANGED drift
      /\ IF lastSeq' # lastSeq THEN cursorEpoch' = epoch /\ anchored' = FALSE
         ELSE UNCHANGED <<cursorEpoch, anchored>>
    BY DEF ReceivesEvent, RecvEnvelope, RegisterOverflow, Enqueue, OnReplayLost, Received,
           queueVars, consVars, bootVars
<1>2. /\ Len(wire) \in Nat \ {0} /\ Len(wire') = Len(wire) - 1 /\ wire' \in Seq(Frames)
      /\ Head(wire) = wire[1] /\ wire[1] \in Frames /\ session = "live"
      /\ \A i \in 1 .. Len(wire') : /\ i + 1 \in 2 .. Len(wire) /\ wire'[i] = wire[i + 1]
                                    /\ IsEvent(i)' <=> IsEvent(i + 1)
                                    /\ IsLost(i)' <=> IsLost(i + 1)
                                    /\ SeqAt(i)' = SeqAt(i + 1)
      /\ \A i \in 2 .. Len(wire) : i - 1 \in 1 .. Len(wire') /\ (i - 1) + 1 = i
      /\ RingOK' /\ WireOK'
    BY <1>1, FrameTaken
<1>3. /\ ev \in EventRecs /\ ev = wire[1].event /\ ev.seq = SeqAt(1) /\ IsEvent(1) /\ ~IsLost(1)
      /\ 1 \in 1 .. Len(wire) /\ ev.seq \in Nat /\ ev.key \in Keys /\ ev.ver \in Nat
    BY <1>1, <1>2 DEF Frames, EventFrames, LostFrames, IsLost, IsEvent, SeqAt, EventRecs
<1>4. /\ e \in Envelopes /\ e.seq = ev.seq /\ e.payload.key = ev.key /\ e.payload.ver = ev.ver
    BY <1>3 DEF EnvelopeOf, Envelopes, EventRecs
<1> HIDE DEF ev, e
<1>5. /\ drift' \in [Reasons -> SUBSET Keys]
      /\ \A k \in Keys : Blamed(k) => Blamed(k)'
      /\ \A k \in Keys : queue' = queue /\ k = ev.key => boot' = "asked" \/ Blamed(k)'
    <2>1. CASE queue' = queue
        <3>1. PICK b \in BOOLEAN : LossBlame({ev.key}, b)
            <4>1. OverflowResync \in BOOLEAN
                BY DEF OverflowResync
            <4> QED BY <1>1, <1>4, <2>1, <4>1
        <3> QED BY <1>3, <3>1, LossFact
    <2>2. CASE queue' # queue
        BY <1>1, <2>2 DEF SyncInv, ClientTypeOK, Blamed
    <2> QED BY <2>1, <2>2
<1>6. /\ queue' \in Seq(Envelopes)
      /\ \A i \in 1 .. Len(queue) : i \in 1 .. Len(queue') /\ queue'[i] = queue[i]
      /\ \A i \in 1 .. Len(queue') : (i \in 1 .. Len(queue) /\ queue'[i] = queue[i]) \/ queue'[i] = e
      /\ queue' # queue => \E i \in 1 .. Len(queue') : queue'[i] = e
    <2>1. CASE queue' = queue
        BY <2>1 DEF SyncInv, ClientTypeOK
    <2>2. CASE queue' = Append(queue, e)
        BY <1>4, <2>2, Appended DEF SyncInv, ClientTypeOK
    <2> QED BY <1>1, <2>1, <2>2
<1>7. lastSeq' = IF lastSeq = NoSeq \/ ev.seq > lastSeq THEN ev.seq ELSE lastSeq
    BY <1>1, <1>3, <1>4, TransportAssumption DEF Advance
<1>8. DaemonTypeOK'
    BY <1>1, <1>2 DEF SyncInv, DaemonTypeOK
<1>9. ClientTypeOK'
    <2>1. epoch \in Nat /\ epoch' = epoch
        BY <1>1 DEF SyncInv, DaemonTypeOK
    <2>2. cursorEpoch' \in Nat /\ cursorEpoch' <= epoch'
        BY <1>1, <2>1 DEF SyncInv, ClientTypeOK
    <2>3. lastSeq' \in Nat \cup {NoSeq}
        BY <1>3, <1>7 DEF SyncInv, ClientTypeOK
    <2>4. boot' \in {"idle", "asked", "answered", "hook"}
        BY <1>1 DEF SyncInv, ClientTypeOK
    <2> QED BY <1>1, <1>5, <1>6, <2>2, <2>3, <2>4 DEF SyncInv, ClientTypeOK
<1>10. CursorOK'
    <2>1. CASE lastSeq' = ev.seq
        <3>1. ev.seq <= top
            BY <1>3 DEF SyncInv, WireOK
        <3>2. ASSUME NEW i \in 1 .. Len(wire'), IsEvent(i)' PROVE SeqAt(i)' > ev.seq
            <4>1. i + 1 \in 1 .. Len(wire) /\ 1 \in 1 .. (i + 1) - 1 /\ IsEvent(i + 1)
                BY <1>2, <3>2
            <4>2. SeqAt(1) < SeqAt(i + 1)
                BY <1>3, <4>1 DEF SyncInv, WireOK
            <4>3. SeqAt(i + 1) \in Nat
                <5>1. wire[i + 1] \in Frames
                    BY <4>1 DEF SyncInv, DaemonTypeOK
                <5> QED BY <4>1, <5>1 DEF Frames, EventFrames, LostFrames, IsEvent, SeqAt, EventRecs
            <4> QED BY <1>2, <1>3, <4>2, <4>3
        <3>3. ASSUME NEW n \in ev.seq + 1 .. top
              PROVE  \E i \in 1 .. Len(wire') : IsEvent(i)' /\ SeqAt(i)' = n
            <4>1. PICK j \in 1 + 1 .. Len(wire) : IsEvent(j) /\ SeqAt(j) = n
                BY <1>3, <3>3 DEF SyncInv, WireOK
            <4>2. PICK i \in 1 .. Len(wire') : i + 1 = j
                <5>1. j - 1 \in 1 .. Len(wire') /\ (j - 1) + 1 = j
                    BY <1>2, <4>1
                <5> QED BY <5>1
            <4> QED BY <1>2, <4>1, <4>2
        <3>4. Behind' /\ RightBehind'
            BY <1>1, <2>1, <3>1, <3>2, <3>3 DEF Behind, RightBehind
        <3> QED BY <3>4 DEF CursorOK
    <2>2. CASE lastSeq' # ev.seq
        <3>1. lastSeq' = lastSeq /\ lastSeq # NoSeq /\ ~(ev.seq > lastSeq)
            BY <1>7, <2>2
        <3>2. ~Behind
            BY <1>3, <3>1 DEF Behind
        <3>3. cursorEpoch # epoch /\ anchored
            BY <1>2, <1>3, <3>1, <3>2 DEF SyncInv, CursorOK
        <3> QED BY <1>1, <3>1, <3>3 DEF CursorOK
    <2> QED BY <2>1, <2>2
<1>11. AgesOK'
    <2>1. \A i \in 1 .. Len(wire') : IsEvent(i)' => wire'[i].event.ver <= live[wire'[i].event.key]
        BY <1>2 DEF SyncInv, AgesOK
    <2>2. ev.ver <= live[ev.key]
        BY <1>3 DEF SyncInv, AgesOK
    <2>3. \A i \in 1 .. Len(queue') : queue'[i].payload.ver <= live[queue'[i].payload.key]
        BY <1>4, <1>6, <2>2 DEF SyncInv, AgesOK
    <2> QED BY <1>1, <2>1, <2>3 DEF SyncInv, AgesOK
<1>12. CoverOK'
    <2> SUFFICES ASSUME NEW k \in Keys PROVE Covered(k)'
        BY DEF CoverOK
    <2>1. CASE store[k] = live[k] \/ InWalk(k) \/ InHand(k)
        BY <1>1, <2>1 DEF Covered, InWalk, InHand
    <2>2. CASE Queued(k)
        BY <1>1, <1>6, <2>2 DEF Covered, Queued
    <2>3. CASE Blamed(k)
        BY <1>5, <2>3 DEF Covered
    <2>4. CASE InFlight(k) \/ LostInFlight
        <3>1. PICK i \in 1 .. Len(wire) :
                \/ IsLost(i)
                \/ IsEvent(i) /\ wire[i].event.key = k /\ wire[i].event.ver = live[k]
            BY <2>4 DEF InFlight, LostInFlight
        <3>2. CASE i = 1
            <4>1. ev.key = k /\ ev.ver = live[k]
                BY <1>3, <3>1, <3>2
            <4>2. CASE queue' = queue
                BY <1>5, <4>1, <4>2 DEF Covered, InWalk
            <4>3. CASE queue' # queue
                BY <1>1, <1>4, <1>6, <4>1, <4>3 DEF Covered, Queued
            <4> QED BY <4>2, <4>3
        <3>3. CASE i # 1
            <4>1. PICK j \in 1 .. Len(wire') : j + 1 = i
                <5>1. i - 1 \in 1 .. Len(wire') /\ (i - 1) + 1 = i
                    BY <1>2, <3>3
                <5> QED BY <5>1
            <4> QED BY <1>1, <1>2, <3>1, <4>1 DEF Covered, InFlight, LostInFlight
        <3> QED BY <3>2, <3>3
    <2>5. ~Owed(k)
        BY <1>2 DEF Owed
    <2> QED BY <2>1, <2>2, <2>3, <2>4, <2>5 DEF SyncInv, CoverOK, Covered
<1> QED BY <1>2, <1>8, <1>9, <1>10, <1>11, <1>12 DEF SyncInv

-----------------------------------------------------------------------------
LEMMA SyncStepInv == SyncInv /\ [SyncNext]_syncVars => SyncInv'
BY SilentStep, SnapshotReadStep, SnapshotAppliedStep, WalkFailsStep, ConsumerStep, DispatchesStep,
   DaemonReloadsStep, DaemonBroadcastsStep, ConnectsStep, DaemonRestartsStep, DisconnectsStep,
   DaemonServesStep, ReceivesLostStep, ReceivesEventStep DEF SyncNext

LEMMA SyncInvariance == SyncSpec => []SyncInv
BY SyncInitInv, SyncStepInv, PTL DEF SyncSpec

(* client.py, transport/ws.py, store.py: for all keys, ring and queue       *)
(* sizes, and every number of changes, restarts and re-pulls, a value of    *)
(* the store that is not the daemon's once everything is at rest was left   *)
(* stale by one of the nine named events.                                   *)
THEOREM StoreDriftIsExplained == SyncSpec => []DriftIsExplained
<1>1. SyncInv => DriftIsExplained
    <2> SUFFICES ASSUME SyncInv, AtRest, NEW k \in Keys
                 PROVE  store[k] = live[k] \/ Blamed(k)
        BY DEF DriftIsExplained, StaleOnlyFor, Blamed
    <2>1. Len(wire) = 0 /\ Len(queue) = 0 /\ held = <<>> /\ boot = "idle" /\ session = "live"
        BY EmptySeq DEF AtRest
    <2> QED BY <2>1 DEF SyncInv, CoverOK, Covered, InWalk, InHand, Queued, InFlight, LostInFlight, Owed
<1> QED BY <1>1, SyncInvariance, PTL

(* ws.py _open_and_read, _handle_text: for every ring size and however the  *)
(* connection is cut and resumed, the reader sees each broadcast once and   *)
(* in order, unless the daemon announced a loss or restarted.               *)
THEOREM BroadcastsStayContiguous == SyncSpec => StreamContiguous
<1>1. SyncInv /\ [SyncNext]_syncVars =>
        [wire # <<>> /\ wire' = Tail(wire) /\ readTask = "open" /\ readTask' = "open"
           /\ Head(wire).op = "event" /\ lastSeq # NoSeq /\ ~anchored /\ cursorEpoch = epoch
           => Head(wire).event.seq = lastSeq + 1]_syncVars
    <2> SUFFICES ASSUME SyncInv, wire # <<>>, Head(wire).op = "event", lastSeq # NoSeq, ~anchored
                 PROVE  Head(wire).event.seq = lastSeq + 1
        OBVIOUS
    <2>1. /\ Len(wire) \in Nat \ {0} /\ Head(wire) = wire[1] /\ session = "live"
          /\ 1 \in 1 .. Len(wire) /\ IsEvent(1) /\ ~IsLost(1) /\ lastSeq \in Nat /\ top \in Nat
        BY Shortened DEF SyncInv, DaemonTypeOK, ClientTypeOK, WireOK, IsEvent, IsLost
    <2>2. Behind /\ RightBehind
        BY <2>1 DEF SyncInv, CursorOK
    <2>3. \A i \in 1 .. Len(wire) : IsEvent(i) => SeqAt(i) \in Nat
        <3>1. \A i \in 1 .. Len(wire) : wire[i] \in Frames
            BY DEF SyncInv, DaemonTypeOK
        <3> QED BY <3>1 DEF Frames, EventFrames, LostFrames, IsEvent, SeqAt, EventRecs
    <2>4. SeqAt(1) \in Nat /\ SeqAt(1) > lastSeq /\ SeqAt(1) <= top
        BY <2>1, <2>2, <2>3 DEF Behind, SyncInv, WireOK
    <2>5. PICK i \in 1 .. Len(wire) : IsEvent(i) /\ SeqAt(i) = lastSeq + 1
        <3>1. lastSeq + 1 \in lastSeq + 1 .. top
            BY <2>1, <2>4
        <3> QED BY <2>2, <3>1 DEF RightBehind
    <2>6. CASE i # 1
        <3>1. 1 \in 1 .. i - 1
            BY <2>6
        <3>2. SeqAt(1) < SeqAt(i)
            BY <2>1, <2>5, <3>1 DEF SyncInv, WireOK
        <3> QED BY <2>1, <2>4, <2>5, <3>2
    <2>7. CASE i = 1
        BY <2>1, <2>5, <2>7 DEF SeqAt
    <2> QED BY <2>6, <2>7
<1> QED BY <1>1, SyncInvariance, PTL DEF SyncSpec, StreamContiguous

-----------------------------------------------------------------------------
(* The refinement: what each step does to the mirror.                       *)
LEMMA StaleGrows ==
    ASSUME SyncInv, \A k \in Keys : Blamed(k) => Blamed(k)'
    PROVE  StaleKeys \subseteq StaleKeys'
BY DEF StaleKeys, Blamed

(* All steps but four leave the values alone on both sides.                 *)
LEMMA OthersWriteNothing ==
    ASSUME SyncInv, [SyncNext]_syncVars,
           ~DaemonBroadcasts, ~DaemonReloads, ~SnapshotApplied, ~Dispatches
    PROVE  UNCHANGED <<live, store>> /\ \A k \in Keys : Blamed(k) => Blamed(k)'
<1>1. CASE StreamStarts \/ Connects \/ Reconnects \/ ConsumerMoves \/ SnapshotRead \/ WalkEnds
           \/ CooldownEnds \/ UNCHANGED syncVars
    <2>1. UNCHANGED <<live, store, drift>>
        BY <1>1 DEF StreamStarts, Connects, Hub!Upgrade, Reconnects, ConsumerMoves, SnapshotRead,
                    WalkEnds, CooldownEnds, syncVars, hubVars
    <2> QED BY <2>1 DEF Blamed
<1>2. CASE DaemonRestarts \/ Disconnects
    <2>1. UNCHANGED <<live, store>> /\ (UNCHANGED drift \/ CutBlame)
        BY <1>2 DEF DaemonRestarts, Hub!Restart, Disconnects, Hub!Drop, hubVars
    <2> QED BY <2>1, CutFact DEF Blamed
<1>3. CASE DaemonServes \/ WalkFails
    <2>1. /\ UNCHANGED <<live, store>>
          /\ UNCHANGED drift \/ \E r \in Reasons : Blame(r, Keys)
        BY <1>3 DEF DaemonServes, Hub!Serve, WalkFails, hubVars, Reasons
    <2> QED BY <2>1, DriftGrows DEF Blamed, SyncInv
<1>4. CASE ReceivesLost
    <2>1. UNCHANGED <<live, store>> /\ LossBlame(Keys, TRUE)
        BY <1>4 DEF ReceivesLost, Received
    <2> QED BY <2>1, LossFact
<1>5. CASE ReceivesEvent
    <2>1. /\ UNCHANGED <<live, store>> /\ wire # <<>> /\ Head(wire).op = "event"
          /\ UNCHANGED drift \/ LossBlame({EnvelopeOf(Head(wire).event).payload.key}, OverflowResync)
        BY <1>5 DEF ReceivesEvent, Received
    <2>2. Head(wire) \in Frames
        BY <2>1, Shortened DEF SyncInv, DaemonTypeOK
    <2>3. {EnvelopeOf(Head(wire).event).payload.key} \in SUBSET Keys
        BY <2>1, <2>2 DEF Frames, EventFrames, LostFrames, EventRecs, EnvelopeOf
    <2>4. OverflowResync \in BOOLEAN
        BY DEF OverflowResync
    <2> QED BY <2>1, <2>3, <2>4, LossFact DEF Blamed
<1> QED BY <1>1, <1>2, <1>3, <1>4, <1>5 DEF SyncNext

(* A change of the daemon's is on its way, or the client is not connected.  *)
LEMMA ChangesAreNews ==
    ASSUME SyncInv, DaemonBroadcasts \/ DaemonReloads
    PROVE  /\ \E k \in Keys : Mirror!DaemonChanges(k)
           /\ \A k \in Keys : Blamed(k) => Blamed(k)'
<1>1. PICK k \in Keys :
        /\ Hub!Broadcast(k) \/ Hub!Reload(k)
        /\ UNCHANGED drift \/ \E r \in Reasons : Blame(r, {k})
    BY DEF DaemonBroadcasts, DaemonReloads, Reasons
<1>2. /\ changes' = changes + 1 /\ live' = [live EXCEPT ![k] = changes'] /\ session' = session
    BY <1>1 DEF Hub!Broadcast, Hub!Reload
<1>3. ~AtRest'
    <2>1. session = "live" => \E f : wire' = Append(wire, f)
        BY <1>1 DEF Hub!Broadcast, Hub!Reload
    <2>2. \A f : Append(wire, f) # <<>>
        BY DEF SyncInv, DaemonTypeOK
    <2> QED BY <1>2, <2>1, <2>2 DEF AtRest
<1>4. store' = store
    BY DEF DaemonBroadcasts, DaemonReloads
<1>5. /\ live' \in [Keys -> Nat] /\ live'[k] = changes + 1
      /\ \A q \in Keys \ {k} : live'[q] = live[q]
      /\ live[k] \in Nat /\ changes \in Nat /\ live[k] <= changes
    BY <1>2, ChangeFact DEF SyncInv, DaemonTypeOK, AgesOK
<1>6. live'[k] > live[k]
    BY <1>5
<1>7. Mirror!DaemonChanges(k)
    BY <1>3, <1>4, <1>5, <1>6 DEF Mirror!DaemonChanges
<1>8. \A q \in Keys : Blamed(q) => Blamed(q)'
    BY <1>1, DriftGrows DEF SyncInv, Blamed
<1> QED BY <1>7, <1>8

(* A walk's answer and a queued push are no newer than the daemon, and a    *)
(* key either of them sets back is blamed.                                  *)
LEMMA WritesAreOwned ==
    ASSUME SyncInv, SnapshotApplied \/ Dispatches
    PROVE  Mirror!StoreWritten /\ \A k \in Keys : Blamed(k) => Blamed(k)'
<1>1. CASE SnapshotApplied
    <2> DEFINE older == {k \in Keys : snap[k] < store[k]}
    <2>1. /\ boot = "answered" /\ store' = snap /\ live' = live /\ Blame("overwritten", older)
          /\ store' \in [Keys -> Nat] /\ \A k \in Keys : store'[k] <= live[k]
        BY <1>1 DEF SnapshotApplied, hubVars, SyncInv, ClientTypeOK, AgesOK
    <2>2. /\ \A k \in Keys : Blamed(k) => Blamed(k)'
          /\ \A k \in older : Blamed(k)'
        BY <2>1, DriftGrows DEF SyncInv, Reasons
    <2>3. {k \in Keys : store'[k] < store[k]} \subseteq StaleKeys'
        BY <2>1, <2>2 DEF StaleKeys, Blamed
    <2>4. ~AtRest
        BY <2>1 DEF AtRest
    <2> QED BY <2>1, <2>2, <2>3, <2>4 DEF Mirror!StoreWritten
<1>2. CASE Dispatches
    <2>1. /\ consumer = "got" /\ held # <<>> /\ live' = live
        BY <1>2 DEF Dispatches, Yield, hubVars, SyncInv, ClientTypeOK
    <2>2. PICK e \in Envelopes : held = <<e>>
        BY <2>1 DEF SyncInv, ClientTypeOK
    <2> DEFINE key == e.payload.key
               ver == e.payload.ver
               ks == IF ver < store[key] THEN {key} ELSE {}
    <2>3. /\ store' = [store EXCEPT ![key] = ver] /\ Blame("backlog", ks)
          /\ held[1] = e
        BY <1>2, <2>2 DEF Dispatches
    <2>4. key \in Keys /\ ver \in Nat /\ ver <= live[key]
        BY <2>1, <2>3 DEF Envelopes, SyncInv, AgesOK
    <2>5. /\ \A k \in Keys : Blamed(k) => Blamed(k)'
          /\ \A k \in ks : Blamed(k)'
        BY <2>3, <2>4, DriftGrows DEF SyncInv, Reasons
    <2> HIDE DEF key, ver
    <2>6. /\ store' \in [Keys -> Nat]
          /\ \A k \in Keys : store'[k] = IF k = key THEN ver ELSE store[k]
          /\ \A k \in Keys : store[k] \in Nat /\ store[k] <= live[k]
        BY <2>3, <2>4 DEF SyncInv, ClientTypeOK, AgesOK
    <2>7. \A k \in Keys : store'[k] <= live[k]
        BY <2>4, <2>6
    <2>8. \A k \in Keys : store'[k] < store[k] => k \in ks
        BY <2>6
    <2>9. {k \in Keys : store'[k] < store[k]} \subseteq StaleKeys'
        BY <2>5, <2>8 DEF StaleKeys, Blamed
    <2>10. ~AtRest
        BY <2>1 DEF AtRest
    <2> QED BY <2>1, <2>5, <2>6, <2>7, <2>9, <2>10 DEF Mirror!StoreWritten
<1> QED BY <1>1, <1>2

(* EventSync implements StoreMirror: for all keys, ring and queue sizes the *)
(* store shows nothing newer than the daemon, is written only while not at  *)
(* rest, goes back on a key only where a named event did it, and agrees     *)
(* with the daemon on all others whenever it is at rest.                    *)
THEOREM SyncMirrorsDaemon == SyncSpec => MirrorsDaemon
<1>1. SyncInit => Mirror!MirrorInit
    <2> SUFFICES ASSUME SyncInit PROVE Mirror!MirrorInit
        OBVIOUS
    <2>1. live = [k \in Keys |-> 0] /\ store = live /\ session = "none"
        BY DEF SyncInit, Hub!HubInit
    <2>2. StaleKeys = {}
        BY DEF SyncInit, StaleKeys
    <2>3. AtRest = FALSE
        BY <2>1 DEF AtRest
    <2> QED BY <2>1, <2>2, <2>3 DEF Mirror!MirrorInit
<1>2. SyncInv /\ DriftIsExplained' /\ [SyncNext]_syncVars => [Mirror!MirrorNext]_(Mirror!mirrorVars)
    <2> SUFFICES ASSUME SyncInv, DriftIsExplained', [SyncNext]_syncVars PROVE Mirror!MirrorNext
        OBVIOUS
    <2>1. /\ (\E k \in Keys : Mirror!DaemonChanges(k)) \/ Mirror!StoreWritten \/ Mirror!NothingWritten
          /\ \A k \in Keys : Blamed(k) => Blamed(k)'
        BY ChangesAreNews, WritesAreOwned, OthersWriteNothing DEF Mirror!NothingWritten
    <2>2. StaleKeys \subseteq StaleKeys'
        BY <2>1, StaleGrows
    <2>3. AtRest' => \A k \in Keys \ StaleKeys' : store'[k] = live'[k]
        BY DEF DriftIsExplained, StaleOnlyFor, StaleKeys
    <2> QED BY <2>1, <2>2, <2>3 DEF Mirror!MirrorNext
<1> QED BY <1>1, <1>2, SyncInvariance, StoreDriftIsExplained, PTL
        DEF SyncSpec, MirrorsDaemon, Mirror!MirrorSpec

(* What the mirror promises is enough: DriftIsExplained follows from        *)
(* StoreMirror alone, whatever path keeps the store (LoomStore).            *)
THEOREM MirrorExplainsDrift == MirrorsDaemon => []DriftIsExplained
<1>1. Mirror!MirrorInit => DriftIsExplained
    BY DEF Mirror!MirrorInit, DriftIsExplained, StaleOnlyFor
<1>2. DriftIsExplained /\ [Mirror!MirrorNext]_(Mirror!mirrorVars) => DriftIsExplained'
    <2> SUFFICES ASSUME DriftIsExplained, [Mirror!MirrorNext]_(Mirror!mirrorVars),
                        AtRest', NEW k \in Keys, k \notin StaleKeys'
                 PROVE  store'[k] = live'[k]
        BY DEF DriftIsExplained, StaleOnlyFor, StaleKeys
    <2>1. CASE Mirror!MirrorNext
        BY <2>1 DEF Mirror!MirrorNext
    <2>2. CASE UNCHANGED Mirror!mirrorVars
        <3>1. AtRest /\ k \notin StaleKeys /\ store' = store /\ live' = live
            BY <2>2 DEF Mirror!mirrorVars
        <3> QED BY <3>1 DEF DriftIsExplained, StaleOnlyFor, StaleKeys
    <2> QED BY <2>1, <2>2
<1> QED BY <1>1, <1>2, PTL DEF MirrorsDaemon, Mirror!MirrorSpec

-----------------------------------------------------------------------------
(* The composition: the event path drives the transport as its own          *)
(* specification allows, so what holds of the transport holds of it.        *)
BoundOK == changes <= MaxChanges /\ top <= changes

(* A frame's number is that of a change.                                   *)
LEMMA BoundStepInv == SyncInv /\ BoundOK /\ [SyncNext]_syncVars => BoundOK'
<1> SUFFICES ASSUME SyncInv, BoundOK, [SyncNext]_syncVars PROVE BoundOK'
    OBVIOUS
<1>1. changes \in Nat /\ top \in Nat /\ MaxChanges \in Nat
    BY SyncAssumption DEF SyncInv, DaemonTypeOK
<1>2. CASE DaemonBroadcasts
    <2>1. changes < MaxChanges /\ changes' = changes + 1 /\ top' = top + 1
        BY <1>2 DEF DaemonBroadcasts, Hub!Broadcast
    <2> QED BY <1>1, <2>1 DEF BoundOK
<1>3. CASE DaemonReloads
    <2>1. changes < MaxChanges /\ changes' = changes + 1 /\ top' = top
        BY <1>3 DEF DaemonReloads, Hub!Reload
    <2> QED BY <1>1, <2>1 DEF BoundOK
<1>4. CASE DaemonRestarts
    <2>1. changes' = changes /\ top' = 0
        BY <1>4 DEF DaemonRestarts, Hub!Restart
    <2> QED BY <1>1, <2>1 DEF BoundOK
<1>5. CASE ~DaemonBroadcasts /\ ~DaemonReloads /\ ~DaemonRestarts
    <2>1. UNCHANGED <<changes, top>>
        BY <1>5 DEF SyncNext, DaemonServes, Hub!Serve, StreamStarts, Connects, Hub!Upgrade,
               Disconnects, Hub!Drop, Reconnects, SnapshotRead, SnapshotApplied, WalkEnds,
               WalkFails, CooldownEnds, ReceivesEvent, ReceivesLost, Received, Dispatches,
               ConsumerMoves, hubVars, syncVars
    <2> QED BY <2>1 DEF BoundOK
<1> QED BY <1>2, <1>3, <1>4, <1>5

(* What the daemon sends is among what the transport may receive.           *)
LEMMA FramesAreInbound ==
    ASSUME SyncInv, BoundOK, wire # <<>>
    PROVE  /\ Head(wire).op = "event" => EnvelopeOf(Head(wire).event) \in Envelope
           /\ Head(wire).op = "replay_lost" => Head(wire).oldest \in SeqNos \cup {NoSeq}
<1>1. /\ Head(wire) = wire[1] /\ 1 \in 1 .. Len(wire) /\ wire[1] \in Frames
      /\ top \in Nat /\ changes \in Nat /\ MaxChanges \in Nat
    BY Shortened, SyncAssumption DEF SyncInv, DaemonTypeOK
<1>2. CASE wire[1].op = "event"
    <2> DEFINE e == wire[1].event
    <2>1. e \in EventRecs /\ IsEvent(1)
        BY <1>1, <1>2 DEF Frames, EventFrames, LostFrames, IsEvent
    <2>2. e.seq <= top /\ e.ver <= live[e.key]
        BY <1>1, <2>1 DEF SyncInv, WireOK, AgesOK, SeqAt
    <2>3. e.seq \in Nat /\ e.ver \in Nat /\ e.key \in Keys
        BY <2>1 DEF EventRecs
    <2>4. live[e.key] \in Nat /\ live[e.key] <= changes
        BY <2>3 DEF SyncInv, AgesOK, DaemonTypeOK
    <2>5. e.seq \in 0 .. MaxChanges /\ e.ver \in 0 .. MaxChanges
        BY <1>1, <2>2, <2>3, <2>4 DEF BoundOK
    <2>6. [key |-> e.key, ver |-> e.ver] \in Payloads
        BY <2>3, <2>5, CarriesAssumption
    <2>7. EnvelopeOf(e) \in Envelope
        BY <2>5, <2>6, CarriesAssumption DEF EnvelopeOf, Envelope
    <2> QED BY <1>1, <1>2, <2>7
<1>3. CASE wire[1].op = "replay_lost"
    <2>1. wire[1].oldest \in Nat /\ wire[1].oldest <= top
        BY <1>1, <1>3 DEF Frames, EventFrames, LostFrames, IsLost, SyncInv, WireOK
    <2>2. wire[1].oldest \in 0 .. MaxChanges
        BY <1>1, <2>1 DEF BoundOK
    <2> QED BY <1>1, <1>3, <2>2, CarriesAssumption
<1> QED BY <1>1, <1>2, <1>3

(* Every joint step has a step of the transport in it or leaves it alone.   *)
LEMMA StepsOfTransport ==
    SyncInv /\ BoundOK /\ [SyncNext]_syncVars => [TransportNext]_transportVars
<1> SUFFICES ASSUME SyncInv, BoundOK, [SyncNext]_syncVars PROVE [TransportNext]_transportVars
    OBVIOUS
<1>1. CASE StreamStarts \/ Connects \/ Disconnects \/ Reconnects
    BY <1>1 DEF StreamStarts, Connects, Disconnects, Reconnects, TransportNext, Reader, Caller
<1>2. CASE Dispatches \/ ConsumerMoves
    BY <1>2 DEF Dispatches, ConsumerMoves, TransportNext, Consumer
<1>3. CASE ReceivesEvent
    <2>1. wire # <<>> /\ Head(wire).op = "event" /\ RecvEnvelope(EnvelopeOf(Head(wire).event))
        BY <1>3 DEF ReceivesEvent
    <2>2. EnvelopeOf(Head(wire).event) \in Envelope
        BY <2>1, FramesAreInbound
    <2> QED BY <2>1, <2>2 DEF TransportNext, Inbound
<1>4. CASE ReceivesLost
    <2>1. wire # <<>> /\ Head(wire).op = "replay_lost" /\ RecvReplayLost(Head(wire).oldest)
        BY <1>4 DEF ReceivesLost
    <2>2. Head(wire).oldest \in SeqNos \cup {NoSeq}
        BY <2>1, FramesAreInbound
    <2> QED BY <2>1, <2>2 DEF TransportNext, Inbound
<1>5. CASE DaemonBroadcasts \/ DaemonReloads \/ DaemonRestarts \/ DaemonServes \/ SnapshotRead
           \/ SnapshotApplied \/ WalkEnds \/ WalkFails \/ CooldownEnds \/ UNCHANGED syncVars
    BY <1>5 DEF DaemonBroadcasts, DaemonReloads, DaemonRestarts, DaemonServes, SnapshotRead,
           SnapshotApplied, WalkEnds, WalkFails, CooldownEnds, syncVars
<1> QED BY <1>1, <1>2, <1>3, <1>4, <1>5 DEF SyncNext

(* Every behaviour of the event path is, seen at the transport, one of the  *)
(* behaviours WsTransport allows with free inputs.                          *)
THEOREM SyncDrivesTransport == SyncSpec => TransportInit /\ [][TransportNext]_transportVars
<1>1. SyncInit => TransportInit /\ BoundOK
    BY SyncAssumption DEF SyncInit, Hub!HubInit, BoundOK
<1>2. SyncInv /\ BoundOK /\ [SyncNext]_syncVars => BoundOK'
    BY BoundStepInv
<1>3. SyncInv /\ BoundOK /\ [SyncNext]_syncVars => [TransportNext]_transportVars
    BY StepsOfTransport
<1> QED BY <1>1, <1>2, <1>3, SyncInvariance, PTL DEF SyncSpec

(* So the ceilings of the queue, the tally, the one resync per episode and  *)
(* the ladder hold end to end, whatever the daemon sends (ws.py).           *)
THEOREM SyncKeepsTransport ==
    SyncSpec => []QueueBounded /\ []TallyCovers /\ OneResyncPerDrain /\ LadderClimbs
<1>1. TransportInit => TransportInv /\ LadderInv
    BY InitInv DEF TransportInit, LadderInv
<1>2. TransportInv /\ [TransportNext]_transportVars => TransportInv'
    BY StepInv
<1>3. TransportInv /\ LadderInv /\ [TransportNext]_transportVars => LadderInv'
    BY LadderStep
<1>4. TransportInv => QueueBounded /\ TallyCovers
                      /\ (OverflowResync => byteEpisode \/ taken >= MaxSize - LowWater)
    BY DEF TransportInv, DrainInv, OverflowResync
<1> QED BY <1>1, <1>2, <1>3, <1>4, LadderSleeps, SyncDrivesTransport, PTL
        DEF OneResyncPerDrain, LadderClimbs
=============================================================================
