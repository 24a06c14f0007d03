-------------------------- MODULE WsTransport_proofs --------------------------
(***************************************************************************)
(* TLAPS proofs about WsTransport: type correctness, the two ceilings of   *)
(* the envelope queue, the alignment of the byte tally with the queue, and *)
(* the drain distance between two overflow resyncs.                        *)
(***************************************************************************)
EXTENDS WsTransport, SequenceTheorems, TLAPS

(* While an episode opened by a full queue lasts, the backlog has not yet   *)
(* shrunk by more than the consumer took; once it is over, the consumer has *)
(* taken enough to reach the low-watermark.  This is what makes             *)
(* OneResyncPerDrain inductive.                                             *)
DrainInv ==
    ~byteEpisode =>
        /\ overflowing => Len(queue) + taken >= MaxSize
        /\ ~overflowing => taken >= MaxSize - LowWater

TransportInv == TypeOK /\ QueueBounded /\ TallyCovers /\ DrainInv

(* The ladder index stays inside the ladder (_backoff_delay).               *)
LEMMA ClampInLadder ==
    ASSUME NEW n \in Nat
    PROVE  Clamp(n) \in 0 .. LadderLen - 1
BY TransportAssumption DEF Clamp

(* The low-watermark lies below the ceiling.                                *)
LEMMA LowWaterFact == LowWater \in Nat /\ LowWater <= MaxSize
BY TransportAssumption DEF LowWater

(* A taken envelope shortens the queue by one and keeps its type.           *)
LEMMA TailFact ==
    ASSUME NEW S, NEW s \in Seq(S), s # <<>>
    PROVE  /\ Tail(s) \in Seq(S)
           /\ Len(Tail(s)) = Len(s) - 1
           /\ Head(s) \in S
           /\ Len(s) \in Nat \ {0}
BY EmptySeq, HeadTailProperties

(* Appending lengthens a sequence by one and keeps its type.                *)
LEMMA AppendFact ==
    ASSUME NEW S, NEW s \in Seq(S), NEW x \in S
    PROVE  /\ Append(s, x) \in Seq(S)
           /\ Len(Append(s, x)) = Len(s) + 1
           /\ Len(s) \in Nat
BY AppendProperties, LenProperties

(* The initial state of the transport satisfies the inductive invariant.    *)
LEMMA InitInv == TransportInit => TransportInv
<1> SUFFICES ASSUME TransportInit PROVE TransportInv
    OBVIOUS
<1> USE TransportAssumption DEF TransportInit
<1>1. TypeOK
    <2>1. queue \in Seq(Envelope) /\ sizes \in Seq(FrameSizes) /\ held \in Seq(Envelope)
        BY EmptySeq
    <2>2. taken \in 0 .. MaxSize /\ starts \in 0 .. MaxStarts
        OBVIOUS
    <2>3. attempt \in 0 .. LadderLen - 1 /\ delay \in 0 .. LadderLen - 1
        OBVIOUS
    <2>4. /\ healthy \in BOOLEAN /\ closing \in BOOLEAN /\ stopped \in BOOLEAN
          /\ reported \in BOOLEAN /\ overflowing \in BOOLEAN /\ byteEpisode \in BOOLEAN
        BY Zenon
    <2>5. queuedBytes \in Int /\ leaked \in Nat
        OBVIOUS
    <2>6. /\ readTask \in {"none", "connecting", "open", "backoff", "stopping", "done"}
          /\ consumer \in {"off", "get", "got", "body", "ended"}
          /\ lastSeq \in SeqNos \cup {NoSeq}
        BY Zenon
    <2> QED BY <2>1, <2>2, <2>3, <2>4, <2>5, <2>6, Zenon DEF TypeOK
<1>2. QueueBounded /\ TallyCovers
    BY DEF QueueBounded, TallyCovers
<1>3. DrainInv
    BY LowWaterFact DEF DrainInv
<1> QED BY <1>1, <1>2, <1>3 DEF TransportInv

(* Reconnecting, starting and stopping touch neither the queue nor the      *)
(* latch, so they keep everything but the connection's own types trivially. *)
LEMMA ConnectionStep ==
    ASSUME TransportInv, Reader \/ Caller
    PROVE  TransportInv'
<1> USE TransportAssumption DEF TransportInv
<1>1. UNCHANGED <<lastSeq, queueVars, latchVars, consVars>>
    BY DEF Reader, Caller, Connected, StaysUp, ConnectionFails, ConnectionCloses,
           Retry, AuthRejected, Start, StopBegin, StopEnd, BackOff
<1>2. /\ readTask' \in {"none", "connecting", "open", "backoff", "stopping", "done"}
      /\ starts' \in 0 .. MaxStarts
    BY DEF TypeOK, Reader, Caller, Connected, StaysUp, ConnectionFails, ConnectionCloses,
           Retry, AuthRejected, Start, StopBegin, StopEnd, BackOff
<1>6. /\ healthy' \in BOOLEAN /\ closing' \in BOOLEAN /\ stopped' \in BOOLEAN
      /\ reported' \in BOOLEAN
    BY Zenon DEF TypeOK, Reader, Caller, Connected, StaysUp, ConnectionFails, ConnectionCloses,
           Retry, AuthRejected, Start, StopBegin, StopEnd, BackOff
<1>3. attempt' \in 0 .. LadderLen - 1 /\ delay' \in 0 .. LadderLen - 1
    <2>1. \A n \in Nat : Clamp(n) \in 0 .. LadderLen - 1
        BY ClampInLadder
    <2>2. CASE \E n \in Nat : BackOff(n)
        BY <2>1, <2>2 DEF BackOff, TypeOK
    <2>3. CASE ~ \E n \in Nat : BackOff(n)
        BY <2>3 DEF TypeOK, Reader, Caller, Connected, StaysUp, ConnectionFails,
               ConnectionCloses, Retry, AuthRejected, Start, StopBegin, StopEnd
    <2> QED BY <2>2, <2>3
<1>4. TypeOK'
    BY <1>1, <1>2, <1>3, <1>6 DEF TypeOK, queueVars, latchVars, consVars
<1>5. QueueBounded' /\ TallyCovers' /\ DrainInv'
    BY <1>1 DEF QueueBounded, TallyCovers, DrainInv, queueVars, latchVars, consVars
<1> QED BY <1>4, <1>5

(* An inbound envelope is queued within both ceilings or dropped under the  *)
(* latch.                                                                   *)
LEMMA EnvelopeStep ==
    ASSUME TransportInv, NEW e \in Envelope, RecvEnvelope(e)
    PROVE  TransportInv'
<1> USE TransportAssumption DEF TransportInv
<1>1. e.size \in FrameSizes /\ e.size \in Nat /\ e.seq \in SeqNos \cup {NoSeq}
    BY DEF Envelope
<1>2. lastSeq' \in SeqNos \cup {NoSeq} /\ UNCHANGED <<connVars, consVars>>
    BY <1>1 DEF RecvEnvelope, Advance, TypeOK
<1>3. CASE OverBytes(e.size) \/ QueueFull
    <2>1. UNCHANGED queueVars /\ overflowing' = TRUE
        BY <1>3 DEF RecvEnvelope, RegisterOverflow
    <2>2. taken' \in 0 .. MaxSize /\ byteEpisode' \in BOOLEAN
        <3>1. taken' \in 0 .. MaxSize
            BY <1>3 DEF RecvEnvelope, RegisterOverflow, TypeOK
        <3>2. byteEpisode' \in {byteEpisode, OverBytes(e.size)}
            BY <1>3 DEF RecvEnvelope, RegisterOverflow
        <3>3. OverBytes(e.size) \in BOOLEAN /\ byteEpisode \in BOOLEAN
            BY DEF OverBytes, TypeOK
        <3> QED BY <3>1, <3>2, <3>3
    <2>3. TypeOK' /\ QueueBounded' /\ TallyCovers'
        BY <1>2, <2>1, <2>2 DEF TypeOK, QueueBounded, TallyCovers, queueVars, connVars, consVars
    <2>4. DrainInv'
        <3>1. CASE overflowing
            BY <1>3, <2>1, <3>1 DEF RecvEnvelope, RegisterOverflow, DrainInv, queueVars
        <3>2. CASE ~overflowing /\ OverBytes(e.size)
            BY <1>3, <3>2 DEF RecvEnvelope, RegisterOverflow, DrainInv
        <3>3. CASE ~overflowing /\ ~OverBytes(e.size)
            <4>1. QueueFull /\ taken' = 0
                BY <1>3, <3>3 DEF RecvEnvelope, RegisterOverflow
            <4> QED BY <2>1, <4>1, LenProperties DEF DrainInv, QueueFull, queueVars, TypeOK
        <3> QED BY <3>1, <3>2, <3>3
    <2> QED BY <2>3, <2>4
<1>4. CASE ~ (OverBytes(e.size) \/ QueueFull)
    <2>1. Enqueue(e)
        BY <1>4 DEF RecvEnvelope
    <2>2. /\ queue' \in Seq(Envelope) /\ Len(queue') = Len(queue) + 1
          /\ sizes' \in Seq(FrameSizes) /\ Len(sizes') = Len(sizes) + 1
          /\ Len(queue) \in Nat /\ Len(sizes) \in Nat
        BY <1>1, <2>1, AppendFact DEF Enqueue, TypeOK
    <2>3. queuedBytes' \in Int /\ queuedBytes' <= MaxBytes
        BY <1>1, <1>4, <2>1 DEF Enqueue, OverBytes, TypeOK
    <2>4. TypeOK'
        BY <1>2, <2>1, <2>2, <2>3 DEF TypeOK, Enqueue, latchVars, connVars, consVars
    <2>5. QueueBounded'
        BY <1>4, <2>2, <2>3 DEF QueueBounded, QueueFull
    <2>6. TallyCovers'
        <3>1. Len(held) \in Nat /\ leaked \in Nat
            BY LenProperties DEF TypeOK
        <3> QED BY <1>2, <2>2, <3>1 DEF TallyCovers, consVars
    <2>7. DrainInv'
        BY <2>1, <2>2, LowWaterFact DEF DrainInv, Enqueue, latchVars, TypeOK
    <2> QED BY <2>4, <2>5, <2>6, <2>7
<1> QED BY <1>3, <1>4

(* A replay_lost frame moves only the cursor.                               *)
LEMMA ReplayLostStep ==
    ASSUME TransportInv, NEW oldest \in SeqNos \cup {NoSeq}, RecvReplayLost(oldest)
    PROVE  TransportInv'
BY DEF TransportInv, TypeOK, QueueBounded, TallyCovers, DrainInv, RecvReplayLost,
       connVars, queueVars, latchVars, consVars

(* The getter takes one envelope: the queue shrinks by what taken gains.    *)
LEMMA GetterTakeStep ==
    ASSUME TransportInv, GetterTake
    PROVE  TransportInv'
<1> USE TransportAssumption DEF TransportInv
<1>1. /\ queue' \in Seq(Envelope) /\ Len(queue') = Len(queue) - 1
      /\ Head(queue) \in Envelope /\ Len(queue) \in Nat \ {0}
    BY TailFact DEF GetterTake, TypeOK
<1>2. held' \in Seq(Envelope) /\ Len(held') = 1
    BY <1>1 DEF GetterTake
<1>3. taken' \in 0 .. MaxSize /\ taken' >= taken /\ (taken' = taken + 1 \/ taken' = MaxSize)
    BY DEF GetterTake, TypeOK
<1>4. UNCHANGED <<sizes, queuedBytes, overflowing, byteEpisode, leaked, connVars, lastSeq>>
    BY DEF GetterTake
<1>5. consumer = "get" /\ consumer' = "got"
    BY DEF GetterTake
<1>6. TypeOK'
    BY <1>1, <1>2, <1>3, <1>4, <1>5 DEF TypeOK, connVars
<1>7. QueueBounded'
    BY <1>1, <1>4 DEF QueueBounded
<1>8. TallyCovers'
    <2>1. Len(held) = 0 /\ leaked \in Nat /\ Len(sizes) \in Nat
        BY <1>5, LenProperties DEF TallyCovers, TypeOK
    <2> QED BY <1>1, <1>2, <1>4, <1>5, <2>1 DEF TallyCovers
<1>9. DrainInv'
    BY <1>1, <1>3, <1>4, LowWaterFact DEF DrainInv, TypeOK
<1> QED BY <1>6, <1>7, <1>8, <1>9

(* The bookkeeping of events(): one size leaves the tally with the held     *)
(* envelope, and the latch clears only at the low-watermark.                *)
LEMMA YieldStep ==
    ASSUME TransportInv, Yield
    PROVE  TransportInv'
<1> USE TransportAssumption DEF TransportInv
<1>1. /\ consumer = "got" /\ consumer' = "body" /\ held' = <<>>
      /\ UNCHANGED <<queue, taken, byteEpisode, leaked, connVars, lastSeq>>
    BY DEF Yield
<1>2. Len(queue) \in Nat /\ Len(held) = 1 /\ leaked \in Nat /\ Len(sizes) \in Nat
    BY <1>1, LenProperties DEF TallyCovers, TypeOK
<1>3. sizes # <<>>
    BY <1>2, EmptySeq DEF TallyCovers
<1>4. /\ sizes' \in Seq(FrameSizes) /\ Len(sizes') = Len(sizes) - 1
      /\ queuedBytes' = queuedBytes - Head(sizes) /\ Head(sizes) \in FrameSizes
    BY <1>3, TailFact DEF Yield, PopSize, TypeOK
<1>5. queuedBytes' \in Int /\ queuedBytes' <= MaxBytes
    <2>1. Head(sizes) \in Nat /\ queuedBytes \in Int /\ queuedBytes <= MaxBytes
        BY <1>4 DEF QueueBounded, TypeOK
    <2>2. queuedBytes' = queuedBytes - Head(sizes)
        BY <1>4
    <2> QED BY <2>1, <2>2
<1>6. overflowing' = (overflowing /\ Len(queue) > LowWater)
    BY DEF Yield, ClearLatch
<1>7. TypeOK'
    <2>1. overflowing' \in BOOLEAN
        BY <1>6
    <2> QED BY <1>1, <1>4, <1>5, <2>1, EmptySeq DEF TypeOK, connVars
<1>8. QueueBounded' /\ TallyCovers'
    <2>1. QueueBounded'
        BY <1>1, <1>5 DEF QueueBounded
    <2>2. Len(sizes) = Len(queue) + Len(held) + leaked
        BY DEF TallyCovers
    <2>3. Len(sizes') = Len(queue) + leaked
        BY <1>2, <1>4, <2>2
    <2>4. Len(held') = 0 /\ queue' = queue /\ leaked' = leaked /\ consumer' # "got"
        BY <1>1
    <2> QED BY <1>2, <2>1, <2>3, <2>4 DEF TallyCovers
<1>9. DrainInv'
    BY <1>1, <1>2, <1>6, LowWaterFact DEF DrainInv, TypeOK
<1> QED BY <1>7, <1>8, <1>9

(* Entering an iteration moves only the program counter of events().        *)
LEMMA NextIterationStep ==
    ASSUME TransportInv, NextIteration
    PROVE  TransportInv'
BY DEF TransportInv, TypeOK, QueueBounded, TallyCovers, DrainInv, NextIteration,
       connVars, queueVars, latchVars

(* The end of the stream turns a held envelope into a leaked one.           *)
LEMMA EndOfStreamStep ==
    ASSUME TransportInv, EndOfStream
    PROVE  TransportInv'
<1> USE DEF TransportInv
<1>1. Len(held) \in Nat /\ leaked \in Nat /\ Len(queue) \in Nat
    BY LenProperties DEF TypeOK
<1>2. /\ consumer' = "ended" /\ held' = <<>> /\ leaked' = leaked + Len(held)
      /\ UNCHANGED <<connVars, lastSeq, queueVars, latchVars>>
    BY DEF EndOfStream
<1>3. TypeOK'
    BY <1>1, <1>2, EmptySeq DEF TypeOK, connVars, queueVars, latchVars
<1>4. QueueBounded' /\ TallyCovers' /\ DrainInv'
    BY <1>1, <1>2 DEF QueueBounded, TallyCovers, DrainInv, queueVars, latchVars
<1> QED BY <1>3, <1>4

(* Every step of the transport keeps the inductive invariant.               *)
LEMMA StepInv == TransportInv /\ [TransportNext]_transportVars => TransportInv'
<1> SUFFICES ASSUME TransportInv, [TransportNext]_transportVars
             PROVE  TransportInv'
    OBVIOUS
<1>1. CASE Reader \/ Caller
    BY <1>1, ConnectionStep
<1>2. CASE Inbound
    BY <1>2, EnvelopeStep, ReplayLostStep DEF Inbound
<1>3. CASE Consumer
    BY <1>3, NextIterationStep, GetterTakeStep, YieldStep, EndOfStreamStep DEF Consumer
<1>4. CASE UNCHANGED transportVars
    <2>1. UNCHANGED <<connVars, lastSeq, queueVars, latchVars, consVars>>
        BY <1>4 DEF transportVars
    <2>2. TypeOK'
        BY <2>1 DEF TransportInv, TypeOK, connVars, queueVars, latchVars, consVars
    <2>3. QueueBounded' /\ TallyCovers' /\ DrainInv'
        BY <2>1 DEF TransportInv, QueueBounded, TallyCovers, DrainInv,
                    connVars, queueVars, latchVars, consVars
    <2> QED BY <2>2, <2>3 DEF TransportInv
<1> QED BY <1>1, <1>2, <1>3, <1>4 DEF TransportNext

(* The inductive invariant holds in every reachable state.                  *)
THEOREM TransportCorrect == TransportSpec => []TransportInv
<1>1. TransportInit => TransportInv
    BY InitInv
<1>2. TransportInv /\ [TransportNext]_transportVars => TransportInv'
    BY StepInv
<1> QED BY <1>1, <1>2, PTL DEF TransportSpec

(* ws.py, whole transport: for every queue size, byte budget and frame-size *)
(* set, every variable keeps its type.                                      *)
THEOREM TransportTypeOK == TransportSpec => []TypeOK
<1>1. TransportInv => TypeOK
    BY DEF TransportInv
<1> QED BY <1>1, TransportCorrect, PTL

(* _handle_text and events(): for every queue size and byte budget, no      *)
(* interleaving of reader and consumer exceeds either ceiling.              *)
THEOREM TransportQueueBounded == TransportSpec => []QueueBounded
<1>1. TransportInv => QueueBounded
    BY DEF TransportInv
<1> QED BY <1>1, TransportCorrect, PTL

(* _envelope_sizes: the tally covers the queue, the envelope in a getter's  *)
(* hand and those abandoned at a stream's end, and nothing else.            *)
THEOREM TransportTallyCovers == TransportSpec => []TallyCovers
<1>1. TransportInv => TallyCovers
    BY DEF TransportInv
<1> QED BY <1>1, TransportCorrect, PTL

(* _register_overflow and the latch in events(): after an episode opened by *)
(* a full queue, the next resync is at least MaxSize - LowWater dequeues    *)
(* away.                                                                    *)
THEOREM TransportOneResyncPerDrain == TransportSpec => OneResyncPerDrain
<1>1. TransportInv => (OverflowResync => byteEpisode \/ taken >= MaxSize - LowWater)
    BY DEF TransportInv, DrainInv, OverflowResync
<1> QED BY <1>1, TransportCorrect, PTL DEF OneResyncPerDrain

-----------------------------------------------------------------------------
(* Between two sleeps the failure counter is either new or one above the    *)
(* ladder step slept last.  BackOff sets both, every other step leaves both *)
(* alone or restarts the counter; LadderClimbs needs it to say where the    *)
(* next sleep stands.                                                       *)
LadderInv == attempt = 0 \/ attempt = Clamp(delay + 1)

(* Clamping twice climbs no further than clamping once.                     *)
LEMMA ClampAgain ==
    ASSUME NEW n \in Nat
    PROVE  Clamp(Clamp(n) + 1) = Clamp(n + 1) /\ Clamp(Clamp(n)) = Clamp(n)
BY TransportAssumption DEF Clamp

(* Every step of the transport keeps the counter in step with the ladder.   *)
LEMMA LadderStep ==
    ASSUME TransportInv, LadderInv, [TransportNext]_transportVars
    PROVE  LadderInv'
<1>1. CASE \E n \in Nat : BackOff(n)
    BY <1>1, ClampAgain DEF BackOff, LadderInv
<1>2. CASE ConnectionFails \/ ConnectionCloses
    <2>1. attempt \in Nat
        BY TransportAssumption DEF TransportInv, TypeOK
    <2> QED BY <1>1, <1>2, <2>1 DEF ConnectionFails, ConnectionCloses
<1>3. CASE Start
    BY <1>3 DEF Start, LadderInv
<1>4. CASE \/ Connected \/ StaysUp \/ Retry \/ AuthRejected \/ StopBegin \/ StopEnd
          \/ Consumer \/ Inbound \/ UNCHANGED transportVars
    <2>1. UNCHANGED <<attempt, delay>>
        BY <1>4 DEF Connected, StaysUp, Retry, AuthRejected, StopBegin, StopEnd, Consumer,
               NextIteration, GetterTake, Yield, EndOfStream, Inbound, RecvEnvelope,
               RecvReplayLost, connVars, transportVars
    <2> QED BY <2>1 DEF LadderInv, Clamp
<1> QED BY <1>2, <1>3, <1>4 DEF TransportNext, Reader, Caller

(* A sleep that follows another one is one step up the ladder.              *)
LEMMA LadderSleeps ==
    TransportInv /\ LadderInv /\ [TransportNext]_transportVars =>
        (readTask' = "backoff" /\ readTask # "backoff" =>
           \/ healthy
           \/ attempt = 0
           \/ delay' = Clamp(delay + 1))
<1> SUFFICES ASSUME TransportInv, LadderInv, [TransportNext]_transportVars,
                    readTask' = "backoff", readTask # "backoff", ~healthy, attempt # 0
             PROVE  delay' = Clamp(delay + 1)
    OBVIOUS
<1>1. BackOff(attempt)
    BY DEF TransportNext, Reader, Caller, Connected, StaysUp, ConnectionFails,
           ConnectionCloses, Retry, AuthRejected, Start, StopBegin, StopEnd, Consumer,
           NextIteration, GetterTake, Yield, EndOfStream, Inbound, RecvEnvelope,
           RecvReplayLost, connVars, transportVars
<1>2. delay \in Nat /\ delay + 1 \in Nat
    BY TransportAssumption DEF TransportInv, TypeOK
<1>3. attempt = Clamp(delay + 1)
    BY DEF LadderInv
<1> QED BY <1>1, <1>2, <1>3, ClampAgain DEF BackOff

(* _run_forever and _backoff_delay: for every length of the ladder, the     *)
(* sleeps between two healthy connections climb one step at a time up to    *)
(* the last and stay there.                                                 *)
THEOREM TransportLadderClimbs == TransportSpec => LadderClimbs
<1>1. TransportInit => LadderInv
    BY DEF TransportInit, LadderInv
<1>2. TransportInv /\ LadderInv /\ [TransportNext]_transportVars => LadderInv'
    BY LadderStep
<1> QED BY <1>1, <1>2, LadderSleeps, TransportCorrect, PTL DEF TransportSpec, LadderClimbs
=============================================================================
