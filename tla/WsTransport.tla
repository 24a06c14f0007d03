----------------------------- MODULE WsTransport -----------------------------
(***************************************************************************)
(* The WebSocket transport of the client: the reader task with its         *)
(* reconnect ladder, the resume cursor, the bounded envelope queue with    *)
(* its byte budget and overflow latch, and the consumer that iterates      *)
(* events().  Source: openccu_loom_client/transport/ws.py.                 *)
(*                                                                         *)
(* All code runs on one asyncio loop, so an action is the code between two *)
(* suspension points.  events() suspends between queue.get() taking an     *)
(* envelope and the bookkeeping for it, hence the two steps GetterTake and *)
(* Yield.  The frames the daemon sends are free inputs here; EventSync     *)
(* closes the loop with a daemon.                                          *)
(***************************************************************************)
EXTENDS Integers, Sequences

CONSTANTS
    MaxSize,     \* _ENVELOPE_QUEUE_MAXSIZE: envelopes the queue holds
    MaxBytes,    \* _ENVELOPE_QUEUE_MAX_BYTES: bytes the queue holds
    FrameSizes,  \* lengths an inbound envelope frame may have
    SeqNos,      \* sequence numbers the daemon may stamp on an envelope
    Payloads,    \* contents of an envelope; opaque to the transport
    NoSeq,       \* None: an envelope without a seq, or a cursor never set
    LadderLen,   \* number of steps in _RECONNECT_BACKOFF
    MaxStarts    \* bound: how often start() spawns the reader

ASSUME TransportAssumption ==
    /\ MaxSize \in Nat \ {0}
    /\ MaxBytes \in Nat
    /\ FrameSizes \subseteq Nat
    /\ SeqNos \subseteq Nat
    /\ NoSeq \notin Nat
    /\ LadderLen \in Nat \ {0}
    /\ MaxStarts \in Nat \ {0}

VARIABLES
    readTask,     \* where _run_forever is
    attempt,      \* its failure counter, saturated where the ladder clamps
    delay,        \* ladder step of the current or last backoff sleep
    healthy,      \* this connection has been up _HEALTHY_CONNECTION_SECONDS
    closing,      \* _closing
    stopped,      \* _stopped
    reported,     \* _reported_connected
    starts,       \* bound counter for start()
    lastSeq,      \* _last_seq
    queue,        \* _envelope_queue
    sizes,        \* _envelope_sizes
    queuedBytes,  \* _queued_bytes
    overflowing,  \* _overflowing
    consumer,     \* where the iteration of events() is
    held,         \* envelopes a finished getter task took, not yet yielded
    leaked,       \* history: envelopes taken and then abandoned by the end
    taken,        \* history: getter takes since the latch was set (saturated)
    byteEpisode   \* history: the last episode was opened by the byte budget

connVars  == <<readTask, attempt, delay, healthy, closing, stopped, reported, starts>>
queueVars == <<queue, sizes, queuedBytes>>
latchVars == <<overflowing, taken, byteEpisode>>
consVars  == <<consumer, held, leaked>>
transportVars == <<connVars, lastSeq, queueVars, latchVars, consVars>>

(***************************************************************************)
(* An envelope keeps the length of the frame it was parsed from.           *)
(***************************************************************************)
Envelope == [seq : SeqNos \cup {NoSeq}, size : FrameSizes, payload : Payloads]

LowWater == MaxSize \div 2

(* _backoff_delay: the ladder clamps to its last entry.  The jitter moves   *)
(* the delay within the step and is left out.                               *)
Clamp(n) == IF n < LadderLen - 1 THEN n ELSE LadderLen - 1

TransportInit ==
    /\ readTask = "none"
    /\ attempt = 0
    /\ delay = 0
    /\ healthy = FALSE
    /\ closing = FALSE
    /\ stopped = FALSE
    /\ reported = FALSE
    /\ starts = 0
    /\ lastSeq = NoSeq
    /\ queue = <<>>
    /\ sizes = <<>>
    /\ queuedBytes = 0
    /\ overflowing = FALSE
    /\ consumer = "off"
    /\ held = <<>>
    /\ leaked = 0
    /\ taken = MaxSize
    /\ byteEpisode = FALSE

-----------------------------------------------------------------------------
(***************************************************************************)
(* Lifecycle and reconnect loop.                                           *)
(***************************************************************************)

(* start(): a no-op while the reader task lives.  The queue, the cursor and *)
(* the latch of an earlier run are kept.                                    *)
Start ==
    /\ readTask \in {"none", "done"}
    /\ starts < MaxStarts
    /\ starts' = starts + 1
    /\ closing' = FALSE
    /\ stopped' = FALSE
    /\ readTask' = "connecting"
    /\ attempt' = 0
    /\ healthy' = FALSE
    /\ UNCHANGED <<delay, reported, lastSeq, queueVars, latchVars, consVars>>

(* _open_and_read up to the read loop: the upgrade succeeds, the subscribe  *)
(* frame goes out with the cursor, then the state is reported.              *)
Connected ==
    /\ readTask = "connecting"
    /\ readTask' = "open"
    /\ reported' = TRUE
    /\ UNCHANGED <<attempt, delay, healthy, closing, stopped, starts,
                   lastSeq, queueVars, latchVars, consVars>>

(* The clock of this attempt passes _HEALTHY_CONNECTION_SECONDS.            *)
StaysUp ==
    /\ readTask = "open"
    /\ ~healthy
    /\ healthy' = TRUE
    /\ UNCHANGED <<readTask, attempt, delay, closing, stopped, reported, starts,
                   lastSeq, queueVars, latchVars, consVars>>

(* Mutants: the ladder index is not clamped; the drop is not reported.      *)
BackOff_Unclamped(n) ==
    /\ readTask' = "backoff"
    /\ delay' = n
    /\ attempt' = n + 1
    /\ reported' = FALSE
    /\ n <= LadderLen
    /\ UNCHANGED <<healthy, closing, stopped, starts,
                   lastSeq, queueVars, latchVars, consVars>>

(* The tail of one turn of _run_forever: sleep the step for n failures.     *)
BackOff(n) ==
    /\ readTask' = "backoff"
    /\ delay' = Clamp(n)
    /\ attempt' = Clamp(n + 1)
    /\ reported' = FALSE
    /\ UNCHANGED <<healthy, closing, stopped, starts,
                   lastSeq, queueVars, latchVars, consVars>>

(* The connect raised, or the read loop raised: ping deadline, ERROR frame, *)
(* a pong that could not be sent.  Any such end counts as a failure.        *)
ConnectionFails ==
    /\ readTask \in {"connecting", "open"}
    /\ BackOff(attempt)

(* Mutant: any clean close resets the ladder.                               *)
ConnectionCloses_AlwaysReset == readTask = "open" /\ BackOff(0)

(* The read loop returned: the daemon closed the socket.  The ladder is     *)
(* reset only when the connection had stayed up.                            *)
ConnectionCloses ==
    /\ readTask = "open"
    /\ BackOff(IF healthy THEN 0 ELSE attempt)

Retry ==
    /\ readTask = "backoff"
    /\ readTask' = "connecting"
    /\ healthy' = FALSE
    /\ UNCHANGED <<attempt, delay, closing, stopped, reported, starts,
                   lastSeq, queueVars, latchVars, consVars>>

(* The handshake was answered 401/403, or the box gate refused the token:   *)
(* the loop ends and unblocks the consumer.                                 *)
AuthRejected ==
    /\ readTask = "connecting"
    /\ readTask' = "done"
    /\ reported' = FALSE
    /\ stopped' = TRUE
    /\ UNCHANGED <<attempt, delay, healthy, closing, starts,
                   lastSeq, queueVars, latchVars, consVars>>

(* stop(), up to its first suspension and past its last one.  In between    *)
(* the socket closes and the reader is cancelled; the consumer still runs.  *)
StopBegin ==
    /\ readTask \notin {"none", "stopping"}
    /\ closing' = TRUE
    /\ readTask' = "stopping"
    /\ UNCHANGED <<attempt, delay, healthy, stopped, reported, starts,
                   lastSeq, queueVars, latchVars, consVars>>

StopEnd ==
    /\ readTask = "stopping"
    /\ readTask' = "none"
    /\ reported' = FALSE
    /\ stopped' = TRUE
    /\ UNCHANGED <<attempt, delay, healthy, closing, starts,
                   lastSeq, queueVars, latchVars, consVars>>

-----------------------------------------------------------------------------
(***************************************************************************)
(* Inbound frames.                                                         *)
(***************************************************************************)

(* The cursor keeps the highest seq seen.                                   *)
Advance(seq) ==
    IF seq # NoSeq /\ (lastSeq = NoSeq \/ seq > lastSeq) THEN seq ELSE lastSeq

(* Mutant: the budget is compared before the frame is added to it.          *)
OverBytes_BeforeAdd(size) == queuedBytes > MaxBytes + 0 * size

OverBytes(size) == queuedBytes + size > MaxBytes
QueueFull == Len(queue) >= MaxSize

(* _register_overflow: the envelope is dropped; the first drop sets the     *)
(* latch and calls the resync callback.                                     *)
RegisterOverflow(byBytes) ==
    /\ overflowing' = TRUE
    /\ taken' = IF overflowing THEN taken ELSE 0
    /\ byteEpisode' = IF overflowing THEN byteEpisode ELSE byBytes
    /\ UNCHANGED queueVars

(* The resync callback of the overflow path runs in exactly these steps.    *)
OverflowResync == ~overflowing /\ overflowing'

Enqueue(e) ==
    /\ queue' = Append(queue, e)
    /\ sizes' = Append(sizes, e.size)
    /\ queuedBytes' = queuedBytes + e.size
    /\ UNCHANGED latchVars

(* _handle_text for a well-formed envelope: the cursor moves before the     *)
(* envelope is queued or dropped.                                           *)
RecvEnvelope(e) ==
    /\ readTask = "open"
    /\ lastSeq' = Advance(e.seq)
    /\ IF OverBytes(e.size) \/ QueueFull
         THEN RegisterOverflow(OverBytes(e.size))
         ELSE Enqueue(e)
    /\ UNCHANGED <<connVars, consVars>>

(* _handle_control("replay_lost"): the cursor is re-anchored on the oldest  *)
(* seq the daemon named, or dropped when the frame named none; the resync   *)
(* callback runs unconditionally.                                           *)
RecvReplayLost(oldest) ==
    /\ readTask = "open"
    /\ lastSeq' = oldest
    /\ UNCHANGED <<connVars, queueVars, latchVars, consVars>>

-----------------------------------------------------------------------------
(***************************************************************************)
(* The consumer: one iteration of events() after another.                  *)
(***************************************************************************)

(* events() is called, or resumed after its body: leave when stopped, else  *)
(* spawn the next queue.get().                                              *)
NextIteration ==
    /\ consumer \in {"off", "ended", "body"}
    /\ consumer' = IF stopped THEN "ended" ELSE "get"
    /\ UNCHANGED <<held, leaked, connVars, lastSeq, queueVars, latchVars>>

(* The getter task runs: the envelope has left the queue, its size has not  *)
(* left the tally.                                                          *)
GetterTake ==
    /\ consumer = "get"
    /\ queue # <<>>
    /\ consumer' = "got"
    /\ held' = <<Head(queue)>>
    /\ queue' = Tail(queue)
    /\ taken' = IF taken < MaxSize THEN taken + 1 ELSE taken
    /\ UNCHANGED <<sizes, queuedBytes, overflowing, byteEpisode, leaked, connVars, lastSeq>>

(* Mutant: no collection while the latch is set.                            *)
PopSize_NotInEpisode ==
    IF sizes = <<>> \/ overflowing
      THEN UNCHANGED <<sizes, queuedBytes>>
      ELSE /\ queuedBytes' = queuedBytes - Head(sizes)
           /\ sizes' = Tail(sizes)

(* One size leaves the tally.                                               *)
PopSize ==
    IF sizes = <<>>
      THEN UNCHANGED <<sizes, queuedBytes>>
      ELSE /\ queuedBytes' = queuedBytes - Head(sizes)
           /\ sizes' = Tail(sizes)

(* Mutant: any dequeue ends the episode.                                    *)
ClearLatch_Eager == overflowing' = FALSE

(* The latch is cleared once the backlog is down to the low-watermark.      *)
ClearLatch == overflowing' = (overflowing /\ Len(queue) > LowWater)

(* events() resumes with the getter's envelope, does its bookkeeping and    *)
(* hands the envelope to the body of the loop.                              *)
Yield ==
    /\ consumer = "got"
    /\ consumer' = "body"
    /\ held' = <<>>
    /\ PopSize
    /\ ClearLatch
    /\ UNCHANGED <<queue, taken, byteEpisode, leaked, connVars, lastSeq>>

(* events() resumes with the stop-waiter done: it returns, and an envelope  *)
(* that the getter had already taken goes with it, its size uncollected.    *)
EndOfStream ==
    /\ consumer \in {"get", "got"}
    /\ stopped
    /\ consumer' = "ended"
    /\ held' = <<>>
    /\ leaked' = leaked + Len(held)
    /\ UNCHANGED <<connVars, lastSeq, queueVars, latchVars>>

-----------------------------------------------------------------------------
Reader ==
    \/ Connected \/ StaysUp \/ ConnectionFails \/ ConnectionCloses \/ Retry
    \/ AuthRejected

Caller == Start \/ StopBegin \/ StopEnd

Consumer == NextIteration \/ GetterTake \/ Yield \/ EndOfStream

Inbound ==
    \/ \E e \in Envelope : RecvEnvelope(e)
    \/ \E oldest \in SeqNos \cup {NoSeq} : RecvReplayLost(oldest)

TransportNext == Reader \/ Caller \/ Consumer \/ Inbound

(***************************************************************************)
(* The event loop runs every ready task: the consumer and stop() progress, *)
(* and a backoff sleep ends.  Nothing is assumed of the daemon.            *)
(***************************************************************************)
TransportFairness ==
    /\ WF_transportVars(NextIteration)
    /\ WF_transportVars(GetterTake)
    /\ WF_transportVars(Yield \/ EndOfStream)
    /\ WF_transportVars(StopEnd)
    /\ WF_transportVars(Retry)

TransportSpec == TransportInit /\ [][TransportNext]_transportVars /\ TransportFairness

-----------------------------------------------------------------------------
(* Every variable stays in its type.                                        *)
TypeOK ==
    /\ readTask \in {"none", "connecting", "open", "backoff", "stopping", "done"}
    /\ attempt \in 0 .. LadderLen - 1
    /\ delay \in 0 .. LadderLen - 1
    /\ healthy \in BOOLEAN
    /\ closing \in BOOLEAN
    /\ stopped \in BOOLEAN
    /\ reported \in BOOLEAN
    /\ starts \in 0 .. MaxStarts
    /\ lastSeq \in SeqNos \cup {NoSeq}
    /\ queue \in Seq(Envelope)
    /\ sizes \in Seq(FrameSizes)
    /\ queuedBytes \in Int
    /\ overflowing \in BOOLEAN
    /\ consumer \in {"off", "get", "got", "body", "ended"}
    /\ held \in Seq(Envelope)
    /\ leaked \in Nat
    /\ taken \in 0 .. MaxSize
    /\ byteEpisode \in BOOLEAN

(* The queue never holds more envelopes, and never accounts for more bytes, *)
(* than its two ceilings, however reader and consumer interleave            *)
(* (_handle_text, events()).                                                *)
QueueBounded ==
    /\ Len(queue) <= MaxSize
    /\ queuedBytes <= MaxBytes

(* The size tally covers exactly the queued envelopes, the one a getter has *)
(* taken but events() has not yet seen, and those abandoned at the end of   *)
(* a stream: reader append and consumer popleft never slip otherwise.       *)
TallyCovers ==
    /\ Len(sizes) = Len(queue) + Len(held) + leaked
    /\ Len(held) = (IF consumer = "got" THEN 1 ELSE 0)

(* An overflow episode opened by a full queue fires its one resync, and the *)
(* next resync of the overflow path is at least MaxSize - LowWater          *)
(* dequeues away: a flood cannot re-fire it per dropped event.              *)
OneResyncPerDrain ==
    [][OverflowResync => byteEpisode \/ taken >= MaxSize - LowWater]_transportVars

(* The backoff ladder: between two sleeps the step only climbs (or stays at *)
(* the clamp), unless a connection in between stayed up and was closed      *)
(* cleanly, or start() began anew.                                          *)
LadderClimbs ==
    [][readTask' = "backoff" /\ readTask # "backoff" =>
         \/ healthy
         \/ attempt = 0
         \/ delay' = Clamp(delay + 1)]_transportVars
=============================================================================
