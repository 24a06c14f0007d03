------------------------------ MODULE EventSync ------------------------------
(***************************************************************************)
(* The event path end to end: daemon hub, WsTransport, the dispatch loop   *)
(* that applies pushes to the store, and LoomClient's re-bootstrap with    *)
(* its de-duplication and cooldown.  The question is when the store still  *)
(* mirrors the daemon once everything has come to rest.                    *)
(* Sources: transport/ws.py, client.py, store.py, bridge.py.               *)
(*                                                                         *)
(* A value is the number of the change that wrote it, so "older" is "<".   *)
(* The initial bootstrap has run (adapter.start bootstraps, then calls     *)
(* start_events); the stream is neither stopped nor refused here, which    *)
(* WsTransport covers.                                                     *)
(***************************************************************************)
EXTENDS WsTransport

CONSTANTS Keys, RingSize, MaxChanges, MaxRestarts, MaxReloads

(* The replay ring holds something.                                         *)
ASSUME SyncAssumption ==
    /\ RingSize \in Nat \ {0}
    /\ {MaxChanges, MaxRestarts, MaxReloads} \subseteq Nat

(* What the daemon sends is among the inputs of WsTransport; a frame that   *)
(* carries one value counts 1.                                              *)
ASSUME CarriesAssumption ==
    /\ 0 .. MaxChanges \subseteq SeqNos
    /\ [key : Keys, ver : 0 .. MaxChanges] \subseteq Payloads
    /\ 1 \in FrameSizes

VARIABLES
    live, changes, epoch, reloads, top, ring, session, since, wire,  \* DaemonHub
    store,        \* LoomStore: the value per key
    boot,         \* where _run_rebootstrap is
    snap,         \* the snapshot response in flight
    cooldown,     \* less than _REBOOTSTRAP_COOLDOWN_SECONDS since the last walk
    cursorEpoch,  \* history: daemon process that last moved the cursor
    subscribed,   \* history: a subscription has been served before
    anchored,     \* history: the last move of the cursor was a re-anchor
    drift         \* history: per reason, the keys it may have left stale

Hub == INSTANCE DaemonHub WITH NoSince <- NoSeq

hubVars    == <<live, changes, epoch, reloads, top, ring, session, since, wire>>
bootVars   == <<boot, snap, cooldown>>
cursorHist == <<cursorEpoch, anchored, subscribed>>
syncVars   == <<transportVars, hubVars, store, bootVars, cursorHist, drift>>

(***************************************************************************)
(* Why a key may be stale at rest:                                         *)
(*   start_gap   changed between the initial snapshot and the first        *)
(*               subscription, which carries no cursor                     *)
(*   no_cursor   lost in a later gap, before any event had set a cursor    *)
(*   overwritten a snapshot response was older than a push already applied *)
(*   backlog     a queued push was older than the snapshot already applied *)
(*   running     lost after the running walk had read its snapshot         *)
(*   cooldown    lost within the cooldown of the previous walk             *)
(*   latched     lost under an overflow latch that had fired already       *)
(*   failed      the walk failed, or a lost resync frame was not repeated  *)
(*   alias       the cursor of a dead process was valid in the new one     *)
(***************************************************************************)
Reasons == {"start_gap", "no_cursor", "overwritten", "backlog", "running", "cooldown",
            "latched", "failed", "alias"}

Blame(reason, keys) == drift' = [drift EXCEPT ![reason] = @ \cup keys]

SyncInit ==
    /\ TransportInit
    /\ Hub!HubInit
    /\ store = [k \in Keys |-> 0]
    /\ boot = "idle"
    /\ snap = [k \in Keys |-> 0]
    /\ cooldown = FALSE
    /\ cursorEpoch = 0
    /\ anchored = FALSE
    /\ subscribed = FALSE
    /\ drift = [r \in Reasons |-> {}]

-----------------------------------------------------------------------------
(***************************************************************************)
(* Daemon side.                                                            *)
(***************************************************************************)
DaemonBroadcasts ==
    /\ \E k \in Keys :
         /\ Hub!Broadcast(k)
         /\ IF session # "live" /\ lastSeq = NoSeq
              THEN Blame(IF subscribed THEN "no_cursor" ELSE "start_gap", {k})
              ELSE UNCHANGED drift
    /\ UNCHANGED <<transportVars, store, bootVars, cursorHist>>

DaemonReloads ==
    /\ \E k \in Keys : Hub!Reload(k)
    /\ UNCHANGED <<transportVars, store, bootVars, cursorHist, drift>>

(* History of a cut connection: the frames in flight are gone.  Events are  *)
(* recovered through the cursor, if there is one; a resync frame is not.    *)
CutBlame ==
    LET inFlight == {wire[i] : i \in 1 .. Len(wire)}
        events   == {f \in inFlight : f.op = "event"}
    IN  drift' = [drift EXCEPT
           !["no_cursor"] = @ \cup IF lastSeq = NoSeq THEN {f.event.key : f \in events} ELSE {},
           !["failed"]    = @ \cup IF events # inFlight THEN Keys ELSE {}]

DaemonRestarts ==
    /\ Hub!Restart
    /\ CutBlame
    /\ UNCHANGED <<transportVars, store, bootVars, cursorHist>>

DaemonServes ==
    /\ IF since # NoSeq /\ Hub!CanReplay /\ cursorEpoch # epoch
         THEN Blame("alias", Keys)
         ELSE UNCHANGED drift
    /\ Hub!Serve
    /\ subscribed' = TRUE
    /\ UNCHANGED <<transportVars, store, bootVars, cursorEpoch, anchored>>

-----------------------------------------------------------------------------
(***************************************************************************)
(* Connection.                                                             *)
(***************************************************************************)
StreamStarts ==
    /\ Start
    /\ UNCHANGED <<hubVars, store, bootVars, cursorHist, drift>>

(* Mutant: the subscribe frame omits the cursor.                            *)
Connects_NoCursor ==
    /\ Connected
    /\ Hub!Upgrade(NoSeq)
    /\ UNCHANGED <<store, bootVars, cursorHist, drift>>

(* The subscribe frame carries the cursor, when there is one.               *)
Connects ==
    /\ Connected
    /\ Hub!Upgrade(lastSeq)
    /\ UNCHANGED <<store, bootVars, cursorHist, drift>>

Disconnects ==
    /\ readTask = "open"
    /\ ConnectionFails
    /\ IF session = "none" THEN UNCHANGED <<hubVars, drift>> ELSE Hub!Drop /\ CutBlame
    /\ UNCHANGED <<store, bootVars, cursorHist>>

Reconnects ==
    /\ Retry
    /\ UNCHANGED <<hubVars, store, bootVars, cursorHist, drift>>

-----------------------------------------------------------------------------
(***************************************************************************)
(* LoomClient: scheduling and running the re-bootstrap.                    *)
(***************************************************************************)

(* _on_replay_lost: dropped while a walk runs, dropped in the cooldown,     *)
(* otherwise a walk is scheduled.                                           *)
OnReplayLost ==
    /\ boot' = IF boot = "idle" /\ ~cooldown THEN "asked" ELSE boot
    /\ UNCHANGED <<snap, cooldown>>

(* History of a loss: harmless when a walk has yet to read its snapshot.    *)
LossBlame(keys, fired) ==
    IF boot' = "asked" THEN UNCHANGED drift
    ELSE Blame(IF ~fired THEN "latched" ELSE IF boot # "idle" THEN "running" ELSE "cooldown",
               keys)

(* bootstrap(): the daemon reads its snapshot for the GET.                  *)
SnapshotRead ==
    /\ boot = "asked"
    /\ boot' = "answered"
    /\ snap' = live
    /\ UNCHANGED <<transportVars, hubVars, store, cooldown, cursorHist, drift>>

(* Mutant: the response fills unknown keys only.                            *)
SnapshotApplied_FillOnly ==
    /\ boot = "answered"
    /\ boot' = "hook"
    /\ store' = [k \in Keys |-> IF store[k] = 0 THEN snap[k] ELSE store[k]]
    /\ UNCHANGED <<transportVars, hubVars, snap, cooldown, cursorHist, drift>>

(* The response is attached to the store, whatever arrived meanwhile.       *)
SnapshotApplied ==
    /\ boot = "answered"
    /\ boot' = "hook"
    /\ store' = snap
    /\ Blame("overwritten", {k \in Keys : snap[k] < store[k]})
    /\ UNCHANGED <<transportVars, hubVars, snap, cooldown, cursorHist>>

(* Mutant: the response is attached once more when the hook has run.        *)
WalkEnds_AttachesAgain ==
    /\ boot = "hook"
    /\ boot' = "idle"
    /\ cooldown' = TRUE
    /\ store' = snap
    /\ UNCHANGED <<transportVars, hubVars, snap, cursorHist, drift>>

(* Alarm catalogue and re-bootstrap hook have run; the end is stamped.      *)
WalkEnds ==
    /\ boot = "hook"
    /\ boot' = "idle"
    /\ cooldown' = TRUE
    /\ UNCHANGED <<transportVars, hubVars, store, snap, cursorHist, drift>>

(* Mutant: the in-progress mark is reset on success only.                   *)
WalkFails_NoFinally ==
    /\ boot \in {"asked", "answered"}
    /\ boot' = "failed"
    /\ Blame("failed", Keys)
    /\ UNCHANGED <<transportVars, hubVars, store, snap, cooldown, cursorHist>>

(* A REST call of the walk raised: logged, swallowed, stamped.              *)
WalkFails ==
    /\ boot \in {"asked", "answered"}
    /\ boot' = "idle"
    /\ cooldown' = TRUE
    /\ Blame("failed", Keys)
    /\ UNCHANGED <<transportVars, hubVars, store, snap, cursorHist>>

CooldownEnds ==
    /\ cooldown
    /\ cooldown' = FALSE
    /\ UNCHANGED <<transportVars, hubVars, store, boot, snap, cursorHist, drift>>

-----------------------------------------------------------------------------
(***************************************************************************)
(* Frames and pushes.                                                      *)
(***************************************************************************)
Received == wire' = Tail(wire) /\ UNCHANGED <<live, changes, epoch, reloads, top, ring, session, since>>

EnvelopeOf(event) ==
    [seq |-> event.seq, size |-> 1, payload |-> [key |-> event.key, ver |-> event.ver]]

(* The reader handles a broadcast; an overflow may schedule a walk.         *)
ReceivesEvent ==
    /\ wire # <<>>
    /\ Head(wire).op = "event"
    /\ LET e == EnvelopeOf(Head(wire).event)
       IN  /\ RecvEnvelope(e)
           /\ IF OverflowResync THEN OnReplayLost ELSE UNCHANGED bootVars
           /\ IF queue' = queue THEN LossBlame({e.payload.key}, OverflowResync) ELSE UNCHANGED drift
    /\ IF lastSeq' # lastSeq
         THEN cursorEpoch' = epoch /\ anchored' = FALSE
         ELSE UNCHANGED <<cursorEpoch, anchored>>
    /\ Received
    /\ UNCHANGED <<store, subscribed>>

(* The reader handles replay_lost: re-anchor, then schedule a walk.         *)
ReceivesLost ==
    /\ wire # <<>>
    /\ Head(wire).op = "replay_lost"
    /\ RecvReplayLost(Head(wire).oldest)
    /\ OnReplayLost
    /\ LossBlame(Keys, TRUE)
    /\ cursorEpoch' = epoch
    /\ anchored' = TRUE
    /\ Received
    /\ UNCHANGED <<store, subscribed>>

(* The dispatch loop publishes the envelope, and the bridge applies it to   *)
(* the store without looking at the age of what it replaces.                *)
Dispatches ==
    /\ Yield
    /\ LET p == held[1].payload
       IN  /\ store' = [store EXCEPT ![p.key] = p.ver]
           /\ Blame("backlog", IF p.ver < store[p.key] THEN {p.key} ELSE {})
    /\ UNCHANGED <<hubVars, bootVars, cursorHist>>

ConsumerMoves ==
    /\ NextIteration \/ GetterTake
    /\ UNCHANGED <<hubVars, store, bootVars, cursorHist, drift>>

-----------------------------------------------------------------------------
SyncNext ==
    \/ DaemonBroadcasts \/ DaemonReloads \/ DaemonRestarts \/ DaemonServes
    \/ StreamStarts \/ Connects \/ Disconnects \/ Reconnects
    \/ SnapshotRead \/ SnapshotApplied \/ WalkEnds \/ WalkFails \/ CooldownEnds
    \/ ReceivesEvent \/ ReceivesLost \/ Dispatches \/ ConsumerMoves

(* The loop runs ready tasks, the daemon answers requests, the transport    *)
(* retries.  Broadcasts, restarts, cuts and failures are never forced.      *)
SyncFairness ==
    /\ WF_syncVars(DaemonServes)
    /\ WF_syncVars(StreamStarts) /\ WF_syncVars(Connects) /\ WF_syncVars(Reconnects)
    /\ WF_syncVars(SnapshotRead) /\ WF_syncVars(SnapshotApplied) /\ WF_syncVars(WalkEnds)
    /\ WF_syncVars(ReceivesEvent) /\ WF_syncVars(ReceivesLost)
    /\ WF_syncVars(Dispatches) /\ WF_syncVars(ConsumerMoves)

SyncSpec == SyncInit /\ [][SyncNext]_syncVars /\ SyncFairness

-----------------------------------------------------------------------------
(* Connected, subscribed, nothing in flight, nothing queued, no walk.       *)
AtRest ==
    /\ readTask = "open" /\ session = "live"
    /\ wire = <<>> /\ queue = <<>> /\ held = <<>>
    /\ boot = "idle"

StaleOnlyFor(reasons) ==
    AtRest => \A k \in Keys : store[k] = live[k] \/ \E r \in reasons : k \in drift[r]

(* At rest every value of the store is the daemon's, except where one of    *)
(* the nine named events left it stale: through disconnects, replays,      *)
(* daemon restarts, overflows and re-bootstraps there is no tenth way for   *)
(* LoomStore to drift from the daemon.                                      *)
DriftIsExplained == StaleOnlyFor(Reasons)

(* Unless the daemon announced a loss or restarted, the reader sees the     *)
(* broadcasts without gap and without repetition across reconnects: the     *)
(* cursor in the subscribe frame resumes exactly where it stopped.          *)
StreamContiguous ==
    [][wire # <<>> /\ wire' = Tail(wire) /\ readTask = "open" /\ readTask' = "open"
         /\ Head(wire).op = "event" /\ lastSeq # NoSeq /\ ~anchored /\ cursorEpoch = epoch
         => Head(wire).event.seq = lastSeq + 1]_syncVars

(* Seen from outside the store is a mirror of the daemon that lags: through *)
(* all of the above it shows nothing newer than the daemon, is written      *)
(* only while not at rest, and goes back on a key only where one of the     *)
(* named events did it (_run_rebootstrap, _bridge_event).                   *)
StaleKeys == {k \in Keys : \E r \in Reasons : k \in drift[r]}
Mirror == INSTANCE StoreMirror WITH stale <- StaleKeys, rest <- AtRest
MirrorsDaemon == Mirror!MirrorSpec

(* Once the daemon falls silent and the socket holds, the client comes to   *)
(* rest: resyncs, replays and walks do not feed one another forever         *)
(* (_on_replay_lost, _register_overflow).                                   *)
ComesToRest == <>[](readTask = "open" /\ session = "live") => <>[]AtRest

(* client.py: a running re-bootstrap "will subsume this loss".              *)
RunningWalkSubsumes == StaleOnlyFor(Reasons \ {"running"})
=============================================================================
