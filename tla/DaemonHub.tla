------------------------------ MODULE DaemonHub ------------------------------
(***************************************************************************)
(* EXTERNAL: the daemon's event hub as the client relies on it (ws.py      *)
(* module docstring and _handle_control, notes/reconnect-recovery.md B4    *)
(* and D1-D2).  It stamps every broadcast with a seq that restarts with    *)
(* the process, keeps the last RingSize broadcasts, and answers a          *)
(* subscribe that carries `since` with the events after it, or with        *)
(* replay_lost when it cannot.                                             *)
(***************************************************************************)
EXTENDS Integers, Sequences

CONSTANTS
    Keys,         \* values the daemon mirrors from the CCU
    RingSize,     \* broadcasts the replay ring holds
    MaxChanges,   \* bound: changes of a value
    MaxRestarts,  \* bound: restarts of the daemon process
    MaxReloads,   \* bound: re-pulls of the CCU announced by SignalResync
    NoSince       \* a subscribe frame without `since`

VARIABLES
    live,      \* the daemon's value per key, as the number of its change
    changes,   \* changes so far
    epoch,     \* restarts so far
    reloads,   \* re-pulls so far
    top,       \* seq of the last broadcast of this process
    ring,      \* the replay ring
    session,   \* the client's connection as the hub sees it
    since,     \* cursor of the subscribe frame in flight
    wire       \* frames in flight to the client, in order

hubVars == <<live, changes, epoch, reloads, top, ring, session, since, wire>>

HubInit ==
    /\ live = [k \in Keys |-> 0]
    /\ changes = 0
    /\ epoch = 0
    /\ reloads = 0
    /\ top = 0
    /\ ring = <<>>
    /\ session = "none"
    /\ since = NoSince
    /\ wire = <<>>

EventFrame(e) == [op |-> "event", event |-> e]
LostFrame(oldest) == [op |-> "replay_lost", oldest |-> oldest]

(* The oldest seq still in the ring; an empty ring anchors on the top.      *)
Oldest == IF ring = <<>> THEN top ELSE ring[1].seq

Push(r, e) == IF Len(r) < RingSize THEN Append(r, e) ELSE Append(Tail(r), e)

(* A value changes and is broadcast.                                        *)
Broadcast(k) ==
    /\ changes < MaxChanges
    /\ changes' = changes + 1
    /\ live' = [live EXCEPT ![k] = changes']
    /\ top' = top + 1
    /\ LET e == [seq |-> top', key |-> k, ver |-> changes']
       IN  /\ ring' = Push(ring, e)
           /\ wire' = IF session = "live" THEN Append(wire, EventFrame(e)) ELSE wire
    /\ UNCHANGED <<epoch, reloads, session, since>>

(* The daemon re-pulls the CCU: a value changes without a broadcast of its  *)
(* own, and SignalResync tells the connected client to resynchronise.       *)
Reload(k) ==
    /\ changes < MaxChanges
    /\ reloads < MaxReloads
    /\ session = "live"
    /\ changes' = changes + 1
    /\ reloads' = reloads + 1
    /\ live' = [live EXCEPT ![k] = changes']
    /\ wire' = Append(wire, LostFrame(Oldest))
    /\ UNCHANGED <<epoch, top, ring, session, since>>

Upgrade(cursor) ==
    /\ session = "none"
    /\ session' = "upgraded"
    /\ since' = cursor
    /\ UNCHANGED <<live, changes, epoch, reloads, top, ring, wire>>

(* The ring can serve the cursor: it is not from the future, and no event   *)
(* after it has aged out.                                                   *)
CanReplay == since <= top /\ top - since <= Len(ring)

(* The subscribe frame arrives.                                             *)
Serve ==
    /\ session = "upgraded"
    /\ session' = "live"
    /\ wire' = wire \o
         IF since = NoSince THEN <<>>
         ELSE IF CanReplay
           THEN LET old == Len(ring) - (top - since)
                IN  [i \in 1 .. top - since |-> EventFrame(ring[old + i])]
           ELSE <<LostFrame(Oldest)>>
    /\ since' = NoSince
    /\ UNCHANGED <<live, changes, epoch, reloads, top, ring>>

(* The connection breaks: everything in flight is lost.                     *)
Drop ==
    /\ session # "none"
    /\ session' = "none"
    /\ since' = NoSince
    /\ wire' = <<>>
    /\ UNCHANGED <<live, changes, epoch, reloads, top, ring>>

(* The process restarts: connections drop, the seq space starts over.       *)
Restart ==
    /\ epoch < MaxRestarts
    /\ epoch' = epoch + 1
    /\ top' = 0
    /\ ring' = <<>>
    /\ session' = "none"
    /\ since' = NoSince
    /\ wire' = <<>>
    /\ UNCHANGED <<live, changes, reloads>>
=============================================================================
