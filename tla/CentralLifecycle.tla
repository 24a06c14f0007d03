--------------------------- MODULE CentralLifecycle ---------------------------
(***************************************************************************)
(* The lifecycle state of the compat central: start() and stop(), the      *)
(* connection and credential events of the transport, the grace window of  *)
(* a disconnect, and what Home Assistant is told of it all.                *)
(* Sources: compat/aiohomematic/central/adapter.py, hub_coordinator.py.    *)
(*                                                                         *)
(* `link` is what the transport last reported.  The transport awaits its   *)
(* callback, so while the handler is still telling HA about a connect it   *)
(* reports nothing further.                                                *)
(***************************************************************************)
EXTENDS Integers

CONSTANTS
    MaxDrops,    \* bound: disconnects
    MaxPushes    \* bound: daemon_status pushes

ASSUME LifecycleAssumption == MaxDrops \in Nat /\ MaxPushes \in Nat

VARIABLES
    state,      \* LoomCentral._state
    phase,      \* how far start() or stop() is
    link,       \* "down" | "up" | "refused"
    grace,      \* _degraded_task sleeps
    telling,    \* state a half-done _apply_connection_state will announce
    told,       \* new_state of the last CentralStateChangedEvent, or "none"
    sensor,     \* the daemon-connection data point
    drops,      \* bound counter
    pushes,     \* bound counter
    overwritten,\* history: start() replaced a Degraded state
    muted       \* history: the credential was rejected

lifecycleVars == <<state, phase, link, grace, telling, told, sensor, drops, pushes,
                   overwritten, muted>>
startVars == <<phase, overwritten>>
haVars    == <<told, sensor>>

(* phase: off, starting, subscribed, done, stopping, closing, stopped.      *)
(* The handlers of the refresh group are subscribed.                        *)
Listening == phase \in {"subscribed", "done", "stopping"}

LifecycleInit ==
    /\ state = "Stopped"
    /\ phase = "off"
    /\ link = "down"
    /\ grace = FALSE
    /\ telling = "none"
    /\ told = "none"
    /\ sensor = TRUE
    /\ drops = 0
    /\ pushes = 0
    /\ overwritten = FALSE
    /\ muted = FALSE

-----------------------------------------------------------------------------
(***************************************************************************)
(* start() and stop().                                                     *)
(***************************************************************************)

(* Connected to REST; the southbound wait and the bootstrap follow.         *)
StartBegins ==
    /\ phase = "off"
    /\ phase' = "starting"
    /\ state' = "Starting"
    /\ UNCHANGED <<link, grace, telling, haVars, drops, pushes, overwritten, muted>>

(* The stream is opened and the handlers are subscribed, with no suspension *)
(* point in between.                                                        *)
StreamOpens ==
    /\ phase = "starting"
    /\ phase' = "subscribed"
    /\ UNCHANGED <<state, link, grace, telling, haVars, drops, pushes, overwritten, muted>>

(* The announcement and the inbox read are through: Running, whatever the   *)
(* handlers have set meanwhile.                                             *)
StartEnds ==
    /\ phase = "subscribed"
    /\ phase' = "done"
    /\ state' = "Running"
    /\ overwritten' = (state = "Degraded")
    /\ UNCHANGED <<link, grace, telling, haVars, drops, pushes, muted>>

(* start() failed, or the owner stops the central.  The background tasks    *)
(* are cancelled first, with the handlers still subscribed.                 *)
StopBegins ==
    /\ phase \in {"starting", "subscribed", "done"}
    /\ phase' = "stopping"
    /\ UNCHANGED <<state, link, grace, telling, haVars, drops, pushes, overwritten, muted>>

(* The group is cancelled and the pending degrade task with it, unless it   *)
(* is done; a handler that is telling HA goes on.                           *)
HandlersCancelled ==
    /\ phase = "stopping"
    /\ phase' = "closing"
    /\ grace' = FALSE
    /\ telling' = IF telling = "Degraded" THEN "none" ELSE telling
    /\ UNCHANGED <<state, link, haVars, drops, pushes, overwritten, muted>>

(* Held devices and client are closed; the reader is gone.                  *)
StopEnds ==
    /\ phase = "closing"
    /\ phase' = "stopped"
    /\ state' = "Stopped"
    /\ link' = "down"
    /\ telling' = "none"
    /\ UNCHANGED <<grace, haVars, drops, pushes, overwritten, muted>>

-----------------------------------------------------------------------------
(***************************************************************************)
(* Connection and credential events, on the reader task.                   *)
(***************************************************************************)
Terminal == state = "Stopped"

(* Mutant: only the way back is published.                                  *)
Apply_OnlyBack(new) ==
    IF state = new THEN telling' = "none" /\ UNCHANGED <<state, sensor>>
    ELSE /\ state' = new
         /\ sensor' = (new = "Running")
         /\ telling' = IF new = "Running" THEN new ELSE "none"

(* _apply_connection_state up to its first publish: nothing if the state is *)
(* the same already.                                                        *)
Apply(new) ==
    IF state = new THEN telling' = "none" /\ UNCHANGED <<state, sensor>>
    ELSE /\ state' = new
         /\ sensor' = (new = "Running")
         /\ telling' = new

(* A connect: cancel the pending report, then announce at once.             *)
LinkUp ==
    /\ link = "down" /\ telling # "Running"
    /\ phase \in {"subscribed", "done", "stopping", "closing"}
    /\ link' = "up"
    /\ IF Listening /\ ~Terminal
         THEN grace' = FALSE /\ Apply("Running")
         ELSE UNCHANGED <<grace, state, sensor, telling>>
    /\ UNCHANGED <<startVars, told, drops, pushes, muted>>

(* Mutant: a disconnect is only noted while nothing is pending.             *)
LinkDown_NoTimer ==
    /\ link = "up" /\ telling # "Running"
    /\ drops < MaxDrops
    /\ drops' = drops + 1
    /\ link' = "down"
    /\ UNCHANGED <<grace, telling, state, sensor, startVars, told, pushes, muted>>

(* A disconnect: a new grace window, superseding a pending report.          *)
LinkDown ==
    /\ link = "up" /\ telling # "Running"
    /\ drops < MaxDrops
    /\ drops' = drops + 1
    /\ link' = "down"
    /\ IF Listening /\ ~Terminal
         THEN grace' = TRUE /\ telling' = "none"
         ELSE UNCHANGED <<grace, telling>>
    /\ UNCHANGED <<state, sensor, startVars, told, pushes, muted>>

(* The window is over: report the disconnect, unless the central stopped.   *)
GraceElapses ==
    /\ grace
    /\ grace' = FALSE
    /\ IF Terminal THEN UNCHANGED <<state, sensor, telling>> ELSE Apply("Degraded")
    /\ UNCHANGED <<startVars, link, told, drops, pushes, muted>>

(* The CentralStateChangedEvent goes out.                                   *)
Tell ==
    /\ telling # "none"
    /\ told' = telling
    /\ telling' = "none"
    /\ UNCHANGED <<startVars, state, link, grace, sensor, drops, pushes, muted>>

(* A reconnect attempt is refused: the reader gives up, Degraded.           *)
CredentialRefused ==
    /\ link = "down" /\ Listening
    /\ link' = "refused"
    /\ muted' = TRUE
    /\ state' = IF Terminal THEN state ELSE "Degraded"
    /\ UNCHANGED <<startVars, grace, telling, haVars, drops, pushes>>

(* reauth_failed on the open connection: Degraded; the daemon will close.   *)
ReauthRefused ==
    /\ link = "up" /\ telling # "Running" /\ Listening
    /\ drops < MaxDrops
    /\ muted' = TRUE
    /\ state' = IF Terminal THEN state ELSE "Degraded"
    /\ UNCHANGED <<startVars, link, grace, telling, haVars, drops, pushes>>

-----------------------------------------------------------------------------
(***************************************************************************)
(* The other writers of the daemon-connection data point.                  *)
(***************************************************************************)

(* daemon_status.changed: a shutdown is announced, or an online.            *)
DaemonStatusPush ==
    /\ link = "up" /\ Listening
    /\ pushes < MaxPushes
    /\ pushes' = pushes + 1
    /\ sensor' \in BOOLEAN
    /\ UNCHANGED <<startVars, state, link, grace, telling, told, drops, muted>>

(* The reconcile loop, every five minutes: an answer means the daemon runs. *)
HubReconcile ==
    /\ phase = "done"
    /\ sensor' = TRUE
    /\ UNCHANGED <<startVars, state, link, grace, telling, told, drops, pushes, muted>>

-----------------------------------------------------------------------------
LifecycleNext ==
    \/ StartBegins \/ StreamOpens \/ StartEnds
    \/ StopBegins \/ HandlersCancelled \/ StopEnds
    \/ LinkUp \/ LinkDown \/ GraceElapses \/ Tell
    \/ CredentialRefused \/ ReauthRefused
    \/ DaemonStatusPush \/ HubReconcile

(* Timers fire, coroutines that wait for nothing but the loop are resumed,  *)
(* and the reconcile loop comes round.                                      *)
LifecycleFairness ==
    /\ WF_lifecycleVars(StartEnds)
    /\ WF_lifecycleVars(HandlersCancelled) /\ WF_lifecycleVars(StopEnds)
    /\ WF_lifecycleVars(GraceElapses) /\ WF_lifecycleVars(Tell)
    /\ WF_lifecycleVars(HubReconcile)

LifecycleSpec == LifecycleInit /\ [][LifecycleNext]_lifecycleVars /\ LifecycleFairness

-----------------------------------------------------------------------------
(* The started central with nothing pending.                                *)
Settled == phase = "done" /\ ~grace /\ telling = "none"

(* Once settled the state follows the stream and HA has been told of it     *)
(* (or needs not be: start() ends in Running), unless a credential was      *)
(* rejected or start() ran over a Degraded.  A stopped central stays        *)
(* stopped, whatever was in flight when stop() ran; and while HA is about   *)
(* to be told Degraded the stream has not come back: a flap inside the      *)
(* grace window is never reported.                                          *)
StateFollowsStream ==
    /\ Settled /\ ~overwritten /\ ~muted =>
        /\ (link = "up") => state = "Running"
        /\ (state = "Degraded") => link = "down" /\ told = "Degraded"
        /\ (state = "Running") => told # "Degraded"
    /\ phase = "stopped" => state = "Stopped" /\ ~grace
    /\ (grace \/ telling = "Degraded") /\ phase = "done" => link # "up"

(* A lasting outage of a running central is reported once the grace window  *)
(* is over: Degraded, and HA told of it.                                    *)
OutageIsReported ==
    (phase = "done" /\ ~overwritten /\ state = "Running" /\ link = "down" /\ drops > 0)
        ~> (\/ link # "down" \/ phase # "done" \/ muted
            \/ state = "Degraded" /\ told = "Degraded")
=============================================================================
