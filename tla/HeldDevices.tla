----------------------------- MODULE HeldDevices -----------------------------
(***************************************************************************)
(* HeldDeviceAnnouncer: which devices of the daemon's inbox Home Assistant *)
(* has been offered, when a nameless confirmation is declined, and the     *)
(* delayed re-sync that offers it again.  Three callers share sync() and   *)
(* its lock: the inbox push, the re-bootstrap hook and the re-sync timer.  *)
(* Sources: compat/aiohomematic/central/held_devices.py, adapter.py.       *)
(*                                                                         *)
(* Every address is on an interface of its own, which is the finest        *)
(* interleaving of sync()'s publishes.                                     *)
(***************************************************************************)
EXTENDS Integers, Sequences, FiniteSets

CONSTANTS
    Addresses,    \* device addresses
    MaxHolds,     \* bound: devices entering the inbox
    MaxGaps,      \* bound: losses of pushes
    MaxFailures,  \* bound: failing inbox reads
    MaxDeclines   \* bound: nameless confirmations

ASSUME HeldAssumption ==
    MaxHolds \in Nat /\ MaxGaps \in Nat /\ MaxFailures \in Nat /\ MaxDeclines \in Nat

Callers == {"push", "hook", "timer"}

VARIABLES
    inbox,       \* daemon: addresses with pending_creation
    heldPushes,     \* events on their way, in order
    announced,  \* _announced
    declined,   \* _declined
    timer,      \* _resync_task sleeps
    sync,       \* where each caller's sync() is
    offered,    \* HA: addresses with an open repair issue
    answering,  \* HA: nameless confirmations whose call waits for the inbox
    refusing,   \* those whose call found the address held: decline() follows
    closed,     \* stop() has closed the announcer
    bounds,     \* the bound counters
    excused     \* history: addresses a failed read may have left out, or a sync
                \* announced over their decline

daemonVars == <<inbox, heldPushes>>
setVars    == <<announced, declined>>
heldHaVars == <<offered, answering, refusing>>
heldVars   == <<daemonVars, setVars, timer, sync, heldHaVars, closed, bounds, excused>>

Idle == [pc |-> "idle"]

HeldInit ==
    /\ inbox = {}
    /\ heldPushes = <<>>
    /\ announced = {}
    /\ declined = {}
    /\ timer = FALSE
    /\ sync = [c \in Callers |-> Idle]
    /\ offered = {}
    /\ answering = {}
    /\ refusing = {}
    /\ closed = FALSE
    /\ bounds = [holds |-> 0, gaps |-> 0, failures |-> 0, declines |-> 0]
    /\ excused = {}

Spend(what, max) == bounds[what] < max /\ bounds' = [bounds EXCEPT ![what] = @ + 1]

-----------------------------------------------------------------------------
(***************************************************************************)
(* EXTERNAL: the daemon's inbox, and Home Assistant.                       *)
(***************************************************************************)
Inbox == [op |-> "inbox"]

DaemonHolds(a) ==
    /\ ~closed /\ a \notin inbox
    /\ Spend("holds", MaxHolds)
    /\ inbox' = inbox \cup {a}
    /\ heldPushes' = Append(heldPushes, Inbox)
    /\ UNCHANGED <<setVars, timer, sync, heldHaVars, closed, excused>>

(* Accepted with a name, or removed: device event first, inbox event next.  *)
DaemonFrees(a) ==
    /\ ~closed /\ a \in inbox
    /\ inbox' = inbox \ {a}
    /\ heldPushes' = heldPushes \o <<[op |-> "device", addr |-> a], Inbox>>
    /\ UNCHANGED <<setVars, timer, sync, heldHaVars, closed, bounds, excused>>

(* HA confirms an open issue without a name.                                *)
HaConfirms(a) ==
    /\ ~closed /\ a \in offered
    /\ Spend("declines", MaxDeclines)
    /\ offered' = offered \ {a}
    /\ answering' = answering \cup {a}
    /\ UNCHANGED <<daemonVars, setVars, timer, sync, refusing, closed, excused>>

-----------------------------------------------------------------------------
(***************************************************************************)
(* The announcer's operations.                                             *)
(***************************************************************************)

(* add_new_devices_manually reads the inbox; an address that is not held    *)
(* is not declined.                                                         *)
AnswerReads(a) ==
    /\ a \in answering
    /\ answering' = answering \ {a}
    /\ refusing' = refusing \cup ({a} \cap inbox)
    /\ UNCHANGED <<daemonVars, setVars, timer, sync, offered, closed, bounds, excused>>

(* Mutant: the timer is not scheduled.                                      *)
Decline_NoTimer(a) ==
    /\ a \in refusing
    /\ refusing' = refusing \ {a}
    /\ announced' = announced \ {a}
    /\ declined' = declined \cup {a}
    /\ UNCHANGED <<daemonVars, timer, sync, offered, answering, closed, bounds, excused>>

(* decline(): what the answer said, by now perhaps no longer true; the      *)
(* re-sync is scheduled unless it is pending.                               *)
Decline(a) ==
    /\ a \in refusing
    /\ refusing' = refusing \ {a}
    /\ announced' = announced \ {a}
    /\ declined' = declined \cup {a}
    /\ timer' = TRUE
    /\ UNCHANGED <<daemonVars, sync, offered, answering, closed, bounds, excused>>

(* The dispatch loop handles hub.inbox_changed: it awaits the sync.         *)
OnInboxChanged ==
    /\ ~closed /\ heldPushes # <<>> /\ Head(heldPushes) = Inbox
    /\ sync["push"] = Idle
    /\ heldPushes' = Tail(heldPushes)
    /\ sync' = [sync EXCEPT !["push"] = [pc |-> "waiting"]]
    /\ UNCHANGED <<inbox, setVars, timer, heldHaVars, closed, bounds, excused>>

(* device.created or device.removed: forget the address.  HA drops its      *)
(* issue on the same event.                                                 *)
OnDeviceArrivedOrLeft ==
    /\ ~closed /\ heldPushes # <<>> /\ Head(heldPushes).op = "device"
    /\ sync["push"] = Idle
    /\ heldPushes' = Tail(heldPushes)
    /\ LET a == Head(heldPushes).addr
       IN  /\ announced' = announced \ {a}
           /\ offered' = offered \ {a}
    /\ UNCHANGED <<inbox, declined, timer, sync, answering, refusing, closed, bounds, excused>>

(* The pushes are lost; the re-bootstrap that follows runs the hook.        *)
Rebootstrap ==
    /\ ~closed /\ heldPushes # <<>> /\ sync["hook"] = Idle
    /\ Spend("gaps", MaxGaps)
    /\ heldPushes' = <<>>
    /\ sync' = [sync EXCEPT !["hook"] = [pc |-> "waiting"]]
    /\ UNCHANGED <<inbox, setVars, timer, heldHaVars, closed, excused>>

(* The delay is over: the attribute is cleared, then sync() runs.           *)
TimerFires ==
    /\ timer /\ sync["timer"] = Idle
    /\ timer' = FALSE
    /\ sync' = [sync EXCEPT !["timer"] = [pc |-> "waiting"]]
    /\ UNCHANGED <<daemonVars, setVars, heldHaVars, closed, bounds, excused>>

-----------------------------------------------------------------------------
(***************************************************************************)
(* sync().                                                                 *)
(***************************************************************************)

TakesLock(c) ==
    /\ sync[c].pc = "waiting"
    /\ \A d \in Callers : sync[d].pc \in {"idle", "waiting"}
    /\ sync' = [sync EXCEPT ![c] = [pc |-> "reading"]]
    /\ UNCHANGED <<daemonVars, setVars, timer, heldHaVars, closed, bounds, excused>>

InboxRead(c) ==
    /\ sync[c].pc = "reading" /\ ~closed
    /\ sync' = [sync EXCEPT ![c] = [pc |-> "read", seen |-> inbox]]
    /\ UNCHANGED <<daemonVars, setVars, timer, heldHaVars, closed, bounds, excused>>

(* Mutant: a failed re-sync is not scheduled again.                         *)
InboxFails_NoRetry(c) ==
    /\ sync[c].pc = "reading"
    /\ IF closed THEN UNCHANGED bounds ELSE Spend("failures", MaxFailures)
    /\ sync' = [sync EXCEPT ![c] = Idle]
    /\ excused' = IF c = "timer" THEN excused ELSE Addresses
    /\ UNCHANGED <<daemonVars, setVars, timer, heldHaVars, closed>>

(* The read failed: only a re-sync with something declined tries again.     *)
InboxFails(c) ==
    /\ sync[c].pc = "reading"
    /\ IF closed THEN UNCHANGED bounds ELSE Spend("failures", MaxFailures)
    /\ sync' = [sync EXCEPT ![c] = Idle]
    /\ timer' = (timer \/ (c = "timer" /\ declined # {}))
    /\ excused' = IF c = "timer" THEN excused ELSE Addresses
    /\ UNCHANGED <<daemonVars, setVars, heldHaVars, closed>>

(* Publish the next address, marked announced first; when none is left the  *)
(* re-sync is cancelled unless something is declined.                       *)
Deliver(c, ann, dec, todo) ==
    IF todo = {}
      THEN /\ announced' = ann /\ declined' = dec
           /\ timer' = (timer /\ dec # {})
           /\ sync' = [sync EXCEPT ![c] = Idle]
           /\ UNCHANGED <<offered, excused>>
      ELSE \E a \in todo :
           /\ announced' = ann \cup {a} /\ declined' = dec
           /\ offered' = offered \cup {a}
           /\ sync' = [sync EXCEPT ![c] = [pc |-> "publishing", todo |-> todo \ {a}]]
           /\ excused' = excused \cup ({a} \cap dec)
           /\ UNCHANGED timer

(* Both sets are cut down to what is held; what is new is published.  Only  *)
(* the re-sync offers declined addresses again.                             *)
SyncApplies(c) ==
    /\ sync[c].pc = "read"
    /\ LET seen == sync[c].seen
           ann  == announced \cap seen
           dec  == declined \cap seen
           todo == seen \ (ann \cup IF c = "timer" THEN {} ELSE dec)
       IN  Deliver(c, ann, dec \ todo, todo)
    /\ UNCHANGED <<daemonVars, answering, refusing, closed, bounds>>

(* A publish has returned.                                                  *)
PublishReturns(c) ==
    /\ sync[c].pc = "publishing"
    /\ Deliver(c, announced, declined, sync[c].todo)
    /\ UNCHANGED <<daemonVars, answering, refusing, closed, bounds>>

(* stop(): handlers and re-bootstrap are cancelled, aclose() clears the     *)
(* declined set and cancels the timer; a re-sync past its delay goes on.    *)
Close ==
    /\ ~closed
    /\ closed' = TRUE
    /\ declined' = {}
    /\ timer' = FALSE
    /\ sync' = [sync EXCEPT !["push"] = Idle, !["hook"] = Idle]
    /\ answering' = {} /\ refusing' = {}
    /\ UNCHANGED <<daemonVars, announced, offered, bounds, excused>>

-----------------------------------------------------------------------------
HeldNext ==
    \/ \E a \in Addresses : DaemonHolds(a)
    \/ \E a \in Addresses : DaemonFrees(a)
    \/ \E a \in Addresses : HaConfirms(a)
    \/ \E a \in Addresses : AnswerReads(a)
    \/ \E a \in Addresses : Decline(a)
    \/ OnInboxChanged \/ OnDeviceArrivedOrLeft \/ Rebootstrap \/ TimerFires
    \/ \E c \in Callers : TakesLock(c)
    \/ \E c \in Callers : InboxRead(c)
    \/ \E c \in Callers : InboxFails(c)
    \/ \E c \in Callers : SyncApplies(c)
    \/ \E c \in Callers : PublishReturns(c)
    \/ Close

(* The loop runs what is ready, the lock is fair (asyncio.Lock is FIFO),    *)
(* the timer fires, and the daemon answers when a read is not failing.      *)
HeldFairness ==
    /\ WF_heldVars(OnInboxChanged) /\ WF_heldVars(OnDeviceArrivedOrLeft)
    /\ WF_heldVars(TimerFires)
    /\ \A a \in Addresses : WF_heldVars(AnswerReads(a)) /\ WF_heldVars(Decline(a))
    /\ \A c \in Callers : /\ SF_heldVars(TakesLock(c)) /\ WF_heldVars(InboxRead(c))
                          /\ WF_heldVars(SyncApplies(c)) /\ WF_heldVars(PublishReturns(c))

HeldSpec == HeldInit /\ [][HeldNext]_heldVars /\ HeldFairness

-----------------------------------------------------------------------------
AtRest == ~closed /\ heldPushes = <<>> /\ \A c \in Callers : sync[c] = Idle

(* At rest no held device is stranded (it is announced, or declined with a  *)
(* re-sync scheduled) and no freed one is still taken for announced, or for *)
(* declined with no re-sync to drop it: unless a plain sync could not read  *)
(* the inbox, or one announced an address over its decline.  An             *)
(* announcement from a stale read is put right by the push that follows the *)
(* device event.  One sync at a time is past the lock.                      *)
NoneStranded ==
    /\ Cardinality({c \in Callers : sync[c].pc \notin {"idle", "waiting"}}) <= 1
    /\ AtRest => \A a \in Addresses \ excused :
        /\ a \in announced <=> a \in inbox \ declined
        /\ a \in declined => timer

(* A declined device that stays held is offered again, whatever pushes,     *)
(* re-bootstraps and failing re-syncs come in between.  (One that left and  *)
(* came back is a plain sync's to offer, and that one may fail for good.)   *)
DeclinedIsOffered ==
    \A a \in Addresses :
        (a \in declined \cap inbox) ~> (a \in offered \cup excused \/ a \notin inbox \/ closed)

(* "Updating afterwards would put the declined address back into the        *)
(* announced set, and the re-sync would then skip it for good": a decline   *)
(* takes its address out of the announced set, and no sync that was under   *)
(* way puts it back.                                                        *)
DeclinedNotAnnounced == announced \cap declined = {}
=============================================================================
