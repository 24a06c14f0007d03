----------------------------- MODULE StoreMirror -----------------------------
(***************************************************************************)
(* What the event path promises of the client's store, as its users see    *)
(* it: a mirror of the daemon's values that may lag, but shows nothing     *)
(* newer than the daemon's value, names every key on which it went back,   *)
(* and agrees with the daemon whenever it is at rest.  EventSync refines   *)
(* it.                                                                     *)
(*                                                                         *)
(* A value is the number of the change that wrote it.                      *)
(***************************************************************************)
EXTENDS Naturals

CONSTANT Keys

VARIABLES
    live,    \* the daemon's values
    store,   \* the client's
    stale,   \* the keys it does not answer for
    rest     \* nothing is on its way to the store, and no walk runs

mirrorVars == <<live, store, stale, rest>>

MirrorInit ==
    /\ live = [k \in Keys |-> 0]
    /\ store = live
    /\ stale = {}
    /\ rest = FALSE

(* A value of the daemon's changes; that is news to the client.             *)
DaemonChanges(k) ==
    /\ live' \in [Keys -> Nat]
    /\ live'[k] > live[k]
    /\ \A q \in Keys \ {k} : live'[q] = live[q]
    /\ ~rest'
    /\ UNCHANGED store

(* Values arrive in the store: never while at rest, none newer than the     *)
(* daemon's, and one older than what it replaces makes its key stale.       *)
StoreWritten ==
    /\ ~rest
    /\ store' \in [Keys -> Nat]
    /\ \A k \in Keys : store'[k] <= live[k]
    /\ {k \in Keys : store'[k] < store[k]} \subseteq stale'
    /\ UNCHANGED live

NothingWritten == UNCHANGED <<live, store>>

(* Stale keys are never forgotten, and to come to rest is to agree.         *)
MirrorNext ==
    /\ (\E k \in Keys : DaemonChanges(k)) \/ StoreWritten \/ NothingWritten
    /\ stale \subseteq stale'
    /\ rest' => \A k \in Keys \ stale' : store'[k] = live'[k]

MirrorSpec == MirrorInit /\ [][MirrorNext]_mirrorVars
=============================================================================
