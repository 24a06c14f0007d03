----------------------------- MODULE CentralReads -----------------------------
(***************************************************************************)
(* The background re-reads the compat central starts from pushes: the      *)
(* latched-detector counts and the system information.  Both handlers      *)
(* return at once and coalesce a burst into one read; stop() cancels what  *)
(* they have started.                                                      *)
(* Source: compat/aiohomematic/central/adapter.py.                         *)
(*                                                                         *)
(* A value is the number of the daemon-side change it reflects.  A read is *)
(* asked, answered by the daemon, and applied by the task.                 *)
(***************************************************************************)
EXTENDS Integers, FiniteSets

CONSTANTS MaxChanges, MaxReadFailures    \* bounds: daemon-side changes, failing reads

ASSUME ReadsAssumption == MaxChanges \in Nat /\ MaxReadFailures \in Nat

Kinds == {"latch", "features"}

VARIABLES
    actual,    \* the daemon's value, per kind
    pending,   \* changes whose push has not been handled yet, per kind
    task,      \* the task the handler's attribute holds: "none" or its step
    answer,    \* what the read in flight was answered with
    value,     \* what the client shows
    again,     \* _features_refresh_again
    orphans,   \* running tasks no attribute holds any more
    stop,      \* how far stop() is
    readFailures,  \* bound counter
    readExcused,   \* history: kinds whose last read failed, or answered before
               \* a push that was then dropped
    late       \* history: kinds a handler has read after stop() began

readsVars == <<actual, pending, task, answer, value, again, orphans, stop, readFailures, readExcused,
               late>>

ReadsInit ==
    /\ actual = [k \in Kinds |-> 0]
    /\ pending = [k \in Kinds |-> 0]
    /\ task = [k \in Kinds |-> "none"]
    /\ answer = [k \in Kinds |-> 0]
    /\ value = [k \in Kinds |-> 0]
    /\ again = FALSE
    /\ orphans = {}
    /\ stop = "no"
    /\ readFailures = 0
    /\ readExcused = {}
    /\ late = {}

Live(k) == task[k] \in {"asked", "answered", "cancelled"}

(* The handlers are subscribed until stop() cancels the group.              *)
ReadsListening == stop \notin {"group", "stopped"}

-----------------------------------------------------------------------------
(* EXTERNAL: the daemon's value changes and it pushes an event.             *)
DaemonChanges(k) ==
    /\ actual[k] < MaxChanges
    /\ actual' = [actual EXCEPT ![k] = @ + 1]
    /\ pending' = [pending EXCEPT ![k] = @ + 1]
    /\ UNCHANGED <<task, answer, value, again, orphans, stop, readFailures, readExcused, late>>

(* EXTERNAL: the daemon answers the read.                                   *)
ReadAnswered(k) ==
    /\ task[k] = "asked"
    /\ task' = [task EXCEPT ![k] = "answered"]
    /\ answer' = [answer EXCEPT ![k] = actual[k]]
    /\ UNCHANGED <<actual, pending, value, again, orphans, stop, readFailures, readExcused, late>>

(* _on_possible_latch_change: dropped while a read is in flight.            *)
OnPossibleLatchChange ==
    /\ pending["latch"] > 0 /\ ReadsListening
    /\ pending' = [pending EXCEPT !["latch"] = @ - 1]
    /\ task' = [task EXCEPT !["latch"] = IF Live("latch") THEN @ ELSE "asked"]
    /\ readExcused' = IF task["latch"] \in {"answered", "cancelled"} THEN readExcused \cup {"latch"}
                  ELSE readExcused \ {"latch"}
    /\ late' = IF stop = "no" \/ Live("latch") THEN late ELSE late \cup {"latch"}
    /\ UNCHANGED <<actual, answer, value, again, orphans, stop, readFailures>>

(* _on_central_features_changed: remembered while a read is in flight.  A   *)
(* new task resets the mark before it reads.                                *)
OnCentralFeaturesChanged ==
    /\ pending["features"] > 0 /\ ReadsListening
    /\ pending' = [pending EXCEPT !["features"] = @ - 1]
    /\ task' = [task EXCEPT !["features"] = IF Live("features") THEN @ ELSE "asked"]
    /\ again' = Live("features")
    /\ readExcused' = readExcused \ {"features"}
    /\ late' = IF stop = "no" \/ Live("features") THEN late ELSE late \cup {"features"}
    /\ UNCHANGED <<actual, answer, value, orphans, stop, readFailures>>

(* _refresh_triggered_motion: store the counts; the task is done.           *)
LatchApplied ==
    /\ task["latch"] = "answered"
    /\ value' = [value EXCEPT !["latch"] = answer["latch"]]
    /\ task' = [task EXCEPT !["latch"] = "none"]
    /\ UNCHANGED <<actual, pending, answer, again, orphans, stop, readFailures, readExcused, late>>

(* Mutant: the mark is reset after the read.                                *)
FeaturesApplied_LateReset ==
    /\ task["features"] = "answered"
    /\ value' = [value EXCEPT !["features"] = answer["features"]]
    /\ task' = [task EXCEPT !["features"] = "none"]
    /\ again' = FALSE
    /\ UNCHANGED <<actual, pending, answer, orphans, stop, readFailures, readExcused, late>>

(* The loop of the features task: once more if a broadcast came meanwhile.  *)
FeaturesApplied ==
    /\ task["features"] = "answered"
    /\ value' = [value EXCEPT !["features"] = answer["features"]]
    /\ task' = [task EXCEPT !["features"] = IF again THEN "asked" ELSE "none"]
    /\ again' = FALSE
    /\ UNCHANGED <<actual, pending, answer, orphans, stop, readFailures, readExcused, late>>

(* The read failed: logged.  The features loop goes round if it must.       *)
ReadFails(k) ==
    /\ task[k] = "asked"
    /\ readFailures < MaxReadFailures
    /\ readFailures' = readFailures + 1
    /\ task' = [task EXCEPT ![k] = IF k = "features" /\ again THEN "asked" ELSE "none"]
    /\ again' = IF k = "features" THEN FALSE ELSE again
    /\ readExcused' = readExcused \cup (IF task'[k] = "none" THEN {k} ELSE {})
    /\ UNCHANGED <<actual, pending, answer, value, orphans, stop, late>>

-----------------------------------------------------------------------------
(***************************************************************************)
(* stop(): cancel and await the latch task, cancel and await the features  *)
(* task, cancel the subscriptions, close the client.  It suspends only     *)
(* where it awaits a task that is not done.                                *)
(***************************************************************************)

(* stop() goes on after the latch task: cancel the features task and await  *)
(* it, or cancel the subscriptions at once.                                 *)
Continue(tasks) ==
    IF tasks["features"] = "none"
      THEN stop' = "group" /\ task' = tasks
      ELSE stop' = "await_features" /\ task' = [tasks EXCEPT !["features"] = "cancelled"]

ReadsStopBegins ==
    /\ stop = "no"
    /\ IF Live("latch")
         THEN stop' = "await_latch" /\ task' = [task EXCEPT !["latch"] = "cancelled"]
         ELSE Continue(task)
    /\ UNCHANGED <<actual, pending, answer, value, again, orphans, readFailures, readExcused, late>>

(* The cancelled task unwinds and is done.                                  *)
Unwinds(k) ==
    /\ task[k] = "cancelled"
    /\ task' = [task EXCEPT ![k] = "none"]
    /\ UNCHANGED <<actual, pending, answer, value, again, orphans, stop, readFailures, readExcused, late>>

(* stop() resumes and clears the attribute, whatever a handler has put      *)
(* there meanwhile.                                                         *)
Clears(k) ==
    /\ task[k] # "cancelled"
    /\ orphans' = IF Live(k) THEN orphans \cup {k} ELSE orphans

LatchAwaited ==
    /\ stop = "await_latch"
    /\ Clears("latch")
    /\ Continue([task EXCEPT !["latch"] = "none"])
    /\ UNCHANGED <<actual, pending, answer, value, again, readFailures, readExcused, late>>

FeaturesAwaited ==
    /\ stop = "await_features"
    /\ Clears("features")
    /\ stop' = "group"
    /\ task' = [task EXCEPT !["features"] = "none"]
    /\ UNCHANGED <<actual, pending, answer, value, again, readFailures, readExcused, late>>

ReadsStopEnds ==
    /\ stop = "group"
    /\ stop' = "stopped"
    /\ UNCHANGED <<actual, pending, task, answer, value, again, orphans, readFailures, readExcused, late>>

-----------------------------------------------------------------------------
ReadsNext ==
    \/ \E k \in Kinds : DaemonChanges(k)
    \/ \E k \in Kinds : ReadAnswered(k)
    \/ \E k \in Kinds : ReadFails(k)
    \/ \E k \in Kinds : Unwinds(k)
    \/ OnPossibleLatchChange \/ OnCentralFeaturesChanged
    \/ LatchApplied \/ FeaturesApplied
    \/ ReadsStopBegins \/ LatchAwaited \/ FeaturesAwaited \/ ReadsStopEnds

ReadsSpec == ReadsInit /\ [][ReadsNext]_readsVars

-----------------------------------------------------------------------------
Quiet(k) == stop = "no" /\ pending[k] = 0 /\ ~Live(k)

(* Once the pushes are handled and no read is at work, what the client      *)
(* shows is the daemon's, unless the last read failed.  For the features    *)
(* the mark loses no broadcast, however it falls between the daemon's       *)
(* answer and its use; for the latch, which has no mark, the only other way *)
(* to be stale is a push dropped after the answer.  What stop() leaves      *)
(* running is a read that a push has started while stop() was awaiting      *)
(* another one: no read from before it survives.                            *)
ReadsFresh ==
    /\ \A k \in Kinds : Quiet(k) /\ k \notin readExcused => value[k] = actual[k]
    /\ stop = "stopped" => orphans \cup {k \in Kinds : Live(k)} \subseteq late
=============================================================================
