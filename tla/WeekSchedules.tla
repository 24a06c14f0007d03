---------------------------- MODULE WeekSchedules ----------------------------
(***************************************************************************)
(* A climate week profile: its cached schedule, the frontend calls that    *)
(* edit it, and the locks that enable it per target channel.               *)
(*                                                                         *)
(* An edit takes the cached schedule, changes the weekdays it is about and *)
(* writes the WHOLE schedule back; the answer then becomes the cache.  A   *)
(* push that the schedule changed carries no body, so the dispatch task    *)
(* reads the schedule again.  Calls overlap each other, the re-read and    *)
(* other users of the daemon.                                              *)
(***************************************************************************)
EXTENDS Naturals, FiniteSets

CONSTANTS
    Profiles,   \* profiles of the schedule
    Weekdays,   \* weekdays of a profile
    LockKeys,   \* target channels the schedule can be enabled for
    Editors,    \* frontend calls that may be under way at once
    Reports,    \* the daemon names the times it corrected (api 10.1.0)
    MaxEdits,   \* bound: calls
    MaxOutside, \* bound: changes by other users of the daemon
    MaxLapses   \* bound: failing requests

ASSUME ScheduleAssumption ==
    /\ Reports \in BOOLEAN
    /\ {MaxEdits, MaxOutside, MaxLapses} \subseteq Nat

Slots == Profiles \X Weekdays
(* A weekday as written: its author and whether an end time of 24:00 was    *)
(* stored as 23:55.                                                         *)
Day(n, fixed) == [n |-> n, fixed |-> fixed]
NoSchedule == [s \in {} |-> 0]
NoCall == [op |-> "none"]

VARIABLES
    kept,    \* the device's schedule
    lock,      \* the device's enabled flags
    signals,   \* undelivered schedules.changed pushes
    cache,     \* WeekProfileDp._schedule
    enabled,   \* WeekProfileDp._schedule_enabled
    call,      \* what each editor is doing
    reread,    \* the dispatch task's re-read: "no", "asked" or the answer
    spend,     \* bounds used up
    behind,    \* history: the cache may differ from the device for good
    editsCrossed    \* history: lock keys two writes crossed on

schedVars == <<kept, lock, signals, cache, enabled, call, reread, spend, behind, editsCrossed>>

NotAsked == [at |-> "no", ans |-> NoSchedule]

SchedInit ==
    /\ kept = [s \in Slots |-> Day(0, FALSE)]
    /\ lock = [k \in LockKeys |-> TRUE]
    /\ signals = 0
    /\ cache \in {kept, NoSchedule}      \* the fetch at spawn may have failed
    /\ enabled = lock
    /\ call = [e \in Editors |-> NoCall]
    /\ reread = NotAsked
    /\ spend = [edits |-> 0, outside |-> 0, lapses |-> 0]
    /\ behind = FALSE
    /\ editsCrossed = {}

Lapse == /\ spend.lapses < MaxLapses
         /\ spend' = [spend EXCEPT !.lapses = @ + 1]
EditorsBusy == {e \in Editors : call[e] # NoCall}

-----------------------------------------------------------------------------
(* Schedule edits.                                                          *)

(* The call enters; without a cached schedule it reads one first.           *)
Begin(e, op, slots, late) ==
    /\ call[e] = NoCall /\ spend.edits < MaxEdits
    /\ spend' = [spend EXCEPT !.edits = @ + 1]
    /\ call' = [call EXCEPT ![e] =
                  [op |-> op, slots |-> slots, day |-> Day(spend.edits + 1, late),
                   at |-> IF op = "load" \/ cache = NoSchedule THEN "get" ELSE "merge",
                   sent |-> NoSchedule, base |-> NoSchedule]]
    /\ UNCHANGED <<kept, lock, signals, cache, enabled, reread, behind, editsCrossed>>

SetScheduleWeekday(e) == \E s \in Slots, late \in BOOLEAN : Begin(e, "edit", {s}, late)
SetScheduleProfile(e) == \E p \in Profiles : Begin(e, "edit", {p} \X Weekdays, FALSE)
SetSchedule(e) == Begin(e, "edit", Slots, FALSE)
(* get_schedule, get_schedule_profile, get_schedule_weekday with force_load *)
LoadSchedule(e) == Begin(e, "load", {}, FALSE)

(* _reload_schedule: GET answers ...                                        *)
ScheduleRead(e) ==
    /\ call[e] # NoCall /\ call[e].op \in {"edit", "load"} /\ call[e].at = "get"
    /\ call' = [call EXCEPT ![e].at = "got", ![e].base = kept]
    /\ UNCHANGED <<kept, lock, signals, cache, enabled, reread, spend, behind, editsCrossed>>

(* ... and becomes the cache, which may by then be newer.                   *)
ScheduleLoaded(e) ==
    /\ call[e] # NoCall /\ call[e].op \in {"edit", "load"} /\ call[e].at = "got"
    /\ cache' = call[e].base
    /\ behind' = (call[e].base # kept /\ signals = 0 /\ reread = NotAsked)
    /\ call' = [call EXCEPT ![e] = IF @.op = "load" THEN NoCall ELSE [@ EXCEPT !.at = "merge"]]
    /\ UNCHANGED <<kept, lock, signals, enabled, reread, spend, editsCrossed>>

(* set_schedule_weekday that writes the one weekday only.                   *)
MergeEdit_DropsOthers(e) ==
    /\ call[e] # NoCall /\ call[e].op = "edit" /\ call[e].at = "merge"
    /\ call' = [call EXCEPT ![e].at = "put", ![e].base = cache,
                            ![e].sent = [s \in Slots |-> IF s \in call[e].slots THEN call[e].day ELSE Day(0, FALSE)]]
    /\ UNCHANGED <<kept, lock, signals, cache, enabled, reread, spend, behind, editsCrossed>>

(* The body of the write: the cache with the edited weekdays.               *)
MergeEdit(e) ==
    /\ call[e] # NoCall /\ call[e].op = "edit" /\ call[e].at = "merge"
    /\ call' = [call EXCEPT ![e].at = "put", ![e].base = cache,
                            ![e].sent = [s \in Slots |-> IF s \in call[e].slots THEN [call[e].day EXCEPT !.fixed = FALSE]
                                                         ELSE cache[s]]]
    /\ UNCHANGED <<kept, lock, signals, cache, enabled, reread, spend, behind, editsCrossed>>

(* PUT: the daemon stores the whole schedule, correcting what it must.      *)
Corrected(e) == [s \in Slots |-> IF s \in call[e].slots THEN call[e].day ELSE call[e].sent[s]]
SchedulePut(e) ==
    /\ call[e] # NoCall /\ call[e].op = "edit" /\ call[e].at = "put"
    /\ kept' = Corrected(e)
    /\ signals' = signals + 1
    /\ call' = [call EXCEPT ![e].at = "done"]
    /\ UNCHANGED <<lock, cache, enabled, reread, spend, behind, editsCrossed>>

(* update_from of what was sent, whatever the daemon made of it.            *)
EditAnswered_IgnoresCorrections(e) ==
    /\ call[e] # NoCall /\ call[e].op = "edit" /\ call[e].at = "done"
    /\ cache' = call[e].sent
    /\ behind' = (Corrected(e) # kept /\ signals = 0 /\ reread = NotAsked)
    /\ call' = [call EXCEPT ![e] = NoCall]
    /\ UNCHANGED <<kept, lock, signals, enabled, reread, spend, editsCrossed>>

(* update_from(apply_corrections(...)).                                     *)
EditAnswered(e) ==
    /\ call[e] # NoCall /\ call[e].op = "edit" /\ call[e].at = "done"
    /\ cache' = IF Reports THEN Corrected(e) ELSE call[e].sent
    /\ behind' = (cache' # kept /\ signals = 0 /\ reread = NotAsked)
    /\ call' = [call EXCEPT ![e] = NoCall]
    /\ UNCHANGED <<kept, lock, signals, enabled, reread, spend, editsCrossed>>

(* The read or the write fails: the exception ends the call.                *)
EditFails(e) ==
    /\ call[e] # NoCall /\ call[e].op \in {"edit", "load"} /\ call[e].at \in {"get", "put"}
    /\ Lapse
    /\ call' = [call EXCEPT ![e] = NoCall]
    /\ UNCHANGED <<kept, lock, signals, cache, enabled, reread, behind, editsCrossed>>

-----------------------------------------------------------------------------
(* The daemon's other users, and its own copy operations: copy_schedule and *)
(* copy_climate_profile change the target without an answer that tells.     *)

OutsideEdit(s) ==
    /\ spend.outside < MaxOutside
    /\ spend' = [spend EXCEPT !.outside = @ + 1]
    /\ kept' = [kept EXCEPT ![s] = Day(100 + spend.outside, FALSE)]
    /\ signals' = signals + 1
    /\ UNCHANGED <<lock, cache, enabled, call, reread, behind, editsCrossed>>

CopyScheduleProfile(p, q) ==
    /\ p # q /\ spend.edits < MaxEdits
    /\ spend' = [spend EXCEPT !.edits = @ + 1]
    /\ kept' = [s \in Slots |-> IF s[1] = q THEN kept[<<p, s[2]>>] ELSE kept[s]]
    /\ signals' = signals + 1
    /\ UNCHANGED <<lock, cache, enabled, call, reread, behind, editsCrossed>>

-----------------------------------------------------------------------------
(* on_schedule_changed, one push after the other.                           *)

ScheduleChanged ==
    /\ signals > 0 /\ reread.at = "no"
    /\ signals' = signals - 1
    /\ reread' = [at |-> "asked", ans |-> NoSchedule]
    /\ UNCHANGED <<kept, lock, cache, enabled, call, spend, behind, editsCrossed>>

RereadAnswered ==
    /\ reread.at = "asked"
    /\ reread' = [at |-> "answered", ans |-> kept]
    /\ UNCHANGED <<kept, lock, signals, cache, enabled, call, spend, behind, editsCrossed>>

(* reload_schedule fails: logged, the push is spent.                        *)
RereadFails ==
    /\ reread.at = "asked" /\ Lapse
    /\ reread' = NotAsked
    /\ behind' = (behind \/ (cache # kept /\ signals = 0))
    /\ UNCHANGED <<kept, lock, signals, cache, enabled, call, editsCrossed>>

RereadApplied ==
    /\ reread.at = "answered"
    /\ cache' = reread.ans
    /\ behind' = FALSE
    /\ reread' = NotAsked
    /\ UNCHANGED <<kept, lock, signals, enabled, call, spend, editsCrossed>>

-----------------------------------------------------------------------------
(* Locks: set_schedule_enabled over one key or all, ScheduleChannelSwitch;  *)
(* nothing without a target channel.                                        *)

SetScheduleEnabled(e, keys, on) ==
    /\ call[e] = NoCall /\ keys # {} /\ spend.edits < MaxEdits
    /\ spend' = [spend EXCEPT !.edits = @ + 1]
    /\ call' = [call EXCEPT ![e] = [op |-> "lock", keys |-> keys, on |-> on, at |-> "ask", key |-> CHOOSE k \in keys : TRUE]]
    /\ UNCHANGED <<kept, lock, signals, cache, enabled, reread, behind, editsCrossed>>

LockWritten(e) ==
    /\ call[e] # NoCall /\ call[e].op = "lock" /\ call[e].at = "ask"
    /\ lock' = [lock EXCEPT ![call[e].key] = call[e].on]
    /\ call' = [call EXCEPT ![e].at = "told"]
    /\ editsCrossed' = editsCrossed \cup {k \in {call[e].key} : \E d \in EditorsBusy \ {e} : call[d].op = "lock" /\ k \in call[d].keys}
    /\ UNCHANGED <<kept, signals, cache, enabled, reread, spend, behind>>

(* set_channel_enabled, then the next key.                                  *)
LockRecorded(e) ==
    /\ call[e] # NoCall /\ call[e].op = "lock" /\ call[e].at = "told"
    /\ enabled' = [enabled EXCEPT ![call[e].key] = call[e].on]
    /\ LET rest == call[e].keys \ {call[e].key} IN
       call' = [call EXCEPT ![e] = IF rest = {} THEN NoCall
                                   ELSE [@ EXCEPT !.keys = rest, !.key = CHOOSE k \in rest : TRUE, !.at = "ask"]]
    /\ UNCHANGED <<kept, lock, signals, cache, reread, spend, behind, editsCrossed>>

(* A failed write leaves the loop: the keys before it keep their new flag.  *)
LockFails(e) ==
    /\ call[e] # NoCall /\ call[e].op = "lock" /\ call[e].at = "ask" /\ Lapse
    /\ call' = [call EXCEPT ![e] = NoCall]
    /\ UNCHANGED <<kept, lock, signals, cache, enabled, reread, behind, editsCrossed>>

-----------------------------------------------------------------------------
SchedNext ==
    \/ \E e \in Editors :
         \/ SetScheduleWeekday(e) \/ SetScheduleProfile(e) \/ SetSchedule(e) \/ LoadSchedule(e)
         \/ ScheduleRead(e) \/ ScheduleLoaded(e) \/ MergeEdit(e) \/ SchedulePut(e)
         \/ EditAnswered(e) \/ EditFails(e)
         \/ \E on \in BOOLEAN : \E keys \in {LockKeys} \cup {{k} : k \in LockKeys} : SetScheduleEnabled(e, keys, on)
         \/ LockWritten(e) \/ LockRecorded(e) \/ LockFails(e)
    \/ \E s \in Slots : OutsideEdit(s)
    \/ \E p, q \in Profiles : CopyScheduleProfile(p, q)
    \/ ScheduleChanged \/ RereadAnswered \/ RereadFails \/ RereadApplied

SchedSpec == SchedInit /\ [][SchedNext]_schedVars

-----------------------------------------------------------------------------
(* Properties.                                                              *)

SchedAtRest == signals = 0 /\ reread = NotAsked /\ EditorsBusy = {}

(* With every call answered and every push handled, the cached schedule is  *)
(* the device's, corrections included, and a lock flag is the device's; but *)
(* where an answer arrived after the pushes that outdate it, a re-read      *)
(* failed, or two writes of one lock crossed.                               *)
ScheduleCacheExplained ==
    SchedAtRest =>
        /\ cache \in {kept, NoSchedule} \/ behind
        /\ \A k \in LockKeys \ editsCrossed : enabled[k] = lock[k]

(* Writing the whole schedule changes only the weekdays of the edit on the  *)
(* device, but where the cache the edit started from was already outdated   *)
(* or the device has changed since: there the write puts old weekdays back. *)
EditKeepsOtherDays ==
    [][\A e \in Editors : SchedulePut(e) =>
         \A s \in Slots \ call[e].slots : kept'[s] # kept[s] => call[e].base[s] # kept[s]]_schedVars
=============================================================================
