--------------------------- MODULE Entities_proofs ---------------------------
(***************************************************************************)
(* TLAPS proofs about what Home Assistant sees of a device and does to it: *)
(* the cached week schedule and its edits (WeekSchedules), the objects a   *)
(* device is made of and the values they show (CompatModel), commands of   *)
(* several operations (CustomCommands), and the way of an event over the   *)
(* bus to the store and to the entities (EventRouting).                    *)
(***************************************************************************)
EXTENDS WeekSchedules, CompatModel, CustomCommands, EventRouting, SequenceTheorems, TLAPS

-----------------------------------------------------------------------------
(* The week schedule.                                                       *)

Days == [n : Nat, fixed : BOOLEAN]
Schedules == [Slots -> Days]
MaybeSchedules == Schedules \cup {NoSchedule}
EditCalls == [op : {"edit", "load"}, slots : SUBSET Slots, day : Days,
              at : {"get", "got", "merge", "put", "done"}, sent : MaybeSchedules, base : MaybeSchedules]
LockCalls == [op : {"lock"}, keys : SUBSET LockKeys, on : BOOLEAN, at : {"ask", "told"}, key : LockKeys]

SchedTypeOK ==
    /\ kept \in Schedules
    /\ lock \in [LockKeys -> BOOLEAN]
    /\ signals \in Nat
    /\ cache \in MaybeSchedules
    /\ enabled \in [LockKeys -> BOOLEAN]
    /\ call \in [Editors -> {NoCall} \cup EditCalls \cup LockCalls]
    /\ reread \in [at : {"no", "asked", "answered"}, ans : MaybeSchedules]
    /\ spend \in [edits : Nat, outside : Nat, lapses : Nat]
    /\ behind \in BOOLEAN

(* What an edit holds at each stage: the body it writes is the schedule it  *)
(* started from in every weekday it is not about.                           *)
EditOK(e) ==
    call[e] \in EditCalls =>
        /\ call[e].at = "got" => call[e].base \in Schedules
        /\ call[e].at = "merge" => cache \in Schedules
        /\ call[e].at \in {"put", "done"} =>
             /\ call[e].sent \in Schedules
             /\ \A s \in Slots \ call[e].slots : call[e].sent[s] = call[e].base[s]

(* An answered re-read is the device's schedule, or a push says that it no  *)
(* longer is; with neither a push nor a re-read under way the cache is the  *)
(* device's, or an answer has overtaken the pushes.                         *)
RereadOK ==
    /\ reread.at = "no" => reread = NotAsked
    /\ reread.at = "answered" => reread.ans \in Schedules /\ (reread.ans = kept \/ signals > 0)
CacheOK == signals = 0 /\ reread.at = "no" => cache \in {kept, NoSchedule} \/ behind

(* A lock flag differs from the device's only between the write and its     *)
(* answer, and every write that is answered but not recorded says what the  *)
(* device has, unless two writes of the lock have crossed.                  *)
Told(e, k) == call[e] \in LockCalls /\ call[e].at = "told" /\ call[e].key = k
LockOK(k) ==
    k \notin editsCrossed =>
        /\ \A e \in Editors : Told(e, k) => call[e].on = lock[k]
        /\ enabled[k] = lock[k] \/ \E e \in Editors : Told(e, k)
KeysOK == \A e \in Editors : call[e] \in LockCalls => call[e].key \in call[e].keys

SchedInv ==
    /\ SchedTypeOK
    /\ \A e \in Editors : EditOK(e)
    /\ RereadOK
    /\ CacheOK
    /\ \A k \in LockKeys : LockOK(k)
    /\ KeysOK

(* An idle call, an edit and a write of locks are told apart by their op.   *)
LEMMA CallKinds ==
    /\ \A c \in EditCalls : c.op \in {"edit", "load"} /\ c # NoCall /\ c \notin LockCalls
    /\ \A c \in LockCalls : c.op = "lock" /\ c # NoCall /\ c \notin EditCalls
    /\ NoCall.op = "none" /\ NoCall \notin EditCalls /\ NoCall \notin LockCalls
BY DEF EditCalls, LockCalls, NoCall

LEMMA SchedInitInv == SchedInit => SchedInv
<1> SUFFICES ASSUME SchedInit PROVE SchedInv
    OBVIOUS
<1>1. kept \in Schedules
    BY DEF SchedInit, Schedules, Days, Day
<1>2. SchedTypeOK
    BY <1>1 DEF SchedInit, SchedTypeOK, MaybeSchedules, NotAsked
<1>3. \A e \in Editors : call[e] = NoCall
    BY DEF SchedInit
<1> QED BY <1>2, <1>3, CallKinds DEF SchedInv, SchedInit, EditOK, RereadOK, CacheOK, LockOK, KeysOK,
                  Told, NotAsked

(* Edits of others are as good as before while the cache stays a schedule.  *)
LEMMA EditsKept ==
    ASSUME SchedInv, NEW d \in Editors, call'[d] = call[d], cache' \in Schedules \/ cache' = cache
    PROVE  EditOK(d)'
BY DEF SchedInv, EditOK

(* A step that leaves every write of locks alone leaves the flags explained.*)
LEMMA LocksKept ==
    ASSUME SchedInv, UNCHANGED <<lock, enabled, editsCrossed>>,
           \A d \in Editors : call[d] \in LockCalls \/ call'[d] \in LockCalls => call'[d] = call[d]
    PROVE  (\A k \in LockKeys : LockOK(k)') /\ KeysOK'
BY DEF SchedInv, LockOK, KeysOK, Told

(* A call of set_schedule_* or get_schedule_* enters.                       *)
LEMMA BeginStep ==
    ASSUME SchedInv, NEW e \in Editors, NEW op \in {"edit", "load"}, NEW slots \in SUBSET Slots,
           NEW flag \in BOOLEAN, Begin(e, op, slots, flag)
    PROVE  SchedInv'
<1> DEFINE c == [op |-> op, slots |-> slots, day |-> Day(spend.edits + 1, flag),
                 at |-> IF op = "load" \/ cache = NoSchedule THEN "get" ELSE "merge",
                 sent |-> NoSchedule, base |-> NoSchedule]
<1>1. c \in EditCalls
    BY DEF SchedInv, SchedTypeOK, EditCalls, Days, Day, MaybeSchedules
<1>2. c.at = "merge" => cache \in Schedules
    BY DEF SchedInv, SchedTypeOK, MaybeSchedules
<1>3. c.at \in {"get", "merge"}
    OBVIOUS
<1>4. call' = [call EXCEPT ![e] = c] /\ call[e] = NoCall
    BY DEF Begin
<1>5. UNCHANGED <<kept, lock, signals, cache, enabled, reread, behind, editsCrossed>>
    BY DEF Begin
<1> HIDE DEF c
<1>6. spend' \in [edits : Nat, outside : Nat, lapses : Nat]
    BY DEF SchedInv, SchedTypeOK, Begin
<1>7. SchedTypeOK'
    BY <1>1, <1>4, <1>5, <1>6 DEF SchedInv, SchedTypeOK
<1>8. call'[e] = c /\ \A d \in Editors \ {e} : call'[d] = call[d]
    BY <1>4 DEF SchedInv, SchedTypeOK
<1>9. \A d \in Editors : EditOK(d)'
    <2>1. EditOK(e)'
        BY <1>2, <1>3, <1>5, <1>8 DEF EditOK
    <2> QED BY <2>1, <1>5, <1>8, EditsKept
<1>10. (\A k \in LockKeys : LockOK(k)') /\ KeysOK'
    BY <1>1, <1>4, <1>5, <1>8, CallKinds, LocksKept
<1>11. RereadOK' /\ CacheOK'
    BY <1>5 DEF SchedInv, RereadOK, CacheOK
<1> QED BY <1>7, <1>9, <1>10, <1>11 DEF SchedInv

(* Every later stage of an edit: the call moves on or ends, and the lock    *)
(* flags are left alone.                                                    *)
LEMMA EditMoves ==
    ASSUME SchedInv, NEW e \in Editors, call[e] \in EditCalls,
           NEW c \in EditCalls \cup {NoCall}, call' = [call EXCEPT ![e] = c],
           kept' \in Schedules, cache' \in Schedules \/ cache' = cache, signals' \in Nat,
           behind' \in BOOLEAN, spend' \in [edits : Nat, outside : Nat, lapses : Nat],
           UNCHANGED <<lock, enabled, reread, editsCrossed>>,
           EditOK(e)', RereadOK', CacheOK'
    PROVE  SchedInv'
<1>1. SchedTypeOK'
    BY DEF SchedInv, SchedTypeOK, MaybeSchedules
<1>2. call'[e] = c /\ \A d \in Editors \ {e} : call'[d] = call[d]
    BY DEF SchedInv, SchedTypeOK
<1>3. \A d \in Editors : EditOK(d)'
    BY <1>2, EditsKept
<1>4. (\A k \in LockKeys : LockOK(k)') /\ KeysOK'
    BY <1>2, CallKinds, LocksKept
<1> QED BY <1>1, <1>3, <1>4 DEF SchedInv

(* A call that is an edit is typed as one.                                  *)
LEMMA IsEdit ==
    ASSUME SchedInv, NEW e \in Editors, call[e] # NoCall, call[e].op \in {"edit", "load"}
    PROVE  call[e] \in EditCalls
BY CallKinds DEF SchedInv, SchedTypeOK

LEMMA ScheduleReadStep ==
    ASSUME SchedInv, NEW e \in Editors, ScheduleRead(e)
    PROVE  SchedInv'
<1> DEFINE c == [call[e] EXCEPT !.at = "got", !.base = kept]
<1>1. call[e] \in EditCalls
    BY IsEdit DEF ScheduleRead
<1>2. c \in EditCalls /\ c.at = "got" /\ c.base \in Schedules
    BY <1>1 DEF SchedInv, SchedTypeOK, EditCalls, MaybeSchedules
<1>3. call' = [call EXCEPT ![e] = c]
    BY DEF ScheduleRead
<1> HIDE DEF c
<1>4. EditOK(e)'
    BY <1>2, <1>3 DEF EditOK, SchedInv, SchedTypeOK
<1>5. RereadOK' /\ CacheOK'
    BY DEF SchedInv, RereadOK, CacheOK, ScheduleRead
<1> QED BY <1>1, <1>2, <1>3, <1>4, <1>5, EditMoves DEF ScheduleRead, SchedInv, SchedTypeOK

LEMMA ScheduleLoadedStep ==
    ASSUME SchedInv, NEW e \in Editors, ScheduleLoaded(e)
    PROVE  SchedInv'
<1> DEFINE c == IF call[e].op = "load" THEN NoCall ELSE [call[e] EXCEPT !.at = "merge"]
<1>1. call[e] \in EditCalls
    BY IsEdit DEF ScheduleLoaded
<1>2. c \in EditCalls \cup {NoCall} /\ (c \in EditCalls => c.at = "merge")
    BY <1>1, CallKinds DEF EditCalls
<1>3. call' = [call EXCEPT ![e] = c]
    BY DEF ScheduleLoaded
<1> HIDE DEF c
<1>4. cache' \in Schedules
    BY <1>1 DEF ScheduleLoaded, SchedInv, EditOK
<1>5. EditOK(e)'
    BY <1>2, <1>3, <1>4 DEF EditOK, SchedInv, SchedTypeOK
<1>6. RereadOK' /\ CacheOK'
    BY DEF SchedInv, RereadOK, CacheOK, ScheduleLoaded
<1>7. behind' \in BOOLEAN
    BY DEF ScheduleLoaded
<1> QED BY <1>1, <1>2, <1>3, <1>4, <1>5, <1>6, <1>7, EditMoves DEF ScheduleLoaded, SchedInv, SchedTypeOK

(* The body of the write takes over every weekday it is not about.          *)
LEMMA MergeEditStep ==
    ASSUME SchedInv, NEW e \in Editors, MergeEdit(e)
    PROVE  SchedInv'
<1> DEFINE sent == [s \in Slots |-> IF s \in call[e].slots THEN [call[e].day EXCEPT !.fixed = FALSE]
                                    ELSE cache[s]]
           c == [call[e] EXCEPT !.at = "put", !.base = cache, !.sent = sent]
<1>1. call[e] \in EditCalls
    BY IsEdit DEF MergeEdit
<1>2. cache \in Schedules
    BY <1>1 DEF MergeEdit, SchedInv, EditOK
<1>3. sent \in Schedules
    <2>1. [call[e].day EXCEPT !.fixed = FALSE] \in Days
        BY <1>1 DEF EditCalls, Days
    <2> QED BY <1>2, <2>1 DEF Schedules
<1>4. \A s \in Slots \ call[e].slots : sent[s] = cache[s]
    OBVIOUS
<1>5. call' = [call EXCEPT ![e] = c]
    BY DEF MergeEdit
<1> HIDE DEF sent
<1>6. /\ c \in EditCalls /\ c.at = "put" /\ c.sent = sent /\ c.base = cache
      /\ c.slots = call[e].slots
    BY <1>1, <1>2, <1>3 DEF EditCalls, MaybeSchedules
<1> HIDE DEF c
<1>7. EditOK(e)'
    BY <1>3, <1>4, <1>5, <1>6 DEF EditOK, SchedInv, SchedTypeOK
<1>8. RereadOK' /\ CacheOK'
    BY DEF SchedInv, RereadOK, CacheOK, MergeEdit
<1> QED BY <1>1, <1>5, <1>6, <1>7, <1>8, EditMoves DEF MergeEdit, SchedInv, SchedTypeOK

(* What the daemon makes of a body is a schedule.                           *)
LEMMA CorrectedFact ==
    ASSUME SchedInv, NEW e \in Editors, call[e] \in EditCalls, call[e].at \in {"put", "done"}
    PROVE  Corrected(e) \in Schedules /\ call[e].sent \in Schedules
<1>1. call[e].sent \in Schedules /\ call[e].day \in Days
    BY DEF SchedInv, EditOK, EditCalls
<1> QED BY <1>1 DEF Corrected, Schedules

LEMMA SchedulePutStep ==
    ASSUME SchedInv, NEW e \in Editors, SchedulePut(e)
    PROVE  SchedInv'
<1> DEFINE c == [call[e] EXCEPT !.at = "done"]
<1>1. call[e] \in EditCalls
    BY IsEdit DEF SchedulePut
<1>2. /\ c \in EditCalls /\ c.at = "done" /\ c.sent = call[e].sent /\ c.base = call[e].base
      /\ c.slots = call[e].slots
    BY <1>1 DEF EditCalls
<1>3. call' = [call EXCEPT ![e] = c]
    BY DEF SchedulePut
<1> HIDE DEF c
<1>4. kept' \in Schedules
    BY <1>1, CorrectedFact DEF SchedulePut
<1>5. EditOK(e)'
    BY <1>1, <1>2, <1>3 DEF EditOK, SchedInv, SchedTypeOK, SchedulePut
<1>6. RereadOK' /\ CacheOK' /\ signals' \in Nat
    BY DEF SchedInv, SchedTypeOK, RereadOK, CacheOK, SchedulePut
<1> QED BY <1>1, <1>2, <1>3, <1>4, <1>5, <1>6, EditMoves DEF SchedulePut, SchedInv, SchedTypeOK

LEMMA EditAnsweredStep ==
    ASSUME SchedInv, NEW e \in Editors, EditAnswered(e)
    PROVE  SchedInv'
<1>1. call[e] \in EditCalls
    BY IsEdit DEF EditAnswered
<1>2. call' = [call EXCEPT ![e] = NoCall]
    BY DEF EditAnswered
<1>3. cache' \in Schedules
    BY <1>1, CorrectedFact DEF EditAnswered
<1>4. EditOK(e)'
    BY <1>2, CallKinds DEF EditOK, SchedInv, SchedTypeOK
<1>5. RereadOK' /\ behind' \in BOOLEAN
    BY DEF SchedInv, RereadOK, EditAnswered
<1>6. CacheOK'
    BY DEF SchedInv, CacheOK, RereadOK, EditAnswered
<1> QED BY <1>1, <1>2, <1>3, <1>4, <1>5, <1>6, EditMoves DEF EditAnswered, SchedInv, SchedTypeOK

LEMMA EditFailsStep ==
    ASSUME SchedInv, NEW e \in Editors, EditFails(e)
    PROVE  SchedInv'
<1>1. call[e] \in EditCalls
    BY IsEdit DEF EditFails
<1>2. call' = [call EXCEPT ![e] = NoCall]
    BY DEF EditFails
<1>3. EditOK(e)'
    BY <1>2, CallKinds DEF EditOK, SchedInv, SchedTypeOK
<1>4. RereadOK' /\ CacheOK'
    BY DEF SchedInv, RereadOK, CacheOK, EditFails
<1>5. spend' \in [edits : Nat, outside : Nat, lapses : Nat]
    BY DEF SchedInv, SchedTypeOK, EditFails, Lapse
<1> QED BY <1>1, <1>2, <1>3, <1>4, <1>5, EditMoves DEF EditFails, SchedInv, SchedTypeOK

(* The steps of the daemon and of its pushes touch no call.                 *)
LEMMA CallsKept ==
    ASSUME SchedInv, UNCHANGED <<call, lock, enabled, editsCrossed>>, kept' \in Schedules,
           cache' \in Schedules \/ cache' = cache, signals' \in Nat, behind' \in BOOLEAN,
           spend' \in [edits : Nat, outside : Nat, lapses : Nat],
           reread' \in [at : {"no", "asked", "answered"}, ans : MaybeSchedules],
           RereadOK', CacheOK'
    PROVE  SchedInv'
<1>1. SchedTypeOK'
    BY DEF SchedInv, SchedTypeOK, MaybeSchedules
<1>2. \A d \in Editors : EditOK(d)'
    BY EditsKept
<1>3. (\A k \in LockKeys : LockOK(k)') /\ KeysOK'
    BY LocksKept
<1> QED BY <1>1, <1>2, <1>3 DEF SchedInv

LEMMA OutsideEditStep ==
    ASSUME SchedInv, NEW s \in Slots, OutsideEdit(s)
    PROVE  SchedInv'
<1>1. kept' \in Schedules /\ spend' \in [edits : Nat, outside : Nat, lapses : Nat]
    <2>1. spend.outside \in Nat /\ 100 + spend.outside \in Nat
        BY DEF SchedInv, SchedTypeOK
    <2>2. Day(100 + spend.outside, FALSE) \in Days
        BY <2>1 DEF Days, Day
    <2>3. kept' = [kept EXCEPT ![s] = Day(100 + spend.outside, FALSE)]
        BY DEF OutsideEdit
    <2>4. kept' \in Schedules
        BY <2>2, <2>3 DEF SchedInv, SchedTypeOK, Schedules
    <2>5. spend' \in [edits : Nat, outside : Nat, lapses : Nat]
        BY DEF OutsideEdit, SchedInv, SchedTypeOK
    <2> QED BY <2>4, <2>5
<1>2. RereadOK' /\ CacheOK' /\ signals' \in Nat
    <2>1. signals' \in Nat /\ signals' > 0 /\ reread' = reread
        BY DEF SchedInv, SchedTypeOK, OutsideEdit
    <2> QED BY <2>1 DEF SchedInv, RereadOK, CacheOK
<1> QED BY <1>1, <1>2, CallsKept DEF OutsideEdit, SchedInv, SchedTypeOK

LEMMA CopyStep ==
    ASSUME SchedInv, NEW p \in Profiles, NEW q \in Profiles, CopyScheduleProfile(p, q)
    PROVE  SchedInv'
<1>1. kept' \in Schedules
    <2>1. \A s \in Slots : <<p, s[2]>> \in Slots
        BY DEF Slots
    <2> QED BY <2>1 DEF CopyScheduleProfile, SchedInv, SchedTypeOK, Schedules
<1>2. spend' \in [edits : Nat, outside : Nat, lapses : Nat]
    BY DEF SchedInv, SchedTypeOK, CopyScheduleProfile
<1>3. RereadOK' /\ CacheOK' /\ signals' \in Nat
    BY DEF SchedInv, SchedTypeOK, RereadOK, CacheOK, CopyScheduleProfile
<1> QED BY <1>1, <1>2, <1>3, CallsKept DEF CopyScheduleProfile, SchedInv, SchedTypeOK

(* The dispatch task's re-read, one push after the other.                   *)
LEMMA RereadStep ==
    ASSUME SchedInv, ScheduleChanged \/ RereadAnswered \/ RereadFails \/ RereadApplied
    PROVE  SchedInv'
<1>1. CASE ScheduleChanged
    <2>1. reread' \in [at : {"no", "asked", "answered"}, ans : MaybeSchedules]
        BY <1>1 DEF ScheduleChanged, MaybeSchedules
    <2>2. RereadOK' /\ CacheOK' /\ signals' \in Nat
        BY <1>1 DEF SchedInv, SchedTypeOK, RereadOK, CacheOK, ScheduleChanged
    <2> QED BY <1>1, <2>1, <2>2, CallsKept DEF ScheduleChanged, SchedInv, SchedTypeOK
<1>2. CASE RereadAnswered
    <2>1. reread' \in [at : {"no", "asked", "answered"}, ans : MaybeSchedules]
        BY <1>2 DEF RereadAnswered, SchedInv, SchedTypeOK, MaybeSchedules
    <2>2. RereadOK' /\ CacheOK'
        BY <1>2 DEF SchedInv, SchedTypeOK, RereadOK, CacheOK, RereadAnswered
    <2> QED BY <1>2, <2>1, <2>2, CallsKept DEF RereadAnswered, SchedInv, SchedTypeOK
<1>3. CASE RereadFails
    <2>1. reread' \in [at : {"no", "asked", "answered"}, ans : MaybeSchedules]
        BY <1>3 DEF RereadFails, NotAsked, MaybeSchedules
    <2>2. RereadOK' /\ CacheOK' /\ behind' \in BOOLEAN
        BY <1>3 DEF SchedInv, SchedTypeOK, RereadOK, CacheOK, RereadFails, NotAsked
    <2>3. spend' \in [edits : Nat, outside : Nat, lapses : Nat]
        BY <1>3 DEF SchedInv, SchedTypeOK, RereadFails, Lapse
    <2> QED BY <1>3, <2>1, <2>2, <2>3, CallsKept DEF RereadFails, SchedInv, SchedTypeOK
<1>4. CASE RereadApplied
    <2>1. reread' \in [at : {"no", "asked", "answered"}, ans : MaybeSchedules]
        BY <1>4 DEF RereadApplied, NotAsked, MaybeSchedules
    <2>2. cache' \in Schedules
        BY <1>4 DEF SchedInv, RereadOK, RereadApplied
    <2>3. RereadOK' /\ CacheOK'
        BY <1>4 DEF SchedInv, SchedTypeOK, RereadOK, CacheOK, RereadApplied, NotAsked
    <2>4. behind' \in BOOLEAN
        BY <1>4 DEF RereadApplied
    <2> QED BY <1>4, <2>1, <2>2, <2>3, <2>4, CallsKept DEF RereadApplied, SchedInv, SchedTypeOK
<1> QED BY <1>1, <1>2, <1>3, <1>4

(* Writes of locks touch neither the schedule nor its re-read.              *)
LEMMA LockMoves ==
    ASSUME SchedInv, NEW e \in Editors, NEW c \in LockCalls \cup {NoCall},
           call' = [call EXCEPT ![e] = c], call[e] \in LockCalls \cup {NoCall},
           lock' \in [LockKeys -> BOOLEAN], enabled' \in [LockKeys -> BOOLEAN],
           spend' \in [edits : Nat, outside : Nat, lapses : Nat],
           UNCHANGED <<kept, signals, cache, reread, behind>>,
           \A k \in LockKeys : LockOK(k)', c \in LockCalls => c.key \in c.keys
    PROVE  SchedInv'
<1>1. SchedTypeOK'
    BY DEF SchedInv, SchedTypeOK
<1>2. call'[e] = c /\ \A d \in Editors \ {e} : call'[d] = call[d]
    BY DEF SchedInv, SchedTypeOK
<1>3. \A d \in Editors : EditOK(d)'
    BY <1>2, EditsKept, CallKinds DEF EditOK
<1>4. KeysOK'
    BY <1>2 DEF SchedInv, KeysOK
<1> QED BY <1>1, <1>3, <1>4 DEF SchedInv, RereadOK, CacheOK

LEMMA SetScheduleEnabledStep ==
    ASSUME SchedInv, NEW e \in Editors, NEW keys \in SUBSET LockKeys, NEW on \in BOOLEAN,
           SetScheduleEnabled(e, keys, on)
    PROVE  SchedInv'
<1> DEFINE c == [op |-> "lock", keys |-> keys, on |-> on, at |-> "ask", key |-> CHOOSE k \in keys : TRUE]
<1>1. (CHOOSE k \in keys : TRUE) \in keys
    BY DEF SetScheduleEnabled
<1>2. c \in LockCalls /\ c.at = "ask" /\ c.key \in c.keys
    BY <1>1 DEF LockCalls
<1>3. call' = [call EXCEPT ![e] = c] /\ call[e] = NoCall
    BY DEF SetScheduleEnabled
<1> HIDE DEF c
<1>4. spend' \in [edits : Nat, outside : Nat, lapses : Nat]
    BY DEF SchedInv, SchedTypeOK, SetScheduleEnabled
<1>5. call'[e] = c /\ \A d \in Editors \ {e} : call'[d] = call[d]
    BY <1>3 DEF SchedInv, SchedTypeOK
<1>6. \A k \in LockKeys : \A d \in Editors : Told(d, k)' <=> Told(d, k)
    BY <1>2, <1>3, <1>5, CallKinds DEF Told
<1>7. \A k \in LockKeys : LockOK(k)'
    BY <1>2, <1>3, <1>5, <1>6, CallKinds DEF SchedInv, LockOK, Told, SetScheduleEnabled
<1> QED BY <1>2, <1>3, <1>4, <1>7, LockMoves DEF SetScheduleEnabled, SchedInv, SchedTypeOK

(* A call that is a write of locks is typed as one.                         *)
LEMMA IsLock ==
    ASSUME SchedInv, NEW e \in Editors, call[e] # NoCall, call[e].op = "lock"
    PROVE  call[e] \in LockCalls /\ call[e].key \in LockKeys /\ call[e].on \in BOOLEAN
BY CallKinds DEF SchedInv, SchedTypeOK, LockCalls

LEMMA LockWrittenStep ==
    ASSUME SchedInv, NEW e \in Editors, LockWritten(e)
    PROVE  SchedInv'
<1> DEFINE c == [call[e] EXCEPT !.at = "told"]
           key == call[e].key
<1>1. call[e] \in LockCalls /\ key \in LockKeys /\ call[e].on \in BOOLEAN /\ call[e].at = "ask"
    BY IsLock DEF LockWritten
<1>2. /\ c \in LockCalls /\ c.at = "told" /\ c.key = key /\ c.on = call[e].on
      /\ c.keys = call[e].keys
    BY <1>1 DEF LockCalls
<1>3. call' = [call EXCEPT ![e] = c] /\ lock' = [lock EXCEPT ![key] = c.on]
    BY <1>2 DEF LockWritten
<1> HIDE DEF c
<1>4. call'[e] = c /\ \A d \in Editors \ {e} : call'[d] = call[d]
    BY <1>3 DEF SchedInv, SchedTypeOK
<1>5. /\ lock' \in [LockKeys -> BOOLEAN] /\ lock'[key] = c.on
      /\ \A k \in LockKeys \ {key} : lock'[k] = lock[k]
    BY <1>1, <1>2, <1>3 DEF SchedInv, SchedTypeOK
<1>6. editsCrossed \subseteq editsCrossed' /\ enabled' = enabled
    BY DEF LockWritten
<1>7. ASSUME NEW d \in Editors \ {e}, Told(d, key)
      PROVE  key \in editsCrossed'
    <2>1. call[d] \in LockCalls /\ key \in call[d].keys
        BY <1>7 DEF Told, SchedInv, KeysOK
    <2>2. d \in EditorsBusy \ {e} /\ call[d].op = "lock"
        BY <2>1, CallKinds DEF EditorsBusy
    <2> QED BY <2>1, <2>2 DEF LockWritten
<1>8. ASSUME NEW k \in LockKeys PROVE LockOK(k)'
    <2>1. CASE k = key
        <3>1. Told(e, k)'
            BY <1>2, <1>4, <2>1 DEF Told
        <3>2. \A d \in Editors : k \notin editsCrossed' /\ Told(d, k)' => d = e
            BY <1>4, <1>7, <2>1 DEF Told
        <3>3. call'[e].on = lock'[k]
            BY <1>4, <1>5, <2>1
        <3> QED BY <3>1, <3>2, <3>3 DEF LockOK
    <2>2. CASE k # key
        <3>1. \A d \in Editors : Told(d, k)' <=> Told(d, k)
            BY <1>1, <1>2, <1>4, <2>2 DEF Told
        <3>2. \A d \in Editors : Told(d, k) => call'[d].on = call[d].on
            BY <1>1, <1>4 DEF Told
        <3> QED BY <1>5, <1>6, <2>2, <3>1, <3>2 DEF SchedInv, LockOK
    <2> QED BY <2>1, <2>2
<1>9. c.key \in c.keys
    BY <1>1, <1>2 DEF SchedInv, KeysOK
<1> QED BY <1>1, <1>2, <1>3, <1>5, <1>8, <1>9, LockMoves DEF LockWritten, SchedInv, SchedTypeOK

LEMMA LockRecordedStep ==
    ASSUME SchedInv, NEW e \in Editors, LockRecorded(e)
    PROVE  SchedInv'
<1> DEFINE key == call[e].key
           rest == call[e].keys \ {key}
           c == IF rest = {} THEN NoCall
                ELSE [call[e] EXCEPT !.keys = rest, !.key = CHOOSE k \in rest : TRUE, !.at = "ask"]
<1>1. call[e] \in LockCalls /\ key \in LockKeys /\ call[e].on \in BOOLEAN /\ call[e].at = "told"
    BY IsLock DEF LockRecorded
<1>2. c = NoCall \/ (c \in LockCalls /\ c.at = "ask" /\ c.key \in c.keys)
    <2>1. rest # {} => (CHOOSE k \in rest : TRUE) \in rest
        OBVIOUS
    <2>2. rest \in SUBSET LockKeys
        BY <1>1 DEF LockCalls
    <2> HIDE DEF rest
    <2> QED BY <1>1, <2>1, <2>2 DEF LockCalls
<1>3. call' = [call EXCEPT ![e] = c] /\ enabled' = [enabled EXCEPT ![key] = call[e].on]
    BY DEF LockRecorded
<1> HIDE DEF c
<1>4. call'[e] = c /\ \A d \in Editors \ {e} : call'[d] = call[d]
    BY <1>3 DEF SchedInv, SchedTypeOK
<1>5. /\ enabled' \in [LockKeys -> BOOLEAN] /\ enabled'[key] = call[e].on
      /\ \A k \in LockKeys \ {key} : enabled'[k] = enabled[k]
    BY <1>1, <1>3 DEF SchedInv, SchedTypeOK
<1>6. Told(e, key)
    BY <1>1 DEF Told
<1>7. \A k \in LockKeys : \A d \in Editors : Told(d, k)' <=> d # e /\ Told(d, k)
    BY <1>2, <1>4, CallKinds DEF Told
<1>8. \A k \in LockKeys : Told(e, k) => k = key
    BY DEF Told
<1>9. ASSUME NEW k \in LockKeys PROVE LockOK(k)'
    <2>1. UNCHANGED <<lock, editsCrossed>>
        BY DEF LockRecorded
    <2>2. CASE k = key
        BY <1>4, <1>5, <1>6, <1>7, <2>1, <2>2 DEF SchedInv, LockOK
    <2>3. CASE k # key
        BY <1>4, <1>5, <1>7, <1>8, <2>1, <2>3 DEF SchedInv, LockOK
    <2> QED BY <2>2, <2>3
<1> QED BY <1>1, <1>2, <1>3, <1>5, <1>9, LockMoves, CallKinds DEF LockRecorded, SchedInv, SchedTypeOK

LEMMA LockFailsStep ==
    ASSUME SchedInv, NEW e \in Editors, LockFails(e)
    PROVE  SchedInv'
<1>1. call[e] \in LockCalls /\ call[e].at = "ask"
    BY IsLock DEF LockFails
<1>2. call' = [call EXCEPT ![e] = NoCall]
    BY DEF LockFails
<1>3. call'[e] = NoCall /\ \A d \in Editors \ {e} : call'[d] = call[d]
    BY <1>2 DEF SchedInv, SchedTypeOK
<1>4. \A k \in LockKeys : \A d \in Editors : Told(d, k)' <=> Told(d, k)
    BY <1>1, <1>3, CallKinds DEF Told
<1>5. \A k \in LockKeys : LockOK(k)'
    BY <1>1, <1>3, <1>4, CallKinds DEF SchedInv, LockOK, LockFails, Told
<1>6. spend' \in [edits : Nat, outside : Nat, lapses : Nat]
    BY DEF SchedInv, SchedTypeOK, LockFails, Lapse
<1> QED BY <1>1, <1>2, <1>5, <1>6, LockMoves, CallKinds DEF LockFails, SchedInv, SchedTypeOK

LEMMA SchedStepInv == SchedInv /\ [SchedNext]_schedVars => SchedInv'
<1> SUFFICES ASSUME SchedInv, [SchedNext]_schedVars PROVE SchedInv'
    OBVIOUS
<1>1. ASSUME NEW e \in Editors,
             \/ SetScheduleWeekday(e) \/ SetScheduleProfile(e) \/ SetSchedule(e) \/ LoadSchedule(e)
      PROVE  SchedInv'
    <2>1. \A s \in Slots : {s} \in SUBSET Slots
        OBVIOUS
    <2>2. \A p \in Profiles : {p} \X Weekdays \in SUBSET Slots
        BY DEF Slots
    <2> QED BY <1>1, <2>1, <2>2, BeginStep DEF SetScheduleWeekday, SetScheduleProfile, SetSchedule, LoadSchedule
<1>2. ASSUME NEW e \in Editors,
             \/ ScheduleRead(e) \/ ScheduleLoaded(e) \/ MergeEdit(e) \/ SchedulePut(e)
             \/ EditAnswered(e) \/ EditFails(e)
             \/ LockWritten(e) \/ LockRecorded(e) \/ LockFails(e)
      PROVE  SchedInv'
    BY <1>2, ScheduleReadStep, ScheduleLoadedStep, MergeEditStep, SchedulePutStep, EditAnsweredStep,
       EditFailsStep, LockWrittenStep, LockRecordedStep, LockFailsStep
<1>3. ASSUME NEW e \in Editors, NEW on \in BOOLEAN, NEW keys \in {LockKeys} \cup {{k} : k \in LockKeys},
             SetScheduleEnabled(e, keys, on)
      PROVE  SchedInv'
    BY <1>3, SetScheduleEnabledStep
<1>4. CASE \/ \E s \in Slots : OutsideEdit(s)
           \/ \E p, q \in Profiles : CopyScheduleProfile(p, q)
           \/ ScheduleChanged \/ RereadAnswered \/ RereadFails \/ RereadApplied
    BY <1>4, OutsideEditStep, CopyStep, RereadStep
<1>5. CASE UNCHANGED schedVars
    BY <1>5 DEF schedVars, SchedInv, SchedTypeOK, EditOK, RereadOK, CacheOK, LockOK, KeysOK, Told
<1> QED BY <1>1, <1>2, <1>3, <1>4, <1>5 DEF SchedNext

THEOREM SchedulesCorrect == SchedSpec => []SchedInv
BY SchedInitInv, SchedStepInv, PTL DEF SchedSpec

(* week_profile.py, reload_schedule and set_schedule_enabled: for all sets  *)
(* of profiles, weekdays, target channels and calls, a schedule at rest is  *)
(* the device's but for the named answers and failures, and so is a lock    *)
(* whose writes have not crossed.                                           *)
THEOREM ScheduleCacheIsExplained == SchedSpec => []ScheduleCacheExplained
<1>1. SchedInv => ScheduleCacheExplained
    <2> SUFFICES ASSUME SchedInv, SchedAtRest
                 PROVE  /\ cache \in {kept, NoSchedule} \/ behind
                        /\ \A k \in LockKeys \ editsCrossed : enabled[k] = lock[k]
        BY DEF ScheduleCacheExplained
    <2>1. \A e \in Editors : call[e] = NoCall
        BY DEF SchedAtRest, EditorsBusy
    <2>2. \A e \in Editors : \A k \in LockKeys : ~Told(e, k)
        BY <2>1, CallKinds DEF Told
    <2>3. cache \in {kept, NoSchedule} \/ behind
        BY DEF SchedAtRest, SchedInv, CacheOK, NotAsked
    <2> QED BY <2>2, <2>3 DEF SchedInv, LockOK
<1> QED BY <1>1, SchedulesCorrect, PTL

(* set_schedule_weekday and its siblings: however calls, copies, pushes and *)
(* other users interleave, a write of the whole schedule leaves a weekday   *)
(* it is not about as the device has it, unless the edit started from       *)
(* another one.                                                             *)
THEOREM EditsKeepOtherDays == SchedSpec => EditKeepsOtherDays
<1>1. SchedInv =>
        (\A e \in Editors : SchedulePut(e) =>
           \A s \in Slots \ call[e].slots : kept'[s] # kept[s] => call[e].base[s] # kept[s])
    <2> SUFFICES ASSUME SchedInv, NEW e \in Editors, SchedulePut(e),
                        NEW s \in Slots \ call[e].slots
                 PROVE  kept'[s] = call[e].base[s]
        OBVIOUS
    <2>1. call[e] \in EditCalls
        BY IsEdit DEF SchedulePut
    <2>2. call[e].sent[s] = call[e].base[s]
        BY <2>1 DEF SchedInv, EditOK, SchedulePut
    <2>3. kept'[s] = call[e].sent[s]
        BY DEF SchedulePut, Corrected
    <2> QED BY <2>2, <2>3
<1> QED BY <1>1, SchedulesCorrect, PTL DEF EditKeepsOtherDays

-----------------------------------------------------------------------------
(* The objects of a device.                                                 *)

Asked == [pc : {"asked"}, moved : BOOLEAN]
AnsweredRefresh == [pc : {"answered"}, moved : BOOLEAN, ver : Nat]
AskedReload == [pc : {"asked"}, inst : Nat \ {0}]
AnsweredReload == [pc : {"answered"}, inst : Nat \ {0}, ver : Nat]
ModelPush == [kind : Kinds, ver : Nat]

ModelTypeOK ==
    /\ actual \in [Kinds -> Nat]
    /\ pushes \in Seq(ModelPush)
    /\ val \in [Kinds -> Seq(Nat) \ {<<>>}]
    /\ entity \in [Kinds \cup Derived -> Nat]
    /\ over \subseteq Overridable /\ own \subseteq over
    /\ refresh \in [Refreshed -> {Idle} \cup Asked \cup AnsweredRefresh]
    /\ reload \in {Idle} \cup AskedReload \cup AnsweredReload
    /\ walk \in [stage : 0 .. Announce, read : SUBSET Nat]
    /\ blamed \subseteq Kinds

(* No copy of a value is newer than the daemon's.                           *)
VersionsOK ==
    /\ \A k \in Kinds : Stored(k) <= actual[k]
    /\ \A i \in 1 .. Len(pushes) : pushes[i].ver <= actual[pushes[i].kind]
    /\ \A k \in Refreshed : refresh[k].pc = "answered" => refresh[k].ver <= actual[k]
    /\ reload.pc = "answered" => reload.ver <= actual["schedule"]

(* The newest push of a kind that is still queued carries the daemon's      *)
(* value.                                                                   *)
Newest(k, i) == pushes[i].kind = k /\ pushes[i].ver = actual[k]
PushPending(k) == \E i \in 1 .. Len(pushes) : Newest(k, i)
QueueOK ==
    \A i \in 1 .. Len(pushes) : \E j \in i .. Len(pushes) : Newest(pushes[i].kind, j)

(* Generic and custom objects are built once; an entity holds an object     *)
(* that exists, and a value HA wrote has left own only where the entity is  *)
(* no longer the store's object.                                            *)
ObjectsOK ==
    /\ \A k \in {"generic", "custom"} : Len(val[k]) = 1 /\ k \notin rejected
    /\ \A k \in Kinds : entity[k] <= Len(val[k])
    /\ \A k \in over : entity[k] # 0 /\ (k \in own \/ ~Live(k))

(* A re-read that no other write has moved is not older than the stored     *)
(* state; one of the schedule writes the object it was asked for, and, if   *)
(* that is still the store's, nothing older than it has.                    *)
AnswersOK ==
    /\ refresh["custom"].pc = "answered" /\ ~refresh["custom"].moved =>
         Stored("custom") <= refresh["custom"].ver
    /\ reload.pc # "idle" => reload.inst \in 1 .. Len(val["schedule"])
    /\ reload.pc = "answered" /\ reload.inst = Len(val["schedule"]) =>
         Stored("schedule") <= reload.ver

(* The daemon's value of a kind is on its way: queued, or in the schedule   *)
(* re-read.  A kind is covered when it is stored, on its way or blamed, or  *)
(* when a walk has still to reach it; what a walk has read is the daemon's  *)
(* value or the kind is covered without it.                                 *)
OnItsWay(k) ==
    \/ PushPending(k)
    \/ /\ k = "schedule"
       /\ reload.pc = "asked" \/ (reload.pc = "answered" /\ reload.ver = actual[k])
Covered(k) == k \in blamed \/ Stored(k) = actual[k] \/ OnItsWay(k)
WalkPending(k) == \E i \in 1 .. 4 : Stages[i] = k /\ walk.stage \in 1 .. i
WalkRead ==
    walk.stage \in 1 .. 4 /\ walk.read # {} =>
        \E v \in Nat : /\ walk.read = {v}
                       /\ v <= actual[Stages[walk.stage]]
                       /\ v = actual[Stages[walk.stage]] \/ Covered(Stages[walk.stage])
CoverOK == \A k \in Kinds : Covered(k) \/ WalkPending(k)

ModelInv ==
    /\ ModelTypeOK
    /\ VersionsOK
    /\ QueueOK
    /\ ObjectsOK
    /\ AnswersOK
    /\ WalkRead
    /\ CoverOK

LEMMA StagesFact ==
    /\ Kinds = {"generic", "custom", "calculated", "schedule"}
    /\ Stages[1] = "generic" /\ Stages[2] = "custom"
    /\ Stages[3] = "calculated" /\ Stages[4] = "schedule"
    /\ Refreshed = {"generic", "custom", "calculated"} /\ Refreshed \subseteq Kinds
    /\ Overridable \subseteq Refreshed
<1>1. /\ Stages[1] = "generic" /\ Stages[2] = "custom"
      /\ Stages[3] = "calculated" /\ Stages[4] = "schedule"
    BY DEF Stages
<1>2. Kinds = {"generic", "custom", "calculated", "schedule"}
    <2>1. 1 .. 4 = {1, 2, 3, 4}
        OBVIOUS
    <2> QED BY <1>1, <2>1, Zenon DEF Kinds
<1> QED BY <1>1, <1>2 DEF Refreshed, Overridable

(* States of re-reads are told apart by their pc.                           *)
LEMMA RefreshKinds ==
    /\ Idle.pc = "idle"
    /\ \A r \in {Idle} \cup Asked \cup AnsweredRefresh :
         /\ r.pc \in {"idle", "asked", "answered"}
         /\ r.pc = "idle" <=> r = Idle
         /\ r.pc = "asked" <=> r \in Asked
         /\ r.pc = "answered" <=> r \in AnsweredRefresh
    /\ \A r \in {Idle} \cup AskedReload \cup AnsweredReload :
         /\ r.pc \in {"idle", "asked", "answered"}
         /\ r.pc = "idle" <=> r = Idle
         /\ r.pc = "asked" <=> r \in AskedReload
         /\ r.pc = "answered" <=> r \in AnsweredReload
BY DEF Idle, Asked, AnsweredRefresh, AskedReload, AnsweredReload

(* Replacing one element of a sequence.                                     *)
LEMMA PatchFact ==
    ASSUME NEW s \in Seq(Nat) \ {<<>>}, NEW n \in 1 .. Len(s), NEW v \in Nat
    PROVE  /\ [s EXCEPT ![n] = v] \in Seq(Nat) \ {<<>>}
           /\ Len([s EXCEPT ![n] = v]) = Len(s)
           /\ [s EXCEPT ![n] = v][Len(s)] = (IF n = Len(s) THEN v ELSE s[Len(s)])
           /\ Len(s) \in Nat \ {0} /\ s[Len(s)] \in Nat
<1>1. Len(s) \in Nat \ {0}
    BY EmptySeq, LenProperties
<1>2. s \in [1 .. Len(s) -> Nat]
    BY LenProperties
<1>3. [s EXCEPT ![n] = v] \in [1 .. Len(s) -> Nat]
    BY <1>2
<1>4. [s EXCEPT ![n] = v] \in Seq(Nat) /\ Len([s EXCEPT ![n] = v]) = Len(s)
    BY <1>1, <1>3, ExceptSeq
<1>5. [s EXCEPT ![n] = v][Len(s)] = (IF n = Len(s) THEN v ELSE s[Len(s)])
    <2>1. ASSUME NEW D, NEW f \in [D -> Nat], NEW m \in D
          PROVE  [f EXCEPT ![n] = v][m] = (IF n = m THEN v ELSE f[m])
        OBVIOUS
    <2>2. Len(s) \in 1 .. Len(s)
        BY <1>1
    <2> QED BY <1>2, <2>1, <2>2, Zenon
<1>6. s[Len(s)] \in Nat
    BY <1>1, <1>2
<1>7. [s EXCEPT ![n] = v] # <<>>
    BY <1>1, <1>4, EmptySeq
<1> QED BY <1>1, <1>4, <1>5, <1>6, <1>7

(* The store's object of a kind exists, and has a value.                    *)
LEMMA StoredFact ==
    ASSUME ModelTypeOK, NEW k \in Kinds
    PROVE  Stored(k) \in Nat /\ Len(val[k]) \in Nat \ {0} /\ actual[k] \in Nat
BY PatchFact, LenProperties, EmptySeq DEF ModelTypeOK, Stored

(* What a write of the store's object, of an older object and the building  *)
(* of a new one do to the values of the kinds.                              *)
LEMMA WriteFact ==
    ASSUME ModelTypeOK, NEW k \in Kinds, NEW v \in Nat, Write(k, v)
    PROVE  /\ val' \in [Kinds -> Seq(Nat) \ {<<>>}]
           /\ Stored(k)' = v /\ Len(val'[k]) = Len(val[k])
           /\ \A j \in Kinds \ {k} : val'[j] = val[j] /\ Stored(j)' = Stored(j)
           /\ \A j \in Kinds : Len(val'[j]) = Len(val[j])
<1> DEFINE s == [val[k] EXCEPT ![Len(val[k])] = v]
<1>1. Len(val[k]) \in 1 .. Len(val[k]) /\ val[k] \in Seq(Nat) \ {<<>>}
    BY StoredFact DEF ModelTypeOK
<1>2. s \in Seq(Nat) \ {<<>>} /\ Len(s) = Len(val[k]) /\ s[Len(val[k])] = v
    BY <1>1, PatchFact
<1>3. val' = [val EXCEPT ![k] = s]
    BY DEF Write
<1> HIDE DEF s
<1> QED BY <1>2, <1>3 DEF ModelTypeOK, Stored

LEMMA RebuildFact ==
    ASSUME ModelTypeOK, NEW k \in Kinds, NEW v \in Nat, Rebuild(k, v)
    PROVE  /\ val' \in [Kinds -> Seq(Nat) \ {<<>>}]
           /\ Stored(k)' = v /\ Len(val'[k]) = Len(val[k]) + 1
           /\ \A j \in Kinds \ {k} : val'[j] = val[j] /\ Stored(j)' = Stored(j)
<1> DEFINE s == Append(val[k], v)
<1>1. val[k] \in Seq(Nat) /\ Len(val[k]) \in Nat
    BY StoredFact DEF ModelTypeOK
<1>2. s \in Seq(Nat) /\ Len(s) = Len(val[k]) + 1 /\ s[Len(val[k]) + 1] = v
    BY <1>1, AppendProperties
<1>3. s # <<>>
    BY <1>1, <1>2, EmptySeq
<1>4. val' = [val EXCEPT ![k] = s]
    BY DEF Rebuild
<1> HIDE DEF s
<1> QED BY <1>2, <1>3, <1>4 DEF ModelTypeOK, Stored

(* Blames in terms of stored values: a kind leaves only when repaired.      *)
LEMMA BlamesFact ==
    ASSUME ModelTypeOK, NEW K \in SUBSET Kinds, Blames(K)
    PROVE  /\ blamed' \subseteq Kinds
           /\ \A k \in blamed \cup K : k \in blamed' \/ Stored(k)' = actual'[k]
BY DEF Blames, Stored, ModelTypeOK

LEMMA ModelInitInv == ModelInit => ModelInv
<1> SUFFICES ASSUME ModelInit PROVE ModelInv
    OBVIOUS
<1>1. <<0>> \in Seq(Nat) \ {<<>>} /\ Len(<<0>>) = 1 /\ <<0>>[1] = 0
    OBVIOUS
<1>2. pushes = <<>> /\ pushes \in Seq(ModelPush) /\ Len(pushes) = 0
    BY EmptySeq DEF ModelInit
<1>3. \A k \in Kinds : actual[k] = 0 /\ val[k] = <<0>> /\ Stored(k) = 0 /\ entity[k] = 0
    BY <1>1 DEF ModelInit, Stored
<1>4. walk \in [stage : 0 .. Announce, read : SUBSET Nat] /\ walk.stage = 5
    BY DEF ModelInit, AtStage, Announce
<1>5. ModelTypeOK
    <2>1. val \in [Kinds -> Seq(Nat) \ {<<>>}]
        BY <1>1 DEF ModelInit
    <2> QED BY <1>2, <1>4, <2>1 DEF ModelTypeOK, ModelInit
<1>6. \A k \in Refreshed : refresh[k] = Idle
    BY DEF ModelInit
<1>7. VersionsOK
    BY <1>2, <1>3, <1>6, RefreshKinds DEF VersionsOK, ModelInit
<1>8. QueueOK /\ ObjectsOK
    BY <1>1, <1>2, <1>3, StagesFact DEF QueueOK, ObjectsOK, ModelInit
<1>9. AnswersOK
    BY <1>6, StagesFact, RefreshKinds DEF AnswersOK, ModelInit
<1>10. WalkRead
    BY <1>4 DEF WalkRead
<1>11. CoverOK
    BY <1>3 DEF CoverOK, Covered
<1> QED BY <1>5, <1>7, <1>8, <1>9, <1>10, <1>11 DEF ModelInv

(* Nothing of the walk is disturbed by a step that keeps every kind covered.*)
LEMMA CoverKept ==
    ASSUME ModelInv, UNCHANGED <<walk, actual>>, \A k \in Kinds : Covered(k) => Covered(k)'
    PROVE  CoverOK' /\ WalkRead'
<1>1. CoverOK'
    BY DEF ModelInv, CoverOK, WalkPending
<1>2. walk.stage \in 1 .. 4 => Stages[walk.stage] \in Kinds
    BY DEF Kinds
<1>3. WalkRead'
    BY <1>2 DEF ModelInv, WalkRead
<1> QED BY <1>1, <1>3

(* With the queue and the values left alone, blame is passed on or ends.    *)
LEMMA CoveredStays ==
    ASSUME ModelInv, NEW K \in SUBSET Kinds, Blames(K), UNCHANGED <<pushes, actual>>,
           NEW k \in Kinds, Stored(k)' = Stored(k), k = "schedule" => reload' = reload,
           Covered(k)
    PROVE  Covered(k)'
<1>1. k \in blamed => k \in blamed' \/ Stored(k)' = actual'[k]
    BY BlamesFact DEF ModelInv
<1>2. PushPending(k) => PushPending(k)'
    BY DEF PushPending, Newest
<1> QED BY <1>1, <1>2 DEF Covered, OnItsWay

(* Taking the first push off the queue.                                     *)
LEMMA TailQueue ==
    ASSUME ModelInv, pushes # <<>>, pushes' = Tail(pushes), actual' = actual
    PROVE  /\ Head(pushes) \in ModelPush
           /\ Head(pushes).ver <= actual[Head(pushes).kind]
           /\ pushes' \in Seq(ModelPush) /\ QueueOK'
           /\ \A i \in 1 .. Len(pushes') : pushes'[i].ver <= actual'[pushes'[i].kind]
           /\ \A k \in Kinds \ {Head(pushes).kind} : PushPending(k) => PushPending(k)'
           /\ \A k \in Kinds : k = Head(pushes).kind =>
                Head(pushes).ver = actual[k] \/ PushPending(k)'
<1>1. /\ Head(pushes) \in ModelPush /\ Head(pushes) = pushes[1]
      /\ pushes' \in Seq(ModelPush) /\ Len(pushes') = Len(pushes) - 1
      /\ Len(pushes) \in Nat \ {0}
      /\ \A i \in 1 .. Len(pushes') : pushes'[i] = pushes[i + 1]
    BY EmptySeq, HeadTailProperties DEF ModelInv, ModelTypeOK
<1>2. \A k, i : i \in 1 .. Len(pushes') => (Newest(k, i)' <=> Newest(k, i + 1))
    BY <1>1 DEF Newest
<1>3. 1 \in 1 .. Len(pushes) /\ \A i \in 1 .. Len(pushes') : i + 1 \in 1 .. Len(pushes)
    BY <1>1
<1>4. \A i \in 2 .. Len(pushes) : i - 1 \in 1 .. Len(pushes') /\ (i - 1) + 1 = i
    BY <1>1
<1>5. QueueOK'
    <2> SUFFICES ASSUME NEW i \in 1 .. Len(pushes')
                 PROVE  \E j \in i .. Len(pushes') :
                            pushes'[j].kind = pushes'[i].kind /\ pushes'[j].ver = actual'[pushes'[i].kind]
        BY DEF QueueOK, Newest
    <2>1. PICK j \in i + 1 .. Len(pushes) : Newest(pushes[i + 1].kind, j)
        BY <1>3 DEF ModelInv, QueueOK
    <2>2. j - 1 \in i .. Len(pushes') /\ j - 1 \in 1 .. Len(pushes') /\ (j - 1) + 1 = j
        BY <1>1, <2>1
    <2>3. pushes'[j - 1] = pushes[j] /\ pushes'[i] = pushes[i + 1]
        BY <1>1, <2>2
    <2> QED BY <2>1, <2>2, <2>3 DEF Newest
<1>6. \A i \in 1 .. Len(pushes') : pushes'[i].ver <= actual'[pushes'[i].kind]
    BY <1>1, <1>3 DEF ModelInv, VersionsOK
<1>7. ASSUME NEW k \in Kinds, NEW i \in 2 .. Len(pushes), Newest(k, i)
      PROVE  PushPending(k)'
    BY <1>2, <1>4, <1>7 DEF PushPending
<1>8. \A k \in Kinds \ {Head(pushes).kind} : PushPending(k) => PushPending(k)'
    <2> SUFFICES ASSUME NEW k \in Kinds \ {Head(pushes).kind}, NEW i \in 1 .. Len(pushes), Newest(k, i)
                 PROVE  PushPending(k)'
        BY DEF PushPending
    <2>1. i # 1
        BY <1>1 DEF Newest
    <2> QED BY <1>7, <2>1
<1>9. ASSUME NEW k \in Kinds, k = Head(pushes).kind
      PROVE  Head(pushes).ver = actual[k] \/ PushPending(k)'
    <2>1. PICK j \in 1 .. Len(pushes) : Newest(pushes[1].kind, j)
        BY <1>3 DEF ModelInv, QueueOK
    <2>2. CASE j = 1
        BY <1>1, <1>9, <2>1, <2>2 DEF Newest
    <2>3. CASE j # 1
        <3>1. Newest(k, j) /\ j \in 2 .. Len(pushes)
            BY <1>1, <1>9, <2>1, <2>3
        <3> QED BY <1>7, <3>1
    <2> QED BY <2>2, <2>3
<1>10. Head(pushes).ver <= actual[Head(pushes).kind]
    BY <1>1, <1>3 DEF ModelInv, VersionsOK
<1> QED BY <1>1, <1>5, <1>6, <1>8, <1>9, <1>10

(* A queue left alone.                                                      *)
LEMMA SameQueue ==
    ASSUME ModelInv, UNCHANGED <<pushes, actual>>
    PROVE  /\ QueueOK'
           /\ \A i \in 1 .. Len(pushes') : pushes'[i].ver <= actual'[pushes'[i].kind]
BY DEF ModelInv, QueueOK, Newest, VersionsOK

(* The bookkeeping of a re-read that another write moves.                   *)
LEMMA MovesFact ==
    ASSUME ModelInv, NEW k \in Kinds, Moves(k)
    PROVE  /\ refresh' \in [Refreshed -> {Idle} \cup Asked \cup AnsweredRefresh]
           /\ \A j \in Refreshed :
                refresh'[j].pc = "answered" =>
                  refresh[j].pc = "answered" /\ refresh'[j].ver = refresh[j].ver
           /\ \A j \in Refreshed \ {"custom"} : refresh'[j] = refresh[j]
           /\ k # "custom" => refresh' = refresh
           /\ k = "custom" /\ refresh'["custom"].pc = "answered" => refresh'["custom"].moved
<1>1. CASE k = "custom" /\ refresh[k].pc # "idle"
    <2> DEFINE r == [refresh[k] EXCEPT !.moved = TRUE]
    <2>1. refresh[k] \in Asked \cup AnsweredRefresh
        BY <1>1, StagesFact, RefreshKinds DEF ModelInv, ModelTypeOK
    <2>2. /\ r \in Asked \cup AnsweredRefresh /\ r.pc = refresh[k].pc /\ r.moved
          /\ r.pc = "answered" => r.ver = refresh[k].ver
        BY <2>1 DEF Asked, AnsweredRefresh
    <2>3. refresh' = [refresh EXCEPT ![k] = r]
        BY <1>1 DEF Moves
    <2> HIDE DEF r
    <2> QED BY <1>1, <2>2, <2>3, StagesFact DEF ModelInv, ModelTypeOK
<1>2. CASE ~(k = "custom" /\ refresh[k].pc # "idle")
    <2>1. refresh' = refresh
        BY <1>2 DEF Moves
    <2> QED BY <1>2, <2>1, StagesFact DEF ModelInv, ModelTypeOK
<1> QED BY <1>1, <1>2

(* apply_value_changed and its like: the first push is applied.             *)
LEMMA HandlePushStep ==
    ASSUME ModelInv, HandlePush
    PROVE  ModelInv'
<1> DEFINE h == Head(pushes)
<1>1. PICK k \in Kinds : k = h.kind
    BY TailQueue DEF HandlePush, ModelPush
<1>2. /\ reload = Idle /\ pushes # <<>> /\ pushes' = Tail(pushes) /\ k # "schedule"
      /\ Write(k, h.ver) /\ ClearValueOverride(k) /\ Moves(k) /\ own' = own \ {k}
      /\ UNCHANGED <<actual, entity, reload, walk, rejected>> /\ Blames({})
    BY <1>1 DEF HandlePush
<1>3. /\ h.ver \in Nat /\ h.ver <= actual[k]
      /\ pushes' \in Seq(ModelPush) /\ QueueOK'
      /\ \A i \in 1 .. Len(pushes') : pushes'[i].ver <= actual'[pushes'[i].kind]
      /\ \A j \in Kinds \ {k} : PushPending(j) => PushPending(j)'
      /\ h.ver = actual[k] \/ PushPending(k)'
    BY <1>1, <1>2, TailQueue DEF ModelPush
<1> HIDE DEF h
<1>4. /\ val' \in [Kinds -> Seq(Nat) \ {<<>>}] /\ Stored(k)' = h.ver
      /\ \A j \in Kinds \ {k} : val'[j] = val[j] /\ Stored(j)' = Stored(j)
      /\ \A j \in Kinds : Len(val'[j]) = Len(val[j])
    BY <1>2, <1>3, WriteFact DEF ModelInv
<1>5. blamed' \subseteq Kinds /\ \A j \in blamed : j \in blamed' \/ Stored(j)' = actual'[j]
    BY <1>2, BlamesFact DEF ModelInv
<1>6. /\ over' \subseteq over /\ over \ {k} \subseteq over' /\ (Live(k) => k \notin over')
    BY <1>2 DEF ClearValueOverride
<1>7. ModelTypeOK'
    BY <1>2, <1>3, <1>4, <1>5, <1>6, MovesFact DEF ModelInv, ModelTypeOK
<1>8. VersionsOK'
    BY <1>2, <1>3, <1>4, MovesFact, RefreshKinds DEF ModelInv, VersionsOK
<1>9. ObjectsOK'
    <2>1. \A j \in over' : j \in over /\ j \in Kinds
        BY <1>6, StagesFact DEF ModelInv, ModelTypeOK
    <2>2. \A j \in over' : entity'[j] # 0 /\ (j \in own' \/ ~Live(j)')
        BY <1>2, <1>4, <1>6, <2>1 DEF ModelInv, ObjectsOK, Live
    <2> QED BY <1>2, <1>4, <2>2, StagesFact DEF ModelInv, ObjectsOK
<1>10. AnswersOK'
    BY <1>2, <1>4, MovesFact, StagesFact, RefreshKinds DEF ModelInv, AnswersOK
<1>11. ASSUME NEW j \in Kinds, Covered(j) PROVE Covered(j)'
    <2>1. CASE j = k
        BY <1>2, <1>3, <1>4, <2>1 DEF Covered, OnItsWay
    <2>2. CASE j # k
        <3>1. OnItsWay(j) => OnItsWay(j)'
            BY <1>2, <1>3, <2>2 DEF OnItsWay
        <3> QED BY <1>2, <1>4, <1>5, <1>11, <2>2, <3>1 DEF Covered
    <2> QED BY <2>1, <2>2
<1>12. CoverOK' /\ WalkRead'
    BY <1>2, <1>11, CoverKept
<1> QED BY <1>3, <1>7, <1>8, <1>9, <1>10, <1>12 DEF ModelInv

(* on_schedule_changed: the push becomes a re-read.                         *)
LEMMA OnScheduleChangedStep ==
    ASSUME ModelInv, OnScheduleChanged
    PROVE  ModelInv'
<1>1. /\ pushes # <<>> /\ Head(pushes).kind = "schedule" /\ pushes' = Tail(pushes)
      /\ reload' = [pc |-> "asked", inst |-> Len(val["schedule"])]
      /\ UNCHANGED <<actual, val, entity, over, refresh, walk, rejected, own, blamed>>
    BY DEF OnScheduleChanged
<1>2. /\ pushes' \in Seq(ModelPush) /\ QueueOK'
      /\ \A i \in 1 .. Len(pushes') : pushes'[i].ver <= actual'[pushes'[i].kind]
      /\ \A j \in Kinds \ {"schedule"} : PushPending(j) => PushPending(j)'
    BY <1>1, TailQueue
<1>3. reload' \in AskedReload /\ reload'.pc = "asked" /\ reload'.inst = Len(val["schedule"])
    BY <1>1, StoredFact, StagesFact DEF ModelInv, AskedReload
<1>4. \A k \in Kinds : Stored(k)' = Stored(k)
    BY <1>1 DEF Stored
<1>5. ModelTypeOK'
    BY <1>1, <1>2, <1>3 DEF ModelInv, ModelTypeOK
<1>6. VersionsOK'
    BY <1>1, <1>2, <1>3, <1>4 DEF ModelInv, VersionsOK
<1>7. ObjectsOK'
    BY <1>1 DEF ModelInv, ObjectsOK, Live
<1>8. AnswersOK'
    BY <1>1, <1>3, <1>4, StoredFact, StagesFact DEF ModelInv, AnswersOK
<1>9. \A k \in Kinds : Covered(k) => Covered(k)'
    BY <1>1, <1>2, <1>3, <1>4 DEF Covered, OnItsWay
<1>10. CoverOK' /\ WalkRead'
    BY <1>1, <1>9, CoverKept
<1> QED BY <1>2, <1>5, <1>6, <1>7, <1>8, <1>10 DEF ModelInv

(* The schedule re-read is answered.                                        *)
LEMMA ReloadAnsweredStep ==
    ASSUME ModelInv, ReloadAnswered
    PROVE  ModelInv'
<1>1. /\ reload.pc = "asked"
      /\ reload' = [pc |-> "answered", inst |-> reload.inst, ver |-> actual["schedule"]]
      /\ UNCHANGED <<actual, pushes, val, entity, over, refresh, walk, rejected, own, blamed>>
    BY DEF ReloadAnswered
<1>2. reload \in AskedReload /\ reload.inst \in Nat \ {0} /\ actual["schedule"] \in Nat
    BY <1>1, RefreshKinds, StagesFact, StoredFact DEF ModelInv, ModelTypeOK, AskedReload
<1>3. /\ reload' \in AnsweredReload /\ reload'.pc = "answered" /\ reload'.inst = reload.inst
      /\ reload'.ver = actual["schedule"]
    BY <1>1, <1>2 DEF AnsweredReload
<1>4. \A k \in Kinds : Stored(k)' = Stored(k)
    BY <1>1 DEF Stored
<1>5. ModelTypeOK'
    BY <1>1, <1>3 DEF ModelInv, ModelTypeOK
<1>6. VersionsOK' /\ QueueOK'
    BY <1>1, <1>2, <1>3, <1>4, SameQueue DEF ModelInv, VersionsOK
<1>7. ObjectsOK'
    BY <1>1 DEF ModelInv, ObjectsOK, Live
<1>8. AnswersOK'
    BY <1>1, <1>3, <1>4, StagesFact DEF ModelInv, AnswersOK, VersionsOK
<1>9. \A k \in Kinds : Covered(k) => Covered(k)'
    <2>1. \A k \in Kinds : PushPending(k)' <=> PushPending(k)
        BY <1>1 DEF PushPending, Newest
    <2> QED BY <1>1, <1>3, <1>4, <2>1 DEF Covered, OnItsWay
<1>10. CoverOK' /\ WalkRead'
    BY <1>1, <1>9, CoverKept
<1> QED BY <1>5, <1>6, <1>7, <1>8, <1>10 DEF ModelInv

(* The answer reaches the object the re-read was asked for.                 *)
LEMMA ReloadAppliedStep ==
    ASSUME ModelInv, ReloadApplied
    PROVE  ModelInv'
<1> DEFINE k == "schedule"
           n == reload.inst
           v == reload.ver
           s == [val[k] EXCEPT ![n] = v]
           K == IF n # Len(val[k]) THEN {k} ELSE {}
<1>1. /\ reload.pc = "answered" /\ val' = [val EXCEPT ![k] = s] /\ reload' = Idle
      /\ UNCHANGED <<actual, pushes, entity, over, refresh, walk, rejected, own>>
      /\ Blames(K)
    BY DEF ReloadApplied
<1>2. reload \in AnsweredReload /\ v \in Nat /\ n \in 1 .. Len(val[k]) /\ v <= actual[k]
    BY <1>1, RefreshKinds DEF ModelInv, ModelTypeOK, AnsweredReload, AnswersOK, VersionsOK
<1>3. k \in Kinds /\ val[k] \in Seq(Nat) \ {<<>>}
    BY StagesFact DEF ModelInv, ModelTypeOK
<1>4. /\ s \in Seq(Nat) \ {<<>>} /\ Len(s) = Len(val[k])
      /\ s[Len(val[k])] = IF n = Len(val[k]) THEN v ELSE Stored(k)
    BY <1>2, <1>3, PatchFact DEF Stored
<1>5. K \in SUBSET Kinds /\ (n # Len(val[k]) => k \in K)
    BY <1>3
<1> HIDE DEF s, n, v, K
<1>6. /\ val' \in [Kinds -> Seq(Nat) \ {<<>>}] /\ Len(val'[k]) = Len(val[k])
      /\ Stored(k)' = IF n = Len(val[k]) THEN v ELSE Stored(k)
      /\ \A j \in Kinds \ {k} : val'[j] = val[j] /\ Stored(j)' = Stored(j)
    BY <1>1, <1>3, <1>4 DEF Stored, ModelInv, ModelTypeOK
<1>7. blamed' \subseteq Kinds /\ \A j \in blamed \cup K : j \in blamed' \/ Stored(j)' = actual'[j]
    BY <1>1, <1>5, BlamesFact DEF ModelInv
<1>8. ModelTypeOK'
    BY <1>1, <1>6, <1>7 DEF ModelInv, ModelTypeOK
<1>9. VersionsOK' /\ QueueOK'
    BY <1>1, <1>2, <1>6, SameQueue, RefreshKinds DEF ModelInv, VersionsOK
<1>10. ObjectsOK'
    BY <1>1, <1>3, <1>6, StagesFact DEF ModelInv, ObjectsOK, Live
<1>11. AnswersOK'
    BY <1>1, <1>6, StagesFact, RefreshKinds DEF ModelInv, AnswersOK
<1>12. ASSUME NEW j \in Kinds, Covered(j) PROVE Covered(j)'
    <2>1. PushPending(j)' <=> PushPending(j)
        BY <1>1 DEF PushPending, Newest
    <2>2. CASE j # k
        <3>1. OnItsWay(j) => OnItsWay(j)'
            BY <2>1, <2>2 DEF OnItsWay
        <3> QED BY <1>1, <1>6, <1>7, <1>12, <2>2, <3>1 DEF Covered
    <2>3. CASE j = k /\ n # Len(val[k])
        BY <1>5, <1>7, <2>3 DEF Covered
    <2>4. CASE j = k /\ n = Len(val[k])
        <3>1. Stored(k) <= v /\ Stored(k) \in Nat /\ actual[k] \in Nat
            BY <1>1, <1>3, <2>4, StoredFact DEF ModelInv, AnswersOK, n, v
        <3>2. CASE Stored(k) = actual[k]
            BY <1>1, <1>2, <1>6, <2>4, <3>1, <3>2 DEF Covered
        <3>3. CASE k \in blamed
            BY <1>7, <2>4, <3>3 DEF Covered
        <3>4. CASE PushPending(k)
            BY <2>1, <2>4, <3>4 DEF Covered, OnItsWay
        <3>5. CASE v = actual[k]
            BY <1>1, <1>6, <2>4, <3>5 DEF Covered
        <3> QED BY <1>1, <1>12, <2>4, <3>2, <3>3, <3>4, <3>5 DEF Covered, OnItsWay, v
    <2> QED BY <2>2, <2>3, <2>4
<1>13. CoverOK' /\ WalkRead'
    BY <1>1, <1>12, CoverKept
<1> QED BY <1>8, <1>9, <1>10, <1>11, <1>13 DEF ModelInv

(* The re-read fails, and the schedule is blamed unless it is right.        *)
LEMMA ReloadFailsStep ==
    ASSUME ModelInv, ReloadFails
    PROVE  ModelInv'
<1>1. /\ reload' = Idle
      /\ UNCHANGED <<actual, pushes, val, entity, over, refresh, walk, rejected, own>>
      /\ Blames({"schedule"})
    BY DEF ReloadFails
<1>2. \A k \in Kinds : Stored(k)' = Stored(k)
    BY <1>1 DEF Stored
<1>3. /\ blamed' \subseteq Kinds
      /\ \A j \in blamed \cup {"schedule"} : j \in blamed' \/ Stored(j)' = actual'[j]
    BY <1>1, BlamesFact, StagesFact DEF ModelInv
<1>4. ModelTypeOK'
    BY <1>1, <1>3 DEF ModelInv, ModelTypeOK
<1>5. VersionsOK' /\ QueueOK'
    BY <1>1, <1>2, SameQueue, RefreshKinds DEF ModelInv, VersionsOK
<1>6. ObjectsOK'
    BY <1>1 DEF ModelInv, ObjectsOK, Live
<1>7. AnswersOK'
    BY <1>1, <1>2, RefreshKinds, StagesFact DEF ModelInv, AnswersOK
<1>8. \A k \in Kinds : Covered(k) => Covered(k)'
    <2>1. \A k \in Kinds : PushPending(k)' <=> PushPending(k)
        BY <1>1 DEF PushPending, Newest
    <2> QED BY <1>1, <1>2, <1>3, <2>1 DEF Covered, OnItsWay
<1>9. CoverOK' /\ WalkRead'
    BY <1>1, <1>8, CoverKept
<1> QED BY <1>4, <1>5, <1>6, <1>7, <1>9 DEF ModelInv

(* load_data_point_value: asked and answered, nothing written.              *)
LEMMA RefreshMoves ==
    ASSUME ModelInv, NEW k \in Refreshed, NEW r \in {Idle} \cup Asked \cup AnsweredRefresh,
           refresh' = [refresh EXCEPT ![k] = r],
           UNCHANGED <<actual, pushes, val, entity, over, reload, walk, rejected, own, blamed>>,
           r.pc = "answered" => r.ver = actual[k]
    PROVE  ModelInv'
<1>1. refresh'[k] = r /\ \A j \in Refreshed \ {k} : refresh'[j] = refresh[j]
    BY DEF ModelInv, ModelTypeOK
<1>2. \A j \in Kinds : Stored(j)' = Stored(j)
    BY DEF Stored
<1>3. k \in Kinds /\ actual[k] \in Nat
    BY StagesFact, StoredFact DEF ModelInv
<1>4. ModelTypeOK'
    BY DEF ModelInv, ModelTypeOK
<1>5. VersionsOK' /\ QueueOK'
    BY <1>1, <1>2, <1>3, SameQueue DEF ModelInv, VersionsOK
<1>6. ObjectsOK'
    BY DEF ModelInv, ObjectsOK, Live
<1>7. AnswersOK'
    BY <1>1, <1>2, <1>3, StagesFact DEF ModelInv, AnswersOK, VersionsOK
<1>8. \A j \in Kinds : Covered(j) => Covered(j)'
    BY <1>2 DEF Covered, OnItsWay, PushPending, Newest
<1>9. CoverOK' /\ WalkRead'
    BY <1>8, CoverKept
<1> QED BY <1>4, <1>5, <1>6, <1>7, <1>9 DEF ModelInv

LEMMA RefreshSteps ==
    ASSUME ModelInv, NEW k \in Refreshed, RefreshAsked(k) \/ RefreshAnswered(k) \/ RefreshFails(k)
    PROVE  ModelInv'
<1>1. CASE RefreshAsked(k)
    <2> DEFINE r == [pc |-> "asked", moved |-> FALSE]
    <2>1. r \in Asked /\ r.pc = "asked"
        BY DEF Asked
    <2>2. refresh' = [refresh EXCEPT ![k] = r]
        BY <1>1 DEF RefreshAsked
    <2> HIDE DEF r
    <2> QED BY <1>1, <2>1, <2>2, RefreshMoves DEF RefreshAsked
<1>2. CASE RefreshAnswered(k)
    <2> DEFINE r == [pc |-> "answered", moved |-> refresh[k].moved, ver |-> actual[k]]
    <2>1. refresh[k] \in Asked /\ actual[k] \in Nat
        BY <1>2, RefreshKinds, StagesFact, StoredFact DEF RefreshAnswered, ModelInv, ModelTypeOK
    <2>2. r \in AnsweredRefresh /\ r.ver = actual[k]
        BY <2>1 DEF Asked, AnsweredRefresh
    <2>3. refresh' = [refresh EXCEPT ![k] = r]
        BY <1>2 DEF RefreshAnswered
    <2> HIDE DEF r
    <2> QED BY <1>2, <2>2, <2>3, RefreshMoves DEF RefreshAnswered
<1>3. CASE RefreshFails(k)
    BY <1>3, RefreshMoves, RefreshKinds DEF RefreshFails
<1> QED BY <1>1, <1>2, <1>3

(* An answer that is not judged stale is at least as new as what is stored: *)
(* a timestamp says so, or the absence of any write since it was asked.     *)
LEMMA NotStaleIsNewer ==
    ASSUME ModelInv, NEW k \in Refreshed, refresh[k].pc = "answered", ~RefreshIsStale(k)
    PROVE  refresh[k].ver \in Nat /\ Stored(k) <= refresh[k].ver /\ refresh[k].ver <= actual[k]
<1>1. refresh[k] \in AnsweredRefresh /\ refresh[k].ver \in Nat
    BY RefreshKinds DEF ModelInv, ModelTypeOK, AnsweredRefresh
<1>2. Stored(k) \in Nat
    BY StagesFact, StoredFact DEF ModelInv
<1> QED BY <1>1, <1>2 DEF ModelInv, AnswersOK, VersionsOK, RefreshIsStale

(* refresh_*: the answer is dropped as stale, or written.                   *)
LEMMA RefreshAppliedStep ==
    ASSUME ModelInv, NEW k \in Refreshed, RefreshApplied(k)
    PROVE  ModelInv' /\ Stored(k) <= Stored(k)' /\ Stored(k)' \in Nat
<1>1. /\ refresh[k].pc = "answered" /\ refresh' = [refresh EXCEPT ![k] = Idle]
      /\ UNCHANGED <<actual, pushes, entity, reload, walk, rejected>> /\ Blames({})
    BY DEF RefreshApplied
<1>2. k \in Kinds /\ k # "schedule" /\ Stored(k) \in Nat /\ actual[k] \in Nat
    BY StagesFact, StoredFact DEF ModelInv
<1>3. /\ val' \in [Kinds -> Seq(Nat) \ {<<>>}]
      /\ Stored(k) <= Stored(k)' /\ Stored(k)' <= actual[k] /\ Stored(k)' \in Nat
      /\ \A j \in Kinds \ {k} : val'[j] = val[j] /\ Stored(j)' = Stored(j)
      /\ \A j \in Kinds : Len(val'[j]) = Len(val[j])
    <2>1. CASE UNCHANGED val
        <3>1. \A j \in Kinds : Stored(j)' = Stored(j)
            BY <2>1 DEF Stored
        <3> QED BY <1>2, <2>1, <3>1 DEF ModelInv, ModelTypeOK, VersionsOK
    <2>2. CASE ~RefreshIsStale(k) /\ Write(k, refresh[k].ver)
        BY <1>1, <1>2, <2>2, NotStaleIsNewer, WriteFact DEF ModelInv
    <2> QED BY <2>1, <2>2 DEF RefreshApplied
<1>4. \/ UNCHANGED <<over, own>>
      \/ own' = own \ {k} /\ over' = IF Live(k) THEN over \ {k} ELSE over
    BY DEF RefreshApplied, ClearValueOverride
<1>5. /\ over' \subseteq over /\ over \ {k} \subseteq over' /\ own' \subseteq over'
      /\ own \ {k} \subseteq own' /\ (k \in over' => k \in own' \/ k \notin own \/ ~Live(k))
    BY <1>4 DEF ModelInv, ModelTypeOK
<1>6. blamed' \subseteq Kinds /\ \A j \in blamed : j \in blamed' \/ Stored(j)' = actual'[j]
    BY <1>1, BlamesFact DEF ModelInv
<1>7. refresh'[k].pc = "idle" /\ \A j \in Refreshed \ {k} : refresh'[j] = refresh[j]
    BY <1>1, RefreshKinds DEF ModelInv, ModelTypeOK
<1>8. ModelTypeOK'
    BY <1>1, <1>3, <1>5, <1>6 DEF ModelInv, ModelTypeOK
<1>9. VersionsOK' /\ QueueOK'
    BY <1>1, <1>3, <1>7, SameQueue DEF ModelInv, VersionsOK
<1>10. ObjectsOK'
    <2>1. \A j \in over' : j \in over /\ j \in Kinds
        BY <1>5, StagesFact DEF ModelInv, ModelTypeOK
    <2>2. \A j \in over' : entity'[j] # 0 /\ (j \in own' \/ ~Live(j)')
        BY <1>1, <1>3, <1>5, <2>1 DEF ModelInv, ObjectsOK, Live
    <2> QED BY <1>1, <1>3, <2>2, StagesFact DEF ModelInv, ObjectsOK
<1>11. AnswersOK'
    BY <1>1, <1>2, <1>3, <1>7, StagesFact DEF ModelInv, AnswersOK
<1>12. ASSUME NEW j \in Kinds, Covered(j) PROVE Covered(j)'
    <2>1. OnItsWay(j) => OnItsWay(j)'
        BY <1>1 DEF OnItsWay, PushPending, Newest
    <2>2. Stored(j) = actual[j] => Stored(j)' = actual'[j]
        BY <1>1, <1>2, <1>3
    <2> QED BY <1>1, <1>6, <1>12, <2>1, <2>2 DEF Covered
<1>13. CoverOK' /\ WalkRead'
    BY <1>1, <1>12, CoverKept
<1> QED BY <1>3, <1>8, <1>9, <1>10, <1>11, <1>13 DEF ModelInv

(* HA's own value, and the announcement, which gives HA the store's objects.*)
LEMMA HaWritesStep ==
    ASSUME ModelInv, NEW k \in Overridable, HaWrites(k)
    PROVE  ModelInv'
<1>1. /\ entity[k] # 0 /\ over' = over \cup {k} /\ own' = own \cup {k}
      /\ UNCHANGED <<actual, pushes, val, entity, refresh, reload, walk, rejected, blamed>>
    BY DEF HaWrites
<1>2. \A j \in Kinds : Stored(j)' = Stored(j)
    BY <1>1 DEF Stored
<1>3. ModelTypeOK'
    BY <1>1 DEF ModelInv, ModelTypeOK
<1>4. VersionsOK' /\ QueueOK' /\ AnswersOK'
    BY <1>1, <1>2, SameQueue, StagesFact DEF ModelInv, VersionsOK, AnswersOK
<1>5. ObjectsOK'
    BY <1>1 DEF ModelInv, ObjectsOK, Live
<1>6. \A j \in Kinds : Covered(j) => Covered(j)'
    BY <1>1, <1>2 DEF Covered, OnItsWay, PushPending, Newest
<1>7. CoverOK' /\ WalkRead'
    BY <1>1, <1>6, CoverKept
<1> QED BY <1>3, <1>4, <1>5, <1>7 DEF ModelInv

(* A stage of the walk is one of the four kinds, and the stage of a kind    *)
(* is its place in the order.                                               *)
LEMMA StageFact ==
    ASSUME NEW i \in 1 .. 4
    PROVE  /\ Stages[i] \in Kinds
           /\ \A j \in 1 .. 4 : Stages[j] = Stages[i] => j = i
<1>1. i \in {1, 2, 3, 4} /\ \A j \in 1 .. 4 : j \in {1, 2, 3, 4}
    OBVIOUS
<1> QED BY <1>1, StagesFact

(* The walk reads the daemon's value of the kind it has come to.            *)
LEMMA WalkReadsStep ==
    ASSUME ModelInv, WalkReads
    PROVE  ModelInv'
<1>1. /\ walk.stage \in 1 .. 4 /\ walk' = [walk EXCEPT !.read = {actual[Stages[walk.stage]]}]
      /\ UNCHANGED <<actual, pushes, val, entity, over, refresh, reload, rejected, own, blamed>>
    BY DEF WalkReads
<1>2. Stages[walk.stage] \in Kinds /\ actual[Stages[walk.stage]] \in Nat
    BY <1>1, StageFact, StoredFact DEF ModelInv
<1>3. /\ walk' \in [stage : 0 .. Announce, read : SUBSET Nat] /\ walk'.stage = walk.stage
      /\ walk'.read = {actual[Stages[walk.stage]]}
    BY <1>1, <1>2 DEF ModelInv, ModelTypeOK
<1>4. \A j \in Kinds : Stored(j)' = Stored(j)
    BY <1>1 DEF Stored
<1>5. ModelTypeOK'
    BY <1>1, <1>3 DEF ModelInv, ModelTypeOK
<1>6. VersionsOK' /\ QueueOK' /\ AnswersOK'
    BY <1>1, <1>4, SameQueue, StagesFact DEF ModelInv, VersionsOK, AnswersOK
<1>7. ObjectsOK'
    BY <1>1 DEF ModelInv, ObjectsOK, Live
<1>8. \A j \in Kinds : Covered(j) => Covered(j)'
    BY <1>1, <1>4 DEF Covered, OnItsWay, PushPending, Newest
<1>9. CoverOK'
    BY <1>3, <1>8 DEF ModelInv, CoverOK, WalkPending
<1>10. WalkRead'
    BY <1>1, <1>2, <1>3 DEF WalkRead
<1> QED BY <1>5, <1>6, <1>7, <1>9, <1>10 DEF ModelInv

(* The walk writes what it has read, in place or as a new object, and goes  *)
(* on: a value older than the stored one leaves the kind blamed.            *)
LEMMA WalkAttachesStep ==
    ASSUME ModelInv, WalkAttaches
    PROVE  ModelInv'
<1>1. PICK k \in Kinds, v \in Nat :
        /\ walk.stage \in 1 .. 4 /\ k = Stages[walk.stage] /\ walk.read = {v}
        /\ v <= actual[k] /\ (v = actual[k] \/ Covered(k))
    <2>1. walk.stage \in 1 .. 4 /\ walk.read # {} /\ Stages[walk.stage] \in Kinds
        BY StageFact DEF WalkAttaches
    <2> QED BY <2>1 DEF ModelInv, WalkRead
<1>2. /\ IF k \in {"generic", "custom"} THEN Write(k, v) ELSE Rebuild(k, v)
      /\ Moves(k) /\ walk' = AtStage(walk.stage + 1)
      /\ UNCHANGED <<actual, pushes, entity, over, reload, rejected, own>>
      /\ Blames(IF v < Stored(k) THEN {k} ELSE {})
    <2>1. (CHOOSE r \in walk.read : TRUE) = v
        BY <1>1
    <2> QED BY <1>1, <2>1 DEF WalkAttaches, AttachInPlace
<1>3. /\ val' \in [Kinds -> Seq(Nat) \ {<<>>}] /\ Stored(k)' = v
      /\ \A j \in Kinds \ {k} : val'[j] = val[j] /\ Stored(j)' = Stored(j)
      /\ k \in {"generic", "custom"} => Len(val'[k]) = Len(val[k])
      /\ k \notin {"generic", "custom"} => Len(val'[k]) = Len(val[k]) + 1
    BY <1>2, WriteFact, RebuildFact DEF ModelInv
<1>4. /\ blamed' \subseteq Kinds
      /\ \A j \in blamed : j \in blamed' \/ Stored(j)' = actual'[j]
      /\ v < Stored(k) => k \in blamed' \/ Stored(k)' = actual'[k]
    BY <1>2, BlamesFact DEF ModelInv
<1>5. /\ walk' \in [stage : 0 .. Announce, read : SUBSET Nat] /\ walk'.stage = walk.stage + 1
      /\ walk'.read = {}
    BY <1>1, <1>2 DEF AtStage, Announce
<1>6. Stored(k) \in Nat /\ actual[k] \in Nat /\ Len(val[k]) \in Nat \ {0} /\ Stored(k) <= actual[k]
    BY StoredFact DEF ModelInv, VersionsOK
<1>7. ModelTypeOK'
    BY <1>2, <1>3, <1>4, <1>5, MovesFact DEF ModelInv, ModelTypeOK
<1>8. VersionsOK' /\ QueueOK'
    BY <1>1, <1>2, <1>3, SameQueue, MovesFact, RefreshKinds DEF ModelInv, VersionsOK
<1>9. ObjectsOK'
    <2>1. \A j \in Kinds : Len(val[j]) \in Nat /\ entity[j] \in Nat
        BY StoredFact DEF ModelInv, ModelTypeOK
    <2>2. \A j \in Kinds : Len(val'[j]) = Len(val[j]) \/ Len(val'[j]) = Len(val[j]) + 1
        BY <1>3
    <2>3. \A j \in Kinds : entity'[j] <= Len(val'[j]) /\ (~Live(j) => ~Live(j)')
        BY <1>2, <2>1, <2>2 DEF ModelInv, ObjectsOK, Live
    <2>4. \A j \in over' : j \in Kinds
        BY <1>2, StagesFact DEF ModelInv, ModelTypeOK
    <2>5. \A j \in {"generic", "custom"} : Len(val'[j]) = 1
        BY <1>3, StagesFact DEF ModelInv, ObjectsOK
    <2> QED BY <1>2, <2>3, <2>4, <2>5 DEF ModelInv, ObjectsOK
<1>10. AnswersOK'
    <2>1. (refresh["custom"].pc = "answered" /\ ~refresh["custom"].moved =>
             Stored("custom") <= refresh["custom"].ver)'
        <3>1. CASE k = "custom"
            BY <1>2, <3>1, MovesFact
        <3>2. CASE k # "custom"
            <4>1. refresh' = refresh
                BY <1>2, <3>2, MovesFact
            <4>2. Stored("custom")' = Stored("custom")
                BY <1>3, <3>2, StagesFact
            <4> QED BY <4>1, <4>2 DEF ModelInv, AnswersOK
        <3> QED BY <3>1, <3>2
    <2>2. reload' = reload
        BY <1>2
    <2>3. Len(val'["schedule"]) = Len(val["schedule"]) \/ Len(val'["schedule"]) = Len(val["schedule"]) + 1
        BY <1>3, StagesFact
    <2>4. k # "schedule" => /\ Len(val'["schedule"]) = Len(val["schedule"])
                            /\ Stored("schedule")' = Stored("schedule")
        BY <1>3, StagesFact
    <2>5. k = "schedule" => Len(val'["schedule"]) = Len(val["schedule"]) + 1
        BY <1>3
    <2>6. Len(val["schedule"]) \in Nat
        BY StoredFact, StagesFact DEF ModelInv
    <2>7. (reload.pc # "idle" => reload.inst \in 1 .. Len(val["schedule"]))'
        BY <2>2, <2>3, <2>6 DEF ModelInv, AnswersOK
    <2>8. (reload.pc = "answered" /\ reload.inst = Len(val["schedule"]) =>
             Stored("schedule") <= reload.ver)'
        BY <2>2, <2>4, <2>5, <2>6 DEF ModelInv, AnswersOK
    <2> QED BY <2>1, <2>7, <2>8 DEF AnswersOK
<1>11. \A j \in Kinds : OnItsWay(j) => OnItsWay(j)'
    BY <1>2 DEF OnItsWay, PushPending, Newest
<1>12. Covered(k)'
    BY <1>1, <1>2, <1>3, <1>4, <1>6, <1>11 DEF Covered
<1>13. \A j \in Kinds \ {k} : Covered(j) => Covered(j)'
    BY <1>2, <1>3, <1>4, <1>11 DEF Covered
<1>14. ASSUME NEW j \in Kinds, ~Covered(j), j # k PROVE WalkPending(j)'
    <2>1. PICK i \in 1 .. 4 : Stages[i] = j /\ walk.stage \in 1 .. i
        BY <1>14 DEF ModelInv, CoverOK, WalkPending
    <2>2. walk.stage # i
        BY <1>1, <1>14, <2>1
    <2>3. walk'.stage \in 1 .. i
        BY <1>1, <1>5, <2>1, <2>2
    <2> QED BY <2>1, <2>3 DEF WalkPending
<1>15. CoverOK' /\ WalkRead'
    BY <1>5, <1>12, <1>13, <1>14 DEF CoverOK, WalkRead
<1> QED BY <1>7, <1>8, <1>9, <1>10, <1>15 DEF ModelInv

(* A stage fails: what the walk has not reached is blamed unless right.     *)
LEMMA WalkFailsStep ==
    ASSUME ModelInv, WalkFails
    PROVE  ModelInv'
<1> DEFINE K == {Stages[i] : i \in walk.stage .. 4}
<1>1. /\ walk.stage \in 1 .. 4
      /\ walk' = IF walk.stage = 4 THEN AtStage(Announce) ELSE AtStage(0)
      /\ UNCHANGED <<actual, pushes, val, entity, over, refresh, reload, rejected, own>>
      /\ Blames(K)
    BY DEF WalkFails
<1>2. K \in SUBSET Kinds /\ \A i \in 1 .. 4 : walk.stage \in 1 .. i => Stages[i] \in K
    BY <1>1, StageFact
<1> HIDE DEF K
<1>3. \A j \in Kinds : Stored(j)' = Stored(j)
    BY <1>1 DEF Stored
<1>4. blamed' \subseteq Kinds /\ \A j \in blamed \cup K : j \in blamed' \/ Stored(j)' = actual'[j]
    BY <1>1, <1>2, BlamesFact DEF ModelInv
<1>5. walk' \in [stage : 0 .. Announce, read : SUBSET Nat] /\ walk'.read = {}
    BY <1>1 DEF AtStage, Announce
<1>6. ModelTypeOK'
    BY <1>1, <1>4, <1>5 DEF ModelInv, ModelTypeOK
<1>7. VersionsOK' /\ QueueOK' /\ AnswersOK'
    BY <1>1, <1>3, SameQueue, StagesFact DEF ModelInv, VersionsOK, AnswersOK
<1>8. ObjectsOK'
    BY <1>1 DEF ModelInv, ObjectsOK, Live
<1>9. \A j \in Kinds : Covered(j) => Covered(j)'
    BY <1>1, <1>2, <1>3, CoveredStays
<1>10. \A j \in Kinds : WalkPending(j) => Covered(j)'
    BY <1>2, <1>4 DEF WalkPending, Covered
<1>11. CoverOK' /\ WalkRead'
    BY <1>5, <1>9, <1>10 DEF ModelInv, CoverOK, WalkRead
<1> QED BY <1>6, <1>7, <1>8, <1>11 DEF ModelInv

(* _emit_data_points_created: HA gets the objects it does not have.         *)
LEMMA EmitStep ==
    ASSUME ModelInv, EmitDataPointsCreated
    PROVE  ModelInv'
<1>1. /\ walk.stage = Announce /\ walk' = AtStage(0)
      /\ rejected' = rejected \cup {k \in Offered : entity[k] # 0}
      /\ UNCHANGED <<actual, pushes, val, over, refresh, reload, own, blamed>>
    BY DEF EmitDataPointsCreated
<1>2. entity' \in [Kinds \cup Derived -> Nat]
    BY StoredFact DEF EmitDataPointsCreated, ModelInv, ModelTypeOK
<1>3. \A k \in Kinds : entity'[k] = IF k \notin Offered \/ entity[k] # 0 THEN entity[k] ELSE Len(val[k])
    BY StagesFact DEF EmitDataPointsCreated, Derived
<1>4. \A j \in Kinds : Stored(j)' = Stored(j)
    BY <1>1 DEF Stored
<1>5. walk' \in [stage : 0 .. Announce, read : SUBSET Nat] /\ walk'.read = {}
    BY <1>1 DEF AtStage, Announce
<1>6. ModelTypeOK'
    BY <1>1, <1>2, <1>5 DEF ModelInv, ModelTypeOK
<1>7. VersionsOK' /\ QueueOK' /\ AnswersOK'
    BY <1>1, <1>4, SameQueue, StagesFact DEF ModelInv, VersionsOK, AnswersOK
<1>8. ObjectsOK'
    <2>1. \A k \in Kinds : entity'[k] <= Len(val'[k])
        BY <1>1, <1>3, StoredFact DEF ModelInv, ObjectsOK
    <2>2. \A k \in over : k \in Kinds /\ entity'[k] = entity[k]
        BY <1>3, StagesFact DEF ModelInv, ModelTypeOK, ObjectsOK
    <2>3. \A k \in {"generic", "custom"} : k \notin rejected'
        <3> SUFFICES ASSUME NEW k \in {"generic", "custom"}, k \in Offered, entity[k] # 0
                     PROVE  FALSE
            BY <1>1 DEF ModelInv, ObjectsOK
        <3>1. ~Live(k)
            BY StagesFact DEF Offered, Derived
        <3>2. entity[k] <= 1 /\ entity[k] \in Nat /\ Len(val[k]) = 1
            BY StagesFact DEF ModelInv, ModelTypeOK, ObjectsOK
        <3> QED BY <3>1, <3>2 DEF Live
    <2> QED BY <1>1, <2>1, <2>2, <2>3 DEF ModelInv, ObjectsOK, Live
<1>9. \A j \in Kinds : Covered(j) => Covered(j)'
    BY <1>1, <1>4 DEF Covered, OnItsWay, PushPending, Newest
<1>10. \A j \in Kinds : ~WalkPending(j)
    BY <1>1 DEF WalkPending, Announce
<1>11. CoverOK' /\ WalkRead'
    BY <1>5, <1>9, <1>10 DEF ModelInv, CoverOK, WalkRead
<1> QED BY <1>6, <1>7, <1>8, <1>11 DEF ModelInv

(* The daemon changes a value and says so: the push is queued.              *)
LEMMA DaemonChangesStep ==
    ASSUME ModelInv, NEW k \in Kinds, DaemonChanges(k)
    PROVE  ModelInv'
<1> DEFINE p == [kind |-> k, ver |-> actual[k] + 1]
           n == Len(pushes) + 1
<1>1. /\ actual' = [actual EXCEPT ![k] = @ + 1] /\ pushes' = Append(pushes, p)
      /\ UNCHANGED <<val, entity, over, refresh, reload, walk, rejected, own, blamed>>
    BY DEF DaemonChanges
<1>2. p \in ModelPush /\ actual[k] \in Nat /\ p.kind = k /\ p.ver = actual[k] + 1
    BY DEF ModelInv, ModelTypeOK, ModelPush
<1>3. /\ actual' \in [Kinds -> Nat] /\ actual'[k] = actual[k] + 1
      /\ \A j \in Kinds \ {k} : actual'[j] = actual[j]
    BY <1>1, <1>2 DEF ModelInv, ModelTypeOK
<1>4. /\ pushes' \in Seq(ModelPush) /\ Len(pushes') = n /\ Len(pushes) \in Nat
      /\ \A i \in 1 .. Len(pushes) : pushes'[i] = pushes[i] /\ pushes[i] \in ModelPush
      /\ pushes'[n] = p
    <2>1. pushes \in Seq(ModelPush)
        BY DEF ModelInv, ModelTypeOK
    <2> HIDE DEF p
    <2> QED BY <1>1, <1>2, <2>1, AppendProperties, LenProperties, ElementOfSeq
<1> HIDE DEF p
<1>5. n \in 1 .. Len(pushes') /\ \A i \in 1 .. Len(pushes') : i = n \/ i \in 1 .. Len(pushes)
    BY <1>4
<1>6. \A j \in Kinds : Stored(j)' = Stored(j) /\ actual[j] \in Nat
    BY <1>1, StoredFact DEF Stored, ModelInv
<1>7. PushPending(k)'
    BY <1>2, <1>3, <1>4, <1>5 DEF PushPending, Newest
<1>8. \A j \in Kinds \ {k} : PushPending(j) => PushPending(j)'
    BY <1>3, <1>4, <1>5 DEF PushPending, Newest
<1>9. ModelTypeOK'
    BY <1>1, <1>3, <1>4 DEF ModelInv, ModelTypeOK
<1>10. VersionsOK'
    <2>1. \A j \in Kinds : actual[j] <= actual'[j]
        BY <1>2, <1>3, <1>6
    <2>2. \A j \in Kinds : Stored(j)' <= actual'[j]
        <3> SUFFICES ASSUME NEW j \in Kinds PROVE Stored(j)' <= actual'[j]
            OBVIOUS
        <3>1. Stored(j) \in Nat /\ Stored(j) <= actual[j]
            BY StoredFact DEF ModelInv, VersionsOK
        <3> QED BY <1>3, <1>6, <2>1, <3>1
    <2>3. \A i \in 1 .. Len(pushes') : pushes'[i].ver <= actual'[pushes'[i].kind]
        <3> SUFFICES ASSUME NEW i \in 1 .. Len(pushes') PROVE pushes'[i].ver <= actual'[pushes'[i].kind]
            OBVIOUS
        <3>1. CASE i = n
            BY <1>2, <1>3, <1>4, <3>1
        <3>2. CASE i \in 1 .. Len(pushes)
            <4>1. pushes'[i] = pushes[i] /\ pushes[i].kind \in Kinds /\ pushes[i].ver \in Nat
                BY <1>4, <3>2 DEF ModelPush
            <4>2. pushes[i].ver <= actual[pushes[i].kind]
                BY <3>2 DEF ModelInv, VersionsOK
            <4> QED BY <1>3, <1>6, <2>1, <4>1, <4>2
        <3> QED BY <1>5, <3>1, <3>2
    <2>4. \A j \in Refreshed : refresh'[j].pc = "answered" => refresh'[j].ver <= actual'[j]
        <3> SUFFICES ASSUME NEW j \in Refreshed, refresh[j].pc = "answered"
                     PROVE  refresh[j].ver <= actual'[j]
            BY <1>1
        <3>1. refresh[j].ver \in Nat /\ refresh[j].ver <= actual[j] /\ j \in Kinds
            BY RefreshKinds, StagesFact DEF ModelInv, ModelTypeOK, VersionsOK, AnsweredRefresh
        <3> QED BY <1>3, <1>6, <2>1, <3>1
    <2>5. reload'.pc = "answered" => reload'.ver <= actual'["schedule"]
        <3> SUFFICES ASSUME reload.pc = "answered"
                     PROVE  reload.ver <= actual'["schedule"]
            BY <1>1
        <3>1. reload.ver \in Nat /\ reload.ver <= actual["schedule"] /\ "schedule" \in Kinds
            BY RefreshKinds, StagesFact DEF ModelInv, ModelTypeOK, VersionsOK, AnsweredReload
        <3> QED BY <1>3, <1>6, <2>1, <3>1
    <2> QED BY <2>2, <2>3, <2>4, <2>5 DEF VersionsOK
<1>11. QueueOK'
    <2> SUFFICES ASSUME NEW i \in 1 .. Len(pushes')
                 PROVE  \E j \in i .. Len(pushes') :
                            pushes'[j].kind = pushes'[i].kind /\ pushes'[j].ver = actual'[pushes'[i].kind]
        BY DEF QueueOK, Newest
    <2>1. CASE pushes'[i].kind = k
        <3>1. n \in i .. Len(pushes')
            BY <1>4, <1>5
        <3> QED BY <1>2, <1>3, <1>4, <2>1, <3>1
    <2>2. CASE pushes'[i].kind # k
        <3>1. i \in 1 .. Len(pushes) /\ pushes'[i] = pushes[i] /\ pushes[i].kind \in Kinds \ {k}
            BY <1>2, <1>4, <1>5, <2>2 DEF ModelPush
        <3>2. PICK j \in i .. Len(pushes) : Newest(pushes[i].kind, j)
            BY <3>1 DEF ModelInv, QueueOK
        <3>3. j \in i .. Len(pushes') /\ j \in 1 .. Len(pushes)
            BY <1>4, <3>1, <3>2
        <3> QED BY <1>3, <1>4, <3>1, <3>2, <3>3 DEF Newest
    <2> QED BY <2>1, <2>2
<1>12. ObjectsOK'
    BY <1>1 DEF ModelInv, ObjectsOK, Live
<1>13. AnswersOK'
    BY <1>1, <1>6, StagesFact DEF ModelInv, AnswersOK
<1>14. \A j \in Kinds : Covered(j) => Covered(j)'
    BY <1>1, <1>3, <1>6, <1>7, <1>8 DEF Covered, OnItsWay
<1>15. Covered(k)'
    BY <1>7 DEF Covered, OnItsWay
<1>16. CoverOK'
    BY <1>1, <1>14 DEF ModelInv, CoverOK, WalkPending
<1>17. WalkRead'
    <2> SUFFICES ASSUME walk.stage \in 1 .. 4, walk.read # {}
                 PROVE  WalkRead'
        BY <1>1 DEF WalkRead
    <2>1. PICK j \in Kinds, v \in Nat :
            /\ j = Stages[walk.stage] /\ walk.read = {v} /\ v <= actual[j] /\ (v = actual[j] \/ Covered(j))
        BY StageFact DEF ModelInv, WalkRead
    <2>2. v <= actual'[j] /\ (v = actual'[j] \/ Covered(j)')
        BY <1>3, <1>6, <1>14, <1>15, <2>1
    <2>3. j = Stages[walk'.stage] /\ walk'.read = {v}
        BY <1>1, <2>1
    <2>4. Covered(j)' => Covered(Stages[walk.stage])'
        BY <2>3
    <2> QED BY <2>2, <2>3, <2>4 DEF WalkRead
<1> QED BY <1>9, <1>10, <1>11, <1>12, <1>13, <1>16, <1>17 DEF ModelInv

(* Pushes are lost: a walk begins and will reach every kind, or what they   *)
(* were about is blamed unless right.                                       *)
LEMMA PushesLostStep ==
    ASSUME ModelInv, PushesLost
    PROVE  ModelInv'
<1> DEFINE K == {pushes[i].kind : i \in 1 .. Len(pushes)}
<1>1. /\ pushes' = <<>>
      /\ UNCHANGED <<actual, val, entity, over, refresh, reload, rejected, own>>
      /\ \/ walk.stage = 0 /\ walk' = AtStage(1) /\ UNCHANGED blamed
         \/ UNCHANGED walk /\ Blames(K)
    BY DEF PushesLost
<1>2. K \in SUBSET Kinds /\ \A j \in Kinds : PushPending(j) => j \in K
    <2>1. pushes \in Seq(ModelPush)
        BY DEF ModelInv, ModelTypeOK
    <2>2. \A i \in 1 .. Len(pushes) : pushes[i] \in ModelPush
        BY <2>1, ElementOfSeq
    <2> QED BY <2>2 DEF ModelPush, PushPending, Newest
<1> HIDE DEF K
<1>3. pushes' \in Seq(ModelPush) /\ Len(pushes') = 0 /\ \A i \in 1 .. Len(pushes') : FALSE
    BY <1>1, EmptySeq
<1>4. \A j \in Kinds : Stored(j)' = Stored(j)
    BY <1>1 DEF Stored
<1>5. /\ blamed' \subseteq Kinds /\ walk' \in [stage : 0 .. Announce, read : SUBSET Nat]
      /\ UNCHANGED walk => \A j \in blamed \cup K : j \in blamed' \/ Stored(j)' = actual'[j]
      /\ ~UNCHANGED walk => walk'.stage = 1 /\ walk'.read = {}
    <2>1. CASE walk.stage = 0 /\ walk' = AtStage(1) /\ UNCHANGED blamed
        BY <2>1 DEF AtStage, Announce, ModelInv, ModelTypeOK
    <2>2. CASE UNCHANGED walk /\ Blames(K)
        BY <1>2, <2>2, BlamesFact DEF ModelInv, ModelTypeOK
    <2> QED BY <1>1, <2>1, <2>2
<1>6. ModelTypeOK'
    BY <1>1, <1>3, <1>5 DEF ModelInv, ModelTypeOK
<1>7. VersionsOK' /\ QueueOK' /\ AnswersOK'
    BY <1>1, <1>3, <1>4, StagesFact DEF ModelInv, VersionsOK, QueueOK, AnswersOK
<1>8. ObjectsOK'
    BY <1>1 DEF ModelInv, ObjectsOK, Live
<1>9. CASE UNCHANGED walk
    <2>1. \A j \in Kinds : Covered(j) => Covered(j)'
        BY <1>1, <1>2, <1>4, <1>5, <1>9 DEF Covered, OnItsWay
    <2>2. CoverOK' /\ WalkRead'
        BY <1>1, <1>9, <2>1, CoverKept
    <2> QED BY <1>6, <1>7, <1>8, <2>2 DEF ModelInv
<1>10. CASE ~UNCHANGED walk
    <2>1. \A j \in Kinds : WalkPending(j)'
        <3> SUFFICES ASSUME NEW j \in Kinds PROVE WalkPending(j)'
            OBVIOUS
        <3>1. PICK i \in 1 .. 4 : Stages[i] = j
            BY DEF Kinds
        <3>2. walk'.stage \in 1 .. i
            BY <1>5, <1>10
        <3> QED BY <3>1, <3>2 DEF WalkPending
    <2>2. CoverOK' /\ WalkRead'
        BY <1>5, <1>10, <2>1 DEF CoverOK, WalkRead
    <2> QED BY <1>6, <1>7, <1>8, <2>2 DEF ModelInv
<1> QED BY <1>9, <1>10

LEMMA ModelStepInv == ModelInv /\ [ModelNext]_modelVars => ModelInv'
<1> SUFFICES ASSUME ModelInv, [ModelNext]_modelVars PROVE ModelInv'
    OBVIOUS
<1>1. CASE \/ HandlePush \/ OnScheduleChanged \/ ReloadAnswered \/ ReloadApplied \/ ReloadFails
    BY <1>1, HandlePushStep, OnScheduleChangedStep, ReloadAnsweredStep, ReloadAppliedStep,
       ReloadFailsStep
<1>2. CASE \E k \in Refreshed : \/ RefreshAsked(k) \/ RefreshAnswered(k)
                                \/ RefreshApplied(k) \/ RefreshFails(k)
    BY <1>2, RefreshSteps, RefreshAppliedStep
<1>3. CASE \/ \E k \in Overridable : HaWrites(k)
           \/ \E k \in Kinds : DaemonChanges(k)
    BY <1>3, HaWritesStep, DaemonChangesStep
<1>4. CASE WalkReads \/ WalkAttaches \/ WalkFails \/ EmitDataPointsCreated \/ PushesLost
    BY <1>4, WalkReadsStep, WalkAttachesStep, WalkFailsStep, EmitStep, PushesLostStep
<1>5. CASE UNCHANGED modelVars
    <2>1. UNCHANGED <<actual, pushes, val, entity, over, refresh, reload, walk, rejected, own, blamed>>
        BY <1>5 DEF modelVars
    <2>2. \A j \in Kinds : Stored(j)' = Stored(j)
        BY <2>1 DEF Stored
    <2>3. ModelTypeOK' /\ ObjectsOK'
        BY <2>1 DEF ModelInv, ModelTypeOK, ObjectsOK, Live
    <2>4. VersionsOK' /\ QueueOK' /\ AnswersOK'
        BY <2>1, <2>2, SameQueue, StagesFact DEF ModelInv, VersionsOK, AnswersOK
    <2>5. \A j \in Kinds : Covered(j) => Covered(j)'
        BY <2>1, <2>2 DEF Covered, OnItsWay, PushPending, Newest
    <2>6. CoverOK' /\ WalkRead'
        BY <2>1, <2>5, CoverKept
    <2> QED BY <2>3, <2>4, <2>6 DEF ModelInv
<1> QED BY <1>1, <1>2, <1>3, <1>4, <1>5 DEF ModelNext

THEOREM ModelCorrect == ModelSpec => []ModelInv
BY ModelInitInv, ModelStepInv, PTL DEF ModelSpec

(* store.py and model/*: for every number of changes, re-reads, losses and  *)
(* failures, a walk leaves HA's generic and custom entities the objects     *)
(* that pushes reach, what HA wrote goes only for a value of the daemon,    *)
(* and with nothing in flight an entity shows the daemon's value but for    *)
(* the named causes.                                                        *)
THEOREM EntitiesShowTheActual == ModelSpec => []EntitiesShowActual
<1>1. ModelInv => EntitiesShowActual
    <2> SUFFICES ASSUME ModelInv PROVE EntitiesShowActual
        OBVIOUS
    <2>1. \A k \in {"generic", "custom"} : (entity[k] # 0 => Live(k)) /\ k \notin rejected
        <3> SUFFICES ASSUME NEW k \in {"generic", "custom"}
                     PROVE  (entity[k] # 0 => entity[k] = Len(val[k])) /\ k \notin rejected
            BY DEF Live
        <3>1. k \in Kinds
            BY StagesFact
        <3>2. entity[k] \in Nat /\ entity[k] <= Len(val[k])
            BY <3>1 DEF ModelInv, ModelTypeOK, ObjectsOK
        <3>3. Len(val[k]) = 1 /\ k \notin rejected
            BY DEF ModelInv, ObjectsOK
        <3> QED BY <3>2, <3>3
    <2>2. own \subseteq over
        BY DEF ModelInv, ModelTypeOK
    <2>3. ASSUME Quiet, NEW k \in Kinds \ (blamed \cup own), entity[k] # 0, Live(k)
          PROVE  k \notin over /\ Stored(k) = actual[k]
        <3>1. k \notin over
            BY <2>3 DEF ModelInv, ObjectsOK
        <3>2. Len(pushes) = 0 /\ ~WalkPending(k)
            BY <2>3, EmptySeq DEF Quiet, WalkPending
        <3>3. ~OnItsWay(k)
            BY <2>3, <3>2, RefreshKinds DEF Quiet, OnItsWay, PushPending
        <3> QED BY <2>3, <3>1, <3>2, <3>3 DEF ModelInv, CoverOK, Covered
    <2> QED BY <2>1, <2>2, <2>3 DEF EntitiesShowActual
<1> QED BY <1>1, ModelCorrect, PTL

(* refresh_data_point and its siblings: for every interleaving of pushes,   *)
(* walks and re-reads, an answer never replaces a newer value.              *)
THEOREM RefreshesNeverRegress == ModelSpec => RefreshNeverRegresses
<1>1. ModelInv /\ [ModelNext]_modelVars =>
        (\A k \in Refreshed : refresh[k].pc = "answered" /\ refresh'[k].pc = "idle"
           => val'[k][Len(val'[k])] >= Stored(k))
    <2> SUFFICES ASSUME ModelInv, [ModelNext]_modelVars, NEW k \in Refreshed,
                        refresh[k].pc = "answered", refresh'[k].pc = "idle"
                 PROVE  Stored(k)' >= Stored(k)
        BY DEF Stored
    <2>1. Stored(k) \in Nat /\ k \in Kinds
        BY StagesFact, StoredFact DEF ModelInv
    <2>2. UNCHANGED val => Stored(k)' = Stored(k)
        BY DEF Stored
    <2>3. CASE \E j \in Refreshed : RefreshApplied(j)
        <3>1. PICK j \in Refreshed : RefreshApplied(j)
            BY <2>3
        <3>2. j = k
            BY <3>1 DEF RefreshApplied, ModelInv, ModelTypeOK
        <3> QED BY <2>1, <3>1, <3>2, RefreshAppliedStep
    <2>4. CASE HandlePush \/ WalkAttaches
        <3>1. PICK j \in Kinds : Moves(j)
            BY <2>4, StageFact, TailQueue DEF HandlePush, WalkAttaches, ModelPush
        <3>2. refresh'[k].pc = refresh[k].pc
            <4> DEFINE r == [refresh[j] EXCEPT !.moved = TRUE]
            <4>1. CASE j = "custom" /\ refresh[j].pc # "idle"
                <5>1. refresh[j] \in Asked \cup AnsweredRefresh
                    BY <4>1, StagesFact, RefreshKinds DEF ModelInv, ModelTypeOK
                <5>2. r.pc = refresh[j].pc
                    BY <5>1 DEF Asked, AnsweredRefresh
                <5>3. refresh' = [refresh EXCEPT ![j] = r]
                    BY <3>1, <4>1 DEF Moves
                <5> HIDE DEF r
                <5> QED BY <5>2, <5>3 DEF ModelInv, ModelTypeOK
            <4>2. CASE ~(j = "custom" /\ refresh[j].pc # "idle")
                BY <3>1, <4>2 DEF Moves
            <4> QED BY <4>1, <4>2
        <3> QED BY <3>2
    <2>5. CASE ReloadApplied
        BY <2>5 DEF ReloadApplied
    <2>6. CASE ~ \/ HandlePush \/ WalkAttaches \/ ReloadApplied
                 \/ \E j \in Refreshed : RefreshApplied(j)
        <3>1. UNCHANGED val
            BY <2>6 DEF ModelNext, OnScheduleChanged, ReloadAnswered, ReloadFails, RefreshAsked,
                   RefreshAnswered, RefreshFails, HaWrites, WalkReads, WalkFails,
                   EmitDataPointsCreated, DaemonChanges, PushesLost, modelVars
        <3> QED BY <2>1, <2>2, <3>1
    <2> QED BY <2>3, <2>4, <2>5, <2>6
<1> QED BY <1>1, ModelCorrect, PTL DEF ModelSpec, RefreshNeverRegresses

-----------------------------------------------------------------------------
(***************************************************************************)
(* CustomCommands.  Two arguments run side by side.  A command alone on    *)
(* the entity: every operation left agrees with what was asked for, and    *)
(* what none of them sets is set already.  An on-time staged once: it is   *)
(* in one place at a time, and the operation that uses it is the last of   *)
(* its command.                                                            *)
(***************************************************************************)
Stagings == 1 .. MaxStages

(* A plain switch-on of a light that an older daemon is to bound.           *)
StagedThere(r, seconds) ==
    kind = "light" /\ ~bounded /\ r.op = "turn_on" /\ Plain(r) /\ seconds # NoValue

IsList(s) == \E S : s \in Seq(S)

(* What the operations left of a command may be, by position.               *)
ScriptOK(s, r, seconds) ==
    /\ Len(s) # 0
    /\ \A j \in 1 .. Len(s) :
         /\ "timer" \in DOMAIN s[j].sets =>
              s[j].sets["timer"] = NoValue \/ (s[j].sets["timer"] = seconds /\ j = Len(s))
         /\ kind = "light" /\ s[j].name = "turn_on" => j = Len(s) /\ r.op = "turn_on"
         /\ s[j].name = "set_timer_on_time" => j = 1 /\ Len(s) = 2 /\ StagedThere(r, seconds)
    /\ StagedThere(r, seconds) =>
         /\ s[Len(s)].name = "turn_on"
         /\ Len(s) = 1 \/ (Len(s) = 2 /\ s[1].name = "set_timer_on_time")

(* No operation left sets an aspect otherwise than asked for.               *)
Agrees(s, r, seconds) ==
    \A g \in Goal(r, seconds) : (g[1] = "timer" => ~StagedThere(r, seconds)) =>
        \A j \in 1 .. Len(s) : g[1] \in DOMAIN s[j].sets => s[j].sets[g[1]] = g[2]
Sets(s, a) == \E j \in 1 .. Len(s) : a \in DOMAIN s[j].sets


(* What is known of a command under way.                                    *)
KnownCall(q) ==
    /\ q = [op |-> q.op, req |-> q.req, seconds |-> q.seconds, rest |-> q.rest]
    /\ q.seconds \in (0 .. costs.stages) \cup {Explicit}
    /\ IsList(q.rest)
    /\ ScriptOK(q.rest, q.req, q.seconds)
    /\ Agrees(q.rest, q.req, q.seconds)
    /\ \A g \in Goal(q.req, q.seconds) : g[1] \in CdpAspects

(* What is known of a command that is alone.                                *)
KnownAlone(q) ==
    /\ \A g \in Goal(q.req, q.seconds) :
         \/ Sets(q.rest, g[1]) \/ (g[1] = "timer" /\ StagedThere(q.req, q.seconds))
         \/ output[g[1]] = g[2]
    /\ StagedThere(q.req, q.seconds) /\ Len(q.rest) = 1 => stage = q.seconds

CallsOK ==
    \A c \in Callers : \A q \in {doing[c]} : q # CallerIdle =>
        /\ KnownCall(q)
        /\ c \notin crossed => KnownAlone(q)
        /\ \A d \in Callers \ {c} : doing[d] # CallerIdle => c \in crossed

(* A daemon's own stage belongs to a command that has still to take it.     *)
Owns(q, n) ==
    q # CallerIdle /\ q.seconds = n /\ Len(q.rest) = 1 /\ StagedThere(q.req, n)

(* An on-time that was staged is in one place at most.                      *)
StagingOK(n) ==
    /\ uses[n] <= 1 /\ (n \in dropped \/ uses[n] > 0 => n <= costs.stages)
    /\ n \in dropped => uses[n] = 0
    /\ pending = n => uses[n] = 0 /\ n \notin dropped
    /\ \A c \in Callers : doing[c] # CallerIdle /\ doing[c].seconds = n =>
         /\ uses[n] = 0 /\ n \notin dropped /\ pending # n
         /\ \A d \in Callers \ {c} : doing[d] # CallerIdle => doing[d].seconds # n
    /\ stage = n => \E c \in Callers : \E q \in {doing[c]} : Owns(q, n)
StagingsOK == \A n \in Stagings \ leaked : StagingOK(n)

CommandTypes ==
    /\ kind \in CdpKinds /\ bounded \in BOOLEAN
    /\ costs \in [calls : Nat, stages : 0 .. MaxStages, refusals : Nat]
    /\ pending \in 0 .. costs.stages
    /\ stage \in (0 .. costs.stages) \cup {Explicit}
    /\ uses \in [Stagings -> Nat]
    /\ output = [a \in CdpAspects |-> output[a]]
    /\ doing = [c \in Callers |-> doing[c]]

CommandInv == CommandTypes /\ CallsOK /\ StagingsOK /\ missed = {}

(* What a script must be when its command starts.                           *)
Fits(s, r, seconds) ==
    /\ IsList(s) /\ ScriptOK(s, r, seconds) /\ Agrees(s, r, seconds)
    /\ \A g \in Goal(r, seconds) :
         g[1] \in CdpAspects /\ (Sets(s, g[1]) \/ (g[1] = "timer" /\ StagedThere(r, seconds)))
    /\ StagedThere(r, seconds) => Len(s) = 2

(* The names of what a caller may ask for.                                  *)
LEMMA RequestNames ==
    ASSUME NEW r \in Requests(kind), kind \in CdpKinds
    PROVE  /\ kind = "switch" => r.op \in {"turn_on", "turn_off"}
           /\ kind = "light" => r.op \in {"turn_on", "turn_off", "set_level"}
           /\ kind = "cover" => r.op \in {"open", "close", "stop", "set_position"}
           /\ kind = "blind" => r.op \in {"set_position", "open_tilt", "close_tilt", "stop_tilt", "set_tilt"}
           /\ kind = "garage" => r.op \in {"open", "close", "stop", "ventilate"}
           /\ kind = "climate" => r.op \in {"set_temperature", "set_mode", "set_profile",
                                            "enable_away", "disable_away"}
           /\ kind = "lock" => r.op \in {"lock", "unlock", "open"}
           /\ kind = "siren" => r.op \in {"turn_on", "turn_off"}
           /\ kind = "valve" => r.op \in {"open", "close"}
           /\ kind = "display" => r.op \in {"send_text", "clear"}
           /\ kind = "duration" => r.op = "send_value"
<1>1. ASSUME kind = "switch" PROVE r.op \in {"turn_on", "turn_off"}
    <2>1. r \in Timed("turn_on") \cup {Ask("turn_off")}
        BY <1>1 DEF Requests
    <2> QED BY <2>1 DEF Timed, Ask, NoRequest
<1>2. ASSUME kind = "light" PROVE r.op \in {"turn_on", "turn_off", "set_level"}
    <2>1. \/ r.op = "turn_on"
          \/ r = Ask("turn_off") \/ r = [Ask("set_level") EXCEPT !.level = 4]
        BY <1>2 DEF Requests
    <2> QED BY <2>1 DEF Ask, NoRequest
<1>3. ASSUME kind = "cover" PROVE r.op \in {"open", "close", "stop", "set_position"}
    <2>1. r \in {Ask("open"), Ask("close"), Ask("stop"), [Ask("set_position") EXCEPT !.level = 5]}
        BY <1>3 DEF Requests
    <2> QED BY <2>1 DEF Timed, Ask, NoRequest
<1>4. ASSUME kind = "blind" PROVE r.op \in {"set_position", "open_tilt", "close_tilt", "stop_tilt", "set_tilt"}
    <2>1. r \in {[Ask("set_position") EXCEPT !.level = 5, !.tilt = t] : t \in {NoValue, 6}} \cup {Ask("open_tilt"), Ask("close_tilt"), Ask("stop_tilt"), [Ask("set_tilt") EXCEPT !.tilt = 7]}
        BY <1>4 DEF Requests
    <2> QED BY <2>1 DEF Timed, Ask, NoRequest
<1>5. ASSUME kind = "garage" PROVE r.op \in {"open", "close", "stop", "ventilate"}
    <2>1. r \in {Ask("open"), Ask("close"), Ask("stop"), Ask("ventilate")}
        BY <1>5 DEF Requests
    <2> QED BY <2>1 DEF Timed, Ask, NoRequest
<1>6. ASSUME kind = "climate" PROVE r.op \in {"set_temperature", "set_mode", "set_profile", "enable_away", "disable_away"}
    <2>1. r \in {Ask(op) : op \in {"set_temperature", "set_mode", "set_profile", "enable_away", "disable_away"}}
        BY <1>6 DEF Requests
    <2> QED BY <2>1 DEF Timed, Ask, NoRequest
<1>7. ASSUME kind = "lock" PROVE r.op \in {"lock", "unlock", "open"}
    <2>1. r \in {Ask("lock"), Ask("unlock"), Ask("open")}
        BY <1>7 DEF Requests
    <2> QED BY <2>1 DEF Timed, Ask, NoRequest
<1>8. ASSUME kind = "siren" PROVE r.op \in {"turn_on", "turn_off"}
    <2>1. r \in {Ask("turn_on"), Ask("turn_off")}
        BY <1>8 DEF Requests
    <2> QED BY <2>1 DEF Timed, Ask, NoRequest
<1>9. ASSUME kind = "valve" PROVE r.op \in {"open", "close"}
    <2>1. r \in Timed("open") \cup {Ask("close")}
        BY <1>9 DEF Requests
    <2> QED BY <2>1 DEF Timed, Ask, NoRequest
<1>10. ASSUME kind = "display" PROVE r.op \in {"send_text", "clear"}
    <2>1. \/ \E l \in {NoValue, 8}, n \in {NoValue, 9} :
               r = [Ask("send_text") EXCEPT !.level = l, !.sound = n]
          \/ r = Ask("clear")
        BY <1>10 DEF Requests
    <2> QED BY <2>1 DEF Ask, NoRequest
<1>11. ASSUME kind = "duration" PROVE r.op = "send_value"
    <2>1. r \in {[Ask("send_value") EXCEPT !.level = v] : v \in {10, 11}}
        BY <1>11 DEF Requests
    <2> QED BY <2>1 DEF Timed, Ask, NoRequest
<1> QED BY <1>1, <1>2, <1>3, <1>4, <1>5, <1>6, <1>7, <1>8, <1>9, <1>10, <1>11

(* A script of one operation.                                               *)
LEMMA OneOp ==
    ASSUME NEW x
    PROVE  IsList(<<x>>) /\ Len(<<x>>) = 1 /\ <<x>>[1] = x
<1>1. <<x>> \in Seq({x})
    OBVIOUS
<1> QED BY <1>1 DEF IsList

(* A script of two operations.                                              *)
LEMMA TwoOps ==
    ASSUME NEW x, NEW y
    PROVE  IsList(<<x, y>>) /\ Len(<<x, y>>) = 2 /\ <<x, y>>[1] = x /\ <<x, y>>[2] = y
<1>1. <<x, y>> \in Seq({x, y})
    OBVIOUS
<1> QED BY <1>1 DEF IsList

(* A script of three operations.                                            *)
LEMMA ThreeOps ==
    ASSUME NEW x, NEW y, NEW z
    PROVE  /\ IsList(<<x, y, z>>) /\ Len(<<x, y, z>>) = 3
           /\ <<x, y, z>>[1] = x /\ <<x, y, z>>[2] = y /\ <<x, y, z>>[3] = z
<1>1. <<x, y, z>> \in Seq({x, y, z})
    OBVIOUS
<1> QED BY <1>1 DEF IsList

(* Scripts put together.                                                    *)
LEMMA JoinedOps ==
    ASSUME NEW x, NEW y, NEW z
    PROVE  /\ <<>> \o <<x>> = <<x>> /\ <<x>> \o <<>> = <<x>>
           /\ <<x>> \o <<y>> = <<x, y>> /\ <<x, y>> \o <<z>> = <<x, y, z>>
           /\ Append(<<>>, x) = <<x>> /\ Append(<<x>>, y) = <<x, y>>
           /\ Append(<<x, y>>, z) = <<x, y, z>> /\ <<x, y>> \o <<>> = <<x, y>>
<1> DEFINE S == {x, y, z}
<1>1. /\ <<>> \in Seq(S) /\ <<x>> \in Seq(S) /\ <<y>> \in Seq(S) /\ <<z>> \in Seq(S)
      /\ <<x, y>> \in Seq(S) /\ <<x, y, z>> \in Seq(S) /\ x \in S /\ y \in S /\ z \in S
    OBVIOUS
<1> HIDE DEF S
<1>2. <<>> \o <<x>> = <<x>> /\ <<x>> \o <<>> = <<x>> /\ <<x, y>> \o <<>> = <<x, y>>
    BY <1>1, ConcatEmptySeq
<1>3. Append(<<>>, x) = <<x>>
    BY <1>1
<1>4. Append(<<x>>, y) = <<x, y>>
    <2>1. PICK s \in Seq(S) : s = Append(<<x>>, y)
        BY <1>1, AppendProperties
    <2>2. PICK t \in Seq(S) : t = <<x, y>>
        BY <1>1
    <2>3. Len(s) = 2 /\ s[1] = x /\ s[2] = y
        BY <1>1, <2>1, AppendProperties, OneOp
    <2>4. Len(t) = 2 /\ t[1] = x /\ t[2] = y
        BY <2>2, TwoOps
    <2>5. s = t
        BY <2>3, <2>4, SeqEqual
    <2> QED BY <2>1, <2>2, <2>5
<1>5. Append(<<x, y>>, z) = <<x, y, z>>
    <2>1. PICK s \in Seq(S) : s = Append(<<x, y>>, z)
        BY <1>1, AppendProperties
    <2>2. PICK t \in Seq(S) : t = <<x, y, z>>
        BY <1>1
    <2>3. Len(s) = 3 /\ s[1] = x /\ s[2] = y /\ s[3] = z
        BY <1>1, <2>1, AppendProperties, TwoOps
    <2>4. Len(t) = 3 /\ t[1] = x /\ t[2] = y /\ t[3] = z
        BY <2>2, ThreeOps
    <2>5. s = t
        BY <2>3, <2>4, SeqEqual
    <2> QED BY <2>1, <2>2, <2>5
<1>6. <<x>> \o <<y>> = <<x, y>>
    BY <1>1, <1>4, AppendIsConcat
<1>7. <<x, y>> \o <<z>> = <<x, y, z>>
    BY <1>1, <1>5, AppendIsConcat
<1> QED BY <1>2, <1>3, <1>4, <1>5, <1>6, <1>7

(* One operation does what was asked for.                                   *)
LEMMA OneFits ==
    ASSUME NEW x, NEW r, NEW seconds,
           "timer" \in DOMAIN x.sets => x.sets["timer"] \in {NoValue, seconds},
           kind = "light" /\ x.name = "turn_on" => r.op = "turn_on",
           x.name # "set_timer_on_time", ~StagedThere(r, seconds),
           \A g \in Goal(r, seconds) : g[1] \in CdpAspects /\ g[1] \in DOMAIN x.sets /\ x.sets[g[1]] = g[2]
    PROVE  Fits(<<x>>, r, seconds)
<1>1. IsList(<<x>>) /\ Len(<<x>>) = 1 /\ <<x>>[1] = x
    BY OneOp
<1>2. PICK s : s = <<x>>
    OBVIOUS
<1>3. IsList(s) /\ Len(s) = 1 /\ s[1] = x /\ 1 .. Len(s) = {1}
    BY <1>1, <1>2
<1>4. ScriptOK(s, r, seconds)
    BY <1>3 DEF ScriptOK
<1>5. Agrees(s, r, seconds) /\ \A g \in Goal(r, seconds) : Sets(s, g[1])
    BY <1>3 DEF Agrees, Sets
<1> QED BY <1>2, <1>3, <1>4, <1>5 DEF Fits

(* A switch or a valve is asked for nothing but being on or off.            *)
LEMMA RequestFields ==
    ASSUME NEW r \in Requests(kind), kind \in {"switch", "valve"}
    PROVE  r.level = NoValue /\ r.colour = NoValue /\ r.effect = NoValue
<1>1. ASSUME kind = "switch" PROVE r \in Timed("turn_on") \cup {Ask("turn_off")}
    BY <1>1 DEF Requests
<1>2. ASSUME kind = "valve" PROVE r \in Timed("open") \cup {Ask("close")}
    BY <1>2 DEF Requests
<1> QED BY <1>1, <1>2 DEF Timed, Ask, NoRequest

(* Switch and valve: one operation that says it all.                        *)
LEMMA SwitchFits ==
    ASSUME NEW r \in Requests(kind), NEW seconds, kind \in {"switch", "valve"}, kind \in CdpKinds
    PROVE  Fits(Script(r, seconds), r, seconds)
<1>1. r.level = NoValue /\ r.colour = NoValue /\ r.effect = NoValue
    BY RequestFields
<1>2. \/ r.op \in {"turn_on", "turn_off"} /\ kind = "switch"
      \/ r.op \in {"open", "close"} /\ kind = "valve"
    BY RequestNames
<1>3. ~StagedThere(r, seconds)
    BY DEF StagedThere
<1>4. CASE r.op \in {"turn_off", "close"}
    <2>1. Goal(r, seconds) = {<<"power", NoValue>>, <<"timer", NoValue>>}
        <3>1. SwitchesOff(r) /\ ~SwitchesOn(r)
            BY <1>2, <1>4 DEF SwitchesOff, SwitchesOn
        <3>2. r.op # "set_position" /\ r.op # "send_value" /\ r.op # "send_text"
            BY <1>4
        <3> QED BY <3>1, <3>2 DEF Goal
    <2>2. Script(r, seconds) = <<Op(r.op, Off)>>
        BY <1>2, <1>4 DEF Script, SwitchScript, ValveScript
    <2>3. Fits(<<Op(r.op, Off)>>, r, seconds)
        BY <1>2, <1>3, <1>4, <2>1, OneFits DEF Op, Off, CdpAspects
    <2> QED BY <2>2, <2>3
<1>5. CASE r.op \in {"turn_on", "open"}
    <2>1. Goal(r, seconds) = {<<"power", 1>>} \cup Wanted("timer", seconds)
        BY <1>1, <1>2, <1>5 DEF Goal, SwitchesOff, SwitchesOn, Wanted
    <2>2. PICK name \in {"turn_on_for", "turn_on", "open"} : Script(r, seconds) = <<Op(name, On(seconds))>>
        BY <1>2, <1>5 DEF Script, SwitchScript, ValveScript
    <2>3. Fits(<<Op(name, On(seconds))>>, r, seconds)
        BY <1>2, <1>3, <1>5, <2>1, OneFits DEF Op, On, CdpAspects, Wanted
    <2> QED BY <2>2, <2>3
<1> QED BY <1>2, <1>4, <1>5

(* Climate, lock and siren: one operation, of no aspect a request names.    *)
LEMMA SingleFits ==
    ASSUME NEW r \in Requests(kind), NEW seconds, kind \in {"climate", "lock", "siren"}, kind \in CdpKinds
    PROVE  Fits(Script(r, seconds), r, seconds)
<1>1. r.op \notin {"set_position", "send_value", "send_text", "set_timer_on_time"}
    BY RequestNames
<1>2. ~StagedThere(r, seconds) /\ Goal(r, seconds) = {}
    BY <1>1 DEF StagedThere, Goal, SwitchesOn, SwitchesOff
<1>3. PICK x : /\ Script(r, seconds) = <<x>> /\ x.name = r.op
               /\ DOMAIN x.sets \in {{"mode"}, {"bolt"}, {"sound"}}
    BY DEF Script, ClimateScript, LockScript, SirenScript, Op
<1>4. Fits(<<x>>, r, seconds)
    BY <1>1, <1>2, <1>3, OneFits
<1> QED BY <1>3, <1>4

(* A script whose operations each agree with the request, whose last one    *)
(* alone may carry an on-time, and which leaves no aspect out.              *)
LEMMA ListFits ==
    ASSUME NEW s, NEW r, NEW seconds, IsList(s), Len(s) \in Nat \ {0}, ~StagedThere(r, seconds),
           \A j \in 1 .. Len(s) :
             /\ s[j].name # "set_timer_on_time"
             /\ kind = "light" /\ s[j].name = "turn_on" => j = Len(s) /\ r.op = "turn_on"
             /\ "timer" \in DOMAIN s[j].sets => s[j].sets["timer"] \in {NoValue, seconds} /\ j = Len(s)
             /\ \A g \in Goal(r, seconds) : g[1] \in DOMAIN s[j].sets => s[j].sets[g[1]] = g[2],
           \A g \in Goal(r, seconds) : g[1] \in CdpAspects /\ Sets(s, g[1])
    PROVE  Fits(s, r, seconds)
BY DEF Fits, ScriptOK, Agrees

(* Cover, blind, garage: the position, then the tilt.                       *)
LEMMA CoverFits ==
    ASSUME NEW r \in Requests(kind), NEW seconds, kind \in {"cover", "blind", "garage"}, kind \in CdpKinds
    PROVE  Fits(Script(r, seconds), r, seconds)
<1>1. r.op \notin {"send_value", "send_text", "set_timer_on_time"}
    BY RequestNames
<1>2. ~StagedThere(r, seconds) /\ ~SwitchesOn(r) /\ ~SwitchesOff(r) /\ Script(r, seconds) = CoverScript(r)
    BY DEF StagedThere, SwitchesOn, SwitchesOff, Script
<1>3. CASE r.op = "set_position" /\ r.tilt = NoValue
    <2>1. Goal(r, seconds) = {<<"position", r.level>>}
        BY <1>2, <1>3 DEF Goal, Wanted
    <2>2. CoverScript(r) = <<Op("set_position", [position |-> r.level])>>
        <3>1. <<Op("set_position", [position |-> r.level])>> \o <<>> = <<Op("set_position", [position |-> r.level])>>
            OBVIOUS
        <3> QED BY <1>3, <3>1 DEF CoverScript
    <2>3. Fits(<<Op("set_position", [position |-> r.level])>>, r, seconds)
        BY <1>2, <2>1, OneFits DEF Op, CdpAspects
    <2> QED BY <1>2, <2>2, <2>3
<1>4. CASE r.op = "set_position" /\ r.tilt # NoValue
    <2> DEFINE x == Op("set_position", [position |-> r.level])
               y == Op("set_tilt", [tilt |-> r.tilt])
    <2>1. Goal(r, seconds) = {<<"position", r.level>>, <<"tilt", r.tilt>>}
        BY <1>2, <1>4 DEF Goal, Wanted
    <2>2. CoverScript(r) = <<x, y>>
        <3>1. <<x>> \o <<y>> = <<x, y>>
            BY JoinedOps
        <3> QED BY <1>4, <3>1 DEF CoverScript
    <2>3. PICK s : s = <<x, y>>
        OBVIOUS
    <2>4. IsList(s) /\ Len(s) = 2 /\ s[1] = x /\ s[2] = y /\ 1 .. Len(s) = {1, 2}
        BY <2>3, TwoOps
    <2>5. \A g \in Goal(r, seconds) : g[1] \in CdpAspects /\ Sets(s, g[1])
        BY <2>1, <2>4 DEF Op, CdpAspects, Sets
    <2>6. \A j \in 1 .. Len(s) :
            /\ s[j].name # "set_timer_on_time" /\ "timer" \notin DOMAIN s[j].sets
            /\ \A g \in Goal(r, seconds) : g[1] \in DOMAIN s[j].sets => s[j].sets[g[1]] = g[2]
        BY <2>1, <2>4 DEF Op
    <2>7. Fits(s, r, seconds)
        BY <1>2, <2>4, <2>5, <2>6, ListFits
    <2> QED BY <1>2, <2>2, <2>3, <2>7
<1>5. CASE r.op # "set_position"
    <2>1. Goal(r, seconds) = {}
        BY <1>1, <1>2, <1>5 DEF Goal
    <2>2. PICK x : /\ CoverScript(r) = <<x>> /\ x.name = r.op
                   /\ DOMAIN x.sets \in {{"position"}, {"tilt"}}
        BY <1>5 DEF CoverScript, Op
    <2>3. Fits(<<x>>, r, seconds)
        BY <1>1, <1>2, <2>1, <2>2, OneFits
    <2> QED BY <1>2, <2>2, <2>3
<1> QED BY <1>3, <1>4, <1>5

(* The text display: one operation.                                         *)
LEMMA DisplayFits ==
    ASSUME NEW r \in Requests(kind), NEW seconds, kind = "display", kind \in CdpKinds
    PROVE  Fits(Script(r, seconds), r, seconds)
<1>1. r.op \in {"send_text", "clear"}
    BY RequestNames
<1>2. ~StagedThere(r, seconds) /\ ~SwitchesOn(r) /\ ~SwitchesOff(r) /\ Script(r, seconds) = DisplayScript(r)
    BY DEF StagedThere, SwitchesOn, SwitchesOff, Script
<1>3. Goal(r, seconds) = IF r.op = "send_text" THEN {<<"text", 1>>} \cup Wanted("sound", r.sound) ELSE {}
    BY <1>1, <1>2 DEF Goal
<1>4. PICK x : /\ DisplayScript(r) = <<x>> /\ x.name \in {"clear", "write", "write_with_sound"}
               /\ "timer" \notin DOMAIN x.sets
               /\ r.op = "send_text" =>
                    /\ "text" \in DOMAIN x.sets /\ x.sets["text"] = 1
                    /\ r.sound # NoValue => "sound" \in DOMAIN x.sets /\ x.sets["sound"] = r.sound
    <2>1. CASE r.op = "clear"
        BY <2>1 DEF DisplayScript, Op
    <2>2. CASE r.op = "send_text" /\ r.sound = NoValue
        <3>1. DisplayScript(r) = <<Op("write", IF r.level # NoValue THEN [text |-> 1, style |-> r.level] ELSE [text |-> 1])>>
            BY <2>2 DEF DisplayScript
        <3> QED BY <2>2, <3>1 DEF Op
    <2>3. CASE r.op = "send_text" /\ r.sound # NoValue
        <3>1. DisplayScript(r) = <<Op("write_with_sound", [text |-> 1, sound |-> r.sound])>>
            BY <2>3 DEF DisplayScript
        <3> QED BY <2>3, <3>1 DEF Op
    <2> QED BY <1>1, <2>1, <2>2, <2>3
<1>5. Fits(<<x>>, r, seconds)
    BY <1>2, <1>3, <1>4, OneFits DEF Wanted, CdpAspects
<1> QED BY <1>2, <1>4, <1>5

(* The combined duration: the unit, then the value.                         *)
LEMMA DurationFits ==
    ASSUME NEW r \in Requests(kind), NEW seconds, kind = "duration", kind \in CdpKinds
    PROVE  Fits(Script(r, seconds), r, seconds)
<1>1. r.op = "send_value"
    BY RequestNames
<1>2. ~StagedThere(r, seconds) /\ ~SwitchesOn(r) /\ ~SwitchesOff(r) /\ Script(r, seconds) = DurationScript(r)
    BY DEF StagedThere, SwitchesOn, SwitchesOff, Script
<1>3. Goal(r, seconds) = {<<"unit", 1>>, <<"value", r.level>>}
    BY <1>1, <1>2 DEF Goal
<1> DEFINE x == Op("set_value", [unit |-> 1])
           y == Op("set_value", [value |-> r.level])
<1>4. PICK s : s = <<x, y>>
    OBVIOUS
<1>5. IsList(s) /\ Len(s) = 2 /\ s[1] = x /\ s[2] = y /\ 1 .. Len(s) = {1, 2}
    BY <1>4, TwoOps
<1>6. \A g \in Goal(r, seconds) : g[1] \in CdpAspects /\ Sets(s, g[1])
    BY <1>3, <1>5 DEF Op, CdpAspects, Sets
<1>7. \A j \in 1 .. Len(s) :
        /\ s[j].name # "set_timer_on_time" /\ "timer" \notin DOMAIN s[j].sets
        /\ \A g \in Goal(r, seconds) : g[1] \in DOMAIN s[j].sets => s[j].sets[g[1]] = g[2]
    BY <1>3, <1>5 DEF Op
<1>8. Fits(s, r, seconds)
    BY <1>2, <1>5, <1>6, <1>7, ListFits
<1> QED BY <1>2, <1>4, <1>8 DEF DurationScript

(* The operations of a light before the last.                               *)
ColourOp(r) == Op("set_color", [colour |-> r.colour, power |-> 1])
EffectOp(r) == Op("set_effect", [effect |-> r.effect, power |-> 1])

(* Colour and effect are set where they were given, in this order.          *)
LEMMA ColouringIs ==
    ASSUME NEW r
    PROVE  /\ r.colour # NoValue /\ r.effect # NoValue => Colouring(r) = <<ColourOp(r), EffectOp(r)>>
           /\ r.colour # NoValue /\ r.effect = NoValue => Colouring(r) = <<ColourOp(r)>>
           /\ r.colour = NoValue /\ r.effect # NoValue => Colouring(r) = <<EffectOp(r)>>
           /\ r.colour = NoValue /\ r.effect = NoValue => Colouring(r) = <<>>
<1>1. Colouring(r) = (IF r.colour # NoValue THEN <<ColourOp(r)>> ELSE <<>>) \o
                     (IF r.effect # NoValue THEN <<EffectOp(r)>> ELSE <<>>)
    BY DEF Colouring, ColourOp, EffectOp
<1>2. <<>> \o <<>> = <<>>
    OBVIOUS
<1> QED BY <1>1, <1>2, JoinedOps

(* What a light's script consists of: z is its last operation, unless       *)
(* colour or effect is all that was given.                                  *)
LightShape(s, r, z, closed) ==
    /\ IsList(s) /\ Len(s) \in Nat \ {0}
    /\ \A j \in 1 .. Len(s) : s[j] \in {ColourOp(r), EffectOp(r)} \/ (closed /\ s[j] = z /\ j = Len(s))
    /\ r.colour # NoValue => \E j \in 1 .. Len(s) : s[j] = ColourOp(r)
    /\ r.effect # NoValue => \E j \in 1 .. Len(s) : s[j] = EffectOp(r)
    /\ closed => \E j \in 1 .. Len(s) : s[j] = z

(* A last operation closes the script.                                      *)
LEMMA ClosedShape ==
    ASSUME NEW r, NEW z
    PROVE  LightShape(Append(Colouring(r), z), r, z, TRUE)
<1>1. PICK a, b : a = ColourOp(r) /\ b = EffectOp(r)
    OBVIOUS
<1>2. CASE r.colour # NoValue /\ r.effect # NoValue
    <2>1. Append(Colouring(r), z) = <<a, b, z>>
        <3>1. Colouring(r) = <<a, b>>
            BY <1>1, <1>2, ColouringIs
        <3>2. Append(<<a, b>>, z) = <<a, b, z>>
            BY JoinedOps
        <3> QED BY <3>1, <3>2
    <2>2. PICK s : s = <<a, b, z>>
        OBVIOUS
    <2>3. IsList(s) /\ Len(s) = 3 /\ s[1] = a /\ s[2] = b /\ s[3] = z
        BY <2>2, ThreeOps
    <2>4. LightShape(s, r, z, TRUE)
        BY <1>1, <2>3 DEF LightShape
    <2> QED BY <2>1, <2>2, <2>4
<1>3. CASE r.colour # NoValue /\ r.effect = NoValue
    <2>1. Append(Colouring(r), z) = <<a, z>>
        BY <1>1, <1>3, ColouringIs, JoinedOps
    <2>2. PICK s : s = <<a, z>>
        OBVIOUS
    <2>3. IsList(s) /\ Len(s) = 2 /\ s[1] = a /\ s[2] = z
        BY <2>2, TwoOps
    <2>4. LightShape(s, r, z, TRUE)
        BY <1>1, <1>3, <2>3 DEF LightShape
    <2> QED BY <2>1, <2>2, <2>4
<1>4. CASE r.colour = NoValue /\ r.effect # NoValue
    <2>1. Append(Colouring(r), z) = <<b, z>>
        BY <1>1, <1>4, ColouringIs, JoinedOps
    <2>2. PICK s : s = <<b, z>>
        OBVIOUS
    <2>3. IsList(s) /\ Len(s) = 2 /\ s[1] = b /\ s[2] = z
        BY <2>2, TwoOps
    <2>4. LightShape(s, r, z, TRUE)
        BY <1>1, <1>4, <2>3 DEF LightShape
    <2> QED BY <2>1, <2>2, <2>4
<1>5. CASE r.colour = NoValue /\ r.effect = NoValue
    <2>1. Append(Colouring(r), z) = <<z>>
        BY <1>5, ColouringIs, JoinedOps
    <2>2. PICK s : s = <<z>>
        OBVIOUS
    <2>3. IsList(s) /\ Len(s) = 1 /\ s[1] = z
        BY <2>2, OneOp
    <2>4. LightShape(s, r, z, TRUE)
        BY <1>5, <2>3 DEF LightShape
    <2> QED BY <2>1, <2>2, <2>4
<1> QED BY <1>2, <1>3, <1>4, <1>5

(* Colour or effect alone.                                                  *)
LEMMA OpenShape ==
    ASSUME NEW r, NEW z, r.colour # NoValue \/ r.effect # NoValue
    PROVE  LightShape(Colouring(r), r, z, FALSE)
<1>1. PICK a, b, s : a = ColourOp(r) /\ b = EffectOp(r) /\ s = Colouring(r)
    OBVIOUS
<1>2. CASE r.colour # NoValue /\ r.effect # NoValue
    <2>1. IsList(s) /\ Len(s) = 2 /\ s[1] = a /\ s[2] = b
        BY <1>1, <1>2, ColouringIs, TwoOps
    <2> QED BY <1>1, <2>1 DEF LightShape
<1>3. CASE r.colour # NoValue /\ r.effect = NoValue
    <2>1. IsList(s) /\ Len(s) = 1 /\ s[1] = a
        BY <1>1, <1>3, ColouringIs, OneOp
    <2> QED BY <1>1, <1>3, <2>1 DEF LightShape
<1>4. CASE r.colour = NoValue /\ r.effect # NoValue
    <2>1. IsList(s) /\ Len(s) = 1 /\ s[1] = b
        BY <1>1, <1>4, ColouringIs, OneOp
    <2> QED BY <1>1, <1>4, <2>1 DEF LightShape
<1> QED BY <1>2, <1>3, <1>4

(* A light switched on, on-time in its last operation or left out.          *)
LEMMA LightOnFits ==
    ASSUME NEW s, NEW r, NEW seconds, NEW z, NEW closed \in BOOLEAN, NEW given \in {NoValue, seconds},
           kind = "light", r.op = "turn_on", ~StagedThere(r, seconds), LightShape(s, r, z, closed),
           given # seconds => ~bounded,
           closed => z = IF r.level # NoValue THEN SetLevel(r, given) ELSE Op("turn_on", On(given)),
           ~closed => r.level = NoValue /\ ~Plain(r) /\ (seconds # NoValue => ~bounded)
    PROVE  Fits(s, r, seconds)
<1>1. SwitchesOn(r) /\ ~SwitchesOff(r)
    BY DEF SwitchesOn, SwitchesOff
<1>2. Goal(r, seconds) = {<<"power", 1>>}
         \cup (IF ~bounded /\ ~Plain(r) THEN {} ELSE Wanted("timer", seconds))
         \cup Wanted("level", r.level) \cup Wanted("colour", r.colour) \cup Wanted("effect", r.effect)
    BY <1>1 DEF Goal
<1>3. /\ ColourOp(r).name = "set_color" /\ ColourOp(r).sets = [colour |-> r.colour, power |-> 1]
      /\ EffectOp(r).name = "set_effect" /\ EffectOp(r).sets = [effect |-> r.effect, power |-> 1]
    BY DEF ColourOp, EffectOp, Op
<1>4. closed => /\ z.name \in {"set_level", "turn_on"}
                /\ z.sets = IF r.level # NoValue THEN [level |-> r.level, power |-> 1, timer |-> given]
                                                 ELSE [power |-> 1, timer |-> given]
    BY DEF SetLevel, Op, On
<1>5. \A g \in Goal(r, seconds) :
        \/ g = <<"power", 1>>
        \/ g = <<"timer", seconds>> /\ seconds # NoValue /\ (bounded \/ Plain(r))
        \/ g = <<"level", r.level>> /\ r.level # NoValue
        \/ g = <<"colour", r.colour>> /\ r.colour # NoValue
        \/ g = <<"effect", r.effect>> /\ r.effect # NoValue
    BY <1>2 DEF Wanted
<1>6. \A g \in Goal(r, seconds) : g = <<"timer", seconds>> => given = seconds /\ closed
    BY <1>5 DEF StagedThere
<1>7. \A j \in 1 .. Len(s) : s[j] \in {ColourOp(r), EffectOp(r)} \/ (closed /\ s[j] = z /\ j = Len(s))
    BY DEF LightShape
<1>8. ASSUME NEW j \in 1 .. Len(s)
      PROVE  /\ s[j].name # "set_timer_on_time"
             /\ s[j].name = "turn_on" => j = Len(s)
             /\ "timer" \in DOMAIN s[j].sets => s[j].sets["timer"] \in {NoValue, seconds} /\ j = Len(s)
    <2>1. CASE s[j] \in {ColourOp(r), EffectOp(r)}
        BY <1>3, <2>1
    <2>2. CASE closed /\ s[j] = z /\ j = Len(s)
        BY <1>4, <2>2
    <2> QED BY <1>7, <2>1, <2>2
<1>9. ASSUME NEW j \in 1 .. Len(s), NEW g \in Goal(r, seconds), g[1] \in DOMAIN s[j].sets
      PROVE  s[j].sets[g[1]] = g[2]
    <2>1. CASE s[j] = ColourOp(r)
        <3>1. s[j].sets = [colour |-> r.colour, power |-> 1]
            BY <1>3, <2>1
        <3> QED BY <1>5, <1>9, <3>1
    <2>2. CASE s[j] = EffectOp(r)
        <3>1. s[j].sets = [effect |-> r.effect, power |-> 1]
            BY <1>3, <2>2
        <3> QED BY <1>5, <1>9, <3>1
    <2>3. CASE closed /\ s[j] = z /\ r.level # NoValue
        <3>1. s[j].sets = [level |-> r.level, power |-> 1, timer |-> given]
            BY <1>4, <2>3
        <3> QED BY <1>5, <1>6, <1>9, <3>1
    <2>4. CASE closed /\ s[j] = z /\ r.level = NoValue
        <3>1. s[j].sets = [power |-> 1, timer |-> given]
            BY <1>4, <2>4
        <3> QED BY <1>5, <1>6, <1>9, <3>1
    <2> QED BY <1>7, <2>1, <2>2, <2>3, <2>4
<1>10. ASSUME NEW g \in Goal(r, seconds)
       PROVE  g[1] \in CdpAspects /\ Sets(s, g[1])
    <2>1. g[1] \in CdpAspects
        BY <1>5 DEF CdpAspects
    <2>2. CASE g = <<"power", 1>>
        <3>1. PICK j \in 1 .. Len(s) : s[j] \in {ColourOp(r), EffectOp(r)} \/ (closed /\ s[j] = z)
            BY <1>7 DEF LightShape
        <3> QED BY <2>1, <1>3, <1>4, <2>2, <3>1 DEF Sets
    <2>3. CASE g = <<"colour", r.colour>> /\ r.colour # NoValue
        <3>1. PICK j \in 1 .. Len(s) : s[j] = ColourOp(r)
            BY <2>3 DEF LightShape
        <3> QED BY <2>1, <1>3, <2>3, <3>1 DEF Sets
    <2>4. CASE g = <<"effect", r.effect>> /\ r.effect # NoValue
        <3>1. PICK j \in 1 .. Len(s) : s[j] = EffectOp(r)
            BY <2>4 DEF LightShape
        <3> QED BY <2>1, <1>3, <2>4, <3>1 DEF Sets
    <2>5. CASE g = <<"timer", seconds>> \/ (g = <<"level", r.level>> /\ r.level # NoValue)
        <3>1. closed
            BY <1>6, <2>5
        <3>2. PICK j \in 1 .. Len(s) : s[j] = z
            BY <3>1 DEF LightShape
        <3> QED BY <2>1, <1>4, <2>5, <3>1, <3>2 DEF Sets
    <2> QED BY <1>5, <2>1, <2>2, <2>3, <2>4, <2>5
<1>11. IsList(s) /\ Len(s) \in Nat \ {0}
    BY DEF LightShape
<1> QED BY <1>8, <1>9, <1>10, <1>11, ListFits

(* The last operation of a light's script, appended or joined.              *)
LEMMA ColouringJoins ==
    ASSUME NEW r, NEW z
    PROVE  Colouring(r) \o <<z>> = Append(Colouring(r), z) /\ Colouring(r) \o <<>> = Colouring(r)
<1>1. PICK a, b : a = ColourOp(r) /\ b = EffectOp(r)
    OBVIOUS
<1> DEFINE S == {a, b, z}
<1>2. <<>> \in Seq(S) /\ <<a>> \in Seq(S) /\ <<b>> \in Seq(S) /\ <<a, b>> \in Seq(S) /\ z \in S
    OBVIOUS
<1>3. Colouring(r) \in {<<>>, <<a>>, <<b>>, <<a, b>>}
    BY <1>1, ColouringIs
<1>4. Colouring(r) \in Seq(S)
    BY <1>2, <1>3
<1> HIDE DEF S
<1> QED BY <1>2, <1>4, AppendIsConcat, ConcatEmptySeq

(* An older daemon is given the on-time first and takes it with the         *)
(* switch-on.                                                               *)
LEMMA StagedFits ==
    ASSUME NEW r, NEW seconds, StagedThere(r, seconds)
    PROVE  Fits(<<Op("set_timer_on_time", [stage |-> seconds]), Op("turn_on", On(NoValue))>>, r, seconds)
<1> DEFINE x == Op("set_timer_on_time", [stage |-> seconds])
           y == Op("turn_on", On(NoValue))
<1>1. PICK s : s = <<x, y>>
    OBVIOUS
<1>2. IsList(s) /\ Len(s) = 2 /\ s[1] = x /\ s[2] = y /\ 1 .. Len(s) = {1, 2}
    BY <1>1, TwoOps
<1>3. /\ kind = "light" /\ ~bounded /\ r.op = "turn_on" /\ Plain(r) /\ seconds # NoValue
      /\ r.level = NoValue /\ r.colour = NoValue /\ r.effect = NoValue
    BY DEF StagedThere, Plain
<1>4. Goal(r, seconds) = {<<"power", 1>>, <<"timer", seconds>>}
    BY <1>3 DEF Goal, SwitchesOn, SwitchesOff, Wanted
<1>5. ScriptOK(s, r, seconds)
    BY <1>2, <1>3 DEF ScriptOK, Op, On
<1>6. Agrees(s, r, seconds)
    BY <1>2, <1>4 DEF Agrees, Op, On
<1>7. \A g \in Goal(r, seconds) : g[1] \in CdpAspects /\ (Sets(s, g[1]) \/ g[1] = "timer")
    BY <1>2, <1>4 DEF Sets, Op, On, CdpAspects
<1>8. Fits(s, r, seconds)
    BY <1>2, <1>5, <1>6, <1>7 DEF Fits
<1> QED BY <1>1, <1>8

(* A light: colour, effect and level in this order, bounded at the end or,  *)
(* by an older daemon, only when nothing else was given.                    *)
LEMMA LightFits ==
    ASSUME NEW r \in Requests(kind), NEW seconds, kind = "light", kind \in CdpKinds, bounded \in BOOLEAN,
           ~SwitchesOn(r) => seconds = NoValue
    PROVE  Fits(Script(r, seconds), r, seconds)
<1>1. r.op \in {"turn_on", "turn_off", "set_level"}
    BY RequestNames
<1>2. Script(r, seconds) = LightScript(r, seconds)
    BY DEF Script
<1>3. CASE r.op = "turn_off"
    <2>1. Goal(r, seconds) = {<<"power", NoValue>>, <<"timer", NoValue>>} /\ ~StagedThere(r, seconds)
        BY <1>3 DEF Goal, SwitchesOn, SwitchesOff, StagedThere
    <2>2. LightScript(r, seconds) = <<Op("turn_off", Off)>>
        BY <1>3 DEF LightScript, SwitchesOn
    <2>3. Fits(<<Op("turn_off", Off)>>, r, seconds)
        BY <2>1, OneFits DEF Op, Off, CdpAspects
    <2> QED BY <1>2, <2>2, <2>3
<1>4. CASE r.op = "set_level"
    <2>1. Goal(r, seconds) = {} /\ ~StagedThere(r, seconds)
        BY <1>4 DEF Goal, SwitchesOn, SwitchesOff, StagedThere
    <2>2. LightScript(r, seconds) = <<SetLevel(r, NoValue)>>
        BY <1>4 DEF LightScript, SwitchesOn
    <2>3. Fits(<<SetLevel(r, NoValue)>>, r, seconds)
        BY <2>1, OneFits DEF Op, SetLevel
    <2> QED BY <1>2, <2>2, <2>3
<1>5. CASE r.op = "turn_on" /\ seconds # NoValue /\ bounded
    <2>1. PICK z : z = IF r.level # NoValue THEN SetLevel(r, seconds) ELSE Op("turn_on", On(seconds))
        OBVIOUS
    <2>2. LightScript(r, seconds) = Append(Colouring(r), z)
        BY <1>5, <2>1 DEF LightScript
    <2>3. ~StagedThere(r, seconds)
        BY <1>5 DEF StagedThere
    <2>4. Fits(Append(Colouring(r), z), r, seconds)
        BY <1>5, <2>1, <2>3, ClosedShape, LightOnFits
    <2> QED BY <1>2, <2>2, <2>4
<1>6. CASE r.op = "turn_on" /\ seconds # NoValue /\ ~bounded /\ Plain(r)
    <2>1. LightScript(r, seconds) = <<Op("set_timer_on_time", [stage |-> seconds]), Op("turn_on", On(NoValue))>>
        BY <1>6 DEF LightScript
    <2> QED BY <1>2, <1>6, <2>1, StagedFits DEF StagedThere
<1>7. CASE r.op = "turn_on" /\ (seconds = NoValue \/ (~bounded /\ ~Plain(r)))
    <2>1. LightScript(r, seconds) =
            Colouring(r) \o (IF r.level # NoValue THEN <<SetLevel(r, NoValue)>>
                             ELSE IF Plain(r) THEN <<Op("turn_on", On(NoValue))>> ELSE <<>>)
        BY <1>7 DEF LightScript
    <2>2. ~StagedThere(r, seconds)
        BY <1>7 DEF StagedThere
    <2>3. CASE r.level # NoValue \/ Plain(r)
        <3>1. PICK z : z = IF r.level # NoValue THEN SetLevel(r, NoValue) ELSE Op("turn_on", On(NoValue))
            OBVIOUS
        <3>2. LightScript(r, seconds) = Append(Colouring(r), z)
            BY <2>1, <2>3, <3>1, ColouringJoins
        <3>3. Fits(Append(Colouring(r), z), r, seconds)
            BY <1>7, <2>2, <3>1, ClosedShape, LightOnFits
        <3> QED BY <1>2, <3>2, <3>3
    <2>4. CASE r.level = NoValue /\ ~Plain(r)
        <3>1. LightScript(r, seconds) = Colouring(r)
            BY <2>1, <2>4, ColouringJoins
        <3>2. r.colour # NoValue \/ r.effect # NoValue
            BY <2>4 DEF Plain
        <3>3. LightShape(Colouring(r), r, NoValue, FALSE)
            BY <3>2, OpenShape
        <3>4. Fits(Colouring(r), r, seconds)
            BY <1>7, <2>2, <2>4, <3>3, LightOnFits
        <3> QED BY <1>2, <3>1, <3>4
    <2> QED BY <2>3, <2>4
<1> QED BY <1>1, <1>3, <1>4, <1>5, <1>6, <1>7

(* Every script does what was asked for.                                    *)
LEMMA ScriptsFit ==
    ASSUME NEW r \in Requests(kind), NEW seconds, kind \in CdpKinds, bounded \in BOOLEAN,
           ~SwitchesOn(r) => seconds = NoValue
    PROVE  Fits(Script(r, seconds), r, seconds)
BY SwitchFits, SingleFits, CoverFits, DisplayFits, DurationFits, LightFits, CommandAssumption

(* What a command is for depends on the entity's kind and the daemon's      *)
(* abilities only, and neither changes.                                     *)
LEMMA SameGoals ==
    ASSUME NEW r, NEW seconds, NEW s, kind' = kind, bounded' = bounded
    PROVE  /\ Goal(r, seconds)' = Goal(r, seconds)
           /\ StagedThere(r, seconds)' = StagedThere(r, seconds)
           /\ ScriptOK(s, r, seconds)' = ScriptOK(s, r, seconds)
           /\ Agrees(s, r, seconds)' = Agrees(s, r, seconds)
<1>1. StagedThere(r, seconds)' = StagedThere(r, seconds)
    BY DEF StagedThere, Plain
<1>2. Goal(r, seconds)' = Goal(r, seconds)
    <2>1. SwitchesOn(r)' = SwitchesOn(r) /\ SwitchesOff(r)' = SwitchesOff(r)
        BY DEF SwitchesOn, SwitchesOff
    <2>2. Plain(r)' = Plain(r) /\ \A a, v : Wanted(a, v)' = Wanted(a, v)
        BY DEF Plain, Wanted
    <2> QED BY <2>1, <2>2 DEF Goal
<1>3. ScriptOK(s, r, seconds)' = ScriptOK(s, r, seconds)
    BY <1>1 DEF ScriptOK
<1>4. Agrees(s, r, seconds)' = Agrees(s, r, seconds)
    BY <1>1, <1>2 DEF Agrees
<1> QED BY <1>1, <1>2, <1>3, <1>4

(* What is known of a command survives as long as no staging is forgotten.  *)
LEMMA StillKnown ==
    ASSUME NEW q, kind' = kind, bounded' = bounded, CommandTypes, CommandTypes',
           costs.stages <= costs'.stages
    PROVE  /\ KnownCall(q) => KnownCall(q)'
           /\ KnownAlone(q) /\ UNCHANGED <<output, stage>> => KnownAlone(q)'
<1>1. costs.stages \in Nat /\ costs'.stages \in Nat
    BY CommandAssumption DEF CommandTypes
<1>2. KnownCall(q) => q.seconds \in (0 .. costs'.stages) \cup {Explicit}
    BY <1>1 DEF KnownCall
<1>3. KnownCall(q) => KnownCall(q)'
    <2>1. PICK r, t, s : r = q.req /\ t = q.seconds /\ s = q.rest
        OBVIOUS
    <2>2. /\ Goal(r, t)' = Goal(r, t) /\ ScriptOK(s, r, t)' = ScriptOK(s, r, t)
          /\ Agrees(s, r, t)' = Agrees(s, r, t)
        BY SameGoals
    <2> QED BY <1>2, <2>1, <2>2 DEF KnownCall, Explicit
<1>4. KnownAlone(q) /\ UNCHANGED <<output, stage>> => KnownAlone(q)'
    <2>1. PICK r, t, s : r = q.req /\ t = q.seconds /\ s = q.rest
        OBVIOUS
    <2>2. Goal(r, t)' = Goal(r, t) /\ StagedThere(r, t)' = StagedThere(r, t)
        BY SameGoals
    <2> QED BY <2>1, <2>2 DEF KnownAlone, Sets
<1> QED BY <1>3, <1>4

(* Where an older daemon's light is switched on, an on-time is asked for    *)
(* only if it was staged there.                                             *)
LEMMA GoalTimer ==
    ASSUME NEW r, NEW seconds, kind = "light", ~bounded, r.op = "turn_on",
           NEW g \in Goal(r, seconds), g[1] = "timer"
    PROVE  StagedThere(r, seconds) /\ g[2] = seconds
<1>1. SwitchesOn(r) /\ ~SwitchesOff(r)
    BY DEF SwitchesOn, SwitchesOff
<1>2. Goal(r, seconds) = {<<"power", 1>>}
         \cup (IF ~Plain(r) THEN {} ELSE Wanted("timer", seconds))
         \cup Wanted("level", r.level) \cup Wanted("colour", r.colour) \cup Wanted("effect", r.effect)
    BY <1>1 DEF Goal
<1> QED BY <1>2 DEF Wanted, StagedThere

(* The rest of a script.                                                    *)
LEMMA TailOps ==
    ASSUME NEW s, IsList(s), Len(s) # 0
    PROVE  /\ Len(s) \in Nat /\ Head(s) = s[1] /\ IsList(Tail(s)) /\ Len(Tail(s)) = Len(s) - 1
           /\ \A j \in 1 .. Len(Tail(s)) : Tail(s)[j] = s[j + 1]
<1>1. PICK S : s \in Seq(S)
    BY DEF IsList
<1>2. s # <<>>
    BY <1>1
<1>3. Head(s) = s[1] /\ Tail(s) \in Seq(S) /\ Len(Tail(s)) = Len(s) - 1
    BY <1>1, <1>2, HeadTailProperties
<1>4. \A j \in 1 .. Len(Tail(s)) : Tail(s)[j] = s[j + 1]
    BY <1>1, <1>2, <1>3, HeadTailProperties
<1> QED BY <1>1, <1>3, <1>4 DEF IsList

(* A command's remaining operations stay as they should be.                 *)
LEMMA TailKnown ==
    ASSUME NEW s, NEW r, NEW seconds, IsList(s), ScriptOK(s, r, seconds), Agrees(s, r, seconds), Len(s) # 1
    PROVE  IsList(Tail(s)) /\ ScriptOK(Tail(s), r, seconds) /\ Agrees(Tail(s), r, seconds)
<1>1. Len(s) # 0
    BY DEF ScriptOK
<1>2. PICK t : t = Tail(s)
    OBVIOUS
<1>3. /\ Len(s) \in Nat /\ IsList(t) /\ Len(t) = Len(s) - 1
      /\ \A j \in 1 .. Len(t) : t[j] = s[j + 1]
    BY <1>1, <1>2, TailOps
<1>4. Len(t) \in Nat \ {0} /\ \A j \in 1 .. Len(t) : j + 1 \in 1 .. Len(s) /\ (j + 1 = Len(s) <=> j = Len(t)) /\ j + 1 # 1
    BY <1>1, <1>3
<1>5. ASSUME NEW j \in 1 .. Len(t)
      PROVE  /\ "timer" \in DOMAIN t[j].sets =>
                  t[j].sets["timer"] = NoValue \/ (t[j].sets["timer"] = seconds /\ j = Len(t))
             /\ kind = "light" /\ t[j].name = "turn_on" => j = Len(t) /\ r.op = "turn_on"
             /\ t[j].name # "set_timer_on_time"
    <2>1. PICK i \in 1 .. Len(s) : t[j] = s[i] /\ (i = Len(s) <=> j = Len(t)) /\ i # 1
        BY <1>3, <1>4
    <2> QED BY <2>1 DEF ScriptOK
<1>6. StagedThere(r, seconds) => t[Len(t)].name = "turn_on" /\ Len(t) = 1
    <2>1. t[Len(t)] = s[Len(s)]
        BY <1>3, <1>4
    <2> QED BY <1>3, <2>1 DEF ScriptOK
<1>7. ScriptOK(t, r, seconds)
    BY <1>4, <1>5, <1>6 DEF ScriptOK
<1>8. Agrees(t, r, seconds)
    BY <1>3, <1>4 DEF Agrees
<1> QED BY <1>2, <1>3, <1>7, <1>8

(* Nothing is under way and nothing is staged at first.                     *)
LEMMA CommandsStart == CmdInit => CommandInv
<1> SUFFICES ASSUME CmdInit PROVE CommandInv
    OBVIOUS
<1>1. \A c \in Callers : doing[c] = CallerIdle
    BY DEF CmdInit
<1>2. CommandTypes
    <2>1. output = [a \in CdpAspects |-> output[a]] /\ doing = [c \in Callers |-> doing[c]]
        BY DEF CmdInit
    <2>2. uses \in [Stagings -> Nat]
        BY DEF CmdInit, Stagings
    <2> QED BY <2>1, <2>2, CommandAssumption DEF CmdInit, CommandTypes, NoValue
<1>3. CallsOK
    BY <1>1 DEF CallsOK
<1>4. StagingsOK
    BY <1>1 DEF StagingsOK, StagingOK, CmdInit, Stagings, NoValue
<1> QED BY <1>2, <1>3, <1>4 DEF CommandInv, CmdInit

(* A staging is new: no call, use or switch-off knows it.                   *)
LEMMA StagingKept ==
    ASSUME CommandInv, SetTimerOnTime
    PROVE  CommandInv'
<1>1. /\ costs.stages < MaxStages /\ costs' = [costs EXCEPT !.stages = @ + 1] /\ pending' = costs.stages + 1
      /\ UNCHANGED <<kind, bounded, output, stage, doing, crossed, missed, uses, dropped, leaked>>
    BY DEF SetTimerOnTime
<1>2. /\ costs \in [calls : Nat, stages : 0 .. MaxStages, refusals : Nat] /\ MaxStages \in Nat
      /\ CommandTypes /\ CallsOK /\ StagingsOK /\ missed = {}
    BY CommandAssumption DEF CommandInv, CommandTypes
<1>3. /\ costs' \in [calls : Nat, stages : 0 .. MaxStages, refusals : Nat]
      /\ costs'.stages = costs.stages + 1 /\ costs.stages \in Nat
    BY <1>1, <1>2
<1>4. CommandTypes'
    <2>1. pending' \in 0 .. costs'.stages
        BY <1>1, <1>3
    <2>2. stage' \in (0 .. costs'.stages) \cup {Explicit'}
        BY <1>1, <1>2, <1>3 DEF CommandTypes, Explicit
    <2> QED BY <1>1, <1>2, <1>3, <2>1, <2>2 DEF CommandTypes, Stagings
<1>5. CallsOK'
    <2> SUFFICES ASSUME NEW c \in Callers, NEW q, q = doing'[c], q # CallerIdle
                 PROVE  /\ KnownCall(q)' /\ (c \notin crossed' => KnownAlone(q)')
                        /\ \A d \in Callers \ {c} : doing'[d] # CallerIdle => c \in crossed'
        BY DEF CallsOK, CallerIdle
    <2>1. KnownCall(q) /\ (c \notin crossed => KnownAlone(q))
        BY <1>1, <1>2 DEF CallsOK
    <2>2. KnownCall(q)' /\ (c \notin crossed' => KnownAlone(q)')
        BY <1>1, <1>2, <1>3, <1>4, <2>1, StillKnown
    <2> QED BY <1>1, <1>2, <2>2 DEF CallsOK
<1>6. StagingsOK'
    <2> SUFFICES ASSUME NEW n \in Stagings \ leaked PROVE StagingOK(n)'
        BY <1>1 DEF StagingsOK, Stagings
    <2>1. n \in 1 .. MaxStages /\ StagingOK(n)
        BY <1>2 DEF StagingsOK, Stagings
    <2>2. \A c \in Callers : doing[c] # CallerIdle => doing[c].seconds # costs.stages + 1
        <3> SUFFICES ASSUME NEW c \in Callers, doing[c] # CallerIdle PROVE doing[c].seconds # costs.stages + 1
            OBVIOUS
        <3>1. PICK q : q = doing[c] /\ KnownCall(q)
            BY <1>2 DEF CallsOK
        <3>2. q.seconds \in (0 .. costs.stages) \cup {Explicit}
            BY <3>1 DEF KnownCall
        <3> QED BY <1>1, <1>2, <1>3, <3>1, <3>2 DEF Explicit
    <2>3. pending' = n => uses[n] = 0 /\ n \notin dropped
        BY <1>1, <1>2, <1>3, <2>1 DEF StagingOK, CommandTypes, Stagings
    <2>4. \A q : Owns(q, n)' <=> Owns(q, n)
        BY <1>1, SameGoals DEF Owns, CallerIdle
    <2> QED BY <1>1, <1>3, <2>1, <2>2, <2>3, <2>4 DEF StagingOK, CallerIdle
<1> QED BY <1>1, <1>2, <1>4, <1>5, <1>6 DEF CommandInv

(* A command starts.                                                        *)
LEMMA CommandKept ==
    ASSUME CommandInv, NEW c \in Callers, NEW r \in Requests(kind), Command(c, r)
    PROVE  CommandInv'
<1>1. PICK t, q :
        /\ t = IF SwitchesOn(r) THEN Consumed(r) ELSE NoValue
        /\ q = [op |-> r.op, req |-> r, seconds |-> t, rest |-> Script(r, t)]
        /\ doing' = [doing EXCEPT ![c] = q]
    BY DEF Command
<1>2. /\ doing[c] = CallerIdle /\ costs' = [costs EXCEPT !.calls = @ + 1]
      /\ pending' = IF SwitchesOn(r) \/ SwitchesOff(r) THEN NoValue ELSE pending
      /\ dropped' = IF SwitchesOff(r) THEN dropped \cup ({pending} \ {NoValue}) ELSE dropped
      /\ crossed' = IF Busy = {} THEN crossed \ {c} ELSE crossed \cup Busy \cup {c}
      /\ UNCHANGED <<kind, bounded, output, stage, missed, uses, leaked>>
    BY DEF Command
<1>3. /\ costs \in [calls : Nat, stages : 0 .. MaxStages, refusals : Nat] /\ MaxStages \in Nat
      /\ CommandTypes /\ CallsOK /\ StagingsOK /\ missed = {}
    BY CommandAssumption DEF CommandInv, CommandTypes
<1>4. /\ costs' \in [calls : Nat, stages : 0 .. MaxStages, refusals : Nat]
      /\ costs'.stages = costs.stages /\ costs.stages \in 0 .. MaxStages
    BY <1>2, <1>3
<1>5. q # CallerIdle /\ q.seconds = t /\ q.req = r /\ q.rest = Script(r, t)
    BY <1>1 DEF CallerIdle
<1>6. t \in {NoValue, Explicit, pending} /\ (t = pending => pending = NoValue \/ SwitchesOn(r))
    BY <1>1, <1>3, <1>4 DEF Consumed, Explicit, CommandTypes, NoValue
<1>7. t \in (0 .. costs.stages) \cup {Explicit}
    BY <1>3, <1>4, <1>6 DEF CommandTypes, NoValue
<1>8. doing'[c] = q /\ \A d \in Callers \ {c} : doing'[d] = doing[d]
    BY <1>1, <1>3 DEF CommandTypes
<1>9. CommandTypes'
    <2>1. pending' \in 0 .. costs'.stages
        BY <1>2, <1>3, <1>4 DEF CommandTypes, NoValue
    <2>2. stage' \in (0 .. costs'.stages) \cup {Explicit'}
        BY <1>2, <1>3, <1>4 DEF CommandTypes, Explicit
    <2>3. doing' = [d \in Callers |-> doing'[d]]
        BY <1>1, <1>3 DEF CommandTypes
    <2> QED BY <1>2, <1>3, <1>4, <2>1, <2>2, <2>3 DEF CommandTypes, Stagings
<1>10. Fits(Script(r, t), r, t)
    BY <1>1, <1>3, ScriptsFit DEF CommandTypes
<1>11. KnownCall(q) /\ KnownAlone(q)
    BY <1>1, <1>5, <1>7, <1>10 DEF Fits, KnownCall, KnownAlone
<1>12. CallsOK'
    <2> SUFFICES ASSUME NEW d \in Callers, NEW p, p = doing'[d], p # CallerIdle
                 PROVE  /\ KnownCall(p)' /\ (d \notin crossed' => KnownAlone(p)')
                        /\ \A e \in Callers \ {d} : doing'[e] # CallerIdle => d \in crossed'
        BY DEF CallsOK, CallerIdle
    <2>1. KnownCall(p)
        BY <1>3, <1>8, <1>11 DEF CallsOK
    <2>2. d # c => d \in Busy
        BY <1>8 DEF Busy
    <2>3. d \notin crossed' => d = c
        BY <1>2, <2>2
    <2>4. \A e \in Callers \ {d} : doing'[e] # CallerIdle => d \in crossed'
        BY <1>2, <1>8, <2>2 DEF Busy
    <2> QED BY <1>2, <1>3, <1>4, <1>8, <1>9, <1>11, <2>1, <2>3, <2>4, StillKnown
<1>13. ASSUME NEW n \in Stagings \ leaked PROVE StagingOK(n)'
    <2>1. n \in 1 .. MaxStages /\ StagingOK(n)
        BY <1>3, <1>13 DEF StagingsOK, Stagings
    <2>2. t = n => pending = n /\ SwitchesOn(r) /\ ~SwitchesOff(r) /\ pending' = NoValue
        BY <1>2, <1>3, <1>6, <2>1 DEF SwitchesOn, SwitchesOff, Explicit, NoValue
    <2>3. n # NoValue /\ (n \in dropped' => n \in dropped \/ (pending = n /\ pending' = NoValue /\ t # n))
        BY <1>2, <2>1, <2>2 DEF NoValue
    <2>4. pending' = n => pending = n
        BY <1>2, <2>3
    <2>5. pending = n => n <= costs.stages
        BY <1>3, <1>4 DEF CommandTypes
    <2>6. /\ uses'[n] <= 1 /\ (n \in dropped' \/ uses'[n] > 0 => n <= costs'.stages)
          /\ n \in dropped' => uses'[n] = 0
          /\ pending' = n => uses'[n] = 0 /\ n \notin dropped'
        BY <1>2, <1>4, <2>1, <2>3, <2>4, <2>5 DEF StagingOK
    <2>7. ASSUME NEW d \in Callers, doing'[d] # CallerIdle, doing'[d].seconds = n
          PROVE  /\ uses'[n] = 0 /\ n \notin dropped' /\ pending' # n
                 /\ \A e \in Callers \ {d} : doing'[e] # CallerIdle => doing'[e].seconds # n
        <3>1. CASE d = c
            BY <1>2, <1>5, <1>8, <2>1, <2>2, <2>3, <2>7, <3>1 DEF StagingOK
        <3>2. CASE d # c
            BY <1>2, <1>5, <1>8, <2>1, <2>2, <2>3, <2>4, <2>7, <3>2 DEF StagingOK
        <3> QED BY <3>1, <3>2
    <2>8. stage' = n => \E d \in Callers : \E p \in {doing'[d]} : Owns(p, n)'
        <3> SUFFICES ASSUME stage' = n PROVE \E d \in Callers : \E p \in {doing'[d]} : Owns(p, n)'
            OBVIOUS
        <3>1. PICK d \in Callers : \E p \in {doing[d]} : Owns(p, n)
            BY <1>2, <2>1 DEF StagingOK
        <3>2. PICK p : p = doing[d] /\ Owns(p, n)
            BY <3>1
        <3>3. d # c
            BY <1>2, <3>2 DEF Owns
        <3>4. Owns(p, n)'
            BY <1>2, <3>2, SameGoals DEF Owns, CallerIdle
        <3> QED BY <1>8, <3>2, <3>3, <3>4
    <2> QED BY <2>6, <2>7, <2>8 DEF StagingOK, CallerIdle
<1>14. StagingsOK'
    BY <1>2, <1>13 DEF StagingsOK, Stagings
<1> QED BY <1>2, <1>3, <1>9, <1>12, <1>14 DEF CommandInv

(* A refused operation ends its command; the on-time it has staged in an    *)
(* older daemon counts as left behind.                                      *)
LEMMA RefusalKept ==
    ASSUME CommandInv, NEW c \in Callers, InvokeFails(c)
    PROVE  CommandInv'
<1>1. /\ doing[c] # CallerIdle /\ costs' = [costs EXCEPT !.refusals = @ + 1]
      /\ doing' = [doing EXCEPT ![c] = CallerIdle]
      /\ leaked' = IF stage # NoValue /\ stage = doing[c].seconds THEN leaked \cup {stage} ELSE leaked
      /\ UNCHANGED <<kind, bounded, output, pending, stage, crossed, missed, uses, dropped>>
    BY DEF InvokeFails
<1>2. /\ costs \in [calls : Nat, stages : 0 .. MaxStages, refusals : Nat] /\ MaxStages \in Nat
      /\ CommandTypes /\ CallsOK /\ StagingsOK /\ missed = {}
    BY CommandAssumption DEF CommandInv, CommandTypes
<1>3. /\ costs' \in [calls : Nat, stages : 0 .. MaxStages, refusals : Nat]
      /\ costs'.stages = costs.stages /\ costs.stages \in 0 .. MaxStages
    BY <1>1, <1>2
<1>4. doing'[c] = CallerIdle /\ \A d \in Callers \ {c} : doing'[d] = doing[d]
    BY <1>1, <1>2 DEF CommandTypes
<1>5. CommandTypes'
    <2>1. pending' \in 0 .. costs'.stages /\ stage' \in (0 .. costs'.stages) \cup {Explicit'}
        BY <1>1, <1>2, <1>3 DEF CommandTypes, Explicit
    <2>2. doing' = [d \in Callers |-> doing'[d]]
        BY <1>1, <1>2 DEF CommandTypes
    <2> QED BY <1>1, <1>2, <1>3, <2>1, <2>2 DEF CommandTypes, Stagings
<1>6. CallsOK'
    <2> SUFFICES ASSUME NEW d \in Callers, NEW p, p = doing'[d], p # CallerIdle
                 PROVE  /\ KnownCall(p)' /\ (d \notin crossed' => KnownAlone(p)')
                        /\ \A e \in Callers \ {d} : doing'[e] # CallerIdle => d \in crossed'
        BY DEF CallsOK, CallerIdle
    <2>1. d # c /\ p = doing[d]
        BY <1>4
    <2>2. KnownCall(p) /\ (d \notin crossed => KnownAlone(p))
        BY <1>2, <2>1 DEF CallsOK
    <2>3. \A e \in Callers \ {d} : doing'[e] # CallerIdle => d \in crossed'
        BY <1>1, <1>2, <1>4, <2>1 DEF CallsOK
    <2> QED BY <1>1, <1>2, <1>3, <1>5, <2>2, <2>3, StillKnown
<1>7. ASSUME NEW n \in Stagings \ leaked' PROVE StagingOK(n)'
    <2>1. n \in 1 .. MaxStages /\ n \notin leaked /\ StagingOK(n)
        BY <1>1, <1>2, <1>7 DEF StagingsOK, Stagings
    <2>2. stage' = n => \E d \in Callers : \E p \in {doing'[d]} : Owns(p, n)'
        <3> SUFFICES ASSUME stage' = n PROVE \E d \in Callers : \E p \in {doing'[d]} : Owns(p, n)'
            OBVIOUS
        <3>1. PICK d \in Callers : \E p \in {doing[d]} : Owns(p, n)
            BY <1>1, <2>1 DEF StagingOK
        <3>2. PICK p : p = doing[d] /\ Owns(p, n)
            BY <3>1
        <3>3. d # c
            BY <1>1, <1>7, <2>1, <3>2 DEF Owns, NoValue
        <3>4. Owns(p, n)'
            BY <1>1, <3>2, SameGoals DEF Owns, CallerIdle
        <3> QED BY <1>4, <3>2, <3>3, <3>4
    <2> QED BY <1>1, <1>3, <1>4, <2>1, <2>2 DEF StagingOK, CallerIdle
<1>8. StagingsOK'
    BY <1>7 DEF StagingsOK, Stagings
<1> QED BY <1>1, <1>2, <1>5, <1>6, <1>8 DEF CommandInv

(* What an operation of caller c does, each part named: x is the operation, *)
(* after the device, given the on-time it bounds the device with.           *)
Executes(c, q, x, takes, given, after) ==
    /\ q = doing[c] /\ q # CallerIdle /\ x = Head(q.rest)
    /\ takes = (~bounded /\ x.name = "turn_on" /\ kind = "light")
    /\ given = IF takes THEN stage ELSE IF "timer" \in DOMAIN x.sets THEN x.sets["timer"] ELSE NoValue
    /\ after = [a \in CdpAspects |-> IF a = "timer" /\ takes THEN stage
                                     ELSE IF a \in DOMAIN x.sets THEN x.sets[a] ELSE output[a]]

(* The parts of the next operation, and what it leaves alone.               *)
LEMMA InvokeParts ==
    ASSUME NEW c \in Callers, Invoke(c)
    PROVE  \E q, x, takes, given, after :
             /\ Executes(c, q, x, takes, given, after)
             /\ output' = after
             /\ stage' = IF x.name = "set_timer_on_time" THEN q.seconds ELSE IF takes THEN NoValue ELSE stage
             /\ doing' = [doing EXCEPT ![c] = IF Len(q.rest) = 1 THEN CallerIdle ELSE [q EXCEPT !.rest = Tail(@)]]
             /\ missed' = IF Len(q.rest) = 1 /\ c \notin crossed /\ leaked = {}
                          THEN {g[1] : g \in {h \in Goal(q.req, q.seconds) : after[h[1]] # h[2]}} ELSE missed
             /\ uses' = IF given \in DOMAIN uses THEN [uses EXCEPT ![given] = @ + 1] ELSE uses
             /\ leaked' = IF takes /\ stage # NoValue /\ stage # q.seconds THEN leaked \cup {stage} ELSE leaked
             /\ UNCHANGED <<kind, bounded, pending, costs, crossed, dropped>>
<1> DEFINE mine == doing[c]
           op == Head(mine.rest)
           on == ~bounded /\ op.name = "turn_on" /\ kind = "light"
           time == IF on THEN stage ELSE IF "timer" \in DOMAIN op.sets THEN op.sets["timer"] ELSE NoValue
           left == [a \in CdpAspects |-> IF a = "timer" /\ on THEN stage
                                         ELSE IF a \in DOMAIN op.sets THEN op.sets[a] ELSE output[a]]
<1>1. /\ doing[c] # CallerIdle
      /\ output' = left
      /\ stage' = IF op.name = "set_timer_on_time" THEN mine.seconds ELSE IF on THEN NoValue ELSE stage
      /\ doing' = [doing EXCEPT ![c] = IF Len(mine.rest) = 1 THEN CallerIdle ELSE [mine EXCEPT !.rest = Tail(@)]]
      /\ missed' = IF Len(mine.rest) = 1 /\ c \notin crossed /\ leaked = {}
                   THEN {g[1] : g \in {h \in Goal(mine.req, mine.seconds) : left[h[1]] # h[2]}} ELSE missed
      /\ uses' = IF time \in DOMAIN uses THEN [uses EXCEPT ![time] = @ + 1] ELSE uses
      /\ leaked' = IF on /\ stage # NoValue /\ stage # mine.seconds THEN leaked \cup {stage} ELSE leaked
      /\ UNCHANGED <<kind, bounded, pending, costs, crossed, dropped>>
    BY Zenon DEF Invoke
<1>2. Executes(c, mine, op, on, time, left)
    BY <1>1, Zenon DEF Executes
<1> HIDE DEF mine, op, on, time, left
<1> WITNESS mine, op, on, time, left
<1> QED BY <1>1, <1>2, Zenon

(* The facts about the next operation that its position gives.              *)
LEMMA NextOperation ==
    ASSUME CommandInv, NEW c \in Callers, NEW q, NEW x, NEW takes, NEW given, NEW after,
           Executes(c, q, x, takes, given, after)
    PROVE  /\ KnownCall(q) /\ (c \notin crossed => KnownAlone(q))
           /\ Len(q.rest) \in Nat \ {0} /\ x = q.rest[1]
           /\ takes => Len(q.rest) = 1 /\ q.req.op = "turn_on"
           /\ "timer" \in DOMAIN x.sets => x.sets["timer"] = NoValue \/ (x.sets["timer"] = q.seconds /\ Len(q.rest) = 1)
           /\ x.name = "set_timer_on_time" => Len(q.rest) = 2 /\ StagedThere(q.req, q.seconds)
           /\ StagedThere(q.req, q.seconds) /\ Len(q.rest) = 1 => takes
           /\ StagedThere(q.req, q.seconds) /\ Len(q.rest) # 1 => x.name = "set_timer_on_time"
<1>1. KnownCall(q) /\ (c \notin crossed => KnownAlone(q))
    BY DEF CommandInv, CallsOK, Executes
<1>2. IsList(q.rest) /\ ScriptOK(q.rest, q.req, q.seconds) /\ Len(q.rest) # 0
    BY <1>1 DEF KnownCall, ScriptOK
<1>3. Len(q.rest) \in Nat /\ Head(q.rest) = q.rest[1]
    BY <1>2, TailOps
<1>4. 1 \in 1 .. Len(q.rest) /\ x = q.rest[1]
    BY <1>2, <1>3 DEF Executes
<1>5. takes => Len(q.rest) = 1 /\ q.req.op = "turn_on"
    BY <1>2, <1>4 DEF Executes, ScriptOK
<1>6. /\ "timer" \in DOMAIN x.sets => x.sets["timer"] = NoValue \/ (x.sets["timer"] = q.seconds /\ Len(q.rest) = 1)
      /\ x.name = "set_timer_on_time" => Len(q.rest) = 2 /\ StagedThere(q.req, q.seconds)
    BY <1>2, <1>4 DEF ScriptOK
<1>7. /\ StagedThere(q.req, q.seconds) /\ Len(q.rest) = 1 => takes
      /\ StagedThere(q.req, q.seconds) /\ Len(q.rest) # 1 => x.name = "set_timer_on_time"
    BY <1>2, <1>4 DEF ScriptOK, Executes, StagedThere
<1> QED BY <1>1, <1>2, <1>3, <1>4, <1>5, <1>6, <1>7

(* After the operation every aspect asked for is as asked for, or a later   *)
(* operation sets it.                                                       *)
LEMMA OperationServes ==
    ASSUME CommandInv, NEW c \in Callers, NEW q, NEW x, NEW takes, NEW given, NEW after,
           Executes(c, q, x, takes, given, after), c \notin crossed, NEW g \in Goal(q.req, q.seconds)
    PROVE  \/ after[g[1]] = g[2]
           \/ Len(q.rest) # 1 /\ (Sets(Tail(q.rest), g[1]) \/ (g[1] = "timer" /\ StagedThere(q.req, q.seconds)))
<1>1. /\ KnownCall(q) /\ KnownAlone(q) /\ Len(q.rest) \in Nat \ {0} /\ x = q.rest[1]
      /\ takes => Len(q.rest) = 1 /\ q.req.op = "turn_on"
      /\ StagedThere(q.req, q.seconds) /\ Len(q.rest) = 1 => takes
    BY NextOperation
<1>2. /\ g[1] \in CdpAspects /\ IsList(q.rest) /\ Agrees(q.rest, q.req, q.seconds)
      /\ \/ Sets(q.rest, g[1]) \/ (g[1] = "timer" /\ StagedThere(q.req, q.seconds)) \/ output[g[1]] = g[2]
      /\ StagedThere(q.req, q.seconds) /\ Len(q.rest) = 1 => stage = q.seconds
    BY <1>1 DEF KnownCall, KnownAlone
<1>3. CASE g[1] = "timer" /\ takes
    <2>1. StagedThere(q.req, q.seconds) /\ g[2] = q.seconds
        BY <1>1, <1>3, GoalTimer DEF Executes
    <2>2. stage = q.seconds
        BY <1>1, <1>2, <1>3, <2>1
    <2>3. after["timer"] = stage
        BY <1>2, <1>3 DEF Executes
    <2> QED BY <1>3, <2>1, <2>2, <2>3
<1>4. CASE g[1] = "timer" /\ ~takes /\ StagedThere(q.req, q.seconds)
    BY <1>1, <1>4
<1>5. CASE ~(g[1] = "timer" /\ takes) /\ ~(g[1] = "timer" /\ StagedThere(q.req, q.seconds))
    <2>1. after[g[1]] = IF g[1] \in DOMAIN x.sets THEN x.sets[g[1]] ELSE output[g[1]]
        BY <1>2, <1>5 DEF Executes
    <2>2. g[1] \in DOMAIN x.sets => x.sets[g[1]] = g[2]
        BY <1>1, <1>2, <1>5 DEF Agrees
    <2>3. CASE g[1] \in DOMAIN x.sets \/ output[g[1]] = g[2]
        BY <2>1, <2>2, <2>3
    <2>4. CASE g[1] \notin DOMAIN x.sets /\ output[g[1]] # g[2]
        <3>1. PICK j \in 1 .. Len(q.rest) : g[1] \in DOMAIN q.rest[j].sets
            BY <1>2, <1>5, <2>4 DEF Sets
        <3>2. j # 1
            BY <1>1, <2>4, <3>1
        <3>3. /\ Len(Tail(q.rest)) = Len(q.rest) - 1
              /\ \A i \in 1 .. Len(Tail(q.rest)) : Tail(q.rest)[i] = q.rest[i + 1]
            BY <1>1, <1>2, TailOps
        <3>4. j - 1 \in 1 .. Len(Tail(q.rest)) /\ Tail(q.rest)[j - 1] = q.rest[j]
            BY <1>1, <3>2, <3>3
        <3> QED BY <1>1, <3>1, <3>2, <3>4 DEF Sets
    <2> QED BY <2>3, <2>4
<1> QED BY <1>3, <1>4, <1>5

(* The daemon executes an operation.                                        *)
LEMMA InvokeKept ==
    ASSUME CommandInv, NEW c \in Callers, Invoke(c)
    PROVE  CommandInv'
<1>1. PICK q, x, takes, given, after :
        /\ Executes(c, q, x, takes, given, after)
        /\ output' = after
        /\ stage' = IF x.name = "set_timer_on_time" THEN q.seconds ELSE IF takes THEN NoValue ELSE stage
        /\ doing' = [doing EXCEPT ![c] = IF Len(q.rest) = 1 THEN CallerIdle ELSE [q EXCEPT !.rest = Tail(@)]]
        /\ missed' = IF Len(q.rest) = 1 /\ c \notin crossed /\ leaked = {}
                     THEN {g[1] : g \in {h \in Goal(q.req, q.seconds) : after[h[1]] # h[2]}} ELSE missed
        /\ uses' = IF given \in DOMAIN uses THEN [uses EXCEPT ![given] = @ + 1] ELSE uses
        /\ leaked' = IF takes /\ stage # NoValue /\ stage # q.seconds THEN leaked \cup {stage} ELSE leaked
        /\ UNCHANGED <<kind, bounded, pending, costs, crossed, dropped>>
    BY InvokeParts
<1>2. /\ CommandTypes /\ CallsOK /\ StagingsOK /\ missed = {} /\ MaxStages \in Nat
      /\ costs.stages \in 0 .. MaxStages
    BY CommandAssumption DEF CommandInv, CommandTypes
<1>3. /\ KnownCall(q) /\ (c \notin crossed => KnownAlone(q))
      /\ Len(q.rest) \in Nat \ {0} /\ x = q.rest[1]
      /\ takes => Len(q.rest) = 1 /\ q.req.op = "turn_on"
      /\ "timer" \in DOMAIN x.sets => x.sets["timer"] = NoValue \/ (x.sets["timer"] = q.seconds /\ Len(q.rest) = 1)
      /\ x.name = "set_timer_on_time" => Len(q.rest) = 2 /\ StagedThere(q.req, q.seconds)
      /\ StagedThere(q.req, q.seconds) /\ Len(q.rest) = 1 => takes
      /\ StagedThere(q.req, q.seconds) /\ Len(q.rest) # 1 => x.name = "set_timer_on_time"
    BY <1>1, NextOperation
<1>4. q = doing[c] /\ q # CallerIdle /\ q.seconds \in (0 .. costs.stages) \cup {Explicit}
    BY <1>1, <1>3 DEF Executes, KnownCall
<1>5. missed' = {}
    <2>1. CASE Len(q.rest) = 1 /\ c \notin crossed /\ leaked = {}
        <3>1. \A g \in Goal(q.req, q.seconds) : after[g[1]] = g[2]
            BY <1>1, <2>1, OperationServes
        <3> QED BY <1>1, <2>1, <3>1
    <2>2. CASE ~(Len(q.rest) = 1 /\ c \notin crossed /\ leaked = {})
        BY <1>1, <1>2, <2>2
    <2> QED BY <2>1, <2>2
<1>6. PICK p : /\ doing'[c] = p
               /\ p = IF Len(q.rest) = 1 THEN CallerIdle ELSE [q EXCEPT !.rest = Tail(@)]
    BY <1>1, <1>2 DEF CommandTypes
<1>7. \A d \in Callers \ {c} : doing'[d] = doing[d]
    BY <1>1, <1>2 DEF CommandTypes
<1>8. CommandTypes'
    <2>1. stage' \in (0 .. costs'.stages) \cup {Explicit'}
        BY <1>1, <1>2, <1>4 DEF CommandTypes, Explicit, NoValue
    <2>2. doing' = [d \in Callers |-> doing'[d]]
        BY <1>1, <1>2 DEF CommandTypes
    <2>3. output' = [a \in CdpAspects |-> output'[a]]
        BY <1>1 DEF Executes
    <2>4. uses' \in [Stagings -> Nat]
        BY <1>1, <1>2 DEF CommandTypes
    <2> QED BY <1>1, <1>2, <2>1, <2>2, <2>3, <2>4 DEF CommandTypes, Stagings

<1>9. Len(q.rest) # 1 => /\ p # CallerIdle /\ p.seconds = q.seconds /\ p.req = q.req /\ p.rest = Tail(q.rest)
                        /\ p = [op |-> p.op, req |-> p.req, seconds |-> p.seconds, rest |-> p.rest]
    BY <1>3, <1>6 DEF KnownCall, CallerIdle
<1>10. ASSUME Len(q.rest) # 1 PROVE KnownCall(p) /\ (c \notin crossed => KnownAlone(p)')
    <2>1. /\ IsList(q.rest) /\ ScriptOK(q.rest, q.req, q.seconds) /\ Agrees(q.rest, q.req, q.seconds)
          /\ \A g \in Goal(q.req, q.seconds) : g[1] \in CdpAspects
        BY <1>3 DEF KnownCall
    <2>2. IsList(p.rest) /\ ScriptOK(p.rest, p.req, p.seconds) /\ Agrees(p.rest, p.req, p.seconds)
        BY <1>9, <1>10, <2>1, TailKnown
    <2>3. KnownCall(p)
        BY <1>4, <1>9, <1>10, <2>1, <2>2 DEF KnownCall
    <2>4. ASSUME c \notin crossed PROVE KnownAlone(p)'
        <3>1. PICK r, t, s : r = p.req /\ t = p.seconds /\ s = p.rest
            OBVIOUS
        <3>2. Goal(r, t)' = Goal(r, t) /\ StagedThere(r, t)' = StagedThere(r, t)
            BY <1>1, SameGoals
        <3>3. ASSUME NEW g \in Goal(r, t)
              PROVE  \/ Sets(s, g[1]) \/ (g[1] = "timer" /\ StagedThere(r, t))
                     \/ output'[g[1]] = g[2]
            BY <1>1, <1>9, <1>10, <2>4, <3>1, OperationServes
        <3>4. StagedThere(r, t) => stage' = t
            BY <1>1, <1>3, <1>9, <1>10, <3>1
        <3> QED BY <3>1, <3>2, <3>3, <3>4 DEF KnownAlone, Sets
    <2> QED BY <2>3, <2>4
<1>11. CallsOK'
    <2> SUFFICES ASSUME NEW d \in Callers, NEW u, u = doing'[d], u # CallerIdle
                 PROVE  /\ KnownCall(u)' /\ (d \notin crossed' => KnownAlone(u)')
                        /\ \A e \in Callers \ {d} : doing'[e] # CallerIdle => d \in crossed'
        BY DEF CallsOK, CallerIdle
    <2>1. costs'.stages = costs.stages /\ costs.stages <= costs'.stages
        BY <1>1, <1>2
    <2>2. d # c => u = doing[d] /\ KnownCall(u) /\ d \in crossed
        BY <1>2, <1>4, <1>7 DEF CallsOK
    <2>3. d = c => u = p /\ Len(q.rest) # 1
        BY <1>6
    <2>4. \A e \in Callers \ {d} : doing'[e] # CallerIdle => d \in crossed'
        BY <1>1, <1>2, <1>4, <1>6, <1>7, <2>2 DEF CallsOK
    <2>5. KnownCall(u)'
        BY <1>1, <1>2, <1>8, <1>10, <2>1, <2>2, <2>3, StillKnown
    <2>6. d \notin crossed' => KnownAlone(u)'
        BY <1>1, <1>10, <2>2, <2>3
    <2> QED BY <2>4, <2>5, <2>6
<1>12. ASSUME NEW n \in Stagings \ leaked' PROVE StagingOK(n)'
    <2>1. n \in 1 .. MaxStages /\ n \notin leaked /\ StagingOK(n) /\ n # NoValue /\ n \in DOMAIN uses
        BY <1>1, <1>2, <1>12 DEF StagingsOK, Stagings, NoValue, CommandTypes
    <2>2. given = n => q.seconds = n /\ Len(q.rest) = 1
        <3>1. CASE takes
            BY <1>1, <1>3, <1>12, <2>1, <3>1 DEF Executes
        <3>2. CASE ~takes
            BY <1>1, <1>3, <2>1, <3>2 DEF Executes
        <3> QED BY <3>1, <3>2
    <2>3. uses'[n] = IF given = n THEN uses[n] + 1 ELSE uses[n]
        BY <1>1, <1>2, <2>1 DEF CommandTypes
    <2>4. q.seconds = n => /\ uses[n] = 0 /\ n \notin dropped /\ pending # n /\ n <= costs.stages
                           /\ \A d \in Callers \ {c} : doing[d] # CallerIdle => doing[d].seconds # n
        BY <1>2, <1>4, <2>1 DEF StagingOK, Explicit
    <2>5. uses[n] \in Nat
        BY <1>2, <2>1 DEF CommandTypes
    <2>6. /\ uses'[n] <= 1 /\ (n \in dropped' \/ uses'[n] > 0 => n <= costs'.stages)
          /\ n \in dropped' => uses'[n] = 0
          /\ pending' = n => uses'[n] = 0 /\ n \notin dropped'
        BY <1>1, <2>1, <2>2, <2>3, <2>4, <2>5 DEF StagingOK
    <2>7. ASSUME NEW d \in Callers, doing'[d] # CallerIdle, doing'[d].seconds = n
          PROVE  /\ uses'[n] = 0 /\ n \notin dropped' /\ pending' # n
                 /\ \A e \in Callers \ {d} : doing'[e] # CallerIdle => doing'[e].seconds # n
        <3>1. \A e \in Callers : doing'[e] # CallerIdle => doing[e] # CallerIdle /\ doing'[e].seconds = doing[e].seconds
            BY <1>4, <1>6, <1>7, <1>9
        <3>2. given # n
            <4> SUFFICES ASSUME given = n PROVE FALSE
                OBVIOUS
            <4>1. d # c
                BY <1>6, <2>2, <2>7
            <4> QED BY <1>7, <2>2, <2>4, <2>7, <4>1
        <3> QED BY <1>1, <2>1, <2>3, <2>7, <3>1, <3>2 DEF StagingOK
    <2>8. stage' = n => \E d \in Callers : \E u \in {doing'[d]} : Owns(u, n)'
        <3> SUFFICES ASSUME stage' = n PROVE \E d \in Callers : \E u \in {doing'[d]} : Owns(u, n)'
            OBVIOUS
        <3>1. CASE x.name = "set_timer_on_time"
            <4>1. q.seconds = n /\ Len(q.rest) = 2 /\ StagedThere(q.req, n)
                BY <1>1, <1>3, <3>1
            <4>2. Len(Tail(q.rest)) = 1
                BY <1>3, <4>1, TailOps DEF KnownCall
            <4>3. PICK r : r = p.req /\ StagedThere(r, n)
                BY <1>9, <4>1
            <4>4. StagedThere(r, n)'
                BY <1>1, <4>3, SameGoals
            <4>5. p # CallerIdle /\ p.seconds = n /\ Len(p.rest) = 1
                <5>1. Len(q.rest) # 1
                    BY <4>1
                <5>2. p # CallerIdle /\ p.seconds = q.seconds /\ p.rest = Tail(q.rest)
                    BY <1>9, <5>1, Zenon
                <5> QED BY <4>1, <4>2, <5>2
            <4>6. Owns(p, n)'
                BY <4>3, <4>4, <4>5 DEF Owns, CallerIdle
            <4> QED BY <1>6, <4>6
        <3>2. CASE x.name # "set_timer_on_time"
            <4>1. stage = n /\ ~takes
                BY <1>1, <2>1, <3>2
            <4>2. PICK d \in Callers : \E u \in {doing[d]} : Owns(u, n)
                BY <2>1, <4>1 DEF StagingOK
            <4>3. PICK u : u = doing[d] /\ Owns(u, n)
                BY <4>2
            <4>4. d # c
                BY <1>3, <1>4, <4>1, <4>3 DEF Owns
            <4>5. Owns(u, n)'
                BY <1>1, <4>3, SameGoals DEF Owns, CallerIdle
            <4> QED BY <1>7, <4>3, <4>4, <4>5
        <3> QED BY <3>1, <3>2
    <2> QED BY <2>6, <2>7, <2>8 DEF StagingOK, CallerIdle
<1>13. StagingsOK'
    BY <1>12 DEF StagingsOK, Stagings
<1> QED BY <1>5, <1>8, <1>11, <1>13 DEF CommandInv

(* Commands keep the invariant.                                             *)
LEMMA CommandsStep == CommandInv /\ [CmdNext]_cmdVars => CommandInv'
<1> SUFFICES ASSUME CommandInv, [CmdNext]_cmdVars PROVE CommandInv'
    OBVIOUS
<1>1. CASE SetTimerOnTime
    BY <1>1, StagingKept
<1>2. CASE \E c \in Callers : Invoke(c)
    BY <1>2, InvokeKept
<1>3. CASE \E c \in Callers : InvokeFails(c)
    BY <1>3, RefusalKept
<1>4. CASE \E c \in Callers : \E r \in Requests(kind) : Command(c, r)
    BY <1>4, CommandKept
<1>5. CASE UNCHANGED cmdVars
    <2>1. /\ kind' = kind /\ bounded' = bounded /\ costs' = costs /\ missed' = missed
          /\ UNCHANGED <<output, pending, stage, doing, crossed, uses, dropped, leaked>>
        BY <1>5 DEF cmdVars
    <2>2. CommandTypes /\ CommandTypes' /\ CallsOK /\ StagingsOK /\ missed = {} /\ costs.stages <= costs'.stages
        BY <2>1, CommandAssumption DEF CommandInv, CommandTypes, Stagings, Explicit
    <2>3. CallsOK'
        <3> SUFFICES ASSUME NEW c \in Callers, NEW q, q = doing'[c], q # CallerIdle
                     PROVE  /\ KnownCall(q)' /\ (c \notin crossed' => KnownAlone(q)')
                            /\ \A d \in Callers \ {c} : doing'[d] # CallerIdle => c \in crossed'
            BY DEF CallsOK, CallerIdle
        <3> QED BY <2>1, <2>2, StillKnown DEF CallsOK
    <2>4. \A q, n : Owns(q, n)' <=> Owns(q, n)
        BY <2>1, SameGoals DEF Owns, CallerIdle
    <2>5. StagingsOK'
        BY <2>1, <2>2, <2>4 DEF StagingsOK, StagingOK, Stagings, CallerIdle
    <2> QED BY <2>1, <2>2, <2>3, <2>5 DEF CommandInv
<1> QED BY <1>1, <1>2, <1>3, <1>4, <1>5 DEF CmdNext

(* For every set of entity kinds and callers and every bound: a command     *)
(* that no other one overlapped leaves the device as it asked for, however  *)
(* many operations its script has, and an on-time staged on the client      *)
(* bounds one switch-on at most and none after a switch-off dropped it.     *)
THEOREM CommandsProved == CmdSpec => []CommandsTakeEffect
<1>1. CommandInv => CommandsTakeEffect
    <2> SUFFICES ASSUME CommandInv PROVE CommandsTakeEffect
        OBVIOUS
    <2>1. \A n \in Stagings \ leaked : StagingOK(n)
        BY DEF CommandInv, StagingsOK
    <2> QED BY <2>1 DEF CommandInv, CommandsTakeEffect, StagingOK, Stagings
<1> QED BY <1>1, CommandsStart, CommandsStep, PTL DEF CmdSpec

-----------------------------------------------------------------------------
(* The way of an event to the entities.                                     *)

Subs == [who : {"wire", "refresh", "consumer"}, key : {None, "a"}, id : Nat, at : Nat]
Envelopes == [type : Types, valid : BOOLEAN, n : Nat,
              payload : [id : {"a", "b"}, central : {"a", "b"}, group : {"a", "b"}]]

RoutingTypeOK ==
    /\ bucket \in [BusTypes -> SUBSET Subs]
    /\ turn \in Nat /\ wire \in Nat
    /\ installed \in BOOLEAN /\ misplaced \in BOOLEAN /\ ignored \in BOOLEAN
    /\ task \in {"off", "waiting", "publishing", "done"}
    /\ stream \in {"off", "up", "rejecting", "stopped"}
    /\ todo \in SUBSET Subs
    /\ gone \in SUBSET ({"wire", "consumer"} \X Nat)
    /\ queue \in Seq(Envelopes)
    /\ stored \in [Aspects -> Nat]
    /\ count \in [events : Nat, rejects : Nat, raises : Nat]
    /\ applied \in [1 .. MaxEvents -> Nat]

(* Before the adapter starts nothing runs, afterwards both bridges are      *)
(* installed.                                                               *)
StartedOK ==
    /\ stream = "off" <=> wire = 0
    /\ stream = "off" => task = "off" /\ queue = <<>>
    /\ stream # "off" => task # "off"
    /\ installed <=> wire > 0
    /\ task # "publishing" => todo = {}

(* The bus holds one subscription of the store bridge for each type it      *)
(* handles, that of the current group, which has not been cancelled, and    *)
(* one of the refresh bridge, behind it as long as the stream has not been  *)
(* started again.                                                           *)
IsWire(s) == s.who = "wire" /\ s.key = None /\ s.id = wire
IsRefresh(s) == s.who = "refresh" /\ s.key = None /\ s.id = 0
OneWire(subs) ==
    /\ \A s \in subs : s.who = "wire" => IsWire(s)
    /\ \A r, s \in subs : r.who = "wire" /\ s.who = "wire" => r = s
OneRefresh(subs) == \A s \in subs : s.who = "refresh" => IsRefresh(s)
InOrder(subs) == \A r, s \in subs : r.who = "wire" /\ s.who = "refresh" => r.at < s.at
BusOK ==
    /\ \A id \in Nat : <<"wire", id>> \in gone => id < wire
    /\ \A t \in BusTypes :
         /\ \A s \in bucket[t] : s.at <= turn
         /\ OneWire(bucket[t])
         /\ OneRefresh(bucket[t])
         /\ wire = 0 => \A s \in bucket[t] : s.who = "consumer"
         /\ wire > 0 /\ Applies(t) # {} => \E s \in bucket[t] : s.who = "wire"
         /\ wire > 0 /\ Pings(t) # {} => \E s \in bucket[t] : s.who = "refresh"
         /\ ~misplaced => InOrder(bucket[t])

(* What is queued has not been published, and arrives in order.             *)
WaitingOK ==
    /\ count.events <= MaxEvents
    /\ \A i \in 1 .. Len(queue) : queue[i].n \in 1 .. count.events /\ applied[queue[i].n] = 0
    /\ \A i, j \in 1 .. Len(queue) : i < j => queue[i].n < queue[j].n
    /\ \A n \in 1 .. MaxEvents : n > count.events => applied[n] = 0
    /\ \A n \in 1 .. MaxEvents : applied[n] <= 1

(* The event being published is applied once the handler of the store       *)
(* bridge is through.                                                       *)
PublishOK ==
    task = "publishing" =>
        /\ event.type \in Types /\ event.n \in 1 .. count.events
        /\ \A i \in 1 .. Len(queue) : event.n < queue[i].n
        /\ OneWire(todo) /\ OneRefresh(todo)
        /\ IF \E s \in todo : s.who = "wire" THEN applied[event.n] = 0
           ELSE Applies(event.type) # {} => applied[event.n] = 1

(* Home Assistant lags the store in the aspects the event writes, and only  *)
(* while the handler of the refresh bridge is still to run.                 *)
Rendered(e, a) == shown[e][a] = stored[a] \/ <<e, a>> \in Unheard
RefreshOK ==
    /\ wire = 0 => \A a \in Aspects : stored[a] = 0
    /\ ~misplaced =>
         /\ task # "publishing" => \A e \in Entities : \A a \in Reads(e) : Rendered(e, a)
         /\ task = "publishing" =>
              /\ InOrder(todo)
              /\ (\E s \in todo : s.who = "wire") /\ Pings(event.type) # {} => \E s \in todo : s.who = "refresh"
              /\ (\E s \in todo : s.who = "wire") => \A e \in Entities : \A a \in Reads(e) : Rendered(e, a)
              /\ \A e \in Entities : \A a \in Reads(e) :
                   Rendered(e, a) \/ (a \in Applies(event.type) /\ \E s \in todo : s.who = "refresh")

RoutingInv == RoutingTypeOK /\ StartedOK /\ BusOK /\ WaitingOK /\ PublishOK /\ RefreshOK /\ ~late

(* What an event writes is read by entities the refresh bridge tells of it, *)
(* or by those nobody tells.                                                *)
LEMMA HeardOrUnheard ==
    ASSUME NEW t \in Types, NEW e \in Entities, NEW a \in Reads(e), a \in Applies(t)
    PROVE  e \in Pings(t) \/ <<e, a>> \in Unheard
<1>1. a \in {"value", "state", "graph", "available", "sysvar", "program", "panel"}
  BY DEF Reads, Entities
<1>2. CASE a = "value"
  <2>1. t = "datapoint.value_changed"
    BY <1>2 DEF Applies
  <2>2. e \in {"generic", "custom", "combined"}
    BY <1>2 DEF Reads, Entities
  <2>3. {"generic", "custom"} \subseteq Pings(t)
    BY <2>1 DEF Pings, PanelEvents
  <2> QED BY <1>2, <2>2, <2>3 DEF Unheard
<1>3. CASE a = "state"
  <2>1. t = "custom_data_point.state_changed"
    BY <1>3 DEF Applies
  <2>2. e \in {"custom"}
    BY <1>3 DEF Reads, Entities
  <2>3. {"custom"} \subseteq Pings(t)
    BY <2>1 DEF Pings, PanelEvents
  <2> QED BY <1>3, <2>2, <2>3 DEF Unheard
<1>4. CASE a = "graph"
  <2>1. t \in {"device.created", "device.removed"}
    BY <1>4 DEF Applies
  <2>2. e \in {"registry"}
    BY <1>4 DEF Reads, Entities
  <2>3. {"registry"} \subseteq Pings(t)
    BY <2>1 DEF Pings, PanelEvents
  <2> QED BY <1>4, <2>2, <2>3 DEF Unheard
<1>5. CASE a = "available"
  <2>1. t = "device.availability_changed"
    BY <1>5 DEF Applies
  <2>2. e \in {"generic", "custom", "combined", "update", "group"}
    BY <1>5 DEF Reads, Entities
  <2>3. {"generic", "custom"} \subseteq Pings(t)
    BY <2>1 DEF Pings, PanelEvents
  <2> QED BY <1>5, <2>2, <2>3 DEF Unheard
<1>6. CASE a = "sysvar"
  <2>1. t = "hub.sysvar_changed"
    BY <1>6 DEF Applies
  <2>2. e \in {"sysvar"}
    BY <1>6 DEF Reads, Entities
  <2>3. {"sysvar"} \subseteq Pings(t)
    BY <2>1 DEF Pings, PanelEvents
  <2> QED BY <1>6, <2>2, <2>3 DEF Unheard
<1>7. CASE a = "program"
  <2>1. t = "hub.program_changed"
    BY <1>7 DEF Applies
  <2>2. e \in {"program"}
    BY <1>7 DEF Reads, Entities
  <2>3. {"program"} \subseteq Pings(t)
    BY <2>1 DEF Pings, PanelEvents
  <2> QED BY <1>7, <2>2, <2>3 DEF Unheard
<1>8. CASE a = "panel"
  <2>1. t \in PanelEvents \cup {"alarm.state_changed", "alarm.countdown", "alarm.readiness_changed",
                                "alarm.triggered"}
    BY <1>8 DEF Applies
  <2>2. e = "panel"
    BY <1>8 DEF Reads, Entities
  <2>3. "panel" \in Pings(t)
    BY <2>1 DEF Pings, PanelEvents
  <2> QED BY <2>2, <2>3
<1> QED BY <1>1, <1>2, <1>3, <1>4, <1>5, <1>6, <1>7, <1>8

LEMMA ReadsAspects ==
    \A e \in Entities : Reads(e) \subseteq Aspects
BY DEF Reads, Entities, Aspects

LEMMA AppliesAspects ==
    \A t \in Types : Applies(t) \subseteq Aspects
BY DEF Applies, Aspects

LEMMA RoutingInitOK == RoutingInit => RoutingInv
<1> SUFFICES ASSUME RoutingInit PROVE RoutingInv
  OBVIOUS
<1>1. RoutingTypeOK
  <2>1. queue \in Seq(Envelopes) /\ stored \in [Aspects -> Nat] /\ applied \in [1 .. MaxEvents -> Nat]
    BY DEF RoutingInit
  <2>2. count \in [events : Nat, rejects : Nat, raises : Nat]
    BY DEF RoutingInit
  <2>3. bucket \in [BusTypes -> SUBSET Subs]
    BY DEF RoutingInit
  <2> QED BY <2>1, <2>2, <2>3 DEF RoutingInit, RoutingTypeOK
<1>2. StartedOK /\ BusOK /\ PublishOK /\ ~late
  BY DEF RoutingInit, StartedOK, BusOK, PublishOK, OneWire, OneRefresh, InOrder
<1>3. WaitingOK
  BY RoutingAssumption DEF RoutingInit, WaitingOK
<1>4. RefreshOK
  BY ReadsAspects DEF RoutingInit, RefreshOK, Rendered
<1> QED BY <1>1, <1>2, <1>3, <1>4 DEF RoutingInv

(* The bus while subscribers come and go.                                   *)
LEMMA BusFrame ==
    ASSUME RoutingTypeOK, RoutingTypeOK', BusOK, wire' = wire, misplaced' = misplaced,
           \A id \in Nat : <<"wire", id>> \in gone' => <<"wire", id>> \in gone,
           \A t \in BusTypes : \A s \in bucket'[t] : s.at <= turn' /\ (s.who # "consumer" => s \in bucket[t]),
           \A t \in BusTypes : \A s \in bucket[t] : s.who # "consumer" => s \in bucket'[t]
    PROVE  BusOK'
<1> SUFFICES ASSUME NEW t \in BusTypes
    PROVE  /\ \A s \in bucket'[t] : s.at <= turn'
           /\ OneWire(bucket[t])'
           /\ OneRefresh(bucket[t])'
           /\ wire' = 0 => \A s \in bucket'[t] : s.who = "consumer"
           /\ wire' > 0 /\ Applies(t) # {} => \E s \in bucket'[t] : s.who = "wire"
           /\ wire' > 0 /\ Pings(t) # {} => \E s \in bucket'[t] : s.who = "refresh"
           /\ ~misplaced' => InOrder(bucket[t])'
  BY DEF BusOK
<1>1. OneWire(bucket[t])'
  BY DEF BusOK, OneWire, IsWire
<1>2. OneRefresh(bucket[t])'
  BY DEF BusOK, OneRefresh, IsRefresh
<1>3. ~misplaced' => InOrder(bucket[t])'
  BY DEF BusOK, InOrder
<1>4. wire' = 0 => \A s \in bucket'[t] : s.who = "consumer"
  BY DEF BusOK
<1>5. wire' > 0 /\ Applies(t) # {} => \E s \in bucket'[t] : s.who = "wire"
  BY DEF BusOK
<1>6. wire' > 0 /\ Pings(t) # {} => \E s \in bucket'[t] : s.who = "refresh"
  BY DEF BusOK
<1> QED BY <1>1, <1>2, <1>3, <1>4, <1>5, <1>6

(* Nothing of the queue, the event under way and the store moves.           *)
LEMMA StillPublishing ==
    ASSUME WaitingOK, PublishOK, RefreshOK,
           UNCHANGED <<queue, count, applied, task, event, todo, wire, stored, shown, misplaced>>
    PROVE  WaitingOK' /\ PublishOK' /\ RefreshOK'
<1>1. WaitingOK'
  BY DEF WaitingOK
<1>2. PublishOK'
  BY DEF PublishOK, OneWire, OneRefresh, IsWire, IsRefresh
<1>3. RefreshOK'
  BY DEF RefreshOK, Rendered, InOrder
<1> QED BY <1>1, <1>2, <1>3

LEMMA ConsumerSubscribesOK == RoutingInv /\ ConsumerSubscribes => RoutingInv'
<1> SUFFICES ASSUME RoutingInv, ConsumerSubscribes PROVE RoutingInv'
  OBVIOUS
<1> USE DEF RoutingInv
<1>0. PICK t \in Types, k \in {None, "a"} : bucket' = Subscribed(bucket, t, Sub("consumer", k, 0, turn + 1))
  BY DEF ConsumerSubscribes
<1>1. turn' = turn + 1 /\ UNCHANGED <<wire, installed, task, event, todo, gone, stream, queue, stored, shown, count,
                                      misplaced, ignored, applied, late>>
  BY DEF ConsumerSubscribes
<1>2. t \in BusTypes /\ turn \in Nat
  BY DEF BusTypes, RoutingTypeOK
<1>3. PICK s0 : s0 = Sub("consumer", k, 0, turn + 1)
  OBVIOUS
<1>4. s0 \in Subs /\ s0.who = "consumer" /\ s0.at = turn + 1
  BY <1>2, <1>3 DEF Sub, Subs
<1>5. bucket' = [bucket EXCEPT ![t] = bucket[t] \cup {s0}]
  BY <1>0, <1>3 DEF Subscribed
<1>6. bucket' \in [BusTypes -> SUBSET Subs]
  BY <1>2, <1>4, <1>5 DEF RoutingTypeOK
<1>7. RoutingTypeOK'
  BY <1>1, <1>6 DEF RoutingTypeOK
<1>8. ASSUME NEW tt \in BusTypes
      PROVE  /\ \A s \in bucket'[tt] : s.at <= turn' /\ (s.who # "consumer" => s \in bucket[tt])
             /\ \A s \in bucket[tt] : s \in bucket'[tt]
  <2>1. bucket'[tt] \subseteq bucket[tt] \cup {s0} /\ bucket[tt] \subseteq bucket'[tt]
    BY <1>2, <1>5 DEF RoutingTypeOK
  <2>2. \A s \in bucket[tt] : s.at \in Nat /\ s.at <= turn
    BY DEF BusOK, RoutingTypeOK, Subs
  <2> QED BY <2>1, <2>2, <1>1, <1>2, <1>4
<1>9. BusOK'
  BY <1>1, <1>7, <1>8, BusFrame
<1>10. StartedOK'
  BY <1>1 DEF StartedOK
<1> QED BY <1>1, <1>7, <1>9, <1>10, StillPublishing

LEMMA ConsumerUnsubscribesOK == RoutingInv /\ ConsumerUnsubscribes => RoutingInv'
<1> SUFFICES ASSUME RoutingInv, ConsumerUnsubscribes PROVE RoutingInv'
  OBVIOUS
<1> USE DEF RoutingInv
<1>1. gone' = gone \cup {<<"consumer", 0>>} /\ UNCHANGED <<turn, wire, installed, task, event, todo, stream, queue,
                                      stored, shown, count, misplaced, ignored, applied, late>>
  BY DEF ConsumerUnsubscribes
<1>2. bucket' = [t \in BusTypes |-> {s \in bucket[t] : ~(s.who = "consumer" /\ s.id = 0)}]
  BY DEF ConsumerUnsubscribes, Unsubscribed
<1>3. bucket' \in [BusTypes -> SUBSET Subs]
  BY <1>2 DEF RoutingTypeOK
<1>4. RoutingTypeOK'
  BY <1>1, <1>3 DEF RoutingTypeOK
<1>5. ASSUME NEW tt \in BusTypes
      PROVE  /\ \A s \in bucket'[tt] : s.at <= turn' /\ (s.who # "consumer" => s \in bucket[tt])
             /\ \A s \in bucket[tt] : s.who # "consumer" => s \in bucket'[tt]
  BY <1>1, <1>2 DEF BusOK
<1>6. BusOK'
  BY <1>1, <1>4, <1>5, BusFrame
<1>7. StartedOK'
  BY <1>1 DEF StartedOK
<1> QED BY <1>1, <1>4, <1>6, <1>7, StillPublishing

LEMMA CredentialOK == RoutingInv /\ (CredentialRejected \/ TransportStops \/ DispatchEnds) => RoutingInv'
<1> SUFFICES ASSUME RoutingInv, CredentialRejected \/ TransportStops \/ DispatchEnds PROVE RoutingInv'
  OBVIOUS
<1> USE DEF RoutingInv
<1>1. UNCHANGED <<bucket, turn, wire, installed, event, todo, gone, queue, stored, shown, misplaced, ignored,
                  applied, late>>
  BY DEF CredentialRejected, TransportStops, DispatchEnds
<1>2. stream # "off" /\ stream' \in {"rejecting", "stopped"} /\ (task' = task \/ (task = "waiting" /\ task' = "done"))
  BY DEF CredentialRejected, TransportStops, DispatchEnds
<1>3. count' \in [events : Nat, rejects : Nat, raises : Nat] /\ count'.events = count.events
  BY DEF CredentialRejected, TransportStops, DispatchEnds, RoutingTypeOK
<1>4. RoutingTypeOK'
  BY <1>1, <1>2, <1>3 DEF RoutingTypeOK
<1>5. StartedOK'
  BY <1>1, <1>2 DEF StartedOK
<1>6. BusOK'
  <2>1. \A t \in BusTypes : \A s \in bucket[t] : s.at <= turn
    BY DEF BusOK
  <2> QED BY <2>1, <1>1, <1>4, BusFrame
<1>7. WaitingOK'
  BY <1>1, <1>3 DEF WaitingOK
<1>8. PublishOK'
  BY <1>1, <1>2, <1>3 DEF PublishOK, OneWire, OneRefresh, IsWire, IsRefresh
<1>9. RefreshOK'
  BY <1>1, <1>2 DEF RefreshOK, Rendered, InOrder
<1> QED BY <1>1, <1>4, <1>5, <1>6, <1>7, <1>8, <1>9

LEMMA PublishedOK == RoutingInv /\ Published => RoutingInv'
<1> SUFFICES ASSUME RoutingInv, Published PROVE RoutingInv'
  OBVIOUS
<1> USE DEF RoutingInv
<1>1. UNCHANGED <<bucket, turn, wire, installed, todo, gone, stream, queue, stored, shown, count, misplaced, ignored,
                  applied, late>>
  BY DEF Published
<1>2. task = "publishing" /\ todo = {} /\ task' = "waiting"
  BY DEF Published
<1>4. RoutingTypeOK'
  BY <1>1, <1>2 DEF RoutingTypeOK
<1>5. StartedOK'
  BY <1>1, <1>2 DEF StartedOK
<1>6. BusOK'
  <2>1. \A t \in BusTypes : \A s \in bucket[t] : s.at <= turn
    BY DEF BusOK
  <2> QED BY <2>1, <1>1, <1>4, BusFrame
<1>7. WaitingOK'
  BY <1>1 DEF WaitingOK
<1>8. PublishOK'
  BY <1>2 DEF PublishOK
<1>9. RefreshOK'
  BY <1>1, <1>2 DEF RefreshOK, Rendered, InOrder
<1> QED BY <1>1, <1>4, <1>5, <1>6, <1>7, <1>8, <1>9

LEMMA EnvelopeArrivesOK == RoutingInv /\ EnvelopeArrives => RoutingInv'
<1> SUFFICES ASSUME RoutingInv, EnvelopeArrives PROVE RoutingInv'
  OBVIOUS
<1> USE DEF RoutingInv
<1>1. UNCHANGED <<bucket, turn, wire, installed, task, event, todo, gone, stream, stored, shown, misplaced, ignored,
                  applied, late>>
  BY DEF EnvelopeArrives
<1>2. PICK t \in Types, valid \in BOOLEAN, k \in {"a", "b"} :
        queue' = Append(queue, [type |-> t, valid |-> valid, n |-> count.events + 1,
                                payload |-> [id |-> k, central |-> k, group |-> k]])
  BY DEF EnvelopeArrives
<1>3. PICK env : env = [type |-> t, valid |-> valid, n |-> count.events + 1,
                        payload |-> [id |-> k, central |-> k, group |-> k]]
  OBVIOUS
<1>4. count.events \in Nat /\ count.events < MaxEvents /\ MaxEvents \in Nat /\ stream = "up"
  BY RoutingAssumption DEF EnvelopeArrives, RoutingTypeOK
<1>5. env \in Envelopes /\ env.n = count.events + 1
  BY <1>3, <1>4 DEF Envelopes
<1>6. PICK q \in Seq(Envelopes) : q = queue
  BY DEF RoutingTypeOK
<1>7. queue' = Append(q, env)
  BY <1>2, <1>3, <1>6
<1>8. Append(q, env) \in Seq(Envelopes)
  BY <1>5, SMT
<1>9. /\ Len(queue') = Len(q) + 1 /\ Len(q) \in Nat
      /\ \A i \in 1 .. Len(q) : queue'[i] = q[i] /\ q[i] \in Envelopes
      /\ queue'[Len(q) + 1] = env
  BY <1>5, <1>7, SMT
<1>10. count' \in [events : Nat, rejects : Nat, raises : Nat] /\ count'.events = count.events + 1
  BY <1>4 DEF EnvelopeArrives, RoutingTypeOK
<1>11. RoutingTypeOK'
  BY <1>1, <1>7, <1>8, <1>10 DEF RoutingTypeOK
<1>12. StartedOK'
  BY <1>1, <1>4 DEF StartedOK
<1>13. BusOK'
  <2>1. \A t_1 \in BusTypes : \A s \in bucket[t_1] : s.at <= turn
    BY DEF BusOK
  <2> QED BY <2>1, <1>1, <1>11, BusFrame
<1>14. \A i \in 1 .. Len(q) : q[i].n \in 1 .. count.events /\ applied[q[i].n] = 0
  BY <1>6 DEF WaitingOK
<1>15. WaitingOK'
  <2>1. \A i \in 1 .. Len(q) + 1 : queue'[i].n \in 1 .. (count.events + 1) /\ applied[queue'[i].n] = 0
    <3>1. applied[count.events + 1] = 0
      BY <1>4 DEF WaitingOK
    <3> QED BY <3>1, <1>4, <1>5, <1>9, <1>14
  <2>2. \A i, j \in 1 .. Len(q) + 1 : i < j => queue'[i].n < queue'[j].n
    <3>1. \A i, j \in 1 .. Len(q) : i < j => q[i].n < q[j].n
      BY <1>6 DEF WaitingOK
    <3> SUFFICES ASSUME NEW i \in 1 .. Len(q) + 1, NEW j \in 1 .. Len(q) + 1, i < j
                 PROVE  queue'[i].n < queue'[j].n
      OBVIOUS
    <3>2. i \in 1 .. Len(q) /\ queue'[i] = q[i]
      BY <1>9
    <3>3. CASE j = Len(q) + 1
      BY <3>2, <3>3, <1>4, <1>5, <1>9, <1>14
    <3>4. CASE j \in 1 .. Len(q)
      BY <3>1, <3>2, <3>4, <1>9
    <3> QED BY <3>3, <3>4, <1>9
  <2>3. \A n \in 1 .. MaxEvents : n > count.events + 1 => applied[n] = 0
    BY <1>4 DEF WaitingOK
  <2>4. \A n \in 1 .. MaxEvents : applied[n] <= 1
    BY DEF WaitingOK
  <2> QED BY <2>1, <2>2, <2>3, <2>4, <1>1, <1>4, <1>9, <1>10 DEF WaitingOK
<1>16. PublishOK'
  <2> SUFFICES ASSUME task = "publishing" PROVE PublishOK'
    BY <1>1 DEF PublishOK
  <2>1. event.n \in 1 .. count.events /\ event.type \in Types
    BY DEF PublishOK
  <2>2. \A i \in 1 .. Len(q) + 1 : event.n < queue'[i].n
    <3>1. \A i \in 1 .. Len(q) : event.n < q[i].n
      BY <1>6 DEF PublishOK
    <3> QED BY <3>1, <2>1, <1>4, <1>5, <1>9
  <2>3. event.n \in 1 .. (count.events + 1)
    BY <2>1, <1>4
  <2> QED BY <2>1, <2>2, <2>3, <1>1, <1>9, <1>10 DEF PublishOK, OneWire, OneRefresh, IsWire, IsRefresh
<1>17. RefreshOK'
  BY <1>1 DEF RefreshOK, Rendered, InOrder
<1> QED BY <1>1, <1>11, <1>12, <1>13, <1>15, <1>16, <1>17

(* Which envelope becomes which event.                                      *)
LEMMA FromEnvelopeKnown ==
    ASSUME NEW env \in Envelopes, FromEnvelope(env).type # "unknown"
    PROVE  FromEnvelope(env).type = env.type /\ FromEnvelope(env).n = env.n
BY DEF FromEnvelope

LEMMA PublishStepOK == RoutingInv /\ Publish => RoutingInv'
<1> SUFFICES ASSUME RoutingInv, Publish PROVE RoutingInv'
  OBVIOUS
<1> USE DEF RoutingInv
<1>1. UNCHANGED <<bucket, turn, wire, installed, gone, stream, stored, shown, count, misplaced, ignored, applied, late>>
  BY DEF Publish
<1>2. PICK q \in Seq(Envelopes) : q = queue
  BY DEF RoutingTypeOK
<1>3. q # <<>> /\ queue' = Tail(q) /\ task = "waiting" /\ stream # "off"
  BY <1>2 DEF Publish, StartedOK
<1>4. /\ Len(q) \in Nat \ {0} /\ Head(q) = q[1] /\ q[1] \in Envelopes
      /\ Tail(q) \in Seq(Envelopes) /\ Len(Tail(q)) = Len(q) - 1
      /\ \A i \in 1 .. Len(q) - 1 : Tail(q)[i] = q[i + 1]
  BY <1>3, SMT
<1>5. PICK e : e = FromEnvelope(q[1])
  OBVIOUS
<1>6. \/ UNCHANGED <<task, event, todo>>
      \/ e.type # "unknown" /\ task' = "publishing" /\ event' = e /\ todo' = bucket[e.type]
  BY <1>2, <1>4, <1>5 DEF Publish
<1>7. e.type # "unknown" => e.type = q[1].type /\ e.n = q[1].n /\ e.type \in Types /\ e.type \in BusTypes
  BY <1>4, <1>5, FromEnvelopeKnown DEF Envelopes, BusTypes
<1>8. todo' \in SUBSET Subs
  BY <1>6, <1>7 DEF RoutingTypeOK
<1>9. RoutingTypeOK'
  BY <1>1, <1>3, <1>4, <1>6, <1>8 DEF RoutingTypeOK
<1>10. StartedOK'
  BY <1>1, <1>3, <1>6 DEF StartedOK
<1>11. BusOK'
  <2>1. \A t_1 \in BusTypes : \A s \in bucket[t_1] : s.at <= turn
    BY DEF BusOK
  <2> QED BY <2>1, <1>1, <1>9, BusFrame
<1>12. \A i \in 1 .. Len(q) : q[i].n \in 1 .. count.events /\ applied[q[i].n] = 0
  BY <1>2 DEF WaitingOK
<1>13. \A i, j \in 1 .. Len(q) : i < j => q[i].n < q[j].n
  BY <1>2 DEF WaitingOK
<1>14. WaitingOK'
  <2>1. \A i \in 1 .. Len(q) - 1 : queue'[i].n \in 1 .. count.events /\ applied[queue'[i].n] = 0
    BY <1>3, <1>4, <1>12
  <2>2. \A i, j \in 1 .. Len(q) - 1 : i < j => queue'[i].n < queue'[j].n
    BY <1>3, <1>4, <1>13
  <2> QED BY <2>1, <2>2, <1>1, <1>3, <1>4 DEF WaitingOK
<1>15. CASE UNCHANGED <<task, event, todo>>
  <2>1. PublishOK'
    BY <1>3, <1>15 DEF PublishOK
  <2>2. RefreshOK'
    BY <1>1, <1>3, <1>15 DEF RefreshOK, Rendered, InOrder
  <2> QED BY <2>1, <2>2, <1>1, <1>9, <1>10, <1>11, <1>14
<1>16. CASE e.type # "unknown" /\ task' = "publishing" /\ event' = e /\ todo' = bucket[e.type]
  <2>1. wire > 0
    BY <1>3 DEF StartedOK, RoutingTypeOK
  <2>2. OneWire(bucket[e.type]) /\ OneRefresh(bucket[e.type])
    BY <1>7, <1>16 DEF BusOK
  <2>3. Applies(e.type) # {} => \E s \in bucket[e.type] : s.who = "wire"
    BY <1>7, <1>16, <2>1 DEF BusOK
  <2>4. Pings(e.type) # {} => \E s \in bucket[e.type] : s.who = "refresh"
    BY <1>7, <1>16, <2>1 DEF BusOK
  <2>5. OneWire(todo)' /\ OneRefresh(todo)'
    BY <1>1, <1>16, <2>2 DEF OneWire, OneRefresh, IsWire, IsRefresh
  <2>6. \A i \in 1 .. Len(q) - 1 : e.n < queue'[i].n
    BY <1>3, <1>4, <1>7, <1>13, <1>16
  <2>7. applied[e.n] = 0 /\ e.n \in 1 .. count.events
    BY <1>4, <1>7, <1>12, <1>16
  <2>8. PublishOK'
    BY <2>3, <2>5, <2>6, <2>7, <1>1, <1>3, <1>4, <1>7, <1>16 DEF PublishOK
  <2>9. ~misplaced => InOrder(todo)'
    BY <1>7, <1>16 DEF BusOK, InOrder
  <2>10. ~misplaced => \A d \in Entities : \A a \in Reads(d) : Rendered(d, a)
    BY <1>3 DEF RefreshOK
  <2>11. RefreshOK'
    BY <2>1, <2>4, <2>9, <2>10, <1>1, <1>16 DEF RefreshOK, Rendered
  <2> QED BY <2>8, <2>11, <1>1, <1>9, <1>10, <1>11, <1>14
<1> QED BY <1>6, <1>15, <1>16

(* The handler of the snapshot whose turn it is.                            *)
LEMMA CalledOK ==
    ASSUME RoutingInv, NEW s \in Subs, IsWire(s) \/ IsRefresh(s)
    PROVE  Called(s)
<1>1. IsWire(s) => <<"wire", wire>> \notin gone
  BY DEF RoutingInv, RoutingTypeOK, BusOK
<1>2. <<"refresh", 0>> \notin gone
  BY DEF RoutingInv, RoutingTypeOK
<1> QED BY <1>1, <1>2 DEF Called, IsWire, IsRefresh

LEMMA RunHandlerOK == RoutingInv /\ RunHandler => RoutingInv'
<1> SUFFICES ASSUME RoutingInv, RunHandler PROVE RoutingInv'
  OBVIOUS
<1>0. RoutingTypeOK /\ StartedOK /\ BusOK /\ WaitingOK /\ PublishOK /\ RefreshOK /\ ~late
  BY DEF RoutingInv
<1>1. task = "publishing" /\ UNCHANGED <<bucket, turn, wire, installed, task, event, gone, stream, queue, misplaced,
                                          ignored>>
  BY DEF RunHandler
<1>2. PICK s \in todo :
        /\ \A r \in todo : s.at <= r.at
        /\ \/ ~Called(s) /\ UNCHANGED <<stored, applied, shown, count, late>>
           \/ Called(s) /\ Stores(s) /\ Renders(s) /\ late' = (late \/ <<s.who, s.id>> \in gone) /\ UNCHANGED count
           \/ /\ Called(s) /\ s.who = "consumer"
              /\ count' = [count EXCEPT !.raises = @ + 1]
              /\ late' = (late \/ <<s.who, s.id>> \in gone)
              /\ UNCHANGED <<stored, applied, shown>>
        /\ todo' = todo \ {s}
  BY DEF RunHandler
<1>3. PICK n, T : n = event.n /\ T = event.type
  OBVIOUS
<1>4. T \in Types /\ n \in 1 .. count.events /\ n \in 1 .. MaxEvents /\ n \in Nat /\ applied[n] \in Nat
  BY <1>0, <1>1, <1>3, RoutingAssumption DEF PublishOK, WaitingOK, RoutingTypeOK
<1>5. s \in Subs /\ (s.who = "wire" => IsWire(s)) /\ (s.who = "refresh" => IsRefresh(s))
  BY <1>0, <1>1, <1>2 DEF RoutingTypeOK, PublishOK, OneWire, OneRefresh
<1>6. s.who \in {"wire", "refresh"} => Called(s)
  BY <1>5, CalledOK
<1>7. ~late'
  BY <1>0, <1>2 DEF Called
<1>8. count' \in [events : Nat, rejects : Nat, raises : Nat] /\ count'.events = count.events
  BY <1>0, <1>2 DEF RoutingTypeOK
<1>9. CASE s.who = "wire"
  <2>1. Stores(s) /\ Renders(s)
    BY <1>2, <1>6, <1>9
  <2>2. stored' = [a \in Aspects |-> IF a \in Applies(T) THEN n ELSE stored[a]]
    BY <2>1, <1>3, <1>9 DEF Stores
  <2>3. applied' = [applied EXCEPT ![n] = applied[n] + 1]
    BY <2>1, <1>3, <1>9 DEF Stores
  <2>4. shown' = shown
    BY <2>1, <1>9 DEF Renders
  <2>5. applied[n] = 0
    BY <1>0, <1>1, <1>2, <1>3, <1>9 DEF PublishOK
  <2>6. /\ applied' \in [1 .. MaxEvents -> Nat] /\ applied'[n] = 1
        /\ \A m \in 1 .. MaxEvents : m # n => applied'[m] = applied[m]
    BY <2>3, <2>5, <1>0, <1>4 DEF RoutingTypeOK
  <2>7. stored' \in [Aspects -> Nat]
    BY <2>2, <1>0, <1>4 DEF RoutingTypeOK
  <2>8. RoutingTypeOK'
    BY <2>6, <2>7, <1>0, <1>1, <1>2, <1>8 DEF RoutingTypeOK
  <2>9. \A r \in todo' : r.who # "wire"
    BY <1>0, <1>1, <1>2, <1>9 DEF PublishOK, OneWire
  <2>10. StartedOK'
    BY <1>0, <1>1 DEF StartedOK
  <2>11. BusOK'
    <3>1. \A t \in BusTypes : \A r \in bucket[t] : r.at <= turn
      BY <1>0 DEF BusOK
    <3> QED BY <3>1, <2>8, <1>0, <1>1, BusFrame
  <2>12. WaitingOK'
    <3>1. \A i \in 1 .. Len(queue) : queue[i].n \in 1 .. count.events /\ applied'[queue[i].n] = 0
      <4> SUFFICES ASSUME NEW i \in 1 .. Len(queue)
                   PROVE  queue[i].n \in 1 .. count.events /\ applied'[queue[i].n] = 0
        OBVIOUS
      <4>1. queue[i].n \in 1 .. count.events /\ applied[queue[i].n] = 0 /\ n < queue[i].n
        BY <1>0, <1>1, <1>3 DEF WaitingOK, PublishOK
      <4>2. queue[i].n \in 1 .. MaxEvents
        BY <4>1, <1>0, RoutingAssumption DEF WaitingOK, RoutingTypeOK
      <4> QED BY <4>1, <4>2, <2>6, <1>4
    <3>2. \A m \in 1 .. MaxEvents : m > count.events => applied'[m] = 0
      BY <2>6, <1>0, <1>4 DEF WaitingOK, RoutingTypeOK
    <3>3. \A m \in 1 .. MaxEvents : applied'[m] <= 1
      BY <2>6, <1>0 DEF WaitingOK
    <3> QED BY <3>1, <3>2, <3>3, <1>0, <1>1, <1>8 DEF WaitingOK
  <2>13. PublishOK'
    <3>1. OneWire(todo)' /\ OneRefresh(todo)'
      BY <1>0, <1>1, <1>2 DEF PublishOK, OneWire, OneRefresh, IsWire, IsRefresh
    <3>2. \A i \in 1 .. Len(queue) : n < queue[i].n
      BY <1>0, <1>1, <1>3 DEF PublishOK
    <3> QED BY <3>1, <3>2, <2>6, <2>9, <1>1, <1>3, <1>4, <1>8 DEF PublishOK
  <2>14. RefreshOK'
    <3>1. wire > 0
      BY <1>0, <1>1, <1>2 DEF StartedOK, RoutingTypeOK
    <3> SUFFICES ASSUME ~misplaced PROVE RefreshOK'
      BY <3>1, <1>1 DEF RefreshOK
    <3>2. InOrder(todo)'
      BY <1>0, <1>1, <1>2 DEF RefreshOK, InOrder
    <3>3. Pings(T) # {} => \E r \in todo' : r.who = "refresh"
      BY <1>0, <1>1, <1>2, <1>3, <1>9 DEF RefreshOK
    <3>4. ASSUME NEW e \in Entities, NEW a \in Reads(e)
          PROVE  Rendered(e, a)' \/ (a \in Applies(T) /\ \E r \in todo' : r.who = "refresh")
      <4>1. Rendered(e, a)
        BY <1>0, <1>1, <1>2, <1>9 DEF RefreshOK
      <4>2. a \in Aspects
        BY ReadsAspects
      <4>3. CASE a \in Applies(T)
        <5>1. e \in Pings(T) \/ <<e, a>> \in Unheard
          BY <4>3, <1>4, HeardOrUnheard
        <5> QED BY <5>1, <4>3, <3>3 DEF Rendered
      <4>4. CASE a \notin Applies(T)
        <5>1. stored'[a] = stored[a]
          BY <4>2, <4>4, <2>2
        <5> QED BY <5>1, <4>1, <2>4 DEF Rendered
      <4> QED BY <4>3, <4>4
    <3> QED BY <3>1, <3>2, <3>3, <3>4, <2>9, <1>1, <1>3 DEF RefreshOK
  <2> QED BY <2>8, <2>10, <2>11, <2>12, <2>13, <2>14, <1>7 DEF RoutingInv
<1>10. CASE s.who # "wire"
  <2>1. stored' = stored /\ applied' = applied
    BY <1>2, <1>10 DEF Stores
  <2>2. RoutingTypeOK'
    BY <2>1, <1>0, <1>1, <1>2, <1>7, <1>8 DEF RoutingTypeOK
  <2>3. StartedOK'
    BY <1>0, <1>1 DEF StartedOK
  <2>4. BusOK'
    <3>1. \A t \in BusTypes : \A r \in bucket[t] : r.at <= turn
      BY <1>0 DEF BusOK
    <3> QED BY <3>1, <2>2, <1>0, <1>1, BusFrame
  <2>5. WaitingOK'
    BY <2>1, <1>0, <1>1, <1>8 DEF WaitingOK
  <2>6. (\E r \in todo' : r.who = "wire") <=> \E r \in todo : r.who = "wire"
    BY <1>2, <1>10
  <2>7. PublishOK'
    <3>1. OneWire(todo)' /\ OneRefresh(todo)'
      BY <1>0, <1>1, <1>2 DEF PublishOK, OneWire, OneRefresh, IsWire, IsRefresh
    <3> QED BY <3>1, <2>1, <2>6, <1>0, <1>1, <1>8 DEF PublishOK
  <2>8. RefreshOK'
    <3>1. wire > 0
      BY <1>0, <1>1, <1>2 DEF StartedOK, RoutingTypeOK
    <3> SUFFICES ASSUME ~misplaced PROVE RefreshOK'
      BY <3>1, <1>1 DEF RefreshOK
    <3>2. InOrder(todo)'
      BY <1>0, <1>1, <1>2 DEF RefreshOK, InOrder
    <3>3. CASE s.who = "refresh"
      <4>1. shown' = [e \in Entities |-> IF e \in Pings(T) THEN [a \in Reads(e) |-> stored[a]] ELSE shown[e]]
        BY <3>3, <1>2, <1>3, <1>6 DEF Renders
      <4>2. \A r \in todo : r.who # "wire"
        <5> SUFFICES ASSUME NEW r \in todo, r.who = "wire" PROVE FALSE
          OBVIOUS
        <5>1. r.at < s.at /\ s.at <= r.at
          BY <3>3, <1>0, <1>1, <1>2 DEF RefreshOK, InOrder
        <5>2. r.at \in Nat /\ s.at \in Nat
          BY <1>0, <1>2 DEF RoutingTypeOK, Subs
        <5> QED BY <5>1, <5>2
      <4>3. ASSUME NEW e \in Entities, NEW a \in Reads(e) PROVE Rendered(e, a)'
        <5>1. CASE e \in Pings(T)
          BY <5>1, <4>1, <2>1 DEF Rendered
        <5>2. CASE e \notin Pings(T)
          <6>1. shown'[e] = shown[e]
            BY <5>2, <4>1
          <6>2. Rendered(e, a) \/ a \in Applies(T)
            BY <1>0, <1>1, <1>3 DEF RefreshOK
          <6>3. a \in Applies(T) => <<e, a>> \in Unheard
            BY <5>2, <1>4, HeardOrUnheard
          <6> QED BY <6>1, <6>2, <6>3, <2>1 DEF Rendered
        <5> QED BY <5>1, <5>2
      <4>4. \A r \in todo' : r.who # "wire"
        BY <4>2, <1>2
      <4> QED BY <4>3, <4>4, <3>1, <3>2, <1>1 DEF RefreshOK
    <3>4. CASE s.who # "refresh"
      <4>1. shown' = shown
        BY <3>4, <1>2 DEF Renders
      <4>2. (\E r \in todo' : r.who = "refresh") <=> \E r \in todo : r.who = "refresh"
        BY <3>4, <1>2
      <4>3. \A e \in Entities : \A a \in Reads(e) : Rendered(e, a)' <=> Rendered(e, a)
        BY <4>1, <2>1 DEF Rendered
      <4> QED BY <4>2, <4>3, <3>1, <3>2, <2>6, <1>0, <1>1 DEF RefreshOK
    <3> QED BY <3>3, <3>4
  <2> QED BY <2>2, <2>3, <2>4, <2>5, <2>7, <2>8, <1>7 DEF RoutingInv
<1> QED BY <1>9, <1>10

LEMMA AdapterStartsOK == RoutingInv /\ AdapterStarts => RoutingInv'
<1> SUFFICES ASSUME RoutingInv, AdapterStarts PROVE RoutingInv'
  OBVIOUS
<1>0. RoutingTypeOK /\ StartedOK /\ BusOK /\ WaitingOK /\ PublishOK /\ RefreshOK /\ ~late
  BY DEF RoutingInv
<1>1. /\ stream = "off" /\ stream' = "up" /\ wire' = 1 /\ task' = "waiting" /\ installed' = TRUE
      /\ turn' = turn + 2
      /\ bucket' = InstallRefreshBridge(BindStore(bucket, 1, turn + 1), turn + 2)
      /\ UNCHANGED <<event, todo, gone, queue, stored, shown, count, misplaced, ignored, applied, late>>
  BY DEF AdapterStarts
<1>2. wire = 0 /\ task = "off" /\ todo = {} /\ turn \in Nat /\ queue = <<>>
  BY <1>0, <1>1 DEF StartedOK, RoutingTypeOK
<1>3. PICK w, r : w = Sub("wire", None, 1, turn + 1) /\ r = Sub("refresh", None, 0, turn + 2)
  OBVIOUS
<1>4. /\ w \in Subs /\ w.who = "wire" /\ w.key = None /\ w.id = 1 /\ w.at = turn + 1
      /\ r \in Subs /\ r.who = "refresh" /\ r.key = None /\ r.id = 0 /\ r.at = turn + 2
  BY <1>2, <1>3 DEF Sub, Subs
<1>5. ASSUME NEW t \in BusTypes
      PROVE  bucket'[t] = bucket[t] \cup (IF Applies(t) # {} THEN {w} ELSE {}) \cup (IF Pings(t) # {} THEN {r} ELSE {})
  BY <1>1, <1>3 DEF InstallRefreshBridge, BindStore
<1>6. bucket' \in [BusTypes -> SUBSET Subs]
  <2>1. bucket' = [t \in BusTypes |-> bucket'[t]]
    BY <1>1 DEF InstallRefreshBridge
  <2>2. \A t \in BusTypes : bucket'[t] \subseteq Subs
    BY <1>0, <1>4, <1>5 DEF RoutingTypeOK
  <2> QED BY <2>1, <2>2
<1>7. RoutingTypeOK'
  BY <1>0, <1>1, <1>2, <1>6 DEF RoutingTypeOK
<1>8. StartedOK'
  BY <1>1, <1>2 DEF StartedOK
<1>9. BusOK'
  <2>1. \A id \in Nat : <<"wire", id>> \in gone' => id < wire'
    BY <1>0, <1>1, <1>2 DEF BusOK
  <2>2. ASSUME NEW t \in BusTypes
        PROVE  /\ \A s \in bucket'[t] : s.at <= turn'
               /\ OneWire(bucket[t])' /\ OneRefresh(bucket[t])' /\ InOrder(bucket[t])'
               /\ Applies(t) # {} => \E s \in bucket'[t] : s.who = "wire"
               /\ Pings(t) # {} => \E s \in bucket'[t] : s.who = "refresh"
    <3>1. \A s \in bucket[t] : s.who = "consumer" /\ s.at \in Nat /\ s.at <= turn
      BY <1>0, <1>2 DEF BusOK, RoutingTypeOK, Subs
    <3>2. \A s \in bucket'[t] : s \in bucket[t] \/ s = w \/ s = r
      BY <1>5
    <3>3. \A s \in bucket'[t] : s.at <= turn'
      BY <3>1, <3>2, <1>1, <1>2, <1>4
    <3>4. OneWire(bucket[t])'
      BY <3>1, <3>2, <1>1, <1>4 DEF OneWire, IsWire
    <3>5. OneRefresh(bucket[t])'
      BY <3>1, <3>2, <1>4 DEF OneRefresh, IsRefresh
    <3>6. InOrder(bucket[t])'
      BY <3>1, <3>2, <1>2, <1>4 DEF InOrder
    <3>7. Applies(t) # {} => \E s \in bucket'[t] : s.who = "wire"
      BY <1>4, <1>5
    <3>8. Pings(t) # {} => \E s \in bucket'[t] : s.who = "refresh"
      BY <1>4, <1>5
    <3> QED BY <3>3, <3>4, <3>5, <3>6, <3>7, <3>8
  <2> QED BY <2>1, <2>2, <1>1 DEF BusOK
<1>10. WaitingOK' /\ PublishOK'
  BY <1>0, <1>1 DEF WaitingOK, PublishOK
<1>11. RefreshOK'
  BY <1>0, <1>1, <1>2 DEF RefreshOK, Rendered
<1> QED BY <1>0, <1>1, <1>7, <1>8, <1>9, <1>10, <1>11 DEF RoutingInv

LEMMA StartEventsOK == RoutingInv /\ StartEvents => RoutingInv'
<1> SUFFICES ASSUME RoutingInv, StartEvents PROVE RoutingInv'
  OBVIOUS
<1>0. RoutingTypeOK /\ StartedOK /\ BusOK /\ WaitingOK /\ PublishOK /\ RefreshOK /\ ~late
  BY DEF RoutingInv
<1>1. UNCHANGED <<installed, event, todo, queue, stored, shown, count, applied, late>> /\ stream # "off"
  BY DEF StartEvents
<1>2. CASE TaskAlive
  <2>1. ignored' = TRUE /\ UNCHANGED <<bucket, turn, wire, task, stream, gone, misplaced>>
    BY <1>2 DEF StartEvents
  <2>2. RoutingTypeOK'
    BY <2>1, <1>0, <1>1 DEF RoutingTypeOK
  <2>3. StartedOK'
    BY <2>1, <1>0, <1>1 DEF StartedOK
  <2>4. BusOK'
    <3>1. \A t \in BusTypes : \A r \in bucket[t] : r.at <= turn
      BY <1>0 DEF BusOK
    <3> QED BY <3>1, <2>1, <2>2, <1>0, BusFrame
  <2> QED BY <2>1, <2>2, <2>3, <2>4, <1>0, <1>1, StillPublishing DEF RoutingInv
<1>3. CASE ~TaskAlive
  <2>1. /\ stream' = "up" /\ BindWireGroup(bucket) /\ misplaced' = installed /\ ignored' = FALSE
    BY <1>3 DEF StartEvents
  <2>2. /\ bucket' = BindStore(Unsubscribed(bucket, "wire", wire), wire + 1, turn + 1)
        /\ turn' = turn + 1 /\ wire' = wire + 1 /\ task' = "waiting"
        /\ gone' = IF wire > 0 THEN gone \cup {<<"wire", wire>>} ELSE gone
    BY <2>1 DEF BindWireGroup
  <2>3. wire \in Nat /\ wire > 0 /\ turn \in Nat /\ installed /\ task # "publishing" /\ task # "off" /\ todo = {}
    BY <1>0, <1>1, <1>3 DEF StartedOK, RoutingTypeOK, TaskAlive
  <2>4. misplaced'
    BY <2>1, <2>3
  <2>5. PICK w : w = Sub("wire", None, wire + 1, turn + 1)
    OBVIOUS
  <2>6. w \in Subs /\ w.who = "wire" /\ w.key = None /\ w.id = wire + 1 /\ w.at = turn + 1
    BY <2>3, <2>5 DEF Sub, Subs
  <2>7. ASSUME NEW t \in BusTypes
        PROVE  bucket'[t] = {s \in bucket[t] : s.who # "wire"} \cup (IF Applies(t) # {} THEN {w} ELSE {})
    <3>1. bucket'[t] = {s \in bucket[t] : ~(s.who = "wire" /\ s.id = wire)} \cup (IF Applies(t) # {} THEN {w} ELSE {})
      BY <2>2, <2>5 DEF BindStore, Unsubscribed
    <3>2. \A s \in bucket[t] : s.who = "wire" => s.id = wire
      BY <1>0 DEF BusOK, OneWire, IsWire
    <3> QED BY <3>1, <3>2
  <2>8. bucket' \in [BusTypes -> SUBSET Subs]
    <3>1. bucket' = [t \in BusTypes |-> bucket'[t]]
      BY <2>2 DEF BindStore
    <3>2. \A t \in BusTypes : bucket'[t] \subseteq Subs
      BY <2>6, <2>7, <1>0 DEF RoutingTypeOK
    <3> QED BY <3>1, <3>2
  <2>9. gone' \in SUBSET ({"wire", "consumer"} \X Nat)
    BY <2>2, <2>3, <1>0 DEF RoutingTypeOK
  <2>15. misplaced' \in BOOLEAN /\ ignored' \in BOOLEAN /\ stream' = "up"
    BY <2>1, <1>0 DEF RoutingTypeOK
  <2>16. wire' \in Nat /\ turn' \in Nat /\ task' = "waiting"
    BY <2>2, <2>3
  <2>10. RoutingTypeOK'
    BY <2>8, <2>9, <2>15, <2>16, <1>0, <1>1 DEF RoutingTypeOK
  <2>11. StartedOK'
    BY <2>1, <2>2, <2>3, <1>1 DEF StartedOK
  <2>12. BusOK'
    <3>1. \A id \in Nat : <<"wire", id>> \in gone' => id < wire'
      BY <2>2, <2>3, <1>0 DEF BusOK
    <3>2. ASSUME NEW t \in BusTypes
          PROVE  /\ \A s \in bucket'[t] : s.at <= turn'
                 /\ OneWire(bucket[t])' /\ OneRefresh(bucket[t])'
                 /\ Applies(t) # {} => \E s \in bucket'[t] : s.who = "wire"
                 /\ Pings(t) # {} => \E s \in bucket'[t] : s.who = "refresh"
      <4>1. \A s \in bucket[t] : s.at \in Nat /\ s.at <= turn
        BY <1>0 DEF BusOK, RoutingTypeOK, Subs
      <4>2. \A s \in bucket'[t] : (s \in bucket[t] /\ s.who # "wire") \/ s = w
        BY <2>7
      <4>3. \A s \in bucket'[t] : s.at <= turn'
        BY <4>1, <4>2, <2>2, <2>3, <2>6
      <4>4. OneWire(bucket[t])'
        BY <4>2, <2>2, <2>6 DEF OneWire, IsWire
      <4>5. OneRefresh(bucket[t])'
        BY <4>2, <2>6, <1>0 DEF OneRefresh, IsRefresh, BusOK
      <4>6. Applies(t) # {} => \E s \in bucket'[t] : s.who = "wire"
        BY <2>6, <2>7
      <4>7. Pings(t) # {} => \E s \in bucket'[t] : s.who = "refresh"
        BY <2>3, <2>7, <1>0 DEF BusOK
      <4> QED BY <4>3, <4>4, <4>5, <4>6, <4>7
    <3> QED BY <3>1, <3>2, <2>2, <2>3, <2>4 DEF BusOK
  <2>13. WaitingOK' /\ PublishOK'
    BY <2>2, <1>0, <1>1 DEF WaitingOK, PublishOK
  <2>14. RefreshOK'
    BY <2>2, <2>3, <2>4 DEF RefreshOK
  <2> QED BY <2>10, <2>11, <2>12, <2>13, <2>14, <1>0, <1>1 DEF RoutingInv
<1> QED BY <1>2, <1>3

LEMMA RoutingStep == RoutingInv /\ [RoutingNext]_routingVars => RoutingInv'
<1> SUFFICES ASSUME RoutingInv, [RoutingNext]_routingVars PROVE RoutingInv'
  OBVIOUS
<1>1. CASE UNCHANGED routingVars
  <2>1. RoutingTypeOK /\ StartedOK /\ BusOK /\ WaitingOK /\ PublishOK /\ RefreshOK /\ ~late
    BY DEF RoutingInv
  <2>2. RoutingTypeOK'
    BY <2>1, <1>1 DEF RoutingTypeOK, routingVars
  <2>3. StartedOK'
    BY <2>1, <1>1 DEF StartedOK, routingVars
  <2>4. BusOK'
    <3>1. \A t \in BusTypes : \A r \in bucket[t] : r.at <= turn
      BY <2>1 DEF BusOK
    <3> QED BY <3>1, <2>1, <2>2, <1>1, BusFrame DEF routingVars
  <2>5. WaitingOK' /\ PublishOK' /\ RefreshOK'
    BY <2>1, <1>1, StillPublishing DEF routingVars
  <2> QED BY <2>1, <2>2, <2>3, <2>4, <2>5, <1>1 DEF RoutingInv, routingVars
<1> QED BY <1>1, AdapterStartsOK, StartEventsOK, ConsumerSubscribesOK, ConsumerUnsubscribesOK, EnvelopeArrivesOK,
           PublishStepOK, RunHandlerOK, PublishedOK, CredentialOK DEF RoutingNext

(* The bus, the queue and the two bridges in every reachable state.         *)
THEOREM RoutingSafe == RoutingSpec => []RoutingInv
BY RoutingInitOK, RoutingStep, PTL DEF RoutingSpec

(* However often start_events() is called and whoever subscribes or         *)
(* unsubscribes between two handlers, the store takes every published event *)
(* exactly once, and nobody is called after the unsubscribe.                *)
THEOREM RoutingAppliesOnce == RoutingSpec => []AppliedOnce
<1>1. RoutingInv => AppliedOnce
  BY DEF RoutingInv, AppliedOnce, WaitingOK, PublishOK
<1> QED BY <1>1, RoutingSafe, PTL

(* Between two events Home Assistant shows what the store holds, as long as *)
(* the store bridge is in front of the refresh bridge.                      *)
THEOREM RoutingEntitiesRead == RoutingSpec => []EntitiesReadApplied
<1>1. RoutingInv => EntitiesReadApplied
  BY DEF RoutingInv, EntitiesReadApplied, RefreshOK, Rendered
<1> QED BY <1>1, RoutingSafe, PTL
=============================================================================
