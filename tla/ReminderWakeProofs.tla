------------------------- MODULE ReminderWakeProofs -------------------------
(***************************************************************************)
(* Proofs about ReminderWake, for every set of schedules with any slots    *)
(* and windows, every number of Runtimes, edits, failures and restarts.    *)
(***************************************************************************)
EXTENDS ReminderWake, WellFoundedInduction, TLAPS

Plan == [owner : Provider, enabled : BOOLEAN, next : Time \cup {Never}, saved : BOOLEAN]
Plans == [Schedule -> Plan]
Status == {"pending", "dispatching", "unknown", "accepted"}
WakeType == [id : 0..MaxWakes, owner : Provider, what : SUBSET Occurrence, status : Status]
Answer == {"none", "unknown", "accepted", "rejected", "deferred"}
Tick == [phase : {"idle", "submit", "native", "answered"}, wake : 0..MaxWakes, what : SUBSET Occurrence, answer : Answer]

LEMMA Unfolded == State = [schedules : Plans, wake : WakeType]
BY DEF State, Plans, Plan, WakeType, Status

(***************************************************************************)
(* The calendar.                                                           *)
(***************************************************************************)
LEMMA TimeFacts == Time \subseteq Nat /\ Never \in Nat /\ Never \notin Time /\ \A t \in Time : t < Never
BY ConstantsOK DEF Time, Never

(* The next slot is one of the schedule's, and it is in the future.        *)
LEMMA NextTimeFacts ==
  ASSUME NEW s \in Schedule, NEW t \in Time
  PROVE  /\ NextTime(s, t) \in Time \cup {Never} /\ NextTime(s, t) > t
         /\ NextTime(s, t) # Never => <<s, NextTime(s, t)>> \in Occurrence
<1> DEFINE later == {u \in Slot[s] : u > t}
<1>1. Slot[s] \subseteq Time /\ later \subseteq Nat /\ later \subseteq Time
  BY ConstantsOK, TimeFacts
<1>2. CASE later = {}
  <2>1. NextTime(s, t) = Never
    BY <1>2 DEF NextTime
  <2> QED
    BY <2>1, TimeFacts
<1>3. CASE later # {}
  <2>1. PICK x \in later : \A y \in later : ~(<<y, x>> \in OpToRel(<, Nat))
    BY <1>1, <1>3, NatLessThanWellFounded, WFMin
  <2>2. \A y \in later : x <= y
    <3> TAKE y \in later
    <3>1. x \in Nat /\ y \in Nat
      BY <1>1
    <3>2. ~(y < x)
      BY <2>1, <3>1 DEF OpToRel
    <3> QED
      BY <3>1, <3>2
  <2>3. NextTime(s, t) \in later
    BY <1>3, <2>2 DEF NextTime
  <2> QED
    BY <1>1, <2>3 DEF Occurrence
<1> QED
  BY <1>2, <1>3

LEMMA OccurrenceFacts == \A o \in Occurrence : o[1] \in Schedule /\ o[2] \in Time /\ o = <<o[1], o[2]>>
BY DEF Occurrence

LEMMA AdvancedEffect ==
  ASSUME NEW s \in Schedule, NEW p \in Plan, NEW t \in Time
  PROVE  LET q == Advanced(s, p, t) IN
         q \in Plan /\ q.saved = p.saved /\ q.owner = p.owner /\ q.next = NextTime(s, t)
<1> DEFINE n == NextTime(s, t)
           b == p.enabled /\ n # Never
           q == [owner |-> p.owner, enabled |-> b, next |-> n, saved |-> p.saved]
<1>1. n \in Time \cup {Never} /\ b \in BOOLEAN
  BY NextTimeFacts
<1>2. Advanced(s, p, t) = [p EXCEPT !.next = n, !.enabled = b]
  BY Zenon DEF Advanced
<1> HIDE DEF n, b
<1>3. Advanced(s, p, t) = q /\ q \in Plan
  BY <1>1, <1>2 DEF Plan
<1> QED
  BY <1>3 DEF n

LEMMA MovedOnEffect ==
  ASSUME NEW sch \in Plans, NEW moved \in SUBSET Schedule, now \in Time
  PROVE  /\ MovedOn(sch, moved) \in Plans
         /\ \A s \in Schedule :
              IF s \in moved
              THEN MovedOn(sch, moved)[s].saved = sch[s].saved /\ MovedOn(sch, moved)[s].next = NextTime(s, now)
              ELSE MovedOn(sch, moved)[s] = sch[s]
<1>1. \A s \in Schedule : sch[s] \in Plan
  BY DEF Plans
<1>2. \A s \in Schedule : LET q == Advanced(s, sch[s], now) IN
        q \in Plan /\ q.saved = sch[s].saved /\ q.next = NextTime(s, now)
  BY <1>1, AdvancedEffect
<1> QED
  BY <1>1, <1>2 DEF MovedOn, Plans

(***************************************************************************)
(* Copies.                                                                 *)
(***************************************************************************)
Marked(m, st) == [schedules |-> m.schedules,
                  wake |-> [id |-> m.wake.id, owner |-> m.wake.owner, what |-> m.wake.what, status |-> st]]

LEMMA StatusWritten ==
  ASSUME NEW m \in State, NEW st \in Status
  PROVE  [m EXCEPT !.wake.status = st] = Marked(m, st) /\ Marked(m, st) \in State
BY Unfolded DEF Marked, WakeType

LEMMA WakeWritten ==
  ASSUME NEW m \in State, NEW w \in WakeType
  PROVE  [m EXCEPT !.wake = w] = [schedules |-> m.schedules, wake |-> w]
         /\ [schedules |-> m.schedules, wake |-> w] \in State
BY Unfolded

LEMMA NothingYet == NoWake \in WakeType /\ Unset \in Plan
BY ConstantsOK DEF NoWake, Unset, WakeType, Plan, Status, Never

LEMMA WithoutType ==
  ASSUME NEW w \in WakeType, NEW s
  PROVE  Without(w, s) \in WakeType
BY NothingYet DEF Without, WakeType, Status

LEMMA PrunedType ==
  ASSUME NEW w \in WakeType
  PROVE  Pruned(w) \in WakeType
BY NothingYet DEF Pruned, StillDue, WakeType, Status

(***************************************************************************)
(* Types.                                                                  *)
(***************************************************************************)
Receipts == {"none", "unknown", "accepted", "rejected"}
LogType == receipt \in [WakeID -> Receipts] /\ given \in [WakeID -> 0..1]
Ghosts == place \in [WakeID -> SUBSET Provider] /\ sent \in [Occurrence -> Nat] /\ dropped \subseteq Occurrence
Bounds == edits \in 0..MaxEdits /\ delays \in 0..MaxDelays /\ faults \in 0..MaxFaults /\ restarts \in 0..MaxRestarts
Copies == mem \in State /\ disk \in State

LEMMA TypeParts ==
  TypeOK <=> /\ Copies /\ now \in Time /\ provider \in Provider /\ tick \in Tick /\ wakes \in 0..MaxWakes
             /\ LogType /\ Ghosts /\ Bounds
BY DEF TypeOK, Copies, Tick, Answer, LogType, Receipts, Log!Receipt, Log!Terminal, Ghosts, Bounds

LEMMA Retyped ==
  /\ Copies' /\ now' \in Time /\ provider' \in Provider /\ tick' \in Tick /\ wakes' \in 0..MaxWakes
  /\ LogType' /\ Ghosts' /\ Bounds'
  => TypeOK'
BY DEF TypeOK, Copies, Tick, Answer, LogType, Receipts, Log!Receipt, Log!Terminal, Ghosts, Bounds

LEMMA TypeInit == Init => TypeOK
<1> SUFFICES ASSUME Init PROVE TypeOK
  OBVIOUS
<1>1. [s \in Schedule |-> Unset] \in Plans
  BY NothingYet DEF Plans
<1>2. Copies
  BY <1>1, NothingYet, Unfolded DEF Init, Copies
<1>3. tick \in Tick /\ now \in Time
  BY ConstantsOK DEF Init, Idle, Tick, Answer, Time
<1>4. LogType
  BY ConstantsOK DEF Init, LogType, Receipts, Log!Init
<1>5. Ghosts /\ Bounds /\ wakes \in 0..MaxWakes
  BY ConstantsOK DEF Init, Ghosts, Bounds
<1> QED
  BY <1>2, <1>3, <1>4, <1>5, TypeParts DEF Init

(* A hold of mu that computes q leaves copies of their type.               *)
LEMMA Written ==
  ASSUME Copies, faults \in 0..MaxFaults, NEW q \in State, SavedOrRestored(q)
  PROVE  Copies' /\ faults' \in 0..MaxFaults /\ mem' \in {mem, q} /\ disk' \in {disk, q}
         /\ (mem' = q => disk' = q \/ mem' = mem)
BY ConstantsOK DEF Copies, SavedOrRestored, Saved, Lost

LEMMA TicksUnfold ==
  ASSUME TypeOK, NEW st \in Status
  PROVE  [mem EXCEPT !.wake.status = st] = Marked(mem, st) /\ Marked(mem, st) \in State
BY TypeParts, StatusWritten DEF Copies

LEMMA TypeReconcile == TypeOK /\ Reconcile => TypeOK'
<1> SUFFICES ASSUME TypeOK, Reconcile PROVE TypeOK'
  OBVIOUS
<1>1. SavedOrRestored(Marked(mem, "accepted")) /\ Marked(mem, "accepted") \in State
  BY TicksUnfold DEF Reconcile, Status
<1>2. Copies' /\ faults' \in 0..MaxFaults
  BY <1>1, TypeParts, Written DEF Bounds
<1> QED
  BY <1>2, TypeParts, Retyped DEF Reconcile, log, history, bounds, LogType, Ghosts, Bounds

LEMMA DueFacts ==
  ASSUME TypeOK, NEW s \in Schedule, Due(s)
  PROVE  Occurs(s) = <<s, mem.schedules[s].next>> /\ mem.schedules[s].next \in Time
         /\ mem.schedules[s].next <= now /\ mem.schedules[s].saved
<1>1. mem.schedules[s] \in Plan /\ now \in Time
  BY TypeParts, Unfolded DEF Copies, Plans
<1>2. mem.schedules[s].saved
  BY DEF Due
<1>3. mem.schedules[s].next <= now
  BY DEF Due
<1>4. mem.schedules[s].next \in Time
  BY <1>1, <1>3, TimeFacts DEF Plan
<1> QED
  BY <1>2, <1>3, <1>4 DEF Occurs

(* What a collection computes.                                             *)
LEMMA CollectedType ==
  ASSUME TypeOK, Consistent(mem), wakes < MaxWakes,
         NEW b \in SUBSET Schedule, Batch(b), NEW skipped, skipped \in Skippable(b)
  PROVE  Collected(mem, b, skipped) \in State /\ {Occurs(s) : s \in b \cup skipped} \subseteq Occurrence
         /\ skipped \subseteq Closed /\ \A s \in b \cup skipped : s \in Schedule /\ Due(s)
<1>1. skipped \subseteq Closed /\ \A s \in b \cup skipped : s \in Schedule /\ Due(s)
  BY DEF Skippable, Closed, Batch
<1>2. \A s \in b \cup skipped : Occurs(s) \in Occurrence
  BY <1>1, DueFacts, TimeFacts DEF Consistent, Ahead
<1>3. MovedOn(mem.schedules, b \cup skipped) \in Plans
  BY <1>1, TypeParts, Unfolded, MovedOnEffect DEF Copies
<1>4. [id |-> wakes + 1, owner |-> provider, what |-> {Occurs(s) : s \in b}, status |-> "pending"] \in WakeType
  BY <1>2, TypeParts, ConstantsOK DEF WakeType, Status
<1> QED
  BY <1>1, <1>2, <1>3, <1>4, Unfolded DEF Collected

LEMMA TypeCollect == TypeOK /\ Consistent(mem) /\ Collect => TypeOK'
<1> SUFFICES ASSUME TypeOK, Consistent(mem), Collect PROVE TypeOK'
  OBVIOUS
<1>1. PICK b \in SUBSET Schedule : Batch(b) /\ \E skipped \in Skippable(b) :
        SavedOrRestored(Collected(mem, b, skipped)) /\ dropped' = dropped \cup {Occurs(s) : s \in skipped}
  BY DEF Collect
<1>2. PICK skipped \in Skippable(b) :
        SavedOrRestored(Collected(mem, b, skipped)) /\ dropped' = dropped \cup {Occurs(s) : s \in skipped}
  BY <1>1
<1>3. wakes < MaxWakes /\ wakes' = wakes + 1
  BY DEF Collect
<1>4. Collected(mem, b, skipped) \in State /\ dropped' \subseteq Occurrence
  BY <1>1, <1>2, <1>3, CollectedType, TypeParts DEF Ghosts
<1>5. Copies' /\ faults' \in 0..MaxFaults
  BY <1>2, <1>4, TypeParts, Written DEF Bounds
<1>6. wakes' \in 0..MaxWakes
  BY <1>3, TypeParts, ConstantsOK
<1> QED
  BY <1>4, <1>5, <1>6, TypeParts, Retyped DEF Collect, log, bounds, LogType, Ghosts, Bounds

LEMMA ClosedFacts ==
  ASSUME TypeOK, Consistent(mem)
  PROVE  Closed \subseteq Schedule /\ {Occurs(s) : s \in Closed} \subseteq Occurrence
         /\ [mem EXCEPT !.schedules = MovedOn(@, Closed)] = [schedules |-> MovedOn(mem.schedules, Closed), wake |-> mem.wake]
         /\ [schedules |-> MovedOn(mem.schedules, Closed), wake |-> mem.wake] \in State
<1>1. Closed \subseteq Schedule
  BY DEF Closed
<1>2. \A s \in Closed : Occurs(s) \in Occurrence
  BY <1>1, DueFacts, TimeFacts DEF Closed, Consistent, Ahead
<1>3. mem \in [schedules : Plans, wake : WakeType] /\ now \in Time
  BY TypeParts, Unfolded DEF Copies
<1>4. MovedOn(mem.schedules, Closed) \in Plans
  BY <1>1, <1>3, MovedOnEffect
<1> QED
  BY <1>1, <1>2, <1>3, <1>4, Unfolded

LEMMA TypeSkipClosed == TypeOK /\ Consistent(mem) /\ SkipClosed => TypeOK'
<1> SUFFICES ASSUME TypeOK, Consistent(mem), SkipClosed PROVE TypeOK'
  OBVIOUS
<1>1. SavedOrRestored([schedules |-> MovedOn(mem.schedules, Closed), wake |-> mem.wake]) /\ dropped' \subseteq Occurrence
  BY ClosedFacts, TypeParts DEF SkipClosed, Ghosts
<1>2. Copies' /\ faults' \in 0..MaxFaults
  BY <1>1, ClosedFacts, TypeParts, Written DEF Bounds
<1> QED
  BY <1>1, <1>2, TypeParts, Retyped DEF SkipClosed, log, bounds, LogType, Ghosts, Bounds

LEMMA TypePrune == TypeOK /\ Prune => TypeOK'
<1> SUFFICES ASSUME TypeOK, Prune PROVE TypeOK'
  OBVIOUS
<1> DEFINE q == [schedules |-> mem.schedules, wake |-> Pruned(mem.wake)]
<1>1. mem \in State /\ mem.wake \in WakeType
  BY TypeParts, Unfolded DEF Copies
<1>2. Pruned(mem.wake) \in WakeType
  BY <1>1, PrunedType
<1>3. [mem EXCEPT !.wake = Pruned(@)] = q /\ q \in State
  BY <1>1, <1>2, WakeWritten
<1>4. Copies' /\ faults' \in 0..MaxFaults
  BY <1>3, TypeParts, Written DEF Prune, Bounds
<1>5. dropped' \subseteq Occurrence
  BY <1>1, TypeParts DEF Prune, Ghosts, WakeType
<1> QED
  BY <1>4, <1>5, TypeParts, Retyped DEF Prune, log, bounds, LogType, Ghosts, Bounds

LEMMA TypeDispatch == TypeOK /\ Dispatch => TypeOK'
<1> SUFFICES ASSUME TypeOK, Dispatch PROVE TypeOK'
  OBVIOUS
<1>1. SavedOrRestored(Marked(mem, "dispatching")) /\ Marked(mem, "dispatching") \in State
  BY TicksUnfold DEF Dispatch, Status
<1>2. Copies' /\ faults' \in 0..MaxFaults
  BY <1>1, TypeParts, Written DEF Bounds
<1>3. mem.wake \in WakeType
  BY TypeParts, Unfolded DEF Copies
<1>4. [Idle EXCEPT !.phase = "submit", !.wake = mem.wake.id, !.what = mem.wake.what] \in Tick
  BY <1>3 DEF Idle, Tick, Answer, WakeType
<1>5. tick' \in Tick
  BY <1>4, TypeParts DEF Dispatch
<1> QED
  BY <1>2, <1>5, TypeParts, Retyped DEF Dispatch, log, history, bounds, LogType, Ghosts, Bounds

LEMMA DelayType == TypeOK /\ Delays => delays' \in 0..MaxDelays
BY TypeParts, ConstantsOK DEF Bounds, Delays

LEMMA AnsweredType ==
  ASSUME TypeOK, NEW a \in Answer, Answered(a)
  PROVE  tick' = [phase |-> "answered", wake |-> tick.wake, what |-> tick.what, answer |-> a] /\ tick' \in Tick
BY TypeParts DEF Answered, Tick

LEMMA TickFacts == TypeOK /\ Submitted /\ tick.phase # "idle" => tick.wake \in WakeID /\ receipt[tick.wake] \in Receipts
BY TypeParts, ConstantsOK DEF Submitted, WakeID, Tick, LogType

LEMMA TypeSubmit ==
  TypeOK /\ Submitted /\ (SubmitFound \/ SubmitDeferred \/ SubmitFenced \/ NativeDeferred \/ SubmitReturns) => TypeOK'
<1> SUFFICES ASSUME TypeOK, Submitted, SubmitFound \/ SubmitDeferred \/ SubmitFenced \/ NativeDeferred \/ SubmitReturns
             PROVE  TypeOK'
  OBVIOUS
<1>1. tick.phase # "idle" /\ tick.wake \in WakeID /\ receipt[tick.wake] \in Answer /\ "deferred" \in Answer
  BY TickFacts DEF SubmitFound, SubmitDeferred, SubmitFenced, NativeDeferred, SubmitReturns, Answer, Receipts
<1>2. tick' \in Tick
  <2>1. CASE SubmitFenced
    BY <2>1, TypeParts DEF SubmitFenced, Tick
  <2>2. CASE ~SubmitFenced
    <3>1. PICK a \in Answer : Answered(a)
      BY <1>1, <2>2 DEF SubmitFound, SubmitDeferred, NativeDeferred, SubmitReturns
    <3> QED
      BY <3>1, AnsweredType
  <2> QED
    BY <2>1, <2>2
<1>3. LogType'
  BY <1>1, TypeParts DEF SubmitFound, SubmitDeferred, SubmitFenced, NativeDeferred, SubmitReturns, LogType, Receipts,
     log, Log!Fence, Log!Release
<1>4. delays' \in 0..MaxDelays
  BY TypeParts, DelayType DEF SubmitFound, SubmitDeferred, SubmitFenced, NativeDeferred, SubmitReturns, Bounds
<1>5. Ghosts' /\ Submitting
  BY TypeParts DEF SubmitFound, SubmitDeferred, SubmitFenced, NativeDeferred, SubmitReturns, Ghosts, Submitting
<1> QED
  BY <1>2, <1>3, <1>4, <1>5, TypeParts, Retyped DEF Submitting, Copies, Bounds

LEMMA TypeGiven == TypeOK /\ Submitted /\ Given => TypeOK'
<1> SUFFICES ASSUME TypeOK, Submitted, Given PROVE TypeOK'
  OBVIOUS
<1>1. tick.wake \in WakeID
  BY TickFacts DEF Given
<1>2. LogType'
  BY <1>1, TypeParts DEF Given, LogType, Log!Give
<1>3. sent' \in [Occurrence -> Nat]
  BY TypeParts DEF Given, Ghosts
<1>4. place' \in [WakeID -> SUBSET Provider]
  BY <1>1, TypeParts DEF Given, Ghosts
<1> QED
  BY <1>2, <1>3, <1>4, TypeParts, Retyped DEF Given, Submitting, Copies, Bounds, Ghosts

LEMMA TypeNativeSettles ==
  ASSUME TypeOK, NEW w \in WakeID, NativeSettles(w)
  PROVE  TypeOK'
<1>1. LogType'
  BY TypeParts DEF NativeSettles, LogType, Receipts, Log!Settle
<1> QED
  BY <1>1, TypeParts, Retyped DEF NativeSettles, Submitting, Copies, Bounds, Ghosts

LEMMA SettleEffect ==
  ASSUME TypeOK, Settle
  PROVE  /\ \E st \in {After(tick.answer)} \cup (IF tick.answer = "rejected" THEN {"unknown"} ELSE {}) : mem' = Marked(mem, st)
         /\ mem' \in State /\ disk' \in {disk, mem'} /\ faults' \in 0..MaxFaults
<1>1. PICK st \in {After(tick.answer)} \cup (IF tick.answer = "rejected" THEN {"unknown"} ELSE {}) :
        mem' = [mem EXCEPT !.wake.status = st]
  BY DEF Settle
<1>2. st \in Status
  BY <1>1 DEF After, Status
<1>3. mem' = Marked(mem, st) /\ mem' \in State
  BY <1>1, <1>2, TicksUnfold
<1> QED
  BY <1>1, <1>3, TypeParts, ConstantsOK DEF Settle, Saved, Lost, Bounds

LEMMA TypeSettle == TypeOK /\ Settle => TypeOK'
<1> SUFFICES ASSUME TypeOK, Settle PROVE TypeOK'
  OBVIOUS
<1>1. Copies' /\ faults' \in 0..MaxFaults
  BY SettleEffect, TypeParts DEF Copies
<1>2. tick' \in Tick
  BY ConstantsOK DEF Settle, Idle, Tick, Answer
<1> QED
  BY <1>1, <1>2, TypeParts, Retyped DEF Settle, log, history, bounds, LogType, Ghosts, Bounds

(* What the Bot's tools write.                                             *)
Replanned(m, s, p) == [schedules |-> [x \in Schedule |-> IF x = s THEN p ELSE m.schedules[x]], wake |-> m.wake]
NewPlan(s) == [owner |-> provider, enabled |-> TRUE, next |-> NextTime(s, now), saved |-> TRUE]

LEMMA UpsertEffect ==
  ASSUME TypeOK, NEW s \in Schedule
  PROVE  /\ [mem EXCEPT !.schedules[s] = NewPlan(s)] = Replanned(mem, s, NewPlan(s))
         /\ Replanned(mem, s, NewPlan(s)) \in State
<1>1. mem \in [schedules : Plans, wake : WakeType] /\ now \in Time /\ provider \in Provider
  BY TypeParts, Unfolded DEF Copies
<1>2. NewPlan(s) \in Plan
  BY <1>1, NextTimeFacts DEF NewPlan, Plan
<1>3. [mem.schedules EXCEPT ![s] = NewPlan(s)] = [x \in Schedule |-> IF x = s THEN NewPlan(s) ELSE mem.schedules[x]]
  BY <1>1 DEF Plans
<1>4. [x \in Schedule |-> IF x = s THEN NewPlan(s) ELSE mem.schedules[x]] \in Plans
  BY <1>1, <1>2 DEF Plans
<1>5. [mem EXCEPT !.schedules[s] = NewPlan(s)] = [schedules |-> [mem.schedules EXCEPT ![s] = NewPlan(s)], wake |-> mem.wake]
  BY <1>1
<1> QED
  BY <1>1, <1>3, <1>4, <1>5, Unfolded DEF Replanned

LEMMA TypeUpsert ==
  ASSUME TypeOK, NEW s \in Schedule, Upsert(s)
  PROVE  TypeOK'
<1>1. SavedOrRestored(Replanned(mem, s, NewPlan(s)))
  BY UpsertEffect DEF Upsert, NewPlan
<1>2. Copies' /\ faults' \in 0..MaxFaults
  BY <1>1, UpsertEffect, TypeParts, Written DEF Bounds
<1>3. edits' \in 0..MaxEdits /\ dropped' \subseteq Occurrence
  BY TypeParts, ConstantsOK DEF Upsert, Edits, Bounds, Ghosts
<1> QED
  BY <1>2, <1>3, TypeParts, Retyped DEF Upsert, Schedules, log, LogType, Ghosts, Bounds

Removed(m, s) == [schedules |-> [x \in Schedule |-> IF x = s THEN Unset ELSE m.schedules[x]], wake |-> Without(m.wake, s)]

LEMMA RemoveEffect ==
  ASSUME TypeOK, NEW s \in Schedule
  PROVE  /\ [mem EXCEPT !.schedules[s] = Unset, !.wake = Without(@, s)] = Removed(mem, s)
         /\ Removed(mem, s) \in State
<1>1. mem \in [schedules : Plans, wake : WakeType]
  BY TypeParts, Unfolded DEF Copies
<1>2. Without(mem.wake, s) \in WakeType
  BY <1>1, WithoutType
<1>3. [mem.schedules EXCEPT ![s] = Unset] = [x \in Schedule |-> IF x = s THEN Unset ELSE mem.schedules[x]]
  BY <1>1 DEF Plans
<1>4. [x \in Schedule |-> IF x = s THEN Unset ELSE mem.schedules[x]] \in Plans
  BY <1>1, NothingYet DEF Plans
<1>5. [mem EXCEPT !.schedules[s] = Unset, !.wake = Without(@, s)]
      = [schedules |-> [mem.schedules EXCEPT ![s] = Unset], wake |-> Without(mem.wake, s)]
  <2> DEFINE w == Without(mem.wake, s)
             f == [mem.schedules EXCEPT ![s] = Unset]
             q == [mem EXCEPT !.schedules = f]
  <2>1. q = [schedules |-> f, wake |-> mem.wake]
    BY <1>1
  <2>2. [q EXCEPT !.wake = w] = [schedules |-> f, wake |-> w]
    <3> HIDE DEF f, w, q
    <3> QED
      BY <2>1
  <2>3. [mem EXCEPT !.schedules[s] = Unset, !.wake = Without(@, s)] = [q EXCEPT !.wake = w]
    BY Zenon
  <2> QED
    BY <2>2, <2>3
<1> QED
  BY <1>1, <1>2, <1>3, <1>4, <1>5, Unfolded DEF Removed

LEMMA TypeRemove ==
  ASSUME TypeOK, NEW s \in Schedule, Remove(s)
  PROVE  TypeOK'
<1>1. SavedOrRestored(Removed(mem, s))
  BY RemoveEffect DEF Remove
<1>2. Copies' /\ faults' \in 0..MaxFaults
  BY <1>1, RemoveEffect, TypeParts, Written DEF Bounds
<1>3. edits' \in 0..MaxEdits /\ dropped' \subseteq Occurrence
  BY TypeParts, ConstantsOK DEF Remove, Edits, Bounds, Ghosts
<1> QED
  BY <1>2, <1>3, TypeParts, Retyped DEF Remove, Schedules, log, LogType, Ghosts, Bounds

(* What a restart makes of the file.                                       *)
LEMMA ReopenedEffect ==
  ASSUME NEW m \in State, NEW p, now \in Time
  PROVE  LET q == Reopened(m, p) IN
         /\ q \in State
         /\ \A s \in Schedule : q.schedules[s].saved = m.schedules[s].saved
                                /\ (q.schedules[s].next = m.schedules[s].next
                                    \/ (q.schedules[s].next = NextTime(s, now) /\ m.schedules[s].next <= now))
         /\ q.wake \in {m.wake, Marked(m, "unknown").wake}
<1> DEFINE sch == [s \in Schedule |-> IF m.schedules[s].saved /\ m.schedules[s].owner = p /\ m.schedules[s].next <= now
                                      THEN Advanced(s, m.schedules[s], now) ELSE m.schedules[s]]
           w == IF m.wake.status = "dispatching" THEN Marked(m, "unknown").wake ELSE m.wake
<1>1. m.schedules \in Plans /\ m.wake \in WakeType
  BY Unfolded
<1>2. \A s \in Schedule : m.schedules[s] \in Plan
  BY <1>1 DEF Plans
<1>3. \A s \in Schedule : LET q == Advanced(s, m.schedules[s], now) IN
        q \in Plan /\ q.saved = m.schedules[s].saved /\ q.next = NextTime(s, now)
  BY <1>2, AdvancedEffect
<1>4. sch \in Plans
  BY <1>2, <1>3 DEF Plans
<1>5. ASSUME NEW s \in Schedule
      PROVE  /\ sch[s].saved = m.schedules[s].saved
             /\ sch[s].next = m.schedules[s].next \/ (sch[s].next = NextTime(s, now) /\ m.schedules[s].next <= now)
  <2> DEFINE again == m.schedules[s].saved /\ m.schedules[s].owner = p /\ m.schedules[s].next <= now
  <2>1. CASE again
    <3>1. sch[s] = Advanced(s, m.schedules[s], now)
      BY <2>1
    <3> HIDE DEF sch
    <3> QED
      BY <1>3, <2>1, <3>1
  <2>2. CASE ~again
    <3>1. sch[s] = m.schedules[s]
      BY <2>2
    <3> HIDE DEF sch
    <3> QED
      BY <3>1
  <2> QED
    BY <2>1, <2>2
<1>6. w \in WakeType
  BY <1>1 DEF Marked, WakeType, Status
<1>7. (IF m.wake.status = "dispatching" THEN [m.wake EXCEPT !.status = "unknown"] ELSE m.wake) = w
  BY <1>1 DEF Marked, WakeType
<1> HIDE DEF w
<1>8. Reopened(m, p) = [schedules |-> sch, wake |-> w]
  BY <1>7 DEF Reopened
<1> HIDE DEF sch
<1>9. w = m.wake \/ w = Marked(m, "unknown").wake
  BY DEF w
<1> DEFINE q == [schedules |-> sch, wake |-> w]
<1>10. q \in State /\ q.schedules = sch /\ q.wake = w
  BY <1>4, <1>6, Unfolded
<1> QED
  BY <1>5, <1>8, <1>9, <1>10

LEMMA TypeRestart == TypeOK /\ Restart => TypeOK'
<1> SUFFICES ASSUME TypeOK, Restart PROVE TypeOK'
  OBVIOUS
<1>1. provider' \in Provider /\ mem' \in State /\ disk' = mem'
  BY ReopenedEffect, TypeParts DEF Restart, Copies
<1>2. tick' \in Tick
  BY ConstantsOK DEF Restart, Idle, Tick, Answer
<1>3. restarts' \in 0..MaxRestarts /\ dropped' \subseteq Occurrence
  BY TypeParts, ConstantsOK DEF Restart, Bounds, Ghosts
<1> QED
  BY <1>1, <1>2, <1>3, TypeParts, Retyped DEF Restart, log, LogType, Ghosts, Bounds, Copies

LEMMA TypeClock == TypeOK /\ ClockAdvances => TypeOK'
<1> SUFFICES ASSUME TypeOK, ClockAdvances PROVE TypeOK'
  OBVIOUS
<1>1. now' \in Time
  BY TypeParts, ConstantsOK DEF ClockAdvances, Time
<1> QED
  BY <1>1, TypeParts, Retyped DEF ClockAdvances, log, history, bounds, LogType, Ghosts, Bounds, Copies

(***************************************************************************)
(* The schedules of a copy.                                                *)
(***************************************************************************)
LEMMA FutureUnsent ==
  ASSUME TypeOK, Once, NEW o \in Occurrence, o[2] > now
  PROVE  sent[o] = 0
BY TypeParts, OccurrenceFacts, TimeFacts DEF Once, Ghosts

(* A plan that keeps its slot, or moves to the next one from now.          *)
Replans(m, q) == \A s \in Schedule : q.schedules[s].saved =>
  \/ q.schedules[s].next = NextTime(s, now)
  \/ m.schedules[s].saved /\ q.schedules[s].next = m.schedules[s].next

LEMMA ReplanAhead ==
  ASSUME TypeOK, Once, NEW m, NEW q, Replans(m, q), Ahead(m)
  PROVE  Ahead(q)
<1> SUFFICES ASSUME NEW s \in Schedule, q.schedules[s].saved
             PROVE  /\ q.schedules[s].next # Never => <<s, q.schedules[s].next>> \in Occurrence
                    /\ \A o \in Occurrence : o[1] = s /\ o[2] >= q.schedules[s].next => sent[o] = 0
  BY DEF Ahead
<1>1. CASE q.schedules[s].next = NextTime(s, now)
  <2>1. now \in Time /\ NextTime(s, now) > now /\ NextTime(s, now) \in Nat
        /\ (NextTime(s, now) # Never => <<s, NextTime(s, now)>> \in Occurrence)
    BY TypeParts, NextTimeFacts, TimeFacts
  <2>2. \A o \in Occurrence : o[2] >= NextTime(s, now) => o[2] > now
    BY <2>1, OccurrenceFacts, TimeFacts
  <2> QED
    BY <1>1, <2>1, <2>2, FutureUnsent
<1>2. CASE m.schedules[s].saved /\ q.schedules[s].next = m.schedules[s].next
  BY <1>2 DEF Ahead
<1> QED
  BY <1>1, <1>2 DEF Replans

LEMMA ReplanTaken ==
  ASSUME TypeOK, NEW m \in State, NEW q, Replans(m, q), Taken(m), q.wake.what \subseteq m.wake.what
  PROVE  Taken(q)
<1> SUFFICES ASSUME NEW o \in q.wake.what
             PROVE  o[2] <= now /\ (q.schedules[o[1]].saved => o[2] < q.schedules[o[1]].next)
  BY DEF Taken
<1>1. o \in m.wake.what /\ o \in Occurrence /\ o[1] \in Schedule /\ o[2] \in Time /\ now \in Time
  BY TypeParts, Unfolded, OccurrenceFacts DEF WakeType
<1>2. o[2] <= now /\ (m.schedules[o[1]].saved => o[2] < m.schedules[o[1]].next)
  BY <1>1 DEF Taken
<1>3. NextTime(o[1], now) > now /\ NextTime(o[1], now) \in Nat
  BY <1>1, NextTimeFacts, TimeFacts
<1>4. o[2] < NextTime(o[1], now)
  <2> DEFINE t == o[2]
             n == NextTime(o[1], now)
  <2>1. t \in Nat /\ now \in Nat /\ n \in Nat /\ t <= now /\ n > now
    BY <1>1, <1>2, <1>3, TimeFacts
  <2> HIDE DEF t, n
  <2>2. t < n
    BY <2>1
  <2> QED
    BY <2>2 DEF t, n
<1> QED
  BY <1>1, <1>2, <1>4 DEF Replans

LEMMA SamePlans ==
  ASSUME NEW m, NEW q, q.schedules = m.schedules
  PROVE  Replans(m, q)
BY DEF Replans

LEMMA MovedReplans ==
  ASSUME TypeOK, NEW m \in State, NEW q, NEW moved \in SUBSET Schedule, q.schedules = MovedOn(m.schedules, moved)
  PROVE  Replans(m, q)
<1>1. m.schedules \in Plans /\ now \in Time
  BY TypeParts, Unfolded
<1>2. \A s \in Schedule :
        IF s \in moved
        THEN MovedOn(m.schedules, moved)[s].saved = m.schedules[s].saved
             /\ MovedOn(m.schedules, moved)[s].next = NextTime(s, now)
        ELSE MovedOn(m.schedules, moved)[s] = m.schedules[s]
  BY <1>1, MovedOnEffect
<1> QED
  BY <1>2 DEF Replans

(***************************************************************************)
(* The wake of a copy.                                                     *)
(***************************************************************************)
LEMMA WakeKept ==
  ASSUME NEW m, NEW q, Wake(m), q.wake = m.wake
  PROVE  Wake(q)
BY DEF Wake

LEMMA WakeNone ==
  ASSUME NEW q, q.wake = NoWake
  PROVE  Wake(q)
BY DEF Wake, NoWake

(* Part of a wake.                                                         *)
LEMMA WakeShrinks ==
  ASSUME NEW m, NEW q, Wake(m), q.wake.id = m.wake.id, q.wake.owner = m.wake.owner,
         q.wake.status = m.wake.status, q.wake.what \subseteq m.wake.what
  PROVE  Wake(q)
BY DEF Wake, Unsent

LEMMA WakeMarked ==
  ASSUME NEW m, NEW st, Wake(m), m.wake.id # 0, st \in {"dispatching", "unknown"} \/ (st = "accepted" /\ receipt[m.wake.id] = "accepted")
                             \/ (st = "pending" /\ Unsent(m.wake.id, m.wake.what))
  PROVE  Wake(Marked(m, st))
BY DEF Wake, Marked, Unsent

(* A hold that computes a consistent copy.                                 *)
Quiet == UNCHANGED <<now, receipt, given, place, sent>>
LEMMA Holds ==
  ASSUME Quiet, Consistent(mem), Consistent(disk), NEW q, Consistent(q), mem' \in {mem, q}, disk' \in {disk, q}
  PROVE  Consistent(mem)' /\ Consistent(disk)'
<1>1. mem' = mem \/ mem' = q
  OBVIOUS
<1>2. disk' = disk \/ disk' = q
  OBVIOUS
<1>3. Consistent(mem)'
  BY <1>1 DEF Quiet, Consistent, Ahead, Taken, Wake, Unsent
<1>4. Consistent(disk)'
  BY <1>2 DEF Quiet, Consistent, Ahead, Taken, Wake, Unsent
<1> QED
  BY <1>3, <1>4

(***************************************************************************)
(* The invariant, step by step.                                            *)
(***************************************************************************)
LEMMA InvInit == Init => Inv
<1> SUFFICES ASSUME Init PROVE Inv
  OBVIOUS
<1>1. mem = disk /\ mem.wake = NoWake /\ \A s \in Schedule : mem.schedules[s] = Unset
  BY DEF Init
<1>2. Ahead(mem)
  <2>1. ~Unset.saved
    BY DEF Unset
  <2> QED
    BY <1>1, <2>1 DEF Ahead
<1>3. Taken(mem) /\ Wake(mem)
  BY <1>1 DEF Taken, Wake, NoWake
<1>4. wakes = 0 /\ \A w \in WakeID : given[w] = 0 /\ receipt[w] = "none" /\ place[w] = {}
  BY DEF Init, Log!Init
<1>5. Submitted /\ Once /\ Fresh
  BY <1>4 DEF Init, Idle, Submitted, Once, Fresh
<1>6. Numbered
  BY <1>1, <1>4 DEF Numbered, NoWake
<1> QED
  BY <1>1, <1>2, <1>3, <1>5, <1>6 DEF Inv, Consistent

(* The log and its ghosts are left alone: what the ids and the slots say   *)
(* of them stands.                                                         *)
LEMMA QuietRest ==
  ASSUME TypeOK, Inv, Quiet, wakes' \in {wakes, wakes + 1}
  PROVE  Once' /\ Fresh'
<1>1. Once'
  BY DEF Inv, Once, Quiet
<1>2. wakes \in Nat
  BY TypeParts
<1>3. Fresh'
  BY <1>2 DEF Inv, Fresh, Quiet, WakeID
<1> QED
  BY <1>1, <1>3

(* A tick that is not submitting ends its hold with a consistent copy.     *)
LEMMA IdleHold ==
  ASSUME TypeOK, Inv, Quiet, tick.phase = "idle", tick' = tick, wakes' \in {wakes, wakes + 1},
         NEW q \in State, Consistent(q), q.wake.id <= wakes', SavedOrRestored(q)
  PROVE  Inv'
<1>1. mem' \in {mem, q} /\ disk' \in {disk, q}
  BY TypeParts, Written DEF Bounds
<1>2. Consistent(mem)' /\ Consistent(disk)'
  BY <1>1, Holds DEF Inv
<1>3. Submitted'
  BY DEF Submitted
<1>4. mem.wake.id \in Nat /\ disk.wake.id \in Nat /\ q.wake.id \in Nat /\ wakes \in Nat
  BY TypeParts, Unfolded DEF Copies, WakeType
<1>5. Numbered'
  BY <1>1, <1>4 DEF Inv, Numbered
<1> QED
  BY <1>2, <1>3, <1>5, QuietRest DEF Inv

LEMMA NumberFacts == TypeOK => wakes \in Nat /\ mem.wake.id \in Nat /\ disk.wake.id \in Nat
BY TypeParts, Unfolded DEF Copies, WakeType

LEMMA InvReconcile == TypeOK /\ Inv /\ Reconcile => Inv'
<1> SUFFICES ASSUME TypeOK, Inv, Reconcile PROVE Inv'
  OBVIOUS
<1> DEFINE q == Marked(mem, "accepted")
<1>1. SavedOrRestored(q) /\ q \in State
  BY TicksUnfold DEF Reconcile, Status
<1>2. mem.wake.id # 0
  BY DEF Inv, Consistent, Wake, Reconcile
<1>3. Wake(q)
  BY <1>2, WakeMarked DEF Inv, Consistent, Reconcile
<1>4. Ahead(q) /\ Taken(q)
  BY DEF Inv, Consistent, Marked, Ahead, Taken
<1>5. q.wake.id = mem.wake.id
  BY DEF Marked
<1> HIDE DEF q
<1>6. Quiet /\ tick.phase = "idle" /\ tick' = tick /\ wakes' = wakes
  BY DEF Reconcile, Quiet, log, history
<1> QED
  BY <1>1, <1>3, <1>4, <1>5, <1>6, IdleHold DEF Inv, Consistent, Numbered

LEMMA InvCollect == TypeOK /\ Inv /\ Collect => Inv'
<1> SUFFICES ASSUME TypeOK, Inv, Collect PROVE Inv'
  OBVIOUS
<1>1. PICK b \in SUBSET Schedule : Batch(b) /\ \E skipped \in Skippable(b) : SavedOrRestored(Collected(mem, b, skipped))
  BY DEF Collect
<1>2. PICK skipped \in Skippable(b) : SavedOrRestored(Collected(mem, b, skipped))
  BY <1>1
<1> DEFINE q == Collected(mem, b, skipped)
           w == wakes + 1
<1>3. wakes < MaxWakes /\ wakes' = w /\ w \in WakeID /\ w \in Nat /\ w > wakes
  BY TypeParts, ConstantsOK DEF Collect, WakeID
<1>4. q \in State /\ skipped \subseteq Schedule
      /\ \A s \in b \cup skipped : s \in Schedule /\ Due(s) /\ Occurs(s) \in Occurrence
  BY <1>1, <1>3, CollectedType DEF Inv, Closed
<1>5. q.schedules = MovedOn(mem.schedules, b \cup skipped)
      /\ q.wake = [id |-> w, owner |-> provider, what |-> {Occurs(s) : s \in b}, status |-> "pending"]
  BY DEF Collected
<1>6. \A s \in b : /\ Occurs(s)[1] = s /\ Occurs(s)[2] = mem.schedules[s].next
                   /\ mem.schedules[s].saved /\ mem.schedules[s].next <= now /\ mem.schedules[s].next \in Time
  BY <1>4, DueFacts
<1>7. Replans(mem, q)
  BY <1>4, <1>5, TypeParts, MovedReplans DEF Copies
<1>8. Ahead(q)
  BY <1>7, ReplanAhead DEF Inv, Consistent
<1>9. Taken(q)
  <2> SUFFICES ASSUME NEW o \in q.wake.what
               PROVE  o[2] <= now /\ (q.schedules[o[1]].saved => o[2] < q.schedules[o[1]].next)
    BY DEF Taken
  <2>1. PICK s \in b : o = Occurs(s)
    BY <1>5
  <2>2. o[1] = s /\ o[2] <= now /\ o[2] \in Time
    BY <1>6, <2>1
  <2>3. q.schedules[s].next = NextTime(s, now)
    BY <1>4, <1>5, TypeParts, Unfolded, MovedOnEffect DEF Copies
  <2>4. now \in Time /\ NextTime(s, now) > now /\ NextTime(s, now) \in Nat
    BY <1>4, TypeParts, NextTimeFacts, TimeFacts
  <2>5. o[2] \in Nat /\ now \in Nat
    BY <2>2, <2>4, TimeFacts
  <2> HIDE DEF q
  <2> QED
    BY <2>2, <2>3, <2>4, <2>5
<1>10. given[w] = 0 /\ place[w] = {}
  BY <1>3 DEF Inv, Fresh
<1>11. \A o \in q.wake.what : sent[o] = 0
  <2> SUFFICES ASSUME NEW s \in b PROVE sent[Occurs(s)] = 0
    BY <1>5
  <2>1. Occurs(s)[2] >= mem.schedules[s].next
    BY <1>6, TimeFacts
  <2> QED
    BY <1>4, <1>6, <2>1 DEF Inv, Consistent, Ahead
<1>12. Wake(q)
  <2>1. q.wake.id = w /\ q.wake.owner = provider /\ q.wake.status = "pending"
    BY <1>5
  <2>2. Unsent(w, q.wake.what)
    BY <1>10, <1>11 DEF Unsent
  <2>3. w # 0 /\ place[w] \subseteq {provider}
    <3>1. wakes \in Nat
      BY TypeParts
    <3> QED
      BY <1>10, <3>1
  <2> HIDE DEF q, w
  <2> QED
    BY <2>1, <2>2, <2>3 DEF Wake
<1>13. Quiet /\ tick.phase = "idle" /\ tick' = tick /\ q.wake.id <= wakes'
  BY <1>3, <1>5 DEF Collect, Quiet, log
<1> HIDE DEF q
<1> QED
  BY <1>2, <1>3, <1>4, <1>8, <1>9, <1>12, <1>13, IdleHold DEF Consistent, q

LEMMA InvSkipClosed == TypeOK /\ Inv /\ SkipClosed => Inv'
<1> SUFFICES ASSUME TypeOK, Inv, SkipClosed PROVE Inv'
  OBVIOUS
<1> DEFINE q == [schedules |-> MovedOn(mem.schedules, Closed), wake |-> mem.wake]
<1>1. q \in State /\ SavedOrRestored(q) /\ Closed \subseteq Schedule
  BY ClosedFacts DEF Inv, SkipClosed
<1>2. q.schedules = MovedOn(mem.schedules, Closed) /\ q.wake = mem.wake
  OBVIOUS
<1> HIDE DEF q
<1>3. Replans(mem, q)
  BY <1>1, <1>2, TypeParts, MovedReplans DEF Copies
<1>4. Ahead(q) /\ Taken(q)
  BY <1>2, <1>3, TypeParts, ReplanAhead, ReplanTaken DEF Inv, Consistent, Copies
<1>5. Wake(q)
  BY <1>2, WakeKept DEF Inv, Consistent
<1>6. Quiet /\ tick.phase = "idle" /\ tick' = tick /\ wakes' = wakes
  BY DEF SkipClosed, Quiet, log
<1> QED
  BY <1>1, <1>2, <1>4, <1>5, <1>6, IdleHold DEF Inv, Consistent, Numbered

LEMMA InvPrune == TypeOK /\ Inv /\ Prune => Inv'
<1> SUFFICES ASSUME TypeOK, Inv, Prune PROVE Inv'
  OBVIOUS
<1> DEFINE rest == StillDue(mem.wake)
           q == [schedules |-> mem.schedules, wake |-> Pruned(mem.wake)]
<1>1. mem \in State /\ mem.wake \in WakeType /\ rest \subseteq mem.wake.what
  BY TypeParts, Unfolded DEF Copies, StillDue
<1>2. q \in State /\ SavedOrRestored(q)
  BY <1>1, PrunedType, WakeWritten DEF Prune
<1>3. Pruned(mem.wake) = NoWake
      \/ Pruned(mem.wake) = [id |-> mem.wake.id, owner |-> mem.wake.owner, what |-> rest, status |-> mem.wake.status]
  BY <1>1 DEF Pruned, WakeType
<1>4. q.schedules = mem.schedules /\ q.wake = Pruned(mem.wake)
  OBVIOUS
<1> HIDE DEF q, rest
<1>5. Wake(q)
  <2>1. Wake(mem)
    BY DEF Inv, Consistent
  <2>2. q.wake = NoWake
        \/ q.wake = [id |-> mem.wake.id, owner |-> mem.wake.owner, what |-> rest, status |-> mem.wake.status]
    BY <1>3, <1>4
  <2>3. CASE q.wake = NoWake
    BY <2>3, WakeNone
  <2>4. CASE q.wake = [id |-> mem.wake.id, owner |-> mem.wake.owner, what |-> rest, status |-> mem.wake.status]
    <3>1. /\ q.wake.id = mem.wake.id /\ q.wake.owner = mem.wake.owner
          /\ q.wake.status = mem.wake.status /\ q.wake.what \subseteq mem.wake.what
      BY <1>1, <2>4
    <3> QED
      BY <2>1, <3>1, WakeShrinks
  <2> QED
    BY <2>2, <2>3, <2>4
<1>6. q.wake.what \subseteq mem.wake.what /\ q.wake.id \in {0, mem.wake.id}
  BY <1>1, <1>3, <1>4 DEF NoWake
<1>7. Ahead(q) /\ Taken(q)
  BY <1>1, <1>4, <1>6, SamePlans, ReplanAhead, ReplanTaken DEF Inv, Consistent
<1>8. Quiet /\ tick.phase = "idle" /\ tick' = tick /\ wakes' = wakes
  BY DEF Prune, Quiet, log
<1>9. q.wake.id <= wakes'
  BY <1>6, <1>8, NumberFacts DEF Inv, Numbered
<1> QED
  BY <1>2, <1>5, <1>7, <1>8, <1>9, IdleHold DEF Consistent

(* The fence is in both copies before the submission.                      *)
LEMMA InvDispatch == TypeOK /\ Inv /\ Dispatch => Inv'
<1> SUFFICES ASSUME TypeOK, Inv, Dispatch PROVE Inv'
  OBVIOUS
<1> DEFINE q == Marked(mem, "dispatching")
<1>1. SavedOrRestored(q) /\ q \in State
  BY TicksUnfold DEF Dispatch, Status
<1>2. mem.wake.status = "pending" /\ mem.wake.id # 0 /\ Unsent(mem.wake.id, mem.wake.what) /\ mem.wake.owner = provider
  BY DEF Inv, Consistent, Wake, Dispatch, Own
<1>3. Wake(q)
  BY <1>2, WakeMarked DEF Inv, Consistent
<1>4. Ahead(q) /\ Taken(q)
  BY DEF Inv, Consistent, Marked, Ahead, Taken
<1>5. q.wake.id = mem.wake.id
        /\ q.wake = [id |-> mem.wake.id, owner |-> provider, what |-> mem.wake.what, status |-> "dispatching"]
  BY <1>2 DEF Marked
<1>6. mem # q
  BY <1>2, <1>5
<1> HIDE DEF q
<1>7. Quiet /\ tick.phase = "idle" /\ wakes' = wakes /\ provider' = provider
  BY DEF Dispatch, Quiet, log, history
<1>8. CASE mem' = mem
  <2>1. tick' = tick
    BY <1>8 DEF Dispatch
  <2> QED
    BY <1>1, <1>3, <1>4, <1>5, <1>7, <2>1, IdleHold DEF Inv, Consistent, Numbered
<1>9. CASE mem' # mem
  <2>1. mem' = q /\ disk' = q
    BY <1>1, <1>9 DEF SavedOrRestored, Saved, Lost
  <2>2. tick' = [phase |-> "submit", wake |-> mem.wake.id, what |-> mem.wake.what, answer |-> "none"]
    BY <1>9 DEF Dispatch, Idle
  <2>3. Unsent(mem.wake.id, mem.wake.what)'
    <3>1. Unsent(mem.wake.id, mem.wake.what)
      BY <1>2
    <3>2. given' = given /\ sent' = sent
      BY <1>7 DEF Quiet
    <3> QED
      BY <1>5, <2>1, <3>1, <3>2 DEF Unsent
  <2>4. Submitted'
    BY <1>2, <1>5, <1>7, <2>1, <2>2, <2>3 DEF Submitted, Unsent
  <2>5. Consistent(mem)' /\ Consistent(disk)'
    BY <1>3, <1>4, <1>7, <2>1, Holds DEF Inv, Consistent
  <2>6. Numbered'
    BY <1>5, <1>7, <2>1 DEF Inv, Numbered
  <2> QED
    BY <1>7, <2>4, <2>5, <2>6, QuietRest DEF Inv
<1> QED
  BY <1>8, <1>9

(* A submission changes neither the copies nor what was sent.              *)
LEMMA SubmissionHolds ==
  ASSUME TypeOK, Inv, Submitting, UNCHANGED <<place, sent, given>>, NEW w \in WakeID,
         NEW r \in Receipts, receipt' = [receipt EXCEPT ![w] = r], receipt[w] # "accepted",
         given[w] = 1 => r \in {"unknown", "accepted"}, w <= wakes
  PROVE  Consistent(mem)' /\ Consistent(disk)' /\ Once' /\ Fresh' /\ Numbered'
<1>1. \A v \in WakeID : receipt'[v] = IF v = w THEN r ELSE receipt[v]
  BY TypeParts DEF LogType
<1>2. \A v \in WakeID : receipt[v] = "accepted" => receipt'[v] = "accepted"
  BY <1>1
<1>3. ASSUME NEW m \in {mem, disk}, Wake(m)
      PROVE  m.wake.id # 0 /\ m.wake.status = "accepted" => receipt'[m.wake.id] = "accepted"
  <2>1. m.wake.id \in 0..MaxWakes
    BY <1>3, TypeParts, Unfolded DEF Copies, WakeType
  <2> QED
    BY <1>2, <1>3, <2>1, ConstantsOK DEF Wake, WakeID
<1>4. Wake(mem) /\ Wake(disk)
  BY DEF Inv, Consistent
<1>5. Wake(mem)' /\ Wake(disk)'
  BY <1>3, <1>4 DEF Wake, Unsent, Submitting
<1>6. Consistent(mem)' /\ Consistent(disk)'
  BY <1>5 DEF Inv, Consistent, Ahead, Taken, Submitting
<1>7. Once' /\ Numbered'
  BY DEF Inv, Once, Numbered, Submitting
<1>8. w \in Nat /\ wakes \in Nat
  BY TypeParts DEF WakeID
<1>9. Fresh'
  <2>1. \A v \in WakeID : v > wakes => v # w
    BY <1>8 DEF WakeID
  <2> QED
    BY <1>1, <2>1 DEF Inv, Fresh, Submitting
<1> QED
  BY <1>6, <1>7, <1>9

LEMMA SubmittedFacts ==
  ASSUME TypeOK, Inv, tick.phase # "idle"
  PROVE  /\ tick.wake \in WakeID /\ tick.wake # 0 /\ tick.wake <= wakes /\ tick.what \subseteq Occurrence
         /\ mem.wake = [id |-> tick.wake, owner |-> provider, what |-> tick.what, status |-> "dispatching"]
         /\ disk.wake = mem.wake
         /\ given[tick.wake] = 1 \/ Unsent(tick.wake, tick.what)
         /\ receipt[tick.wake] \in Receipts /\ given[tick.wake] \in 0..1
<1>1. /\ tick.wake # 0 /\ (given[tick.wake] = 1 \/ Unsent(tick.wake, tick.what))
      /\ mem.wake = [id |-> tick.wake, owner |-> provider, what |-> tick.what, status |-> "dispatching"]
      /\ disk.wake = [id |-> tick.wake, owner |-> provider, what |-> tick.what, status |-> "dispatching"]
  BY DEF Inv, Submitted
<1>2. tick.wake \in WakeID /\ receipt[tick.wake] \in Receipts
  BY TickFacts DEF Inv
<1>3. mem.wake.id <= wakes /\ mem.wake.id = tick.wake
  BY <1>1 DEF Inv, Numbered
<1>4. given[tick.wake] \in 0..1 /\ tick.what \subseteq Occurrence
  BY <1>2, TypeParts DEF LogType, Tick
<1> QED
  BY <1>1, <1>2, <1>3, <1>4

(* The tick after a step that leaves its wake, the copies and what was     *)
(* sent alone.                                                             *)
LEMMA SubmittedStays ==
  ASSUME TypeOK, Inv, tick.phase # "idle", Submitting, UNCHANGED <<sent, given>>,
         tick'.wake = tick.wake, tick'.what = tick.what,
         tick'.phase = "native" => receipt'[tick.wake] # "none",
         tick'.phase = "answered" =>
           /\ tick'.answer \in {"unknown", "accepted", "rejected", "deferred"}
           /\ tick'.answer = "deferred" => given[tick.wake] = 0
           /\ tick'.answer \in {"accepted", "rejected"} => receipt'[tick.wake] = tick'.answer
  PROVE  Submitted'
BY SubmittedFacts DEF Submitted, Unsent, Submitting

LEMMA InvSubmit == TypeOK /\ Inv /\ (SubmitFound \/ SubmitDeferred \/ SubmitReturns) => Inv'
<1> SUFFICES ASSUME TypeOK, Inv, SubmitFound \/ SubmitDeferred \/ SubmitReturns PROVE Inv'
  OBVIOUS
<1>1. tick.phase # "idle" /\ Submitting /\ UNCHANGED <<receipt, given, place, sent>>
  BY DEF SubmitFound, SubmitDeferred, SubmitReturns, log
<1>2. receipt[tick.wake] \in Receipts /\ tick.wake \in WakeID
  BY <1>1, SubmittedFacts
<1>3. PICK a \in Answer : /\ Answered(a) /\ a # "none" /\ (a = "deferred" => given[tick.wake] = 0)
                          /\ a \in {"accepted", "rejected"} => receipt[tick.wake] = a
  <2>1. CASE SubmitDeferred
    <3>1. given[tick.wake] # 1
      BY <1>2, <2>1 DEF SubmitDeferred, Inv, Fresh
    <3>2. given[tick.wake] = 0
      BY <1>1, <3>1, SubmittedFacts
    <3> QED
      BY <2>1, <3>2 DEF SubmitDeferred, Answer
  <2>2. CASE SubmitFound \/ SubmitReturns
    <3>1. Answered(receipt[tick.wake]) /\ receipt[tick.wake] # "none"
      BY <2>2 DEF SubmitFound, SubmitReturns, Inv, Submitted
    <3> QED
      BY <1>2, <3>1 DEF Receipts, Answer
  <2> QED
    BY <2>1, <2>2
<1>4. tick' = [phase |-> "answered", wake |-> tick.wake, what |-> tick.what, answer |-> a]
  BY <1>3, AnsweredType
<1>5. Submitted'
  <2>1. tick'.phase = "answered" /\ tick'.wake = tick.wake /\ tick'.what = tick.what /\ tick'.answer = a
    BY <1>4
  <2>2. a \in {"unknown", "accepted", "rejected", "deferred"}
    BY <1>3 DEF Answer
  <2> QED
    BY <1>1, <1>3, <2>1, <2>2, SubmittedStays
<1>6. Quiet /\ wakes' = wakes /\ mem' = mem /\ disk' = disk
  BY <1>1 DEF Quiet, Submitting
<1>7. Consistent(mem)' /\ Consistent(disk)' /\ Numbered'
  BY <1>6, Holds DEF Inv, Numbered
<1> QED
  BY <1>5, <1>6, <1>7, QuietRest DEF Inv

LEMMA InvFenced == TypeOK /\ Inv /\ SubmitFenced => Inv'
<1> SUFFICES ASSUME TypeOK, Inv, SubmitFenced PROVE Inv'
  OBVIOUS
<1> DEFINE w == tick.wake
<1>1. tick.phase # "idle" /\ Submitting /\ UNCHANGED <<given, place, sent>> /\ receipt[w] = "none"
      /\ receipt' = [receipt EXCEPT ![w] = "unknown"]
  BY DEF SubmitFenced, Log!Fence
<1>2. w \in WakeID /\ w <= wakes /\ receipt'[w] = "unknown"
  BY <1>1, SubmittedFacts, TypeParts DEF LogType
<1>3. tick' = [phase |-> "native", wake |-> tick.wake, what |-> tick.what, answer |-> tick.answer]
  BY TypeParts DEF SubmitFenced, Tick
<1>4. Submitted'
  BY <1>1, <1>2, <1>3, SubmittedStays
<1>5. Consistent(mem)' /\ Consistent(disk)' /\ Once' /\ Fresh' /\ Numbered'
  BY <1>1, <1>2, SubmissionHolds, SubmittedFacts DEF Receipts
<1> QED
  BY <1>4, <1>5 DEF Inv

LEMMA InvNativeDeferred == TypeOK /\ Inv /\ NativeDeferred => Inv'
<1> SUFFICES ASSUME TypeOK, Inv, NativeDeferred PROVE Inv'
  OBVIOUS
<1> DEFINE w == tick.wake
<1>1. tick.phase # "idle" /\ Submitting /\ UNCHANGED <<given, place, sent>> /\ receipt[w] = "unknown" /\ given[w] = 0
      /\ receipt' = [receipt EXCEPT ![w] = "none"] /\ Answered("deferred")
  BY DEF NativeDeferred, Log!Release
<1>2. w \in WakeID /\ w <= wakes
  BY <1>1, SubmittedFacts
<1>3. tick' = [phase |-> "answered", wake |-> tick.wake, what |-> tick.what, answer |-> "deferred"]
  BY <1>1, AnsweredType DEF Answer
<1>4. Submitted'
  BY <1>1, <1>3, SubmittedStays
<1>5. Consistent(mem)' /\ Consistent(disk)' /\ Once' /\ Fresh' /\ Numbered'
  <2>1. "none" \in Receipts /\ receipt[w] # "accepted" /\ given[w] # 1
    BY <1>1 DEF Receipts
  <2> QED
    BY <1>1, <1>2, <2>1, SubmissionHolds
<1> QED
  BY <1>4, <1>5 DEF Inv

LEMMA InvNativeSettles ==
  ASSUME TypeOK, Inv, NEW w \in WakeID, NativeSettles(w)
  PROVE  Inv'
<1>1. PICK r \in {"accepted", "rejected"} : /\ receipt[w] = "unknown" /\ receipt' = [receipt EXCEPT ![w] = r]
                                            /\ (r = "accepted" <=> given[w] = 1)
  BY DEF NativeSettles, Log!Settle
<1>2. Submitting /\ UNCHANGED <<given, place, sent>> /\ tick' = tick
  BY DEF NativeSettles, Log!Settle
<1>3. w <= wakes
  BY <1>1, TypeParts DEF Inv, Fresh, WakeID
<1>4. Consistent(mem)' /\ Consistent(disk)' /\ Once' /\ Fresh' /\ Numbered'
  <2>1. r \in Receipts /\ receipt[w] # "accepted" /\ (given[w] = 1 => r \in {"unknown", "accepted"})
    BY <1>1 DEF Receipts
  <2> QED
    BY <1>1, <1>2, <1>3, <2>1, SubmissionHolds
<1>5. \A v \in WakeID : receipt'[v] = IF v = w THEN r ELSE receipt[v]
  BY <1>1, TypeParts DEF LogType
<1>6. CASE tick.phase # "idle"
  <2>1. tick.phase = "native" => receipt'[tick.wake] # "none"
    BY <1>5, <1>6, SubmittedFacts DEF Inv, Submitted
  <2>2. tick.phase = "answered" =>
           /\ tick.answer \in {"unknown", "accepted", "rejected", "deferred"}
           /\ tick.answer = "deferred" => given[tick.wake] = 0
           /\ tick.answer \in {"accepted", "rejected"} => receipt'[tick.wake] = tick.answer
    BY <1>1, <1>5, <1>6, SubmittedFacts DEF Inv, Submitted
  <2>3. Submitted'
    BY <1>2, <1>6, <2>1, <2>2, SubmittedStays
  <2> QED
    BY <1>4, <2>3 DEF Inv
<1>7. CASE tick.phase = "idle"
  BY <1>2, <1>4, <1>7 DEF Inv, Submitted
<1> QED
  BY <1>6, <1>7

(* The Runtime is given what nobody was given before.                      *)
LEMMA InvGiven == TypeOK /\ Inv /\ Given => Inv'
<1> SUFFICES ASSUME TypeOK, Inv, Given PROVE Inv'
  OBVIOUS
<1> DEFINE w == tick.wake
<1>1. /\ tick.phase = "native" /\ Submitting /\ receipt[w] = "unknown" /\ given[w] = 0
      /\ given' = [given EXCEPT ![w] = 1] /\ receipt' = receipt /\ tick' = tick
      /\ place' = [place EXCEPT ![w] = @ \cup {provider}]
      /\ sent' = [o \in Occurrence |-> IF o \in tick.what THEN sent[o] + 1 ELSE sent[o]]
  BY DEF Given, Log!Give
<1>2. /\ w \in WakeID /\ w # 0 /\ w <= wakes /\ Unsent(w, tick.what)
      /\ mem.wake = [id |-> w, owner |-> provider, what |-> tick.what, status |-> "dispatching"]
      /\ disk.wake = mem.wake
  BY <1>1, SubmittedFacts
<1>3. /\ \A v \in WakeID : given'[v] = (IF v = w THEN 1 ELSE given[v])
      /\ \A v \in WakeID : place'[v] = (IF v = w THEN place[v] \cup {provider} ELSE place[v])
      /\ \A o \in Occurrence : sent'[o] = (IF o \in tick.what THEN 1 ELSE sent[o])
  <2>1. \A v \in WakeID : given'[v] = (IF v = w THEN 1 ELSE given[v])
    BY <1>1, TypeParts DEF LogType
  <2>2. \A v \in WakeID : place'[v] = (IF v = w THEN place[v] \cup {provider} ELSE place[v])
    BY <1>1, TypeParts DEF Ghosts
  <2>3. \A o \in tick.what : sent[o] = 0
    BY <1>2 DEF Unsent
  <2>4. \A o \in Occurrence : sent'[o] = (IF o \in tick.what THEN 1 ELSE sent[o])
    BY <1>1, <2>3
  <2> QED
    BY <2>1, <2>2, <2>4
<1>4. ASSUME NEW m \in {mem, disk}
      PROVE  Ahead(m) /\ Taken(m) /\ m.wake = mem.wake /\ place[w] \subseteq {provider}
  BY <1>2 DEF Inv, Consistent, Wake
<1>5. ASSUME NEW m \in {mem, disk}, NEW s \in Schedule, m.schedules[s].saved, NEW o \in Occurrence, o[1] = s,
             o[2] >= m.schedules[s].next
      PROVE  sent'[o] = 0
  <2>1. sent[o] = 0
    BY <1>4, <1>5 DEF Ahead
  <2>2. o \notin tick.what
    <3> SUFFICES ASSUME o \in tick.what PROVE FALSE
      OBVIOUS
    <3>1. o \in m.wake.what
      BY <1>2, <1>4
    <3>2. o[2] < m.schedules[s].next
      BY <1>4, <1>5, <3>1 DEF Taken
    <3>3. m.schedules[s].next \in Nat /\ o[2] \in Nat
      <4>1. m \in State
        BY TypeParts DEF Copies
      <4> QED
        BY <4>1, Unfolded, OccurrenceFacts, TimeFacts DEF Plans, Plan
    <3> QED
      BY <1>5, <3>2, <3>3
  <2> QED
    BY <1>3, <2>1, <2>2
<1>6. Ahead(mem)' /\ Ahead(disk)'
  BY <1>1, <1>4, <1>5 DEF Ahead, Submitting
<1>7. Taken(mem)' /\ Taken(disk)'
  BY <1>1, <1>4 DEF Taken, Submitting
<1>8. place'[w] \subseteq {provider}
  BY <1>2, <1>3, <1>4
<1>9. Wake(mem)' /\ Wake(disk)'
  BY <1>1, <1>2, <1>8 DEF Wake, Submitting
<1>10. Once'
  <2>1. \A o \in tick.what : o[2] <= now
    BY <1>2, <1>4 DEF Taken
  <2> QED
    BY <1>1, <1>3, <2>1 DEF Inv, Once, Submitting
<1>11. Fresh'
  <2>1. w \in Nat /\ wakes \in Nat
    BY <1>2, TypeParts DEF WakeID
  <2> QED
    BY <1>1, <1>2, <1>3, <2>1 DEF Inv, Fresh, Submitting, WakeID
<1>12. Submitted'
  BY <1>1, <1>2, <1>3 DEF Inv, Submitted, Submitting
<1>13. Numbered'
  BY <1>1 DEF Inv, Numbered, Submitting
<1> QED
  BY <1>6, <1>7, <1>9, <1>10, <1>11, <1>12, <1>13 DEF Inv, Consistent

(* The answer is written over a wake that both copies know.                *)
LEMMA InvSettle == TypeOK /\ Inv /\ Settle => Inv'
<1> SUFFICES ASSUME TypeOK, Inv, Settle PROVE Inv'
  OBVIOUS
<1>1. PICK st \in {After(tick.answer)} \cup (IF tick.answer = "rejected" THEN {"unknown"} ELSE {}) : mem' = Marked(mem, st)
  BY SettleEffect
<1>2. disk' \in {disk, Marked(mem, st)}
  BY <1>1, SettleEffect
<1>3. tick.phase = "answered" /\ Quiet /\ wakes' = wakes /\ tick' = Idle
  BY DEF Settle, Quiet, log, history
<1>4. /\ tick.wake # 0 /\ mem.wake.id = tick.wake /\ mem.wake.what = tick.what
      /\ given[tick.wake] \in 0..1 /\ (given[tick.wake] = 1 \/ Unsent(tick.wake, tick.what))
  BY <1>3, SubmittedFacts
<1>5. /\ tick.answer \in {"unknown", "accepted", "rejected", "deferred"}
      /\ tick.answer = "deferred" => given[tick.wake] = 0
      /\ tick.answer \in {"accepted", "rejected"} => receipt[tick.wake] = tick.answer
  BY <1>3 DEF Inv, Submitted
<1>6. st \in {"unknown", "accepted", "pending"} /\ (st = "accepted" => receipt[tick.wake] = "accepted")
  BY <1>1, <1>5 DEF After
<1>7. st = "pending" => Unsent(tick.wake, tick.what)
  <2>1. tick.answer = "rejected" => given[tick.wake] # 1
    BY <1>3, <1>5, SubmittedFacts DEF Inv, Fresh
  <2>2. st = "pending" => tick.answer \in {"rejected", "deferred"}
    BY <1>1, <1>5 DEF After
  <2> QED
    BY <1>4, <1>5, <2>1, <2>2
<1>8. Wake(Marked(mem, st))
  BY <1>4, <1>6, <1>7, WakeMarked DEF Inv, Consistent
<1>9. Ahead(Marked(mem, st)) /\ Taken(Marked(mem, st))
  BY DEF Inv, Consistent, Marked, Ahead, Taken
<1>10. Consistent(mem)' /\ Consistent(disk)'
  BY <1>1, <1>2, <1>3, <1>8, <1>9, Holds DEF Inv, Consistent
<1>11. Submitted'
  BY <1>3 DEF Submitted, Idle
<1>12. Numbered'
  BY <1>1, <1>2, <1>3 DEF Inv, Numbered, Marked
<1> QED
  BY <1>3, <1>10, <1>11, <1>12, QuietRest DEF Inv

(* The tools write copies whose wake a submission can rely on.             *)
LEMMA ToolHold ==
  ASSUME TypeOK, Inv, Quiet, UNCHANGED <<tick, wakes, provider>>, NEW q \in State, Consistent(q), SavedOrRestored(q),
         q.wake.id \in {0, mem.wake.id}, mem.wake.status = "dispatching" => q.wake = mem.wake
  PROVE  Inv'
<1>1. mem' \in {mem, q} /\ disk' \in {disk, q}
  BY TypeParts, Written DEF Bounds
<1>2. Consistent(mem)' /\ Consistent(disk)'
  BY <1>1, Holds DEF Inv
<1>3. Numbered'
  BY <1>1, NumberFacts DEF Inv, Numbered
<1>4. Submitted'
  <2>1. CASE tick.phase = "idle"
    BY <2>1 DEF Submitted
  <2>2. CASE tick.phase # "idle"
    <3>1. mem.wake.status = "dispatching" /\ disk.wake = mem.wake
      BY <2>2, SubmittedFacts
    <3>2. mem'.wake = mem.wake /\ disk'.wake = disk.wake
      BY <1>1, <3>1
    <3> QED
      BY <3>2 DEF Inv, Submitted, Unsent, Quiet
  <2> QED
    BY <2>1, <2>2
<1> QED
  BY <1>2, <1>3, <1>4, QuietRest DEF Inv

LEMMA InvUpsert ==
  ASSUME TypeOK, Inv, NEW s \in Schedule, Upsert(s)
  PROVE  Inv'
<1> DEFINE q == Replanned(mem, s, NewPlan(s))
<1>1. SavedOrRestored(q) /\ q \in State
  BY UpsertEffect DEF Upsert, NewPlan
<1>2. q.wake = mem.wake
  BY DEF Replanned
<1>3. Replans(mem, q)
  <2>1. \A x \in Schedule : q.schedules[x] = IF x = s THEN NewPlan(s) ELSE mem.schedules[x]
    BY DEF Replanned
  <2>2. NewPlan(s).next = NextTime(s, now)
    BY DEF NewPlan
  <2> HIDE DEF q
  <2> QED
    BY <2>1, <2>2 DEF Replans
<1> HIDE DEF q
<1>4. Ahead(q) /\ Taken(q)
  BY <1>2, <1>3, TypeParts, ReplanAhead, ReplanTaken DEF Inv, Consistent, Copies
<1>5. Wake(q)
  BY <1>2, WakeKept DEF Inv, Consistent
<1>6. Quiet /\ UNCHANGED <<tick, wakes, provider>>
  BY DEF Upsert, Schedules, Quiet, log
<1> QED
  BY <1>1, <1>2, <1>4, <1>5, <1>6, ToolHold DEF Consistent

LEMMA InvRemove ==
  ASSUME TypeOK, Inv, NEW s \in Schedule, Remove(s)
  PROVE  Inv'
<1> DEFINE q == Removed(mem, s)
           rest == {o \in mem.wake.what : o[1] # s}
<1>1. SavedOrRestored(q) /\ q \in State
  BY RemoveEffect DEF Remove
<1>2. mem \in State /\ mem.wake \in WakeType
  BY TypeParts, Unfolded DEF Copies
<1>3. q.wake = Without(mem.wake, s)
  BY DEF Removed
<1>4. \/ q.wake = mem.wake
      \/ q.wake = NoWake /\ mem.wake.status = "pending"
      \/ q.wake = [id |-> mem.wake.id, owner |-> mem.wake.owner, what |-> rest, status |-> mem.wake.status]
         /\ mem.wake.status = "pending"
  BY <1>2, <1>3 DEF Without, WakeType
<1>5. Replans(mem, q)
  <2>1. \A x \in Schedule : q.schedules[x] = IF x = s THEN Unset ELSE mem.schedules[x]
    BY DEF Removed
  <2>2. ~Unset.saved
    BY DEF Unset
  <2> HIDE DEF q
  <2> QED
    BY <2>1, <2>2 DEF Replans
<1> HIDE DEF q
<1>6. Wake(mem) /\ Ahead(mem) /\ Taken(mem)
  BY DEF Inv, Consistent
<1>7. /\ Wake(q) /\ q.wake.what \subseteq mem.wake.what /\ q.wake.id \in {0, mem.wake.id}
      /\ mem.wake.status = "dispatching" => q.wake = mem.wake
  <2>1. CASE q.wake = mem.wake
    BY <1>6, <2>1, WakeKept
  <2>2. CASE q.wake = NoWake /\ mem.wake.status = "pending"
    BY <2>2, WakeNone DEF NoWake
  <2>3. CASE q.wake = [id |-> mem.wake.id, owner |-> mem.wake.owner, what |-> rest, status |-> mem.wake.status]
             /\ mem.wake.status = "pending"
    <3>1. /\ q.wake.id = mem.wake.id /\ q.wake.owner = mem.wake.owner
          /\ q.wake.status = mem.wake.status /\ q.wake.what \subseteq mem.wake.what
      BY <2>3
    <3> QED
      BY <1>6, <2>3, <3>1, WakeShrinks
  <2> QED
    BY <1>4, <2>1, <2>2, <2>3
<1>8. Ahead(q) /\ Taken(q)
  BY <1>2, <1>5, <1>6, <1>7, ReplanAhead, ReplanTaken DEF Inv
<1>9. Quiet /\ UNCHANGED <<tick, wakes, provider>>
  BY DEF Remove, Schedules, Quiet, log
<1> QED
  BY <1>1, <1>7, <1>8, <1>9, ToolHold DEF Consistent

LEMMA InvClock == TypeOK /\ Inv /\ ClockAdvances => Inv'
<1> SUFFICES ASSUME TypeOK, Inv, ClockAdvances PROVE Inv'
  OBVIOUS
<1>1. UNCHANGED <<mem, disk, provider, tick, wakes, receipt, given, place, sent>> /\ now' = now + 1 /\ now \in Nat
  BY TypeParts, TimeFacts DEF ClockAdvances, log, history
<1>2. \A o \in Occurrence : o[2] <= now => o[2] <= now'
  BY <1>1, OccurrenceFacts, TimeFacts
<1>3. mem.wake.what \subseteq Occurrence /\ disk.wake.what \subseteq Occurrence
  BY TypeParts, Unfolded DEF Copies, WakeType
<1>4. Taken(mem)' /\ Taken(disk)'
  BY <1>1, <1>2, <1>3 DEF Inv, Consistent, Taken
<1>5. Ahead(mem)' /\ Ahead(disk)' /\ Wake(mem)' /\ Wake(disk)'
  BY <1>1 DEF Inv, Consistent, Ahead, Wake, Unsent
<1>6. Once'
  BY <1>1, <1>2 DEF Inv, Once
<1>7. Submitted' /\ Fresh' /\ Numbered'
  BY <1>1 DEF Inv, Submitted, Unsent, Fresh, Numbered
<1> QED
  BY <1>4, <1>5, <1>6, <1>7 DEF Inv, Consistent

(* A restart goes on with the file.                                        *)
LEMMA InvRestart == TypeOK /\ Inv /\ Restart => Inv'
<1> SUFFICES ASSUME TypeOK, Inv, Restart PROVE Inv'
  OBVIOUS
<1>1. PICK p \in Provider : mem' = Reopened(disk, p) /\ disk' = mem'
  BY DEF Restart
<1> DEFINE q == Reopened(disk, p)
<1>2. Quiet /\ wakes' = wakes /\ tick' = Idle /\ mem' = q /\ disk' = q /\ disk \in State /\ now \in Time
  BY <1>1, TypeParts DEF Restart, Quiet, log, Copies
<1>3. /\ q \in State
      /\ \A s \in Schedule : q.schedules[s].saved = disk.schedules[s].saved
                             /\ (q.schedules[s].next = disk.schedules[s].next
                                 \/ (q.schedules[s].next = NextTime(s, now) /\ disk.schedules[s].next <= now))
      /\ q.wake \in {disk.wake, Marked(disk, "unknown").wake}
  BY <1>2, ReopenedEffect
<1>4. \/ q.wake = disk.wake
      \/ q.wake = Marked(disk, "unknown").wake /\ disk.wake.status = "dispatching"
  BY <1>3 DEF Reopened
<1> HIDE DEF q
<1>5. Replans(disk, q)
  BY <1>3 DEF Replans
<1>6. Ahead(disk) /\ Taken(disk) /\ Wake(disk) /\ Once
  BY DEF Inv, Consistent
<1>7. q.wake.id = disk.wake.id /\ q.wake.what = disk.wake.what
  BY <1>3 DEF Marked
<1>8. Ahead(q) /\ Taken(q)
  BY <1>2, <1>5, <1>6, <1>7, ReplanAhead, ReplanTaken
<1>9. Wake(q)
  <2>1. CASE q.wake = disk.wake
    BY <1>6, <2>1, WakeKept
  <2>2. CASE q.wake = Marked(disk, "unknown").wake /\ disk.wake.status = "dispatching"
    <3>1. disk.wake.id # 0
      BY <1>6, <2>2 DEF Wake
    <3>2. Wake(Marked(disk, "unknown"))
      BY <1>6, <3>1, WakeMarked
    <3> QED
      BY <2>2, <3>2, WakeKept
  <2> QED
    BY <1>4, <2>1, <2>2
<1>10. Consistent(mem)' /\ Consistent(disk)'
  BY <1>2, <1>8, <1>9, Holds DEF Inv, Consistent
<1>11. Submitted' /\ Numbered'
  BY <1>2, <1>7 DEF Inv, Submitted, Idle, Numbered
<1> QED
  BY <1>2, <1>10, <1>11, QuietRest DEF Inv

(***************************************************************************)
(* Theorems.                                                               *)
(***************************************************************************)
LEMMA Step == TypeOK /\ Inv /\ [Next]_vars => TypeOK' /\ Inv'
<1> SUFFICES ASSUME TypeOK, Inv, [Next]_vars PROVE TypeOK' /\ Inv'
  OBVIOUS
<1>1. Consistent(mem) /\ Submitted
  BY DEF Inv
<1>2. CASE Reconcile
  BY <1>2, TypeReconcile, InvReconcile
<1>3. CASE Collect
  BY <1>1, <1>3, TypeCollect, InvCollect
<1>4. CASE SkipClosed
  BY <1>1, <1>4, TypeSkipClosed, InvSkipClosed
<1>5. CASE Prune
  BY <1>5, TypePrune, InvPrune
<1>6. CASE Dispatch
  BY <1>6, TypeDispatch, InvDispatch
<1>7. CASE SubmitFound \/ SubmitDeferred \/ SubmitReturns
  BY <1>1, <1>7, TypeSubmit, InvSubmit
<1>8. CASE SubmitFenced
  BY <1>1, <1>8, TypeSubmit, InvFenced
<1>9. CASE NativeDeferred
  BY <1>1, <1>9, TypeSubmit, InvNativeDeferred
<1>10. CASE Settle
  BY <1>10, TypeSettle, InvSettle
<1>11. CASE Given
  BY <1>1, <1>11, TypeGiven, InvGiven
<1>12. CASE \E w \in WakeID : NativeSettles(w)
  BY <1>12, TypeNativeSettles, InvNativeSettles
<1>13. CASE \E s \in Schedule : Upsert(s)
  BY <1>13, TypeUpsert, InvUpsert
<1>14. CASE \E s \in Schedule : Remove(s)
  BY <1>14, TypeRemove, InvRemove
<1>15. CASE ClockAdvances
  BY <1>15, TypeClock, InvClock
<1>16. CASE Restart
  BY <1>16, TypeRestart, InvRestart
<1>17. CASE UNCHANGED vars
  <2>1. TypeOK'
    BY <1>17, TypeParts, Retyped DEF vars, log, history, bounds, Copies, LogType, Ghosts, Bounds
  <2>2. Inv'
    BY <1>17 DEF vars, log, history, bounds, Inv, Consistent, Ahead, Taken, Wake, Unsent, Submitted, Once, Fresh, Numbered
  <2> QED
    BY <2>1, <2>2
<1> QED
  BY <1>2, <1>3, <1>4, <1>5, <1>6, <1>7, <1>8, <1>9, <1>10, <1>11, <1>12, <1>13, <1>14, <1>15, <1>16, <1>17
     DEF Next, Ticks, Submits

(* Every state of the reminders has the declared shape: the engine of       *)
(* bot/runtime.go never leaves its State, whatever fails.                  *)
THEOREM Typing == Spec => []TypeOK
<1>1. Init => TypeOK /\ Inv
  BY TypeInit, InvInit
<1>2. TypeOK /\ Inv /\ [Next]_vars => (TypeOK /\ Inv)'
  BY Step
<1> QED
  BY <1>1, <1>2, PTL DEF Spec

(* What both copies of the state say of the deliveries is an inductive     *)
(* invariant: a saved schedule is ahead of what was sent, a pending wake   *)
(* was not given to anybody, and a submission is fenced in both.           *)
THEOREM Safety == Spec => []Inv
<1>1. Init => TypeOK /\ Inv
  BY TypeInit, InvInit
<1>2. TypeOK /\ Inv /\ [Next]_vars => (TypeOK /\ Inv)'
  BY Step
<1> QED
  BY <1>1, <1>2, PTL DEF Spec

(* No occurrence of a reminder is given to a Runtime twice, whichever      *)
(* writes fail, however often the Bot edits its schedules and whenever the *)
(* application is closed (tickLocked, NewForRuntime).                      *)
THEOREM Reminds == Spec => []RemindsOnce
<1>1. Inv => RemindsOnce
  BY DEF Inv, Once, RemindsOnce
<1> QED
  BY <1>1, Safety, PTL

LEMMA WakeMeans ==
  ASSUME TypeOK, Inv, NEW m \in {mem, disk}, m.wake.id # 0
  PROVE  /\ given[m.wake.id] = 1 => m.wake.status # "pending"
         /\ place[m.wake.id] \subseteq {m.wake.owner}
         /\ m.wake.status = "accepted" => receipt[m.wake.id] = "accepted"
BY DEF Inv, Consistent, Wake, Unsent

(* A wake that a Runtime was given is never pending again, in memory or in *)
(* the file: the fence of tickLocked is saved before the submission.       *)
THEOREM Fenced == Spec => []GivenIsFenced
<1>1. TypeOK /\ Inv => GivenIsFenced
  BY WakeMeans DEF GivenIsFenced
<1> QED
  BY <1>1, Typing, Safety, PTL

(* A wake reaches the Runtime that owns it and no other, across restarts   *)
(* that select another one.                                                *)
THEOREM OwnRuntime == Spec => []RightRuntime
<1>1. TypeOK /\ Inv => RightRuntime
  BY WakeMeans DEF RightRuntime
<1> QED
  BY <1>1, Typing, Safety, PTL

(* A wake that the state calls accepted was accepted by the log of         *)
(* deliveries: only then may the next one be collected.                    *)
THEOREM Accepted == Spec => []AcceptedTrue
<1>1. TypeOK /\ Inv => AcceptedTrue
  BY WakeMeans DEF AcceptedTrue
<1> QED
  BY <1>1, Typing, Safety, PTL
=============================================================================
