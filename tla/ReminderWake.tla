---------------------------- MODULE ReminderWake ----------------------------
(***************************************************************************)
(* Calendar reminders, bot/runtime.go and bot/schedule.go: the schedules   *)
(* and the one Wake that collects what is due, saved together; the tick    *)
(* that submits the Wake under the resident's step lock while the Bot's    *)
(* tools edit schedules under mu; restarts and changes of Runtime.         *)
(*                                                                         *)
(* A step is one hold of Runtime.mu; the hold of a tick that may collect,  *)
(* prune and dispatch in a row is a step for each, since a busy resident   *)
(* ends it after any.  An occurrence is a schedule and the slot it was due *)
(* at.  Calendar arithmetic is the constants Slot and Allowed; the log of  *)
(* deliveries is OneDelivery.  Left out: texts, their limit, and the       *)
(* events that the same tick looks after (EventPlan).                      *)
(***************************************************************************)
EXTENDS Naturals, FiniteSets

CONSTANTS
  Schedule, Provider,
  Slot,         \* when each schedule fires (nextTime)
  Allowed,      \* when its window is open (scheduleAllowed)
  Origin,       \* the requests each schedule came from
  Batching,     \* Runtimes without a grant per schedule: one wake, many schedules
  MaxTime, MaxWakes,
  MaxEdits,     \* bound on saves and removals of schedules
  MaxDelays,    \* bound on submissions a busy resident puts off
  MaxFaults, MaxRestarts

Time == 1..MaxTime
Never == MaxTime + 1
ASSUME ConstantsOK ==
  /\ Slot \in [Schedule -> SUBSET Time] /\ Allowed \in [Schedule -> SUBSET Time]
  /\ Batching \subseteq Provider /\ Provider # {}
  /\ MaxTime \in Nat \ {0} /\ MaxWakes \in Nat \ {0} /\ MaxEdits \in Nat
  /\ MaxDelays \in Nat /\ MaxFaults \in Nat /\ MaxRestarts \in Nat

WakeID == 1..MaxWakes
Occurrence == {o \in Schedule \X Time : o[2] \in Slot[o[1]]}

VARIABLES
  mem, disk,       \* State and its file: the schedules and the Wake
  now, provider,   \* the clock and the selected Runtime
  tick,            \* the tick that holds Runtime.step
  wakes,           \* wakes made so far
  receipt, given,  \* the log of deliveries
  place,           \* the Runtime each wake was given to
  sent,            \* how often each occurrence was given to a Runtime
  dropped,         \* occurrences the user removed or edited, missed while closed, or expired
  edits, delays, faults, restarts

vars == <<mem, disk, now, provider, tick, wakes, receipt, given, place, sent, dropped, edits, delays, faults, restarts>>
log == <<receipt, given>>
bounds == <<edits, delays, restarts>>
history == <<place, sent, dropped>>

Log == INSTANCE OneDelivery WITH Message <- WakeID, Legacy <- {}

NoWake == [id |-> 0, owner |-> CHOOSE p \in Provider : TRUE, what |-> {}, status |-> "accepted"]
Idle == [phase |-> "idle", wake |-> 0, what |-> {}, answer |-> "none"]
Unset == [owner |-> CHOOSE p \in Provider : TRUE, enabled |-> FALSE, next |-> Never, saved |-> FALSE]

(* nextTime: the first slot after a moment.                                *)
NextTime(s, after) == LET later == {t \in Slot[s] : t > after}
                      IN IF later = {} THEN Never ELSE CHOOSE t \in later : \A u \in later : t <= u
Advanced(s, sch, after) == [sch EXCEPT !.next = NextTime(s, after),
                                       !.enabled = @ /\ NextTime(s, after) # Never]

(* saveLocked: written, or failed with the old or the new file.            *)
Saved(m) == disk' = m /\ UNCHANGED faults
Lost(m) == faults < MaxFaults /\ faults' = faults + 1 /\ disk' \in {disk, m}
SavedOrRestored(m) == (Saved(m) /\ mem' = m) \/ (Lost(m) /\ UNCHANGED mem)

Delays == delays < MaxDelays /\ delays' = delays + 1

-----------------------------------------------------------------------------
(* The tick: reconcile the last wake, collect what is due, prune, dispatch. *)

Waiting == mem.wake.status # "accepted"       \* a wake that is not settled yet
Own == mem.wake.owner = provider

(* An uncertain wake is read, never submitted again.  Until the log knows   *)
(* that it was accepted the tick does nothing else.                        *)
ReconcileSame ==                                                \* mutant
  /\ tick.phase = "idle" /\ Own /\ mem.wake.status = "dispatching"
  /\ receipt[mem.wake.id] = "accepted"
  /\ SavedOrRestored([mem EXCEPT !.wake.status = "accepted"])
  /\ UNCHANGED <<now, provider, tick, wakes, log, history, bounds>>
Reconcile ==
  /\ tick.phase = "idle" /\ Own /\ mem.wake.status \in {"unknown", "dispatching"}
  /\ receipt[mem.wake.id] = "accepted"
  /\ SavedOrRestored([mem EXCEPT !.wake.status = "accepted"])
  /\ UNCHANGED <<now, provider, tick, wakes, log, history, bounds>>

Due(s) == LET sch == mem.schedules[s]
          IN sch.saved /\ sch.owner = provider /\ sch.enabled /\ sch.next <= now
Open(s) == now \in Allowed[s]

(* What one tick takes: due schedules of one origin; a Runtime that grants  *)
(* each schedule takes one.                                                *)
Batch(b) ==
  /\ b # {} /\ \A s \in b : Due(s) /\ Open(s)
  /\ IF provider \in Batching
     THEN \E first \in b : b = {s \in Schedule : Due(s) /\ Open(s) /\ Origin[s] = Origin[first]}
     ELSE Cardinality(b) = 1

(* Schedules outside their window move on without a wake; a tick that takes *)
(* a single schedule may leave the rest for the next.                      *)
Closed == {s \in Schedule : Due(s) /\ ~Open(s)}
Skippable(b) == IF b = {} \/ provider \in Batching THEN {Closed} ELSE SUBSET Closed

MovedOn(sch, moved) == [s \in Schedule |-> IF s \in moved THEN Advanced(s, sch[s], now) ELSE sch[s]]
Occurs(s) == <<s, mem.schedules[s].next>>

Collected(m, b, skipped) ==
  [schedules |-> MovedOn(m.schedules, b \cup skipped),
   wake |-> [id |-> wakes + 1, owner |-> provider, what |-> {Occurs(s) : s \in b}, status |-> "pending"]]

CollectHalfway ==                                               \* mutant
  /\ tick.phase = "idle" /\ ~Waiting /\ wakes < MaxWakes /\ wakes' = wakes + 1
  /\ \E b \in SUBSET Schedule : Batch(b) /\ \E skipped \in Skippable(b) :
       LET m == Collected(mem, b, skipped) IN
       /\ dropped' = dropped \cup {Occurs(s) : s \in skipped}
       /\ (Saved(m) /\ mem' = m) \/ (Lost(m) /\ mem' = [mem EXCEPT !.wake = m.wake])
  /\ UNCHANGED <<now, provider, tick, log, place, sent, bounds>>
Collect ==
  /\ tick.phase = "idle" /\ ~Waiting /\ wakes < MaxWakes /\ wakes' = wakes + 1
  /\ \E b \in SUBSET Schedule : Batch(b) /\ \E skipped \in Skippable(b) :
       LET m == Collected(mem, b, skipped) IN
       /\ SavedOrRestored(m)
       /\ dropped' = dropped \cup {Occurs(s) : s \in skipped}
  /\ UNCHANGED <<now, provider, tick, log, place, sent, bounds>>

(* Nothing to wake for, but windows have closed.                           *)
SkipClosed ==
  /\ tick.phase = "idle" /\ ~Waiting /\ Closed # {}
  /\ \A s \in Schedule : Due(s) => ~Open(s)
  /\ SavedOrRestored([mem EXCEPT !.schedules = MovedOn(@, Closed)])
  /\ dropped' = dropped \cup {Occurs(s) : s \in Closed}
  /\ UNCHANGED <<now, provider, tick, wakes, log, place, sent, bounds>>

(* prunePendingLocked: what the pending wake may still say.                *)
StillDue(w) == {o \in w.what : mem.schedules[o[1]].saved /\ mem.schedules[o[1]].owner = provider /\ Open(o[1])}
Pruned(w) == IF StillDue(w) = {} THEN NoWake ELSE [w EXCEPT !.what = StillDue(w)]

Prune ==
  /\ tick.phase = "idle" /\ Own /\ mem.wake.status = "pending" /\ StillDue(mem.wake) # mem.wake.what
  /\ SavedOrRestored([mem EXCEPT !.wake = Pruned(@)])
  /\ dropped' = dropped \cup (mem.wake.what \ StillDue(mem.wake))
  /\ UNCHANGED <<now, provider, tick, wakes, log, place, sent, bounds>>

(* The fence is saved before the submission; a save that failed takes it    *)
(* back in memory.                                                         *)
DispatchOther ==                                                \* mutant
  /\ tick.phase = "idle" /\ mem.wake.status = "pending" /\ StillDue(mem.wake) = mem.wake.what
  /\ Saved([mem EXCEPT !.wake.status = "dispatching"]) /\ mem' = disk'
  /\ tick' = [Idle EXCEPT !.phase = "submit", !.wake = mem.wake.id, !.what = mem.wake.what]
  /\ UNCHANGED <<now, provider, wakes, log, history, bounds>>
Dispatch ==
  /\ tick.phase = "idle" /\ Own /\ mem.wake.status = "pending" /\ StillDue(mem.wake) = mem.wake.what
  /\ SavedOrRestored([mem EXCEPT !.wake.status = "dispatching"])
  /\ tick' = IF mem' = mem THEN tick
             ELSE [Idle EXCEPT !.phase = "submit", !.wake = mem.wake.id, !.what = mem.wake.what]
  /\ UNCHANGED <<now, provider, wakes, log, history, bounds>>

-----------------------------------------------------------------------------
(* submitSystemLocked, with mu free: schedules may change meanwhile.        *)

Answered(answer) == tick' = [tick EXCEPT !.phase = "answered", !.answer = answer]
Submitting == UNCHANGED <<mem, disk, now, provider, wakes, dropped, edits, faults, restarts>>

SubmitFound ==
  /\ tick.phase = "submit" /\ receipt[tick.wake] # "none" /\ Answered(receipt[tick.wake])
  /\ Submitting /\ UNCHANGED <<log, place, sent, delays>>

SubmitDeferred ==
  /\ tick.phase = "submit" /\ receipt[tick.wake] = "none" /\ Answered("deferred") /\ Delays
  /\ Submitting /\ UNCHANGED <<log, place, sent>>

SubmitFenced ==
  /\ tick.phase = "submit" /\ Log!Fence(tick.wake) /\ tick' = [tick EXCEPT !.phase = "native"]
  /\ Submitting /\ UNCHANGED <<place, sent, delays>>

Given ==
  /\ tick.phase = "native" /\ Log!Give(tick.wake)
  /\ place' = [place EXCEPT ![tick.wake] = @ \cup {provider}]
  /\ sent' = [o \in Occurrence |-> IF o \in tick.what THEN sent[o] + 1 ELSE sent[o]]
  /\ Submitting /\ UNCHANGED <<tick, delays>>

NativeDeferred ==
  /\ tick.phase = "native" /\ Log!Release(tick.wake) /\ Answered("deferred") /\ Delays
  /\ Submitting /\ UNCHANGED <<place, sent>>

SubmitReturns ==
  /\ tick.phase = "native" /\ Answered(receipt[tick.wake])
  /\ Submitting /\ UNCHANGED <<log, place, sent, delays>>

(* A native answer or event, or a later reading of the history.            *)
NativeSettles(w) ==
  /\ \E outcome \in {"accepted", "rejected"} :
       Log!Settle(w, outcome) /\ (outcome = "accepted" <=> given[w] = 1)
  /\ Submitting /\ UNCHANGED <<tick, place, sent, delays>>

(* Anything but an answer that is accepted or unknown makes the wake        *)
(* pending again, a refusal that is final too, unless it comes with an     *)
(* error.                                                                  *)
AfterAnyway(answer) == IF answer = "accepted" THEN "accepted" ELSE "pending"    \* mutant
AfterRaw(answer) == IF answer = "deferred" THEN "pending" ELSE answer           \* mutant
AfterUnread(answer) == IF answer = "deferred" THEN "pending" ELSE "accepted"    \* mutant
After(answer) == CASE answer = "accepted" -> "accepted" [] answer = "unknown" -> "unknown"
                   [] OTHER -> "pending"

Settle ==
  /\ tick.phase = "answered" /\ tick' = Idle
  /\ \E status \in {After(tick.answer)} \cup IF tick.answer = "rejected" THEN {"unknown"} ELSE {} :
       mem' = [mem EXCEPT !.wake.status = status]
  /\ Saved(mem') \/ Lost(mem')
  /\ UNCHANGED <<now, provider, wakes, log, history, bounds>>

-----------------------------------------------------------------------------
(* The Bot's tools, under mu only.                                         *)

Edits == edits < MaxEdits /\ edits' = edits + 1
Schedules == UNCHANGED <<now, provider, tick, wakes, log, place, sent, delays, restarts>>

(* A new schedule, or another plan under the id of one this Runtime owns.   *)
Upsert(s) ==
  /\ Edits /\ (mem.schedules[s].saved => mem.schedules[s].owner = provider)
  /\ NextTime(s, now) # Never
  /\ SavedOrRestored([mem EXCEPT !.schedules[s] =
       [owner |-> provider, enabled |-> TRUE, next |-> NextTime(s, now), saved |-> TRUE]])
  /\ dropped' = dropped \cup {o \in Occurrence : o[1] = s /\ o[2] <= now}
  /\ Schedules

(* Removal takes the schedule out of a wake nobody has submitted yet.       *)
Without(w, s) ==
  LET rest == {o \in w.what : o[1] # s}
  IN IF w.status # "pending" THEN w ELSE IF rest = {} THEN NoWake ELSE [w EXCEPT !.what = rest]
Remove(s) ==
  /\ Edits /\ mem.schedules[s].saved /\ mem.schedules[s].owner = provider
  /\ SavedOrRestored([mem EXCEPT !.schedules[s] = Unset, !.wake = Without(@, s)])
  /\ dropped' = dropped \cup {o \in Occurrence : o[1] = s}
  /\ Schedules

-----------------------------------------------------------------------------
ClockAdvances ==
  /\ now < MaxTime /\ now' = now + 1
  /\ UNCHANGED <<mem, disk, provider, tick, wakes, log, history, bounds, faults>>

(* NewForRuntime: slots missed while the application was closed are not     *)
(* replayed, and a submission that was cut off is uncertain.               *)
Reopened(m, p) ==
  [schedules |-> [s \in Schedule |->
     LET sch == m.schedules[s] IN
     IF sch.saved /\ sch.owner = p /\ sch.next <= now THEN Advanced(s, sch, now) ELSE sch],
   wake |-> IF m.wake.status = "dispatching" THEN [m.wake EXCEPT !.status = "unknown"] ELSE m.wake]

Restart ==
  /\ restarts < MaxRestarts /\ restarts' = restarts + 1
  /\ \E p \in Provider : provider' = p /\ mem' = Reopened(disk, p) /\ disk' = mem'
  /\ tick' = Idle
  /\ dropped' = dropped \cup {o \in Occurrence : o[2] <= now /\ o \notin disk.wake.what}
  /\ UNCHANGED <<now, wakes, log, place, sent, edits, delays, faults>>

Init ==
  /\ provider \in Provider /\ now = 1
  /\ mem = [schedules |-> [s \in Schedule |-> Unset], wake |-> NoWake] /\ disk = mem
  /\ tick = Idle /\ wakes = 0 /\ Log!Init
  /\ place = [w \in WakeID |-> {}] /\ sent = [o \in Occurrence |-> 0] /\ dropped = {}
  /\ edits = 0 /\ delays = 0 /\ faults = 0 /\ restarts = 0

Ticks == Reconcile \/ Collect \/ SkipClosed \/ Prune \/ Dispatch
Submits == SubmitFound \/ SubmitDeferred \/ SubmitFenced \/ SubmitReturns \/ Settle
Next ==
  \/ Ticks \/ Submits \/ Given \/ NativeDeferred
  \/ \E w \in WakeID : NativeSettles(w)
  \/ \E s \in Schedule : Upsert(s) \/ Remove(s)
  \/ ClockAdvances \/ Restart

Spec == Init /\ [][Next]_vars

-----------------------------------------------------------------------------
(* Properties                                                              *)

(* Every variable has its type.                                            *)
State == [schedules : [Schedule -> [owner : Provider, enabled : BOOLEAN, next : Time \cup {Never}, saved : BOOLEAN]],
          wake : [id : 0..MaxWakes, owner : Provider, what : SUBSET Occurrence,
                  status : {"pending", "dispatching", "unknown", "accepted"}]]
TypeOK ==
  /\ mem \in State /\ disk \in State
  /\ now \in Time /\ provider \in Provider
  /\ tick \in [phase : {"idle", "submit", "native", "answered"}, wake : 0..MaxWakes, what : SUBSET Occurrence,
               answer : {"none", "unknown", "accepted", "rejected", "deferred"}]
  /\ wakes \in 0..MaxWakes /\ receipt \in [WakeID -> Log!Receipt] /\ given \in [WakeID -> 0..1]
  /\ place \in [WakeID -> SUBSET Provider] /\ sent \in [Occurrence -> Nat] /\ dropped \subseteq Occurrence
  /\ edits \in 0..MaxEdits /\ delays \in 0..MaxDelays /\ faults \in 0..MaxFaults /\ restarts \in 0..MaxRestarts

(* An occurrence reminds at most once, whichever writes fail and whenever   *)
(* the application is closed.                                              *)
RemindsOnce == \A o \in Occurrence : sent[o] <= 1

(* A wake that a Runtime was given is fenced in memory and on disk.         *)
GivenIsFenced == \A m \in {mem, disk} :
  m.wake.id # 0 /\ given[m.wake.id] = 1 => m.wake.status # "pending"

(* A wake reaches no other Runtime than the one its schedules belong to.    *)
RightRuntime == \A m \in {mem, disk} : m.wake.id # 0 => place[m.wake.id] \subseteq {m.wake.owner}

(* An accepted wake was accepted: the next one may follow it.              *)
AcceptedTrue == \A m \in {mem, disk} :
  m.wake.id # 0 /\ m.wake.status = "accepted" => receipt[m.wake.id] = "accepted"

(***************************************************************************)
(* Why they hold, as an inductive invariant: what the schedules and the    *)
(* wake of a copy say of what was sent, in memory and on disk alike.       *)
(***************************************************************************)
Ahead(m) == \A s \in Schedule : m.schedules[s].saved =>
  /\ m.schedules[s].next # Never => <<s, m.schedules[s].next>> \in Occurrence
  /\ \A o \in Occurrence : o[1] = s /\ o[2] >= m.schedules[s].next => sent[o] = 0
Taken(m) == \A o \in m.wake.what :
  o[2] <= now /\ (m.schedules[o[1]].saved => o[2] < m.schedules[o[1]].next)
Unsent(w, what) == given[w] = 0 /\ \A o \in what : sent[o] = 0
Wake(m) ==
  /\ m.wake.id = 0 => m.wake.status = "accepted"
  /\ m.wake.id # 0 => place[m.wake.id] \subseteq {m.wake.owner}
  /\ m.wake.status = "pending" => Unsent(m.wake.id, m.wake.what)
  /\ m.wake.id # 0 /\ m.wake.status = "accepted" => receipt[m.wake.id] = "accepted"
Consistent(m) == Ahead(m) /\ Taken(m) /\ Wake(m)

(* The wake that a tick submits, and what it was answered.                 *)
Submitted ==
  tick.phase # "idle" =>
    LET w == tick.wake IN
    /\ w # 0 /\ (given[w] = 1 \/ Unsent(w, tick.what))
    /\ \A m \in {mem, disk} :
         m.wake = [id |-> w, owner |-> provider, what |-> tick.what, status |-> "dispatching"]
    /\ tick.phase = "native" => receipt[w] # "none"
    /\ tick.phase = "answered" =>
         /\ tick.answer \in {"unknown", "accepted", "rejected", "deferred"}
         /\ tick.answer = "deferred" => given[w] = 0
         /\ tick.answer \in {"accepted", "rejected"} => receipt[w] = tick.answer

Once == \A o \in Occurrence : sent[o] <= 1 /\ (sent[o] > 0 => o[2] <= now)
Fresh == \A w \in WakeID :
  /\ given[w] = 1 => receipt[w] \in {"unknown", "accepted"}
  /\ w > wakes => given[w] = 0 /\ receipt[w] = "none" /\ place[w] = {}
Numbered == mem.wake.id <= wakes /\ disk.wake.id <= wakes

Inv == Consistent(mem) /\ Consistent(disk) /\ Submitted /\ Once /\ Fresh /\ Numbered

(* While the application runs, what is due is sent, dropped by its window   *)
(* or its user, or waits behind a wake that nothing settles: one of        *)
(* another Runtime, one that was refused, or one whose outcome is lost.    *)
Blocked ==
  /\ Waiting
  /\ \/ ~Own
     \/ receipt[mem.wake.id] = "rejected"
     \/ mem.wake.status = "unknown" /\ given[mem.wake.id] = 0
Owed(o) == Due(o[1]) /\ mem.schedules[o[1]].next = o[2] /\ wakes < MaxWakes
DueReminds == \A o \in Occurrence : Owed(o) ~> sent[o] > 0 \/ o \in dropped \/ Blocked \/ wakes = MaxWakes

(* The resident ticks every second; the rest is bounded.                   *)
FairSpec == Spec /\ WF_vars(Ticks) /\ WF_vars(Submits) /\ WF_vars(\E w \in WakeID : NativeSettles(w))
=============================================================================
