----------------------------- MODULE EventPlan -----------------------------
(***************************************************************************)
(* The durable event/arrangement engine, internal/eventplan.               *)
(*                                                                         *)
(* Every operation runs under Engine.mu and ends in one atomic write of    *)
(* the whole ledger.  `mem' is Engine.state, `disk' the file.  A step is   *)
(* what the code does up to and including one write (Commit), which may    *)
(* fail; a crash before the write is that failure with the old file.       *)
(* `pc' says what the holder of Engine.mu does next.                       *)
(*                                                                         *)
(* Abstractions:                                                           *)
(*   - ids are model values; an occurrence id is the ordinal of its        *)
(*     creation, which is its place in the slice (rand.Text is fresh);     *)
(*   - Finished/Archived timestamps are the terminal statuses themselves;  *)
(*     whether a record has outlived its retention (age or count) is a     *)
(*     nondeterministic choice of Cleanup's `old' and `aged';              *)
(*   - the five-second gates on collector starts and revocations are below *)
(*     the clock's unit: a tick may find them closed;                      *)
(*   - payloads, schemas and CEL conditions are the kinds of result they   *)
(*     lead to.                                                            *)
(* Operators marked `mutant' are wrong variants of the operator that       *)
(* follows them, to see that the properties can fail.                      *)
(***************************************************************************)
EXTENDS Integers, FiniteSets, Sequences

CONSTANTS
  Plan, Event, Grant,   \* identities
  Kind,                 \* Plan -> PlanKind
  EventOf,              \* Plan -> Event, the collector of an arrangement
  GrantOf,              \* Plan -> Grant, Plan.Authorization()
  Seconds, Lifetime, Cooldown, Pendency,  \* Plan -> Nat, the saved timing
  Window,               \* 24 hours, the rolling budget window
  WakeLife,             \* one hour, the lifetime of a pending wake
  Policies,             \* the interruption policies a user may configure
  FirstPolicy,          \* DefaultPolicy()
  MaxActive,            \* MaxActive arrangements (and events) at once
  Imported,             \* native plans found in the legacy care file
  Legacy,               \* Imported -> whether it is live, its saved activation
  ImportOcc,            \* Imported -> the id of that activation
  Removable,            \* the plans users remove in this instance
  Answers,              \* the answers collectors give in this instance
  Retaining,            \* no record outlives its retention in this instance
  MaxOcc, MaxTime, MaxCrashes   \* bounds on ids, clock and restarts

PlanKind == {"after", "interval", "completion", "native"}
DoneStatus == {"filtered", "completed", "expired", "failed", "cancelled"}
OpenStatus == {"collecting", "unknown", "pending", "dispatching", "unknown_wake", "accepted"}

(* "waiting" is a "filtered" occurrence of a completion plan whose task    *)
(* had not reached a terminal status.                                      *)
OccStatus == OpenStatus \cup DoneStatus \cup {"waiting"}
PlanStatus == {"active", "suspended"} \cup DoneStatus
EventStatus == {"live", "archived", "retired"}
NativeState == {"none", "lost", "accepted", "rejected", "finished"}
Occ == 1..MaxOcc
MaxFailures == 3

ASSUME Timing ==
  /\ Seconds \in [Plan -> Nat] /\ Lifetime \in [Plan -> Nat]
  /\ Cooldown \in [Plan -> Nat] /\ Pendency \in [Plan -> Nat]
  /\ Window \in Nat /\ WakeLife \in Nat
  /\ MaxOcc \in Nat /\ MaxTime \in Nat /\ MaxCrashes \in Nat /\ MaxActive \in Nat
ASSUME Identities ==
  /\ Kind \in [Plan -> PlanKind] /\ EventOf \in [Plan -> Event] /\ GrantOf \in [Plan -> Grant]
  /\ Imported \subseteq Plan /\ IsFiniteSet(Imported) /\ ImportOcc \in [Imported -> Occ]
  /\ Legacy \in [Imported -> [live : BOOLEAN, saved : {"none", "pending", "unknown_wake", "accepted"}]]
  /\ \A p \in Imported : Kind[p] = "native"
  /\ \A p, q \in Imported : ImportOcc[p] = ImportOcc[q] => p = q
  /\ \A p \in Imported : ImportOcc[p] <= Cardinality(Imported)
ASSUME OwnEvents ==  \* a native arrangement's event has an id derived from its own
  \A p, q \in Plan : Kind[p] = "native" /\ EventOf[p] = EventOf[q] => p = q
ASSUME Budgets ==
  /\ FirstPolicy \in Policies
  /\ Policies \subseteq [max : Nat, gap : Nat]
  /\ \A y \in Policies : y.max >= 1 /\ y.gap <= Window

PlanRec == [status : PlanStatus, failures : 0..MaxFailures, next : Nat,
            expires : Nat, lastWake : Nat, retired : BOOLEAN]
OccRec == [status : OccStatus, plan : Plan, for : 0..MaxOcc, expires : Nat]

VARIABLES
  mem,      \* Engine.state
  disk,     \* the ledger file
  pc,       \* what the holder of Engine.mu does next, and Engine.fault
  running,  \* Engine.running, the occurrence being collected (0: none)
  result,   \* Engine.results, the collector's answer not yet drained
  now,      \* the wall clock; 0 is the zero time
  crashes,  \* restarts so far
  native,   \* the operation each occurrence has at the Runtime
  sent,     \* when each occurrence was submitted without a deferral
  doubt,    \* events whose collector was started and never confirmed its end
  grants    \* background grants that are live at the Runtime

vars == <<mem, disk, pc, running, result, now, crashes, native, sent, doubt, grants>>
world == <<native, sent, grants>>

(***************************************************************************)
(* The ledger.                                                             *)
(***************************************************************************)
Unresolved(s, o) == s.occs[o].status \in OpenStatus
OccsOf(s, p) == {o \in DOMAIN s.occs : s.occs[o].plan = p}
Pending(s, p) == \E o \in OccsOf(s, p) : Unresolved(s, o)
Finished(s, p) == s.plans[p].status \in DoneStatus
Holding(s, p) == ~Finished(s, p) \/ Pending(s, p)
RunningEvent(s, v) ==                                           \* mutant
  \E o \in DOMAIN s.occs : EventOf[s.occs[o].plan] = v /\ s.occs[o].status = "collecting"
UnknownEvent(s, v) ==
  \E o \in DOMAIN s.occs : /\ EventOf[s.occs[o].plan] = v
                           /\ s.occs[o].status \in {"unknown", "collecting"}

With(f, x, y) == [z \in DOMAIN f \cup {x} |-> IF z = x THEN y ELSE f[z]]
SetOcc(s, o, st) == [s EXCEPT !.occs[o].status = st]
Restatus(s, f) ==
  [s EXCEPT !.occs = [o \in DOMAIN s.occs |-> [s.occs[o] EXCEPT !.status = f[o]]]]
SetPlan(s, p, st) == [s EXCEPT !.plans[p].status = st]
AddOcc(s, st, p, o, until) ==
  [s EXCEPT !.last = @ + 1,
            !.occs = With(@, s.last + 1, [status |-> st, plan |-> p, for |-> o, expires |-> until])]

(* One maintenance wake about the original occurrence o.                   *)
Attention(s, o) == AddOcc(s, "pending", s.occs[o].plan, o, now + WakeLife)

(* The collection in flight.  The bound on ids leaves room for the         *)
(* maintenance wake it may need.                                           *)
Interrupted(s) == {o \in DOMAIN s.occs : s.occs[o].status = "collecting"}
Room(s) == s.last + Cardinality(Interrupted(s)) <= MaxOcc

PlanCapacity(s) == Cardinality({p \in DOMAIN s.plans : Holding(s, p)}) < MaxActive
EventCapacity(s) == Cardinality({v \in DOMAIN s.events : s.events[v] = "live"}) < MaxActive

EmptyLedger == [plans |-> <<>>, events |-> <<>>, occs |-> <<>>, last |-> Cardinality(Imported),
                attempts |-> {},
                policy |-> FirstPolicy, watermark |-> 0, migrated |-> FALSE]

(***************************************************************************)
(* finishCollection: what a collector's answer r does to its occurrence o. *)
(***************************************************************************)
Results(p) ==
  Answers \cap ({"match", "nomatch", "condition_error"} \cup
    CASE Kind[p] = "native"     -> {}
      [] Kind[p] = "completion" -> {"nonterminal", "lost"}
      [] OTHER                  -> {"failed", "lost"})

FinishFailed(s, o) ==
  LET p == s.occs[o].plan
      t == [SetOcc(s, o, "failed") EXCEPT !.plans[p].failures = @ + 1]
  IN  IF t.plans[p].failures >= MaxFailures \/ Kind[p] = "after"
        THEN Attention(SetPlan(t, p, "failed"), o)
        ELSE t

FinishSeen(s, o, r) ==
  LET p == s.occs[o].plan
      t == [s EXCEPT !.plans[p].failures = 0]
  IN  CASE r = "match"       -> SetOcc(t, o, "pending")
        [] r = "nomatch"     -> SetOcc(t, o, "filtered")
        [] r = "nonterminal" -> SetOcc(t, o, "waiting")
        [] OTHER             -> Attention(SetPlan(SetOcc(t, o, "failed"), p, "failed"), o)

FinishRegardless(s, o, r) ==                                    \* mutant
  CASE r = "failed" -> FinishFailed(s, o)
    [] r = "lost"   -> Attention(SetPlan(SetOcc(s, o, "unknown"), s.occs[o].plan, "suspended"), o)
    [] OTHER        -> FinishSeen(s, o, r)
FinishCollection(s, o, r) ==
  LET p == s.occs[o].plan
  IN  CASE Finished(s, p) -> SetOcc(s, o, IF r = "lost" THEN "unknown" ELSE "cancelled")
        [] ~Finished(s, p) /\ r = "failed" -> FinishFailed(s, o)
        [] ~Finished(s, p) /\ r = "lost" ->
             Attention(SetPlan(SetOcc(s, o, "unknown"), p, "suspended"), o)
        [] OTHER -> FinishSeen(s, o, r)

(***************************************************************************)
(* cleanup.  `old' are the settled occurrences beyond their retention,     *)
(* `aged' the unused and the retired definitions beyond theirs.            *)
(***************************************************************************)
IsNewest(s, p, o) == o \in OccsOf(s, p) /\ \A x \in OccsOf(s, p) : x <= o

(* An unfinished plan without unresolved occurrences expires, or, unless   *)
(* it recurs, takes the status of its newest occurrence.                   *)
CleanPlanEarly(s, p) ==                                         \* mutant
  IF Finished(s, p) \/ ~\E o \in Occ : IsNewest(s, p, o) THEN s.plans[p]
  ELSE [s.plans[p] EXCEPT !.status = s.occs[CHOOSE o \in Occ : IsNewest(s, p, o)].status]
CleanPlanExpiry(s, p) ==                                        \* mutant
  IF Finished(s, p) \/ Pending(s, p) \/ now < s.plans[p].expires THEN s.plans[p]
  ELSE [s.plans[p] EXCEPT !.status = "expired"]
CleanPlan(s, p) ==
  LET q == s.plans[p]
  IN  IF Finished(s, p) \/ Pending(s, p) THEN q
      ELSE IF now >= q.expires THEN [q EXCEPT !.status = "expired"]
      ELSE IF /\ Kind[p] \in {"after", "completion"}
              /\ \E o \in Occ : IsNewest(s, p, o) /\ s.occs[o].status \in DoneStatus
           THEN [q EXCEPT !.status = s.occs[CHOOSE o \in Occ : IsNewest(s, p, o)].status]
           ELSE q

Unused(s, v) == ~\E p \in DOMAIN s.plans : EventOf[p] = v /\ Holding(s, p)
Settled(s) == {o \in DOMAIN s.occs : /\ ~Unresolved(s, o)
                                     /\ \A x \in DOMAIN s.occs : s.occs[x].for # o}
Without(f, S) == [x \in DOMAIN f \ S |-> f[x]]

PlansAged(s, aged) == {p \in DOMAIN s.plans \cap aged : s.plans[p].retired}  \* mutant
PlansGone(s, aged) ==
  {p \in DOMAIN s.plans \cap aged : /\ s.plans[p].retired
                                   /\ Finished(s, p) /\ OccsOf(s, p) = {}}
EventsGone(s, aged) ==
  {v \in DOMAIN s.events \cap aged : /\ s.events[v] = "retired"
                                    /\ \A p \in DOMAIN s.plans : EventOf[p] # v}

Cleanup(s, old, aged) ==
  LET trimmed == [s EXCEPT !.attempts = {a \in @ : a[2] + Window > now},
                           !.plans = [p \in DOMAIN @ |-> CleanPlan(s, p)]]
      archived == [trimmed EXCEPT !.events = [v \in DOMAIN @ |->
                     IF v \in aged /\ @[v] = "live" /\ Unused(trimmed, v) THEN "archived" ELSE @[v]]]
      kept == [archived EXCEPT !.occs = Without(@, old)]
      pruned == [kept EXCEPT !.plans = Without(@, PlansGone(kept, aged))]
  IN  [pruned EXCEPT !.events = Without(@, EventsGone(pruned, aged))]

Ageable(s) ==
  {p \in DOMAIN s.plans : s.plans[p].retired /\ ~Holding(s, p) /\ OccsOf(s, p) \subseteq Settled(s)}
    \cup {v \in DOMAIN s.events : /\ s.events[v] # "archived"
                                  /\ \A p \in DOMAIN s.plans : EventOf[p] = v => ~Pending(s, p)}
Cleanups(s) ==
  IF Retaining THEN {Cleanup(s, {}, {})}
  ELSE {Cleanup(s, old, aged) : old \in SUBSET Settled(s), aged \in SUBSET Ageable(s)}

(***************************************************************************)
(* Engine.mu: who holds it, and what the write at the end leads to.        *)
(***************************************************************************)
PCAt == {"down", "migrate", "idle", "scan", "submit", "spawn", "ingest"}
At(a) == [at |-> a, occ |-> 0, prev |-> 0, todo |-> {}]
Idle == pc.at = "idle"

(* persist.  A failed write freezes the engine (Engine.fault) until the    *)
(* process restarts; it may still have reached the disk, since a timed-out *)
(* localstate.Write goes on.                                               *)
Saved(s, next) == mem' = s /\ disk' = s /\ pc' = next /\ UNCHANGED crashes
Frozen(s) ==
  /\ crashes < MaxCrashes /\ crashes' = crashes + 1
  /\ disk' \in {disk, s} /\ mem' = disk'
  /\ pc' = At("down") /\ running' = 0 /\ result' = "none"
Commit(s, next) == (Saved(s, next) /\ UNCHANGED <<running, result>>) \/ Frozen(s)

(* What the operations behind the legacy activations came to.              *)
LegacyNative(o) ==
  IF \E p \in Imported : ImportOcc[p] = o /\ Legacy[p].saved = "unknown_wake"
  THEN {"lost", "accepted", "rejected"}
  ELSE IF \E p \in Imported : ImportOcc[p] = o /\ Legacy[p].saved = "accepted"
       THEN {"accepted"} ELSE {"none"}

Init ==
  /\ mem = EmptyLedger /\ disk = EmptyLedger
  /\ pc = At("down")
  /\ running = 0 /\ result = "none"
  /\ now = 1 /\ crashes = 0
  /\ native \in [Occ -> NativeState] /\ \A o \in Occ : native[o] \in LegacyNative(o)
  /\ sent = [o \in Occ |-> IF native[o] = "none" THEN <<>> ELSE <<0>>]
  /\ doubt = {}
  /\ grants = {GrantOf[p] : p \in Imported}

(* The process ends (Close included); what it held in memory is gone.      *)
Crash ==
  /\ pc.at # "down" /\ crashes < MaxCrashes
  /\ crashes' = crashes + 1
  /\ mem' = disk /\ pc' = At("down") /\ running' = 0 /\ result' = "none"
  /\ UNCHANGED <<disk, now, doubt, world>>

(* Open validates what it reads ...                                        *)
Valid(s) ==
  /\ \A p \in DOMAIN s.plans : /\ s.plans[p].status \in PlanStatus
                               /\ EventOf[p] \in DOMAIN s.events
  /\ \A o \in DOMAIN s.occs : s.occs[o].plan \in DOMAIN s.plans

(* ... fences interrupted work, and queues a maintenance wake for an       *)
(* interrupted collector.  At most one is ever in flight.                  *)
FencedRetry(s) ==                                               \* mutant
  Restatus(s, [o \in DOMAIN s.occs |-> CASE s.occs[o].status = "collecting"  -> "unknown"
                                         [] s.occs[o].status = "dispatching" -> "pending"
                                         [] OTHER -> s.occs[o].status])
Fenced(s) ==
  Restatus(s, [o \in DOMAIN s.occs |-> CASE s.occs[o].status = "collecting"  -> "unknown"
                                         [] s.occs[o].status = "dispatching" -> "unknown_wake"
                                         [] OTHER -> s.occs[o].status])
OpenWith(s) ==
  /\ \E c \in Cleanups(s) : Commit(c, At("migrate"))
  /\ UNCHANGED <<now, doubt, world>>
InterruptedLive == {o \in Interrupted(disk) : ~Finished(disk, disk.occs[o].plan)}

OpenQuiet ==
  /\ pc.at = "down" /\ Valid(disk) /\ InterruptedLive = {}
  /\ OpenWith(Fenced(disk))

OpenInterrupted(o) ==
  /\ pc.at = "down" /\ Valid(disk) /\ disk.last < MaxOcc
  /\ OpenWith(Attention(SetPlan(Fenced(disk), disk.occs[o].plan, "suspended"), o))

(* MigrateLegacy, once, right after Open: every legacy rule or superseded  *)
(* activation becomes a native plan, live or cancelled, with at most one   *)
(* saved activation that was not settled.                                  *)
Kept == {p \in Imported : Legacy[p].saved # "none"}
ImportedPlan(p) ==
  [status |-> IF Legacy[p].live THEN "active" ELSE "cancelled", failures |-> 0, next |-> now,
   expires |-> now + Lifetime[p], lastWake |-> 0, retired |-> FALSE]
ImportedOcc(p) ==
  [status |-> IF Legacy[p].saved = "pending" /\ ~Legacy[p].live THEN "cancelled" ELSE Legacy[p].saved,
   plan |-> p, for |-> 0, expires |-> now + Pendency[p]]

Migrate ==
  /\ pc.at = "migrate" /\ ~mem.migrated
  /\ Commit([mem EXCEPT
       !.migrated = TRUE,
       !.plans = [p \in DOMAIN @ \cup Imported |-> IF p \in Imported THEN ImportedPlan(p) ELSE @[p]],
       !.events = [v \in DOMAIN @ \cup {EventOf[p] : p \in Imported} |->
                    IF v \in DOMAIN @ THEN @[v] ELSE "live"],
       !.occs = [o \in DOMAIN @ \cup {ImportOcc[p] : p \in Kept} |->
                  IF o \in DOMAIN @ THEN @[o] ELSE ImportedOcc(CHOOSE p \in Kept : ImportOcc[p] = o)]],
       At("idle"))
  /\ UNCHANGED <<now, doubt, world>>

(* Nothing to migrate, or an unreadable care file: the ledger stays usable. *)
SkipMigration ==
  /\ pc.at = "migrate"
  /\ pc' = At("idle")
  /\ UNCHANGED <<mem, disk, running, result, now, crashes, doubt, world>>

(***************************************************************************)
(* Tick.  First: take the collector's answer, reconcile uncertain wakes    *)
(* with their original receipts, clean up, retire at most one definition,  *)
(* and write the ledger if any of it changed.                              *)
(***************************************************************************)
Drained == IF result = "none" THEN mem ELSE FinishCollection(mem, running, result)

(* `seen' are the occurrences whose native receipt or completion can be    *)
(* read now.                                                               *)
Receipt(o, st) ==
  CASE st = "unknown_wake" /\ native[o] = "accepted" -> "accepted"
    [] st = "unknown_wake" /\ native[o] = "rejected" -> "failed"
    [] st \in {"unknown_wake", "accepted"} /\ native[o] = "finished" -> "completed"
    [] OTHER -> st
Reconciled(s, seen) ==
  Restatus(s, [o \in DOMAIN s.occs |->
    IF o \in seen THEN Receipt(o, s.occs[o].status) ELSE s.occs[o].status])
Readable(s) == {o \in DOMAIN s.occs : /\ s.occs[o].status \in {"unknown_wake", "accepted"}
                                      /\ native[o] \in {"accepted", "rejected", "finished"}}

(* A grant shared with an arrangement that still holds it is not revoked.  *)
Retirable(s) == {p \in DOMAIN s.plans : ~s.plans[p].retired /\ ~Holding(s, p)}
SharedNever(s, p) == FALSE                                      \* mutant
Shared(s, p) == \E q \in DOMAIN s.plans : q # p /\ GrantOf[q] = GrantOf[p] /\ Holding(s, q)
RetirePlan(s, p) == [s EXCEPT !.plans[p].retired = TRUE]
RetireEvent(s, v) == [s EXCEPT !.events[v] = "retired"]

(* The end of a tick's first part: ledger t is written if it is news.      *)
Written(t) ==
  \/ /\ t = mem /\ mem' = mem /\ pc' = At("scan")
     /\ UNCHANGED <<disk, crashes, running, result>>
  \/ /\ t # mem /\ Saved(t, At("scan"))
     /\ running' = (IF result = "none" THEN running ELSE 0) /\ result' = "none"
  \/ t # mem /\ Frozen(t)

(* retire takes at most one definition of ledger c.  A revocation may take *)
(* effect without being confirmed.                                         *)
Retire(c) ==
  \/ Written(c) /\ UNCHANGED grants
  \/ \E p \in Retirable(c) : Shared(c, p) /\ Written(RetirePlan(c, p)) /\ UNCHANGED grants
  \/ \E p \in Retirable(c) : \E t \in {c, RetirePlan(c, p)} :
       ~Shared(c, p) /\ Written(t) /\ grants' = grants \ {GrantOf[p]}
  \/ \E v \in DOMAIN c.events :
       /\ Retirable(c) = {} /\ c.events[v] = "archived"
       /\ Written(RetireEvent(c, v)) /\ UNCHANGED grants

TickBegin ==
  /\ Idle /\ (result # "none" => mem.last < MaxOcc)
  /\ \E seen \in SUBSET Readable(Drained) :
       \E c \in Cleanups(Reconciled(Drained, seen)) : Retire(c)
  /\ doubt' = IF result \in {"none", "lost"} THEN doubt
              ELSE doubt \ {EventOf[mem.occs[running].plan]}
  /\ UNCHANGED <<now, native, sent>>

(* Then: the first pending occurrence that can expire, be cancelled or be  *)
(* dispatched.                                                             *)
Expired(o) == now >= mem.occs[o].expires
InBudgetLate ==                                                 \* mutant
  /\ Cardinality(mem.attempts) <= mem.policy.max
  /\ \A a \in mem.attempts : now >= a[2] + mem.policy.gap
InBudget ==
  /\ Cardinality(mem.attempts) < mem.policy.max
  /\ \A a \in mem.attempts : now >= a[2] + mem.policy.gap
Moot(o) == LET p == mem.occs[o].plan
           IN  mem.occs[o].for = 0 /\ (Finished(mem, p) \/ now >= mem.plans[p].expires)
Blocked(o) == \E x \in OccsOf(mem, mem.occs[o].plan) \ {o} :
                mem.occs[x].status \in {"unknown_wake", "dispatching", "accepted"}
ActionableReady(o, ready) ==                                    \* mutant
  mem.occs[o].status = "pending" /\ ready /\ InBudget /\ (Expired(o) \/ Moot(o) \/ ~Blocked(o))
Actionable(o, ready) ==
  /\ mem.occs[o].status = "pending"
  /\ Expired(o) \/ (ready /\ InBudget /\ (Moot(o) \/ ~Blocked(o)))
First(o, ready) ==
  /\ Actionable(o, ready)
  /\ \A x \in DOMAIN mem.occs : x < o => ~Actionable(x, ready)

SettlePending(o, st) ==
  /\ Commit(SetOcc(mem, o, st), At("idle"))
  /\ UNCHANGED <<now, doubt, world>>

Expire(o) == pc.at = "scan" /\ (\E ready \in BOOLEAN : First(o, ready)) /\ Expired(o)
             /\ SettlePending(o, "expired")
CancelMoot(o) == pc.at = "scan" /\ First(o, TRUE) /\ ~Expired(o) /\ Moot(o)
                 /\ SettlePending(o, "cancelled")

(* The attempt is on disk before the Runtime hears of it.                  *)
Dispatch(o) ==
  /\ pc.at = "scan" /\ First(o, TRUE) /\ ~Expired(o) /\ ~Moot(o)
  /\ LET p == mem.occs[o].plan
     IN  Commit([SetOcc(mem, o, "dispatching") EXCEPT !.plans[p].lastWake = now,
                                                      !.attempts = @ \cup {<<o, now>>}],
                [At("submit") EXCEPT !.occ = o, !.prev = mem.plans[p].lastWake])
  /\ UNCHANGED <<now, doubt, world>>

(* The Runtime proves that no operation was created ...                    *)
SubmitDeferred ==
  /\ pc.at = "submit"
  /\ Commit([SetOcc(mem, pc.occ, "pending") EXCEPT
               !.plans[mem.occs[pc.occ].plan].lastWake = pc.prev,
               !.attempts = @ \ {<<pc.occ, now>>}], At("idle"))
  /\ UNCHANGED <<now, doubt, world>>

(* ... or answers for the operation, or its answer is lost.                *)
Submit(answer, fate) ==
  /\ pc.at = "submit"
  /\ native' = [native EXCEPT ![pc.occ] = fate]
  /\ sent' = [sent EXCEPT ![pc.occ] = Append(@, now)]
  /\ Commit(SetOcc(mem, pc.occ, answer), At("idle"))
  /\ UNCHANGED <<now, doubt, grants>>
SubmitAccepted == Submit("accepted", "accepted")
SubmitRejected == Submit("failed", "rejected")
SubmitUnknown == \E fate \in {"lost", "accepted", "rejected"} : Submit("unknown_wake", fate)

(* Otherwise: start the earliest due collector, one at a time.             *)
Nothing == \E ready \in BOOLEAN : \A o \in DOMAIN mem.occs : ~Actionable(o, ready)
Due(p) ==
  /\ Kind[p] # "native" /\ mem.plans[p].status = "active" /\ mem.plans[p].next <= now
  /\ ~Pending(mem, p) /\ ~UnknownEvent(mem, EventOf[p])
  /\ mem.plans[p].lastWake = 0 \/ now >= mem.plans[p].lastWake + Cooldown[p]
DuePlans == {p \in DOMAIN mem.plans : Due(p)}
Earliest(p) == p \in DuePlans /\ \A q \in DuePlans : mem.plans[p].next <= mem.plans[q].next

StartCollection(p) ==
  /\ pc.at = "scan" /\ Nothing /\ running = 0
  /\ Earliest(p) /\ mem.last + 2 <= MaxOcc
  /\ Commit([AddOcc(mem, "collecting", p, 0, now + WakeLife)
               EXCEPT !.plans[p].next = IF Kind[p] = "after" THEN @ ELSE now + Seconds[p]],
            [At("spawn") EXCEPT !.occ = mem.last + 1])
  /\ UNCHANGED <<now, doubt, world>>

EndTick ==
  /\ pc.at = "scan" /\ Nothing
  /\ pc' = At("idle")
  /\ UNCHANGED <<mem, disk, running, result, now, crashes, doubt, world>>

(* The collector runs outside Engine.mu, under a 15-second deadline.       *)
Spawn ==
  /\ pc.at = "spawn"
  /\ running' = pc.occ /\ doubt' = doubt \cup {EventOf[mem.occs[pc.occ].plan]}
  /\ pc' = At("idle")
  /\ UNCHANGED <<mem, disk, result, now, crashes, world>>

Collect ==
  /\ running # 0 /\ result = "none"
  /\ result' \in Results(mem.occs[running].plan)
  /\ UNCHANGED <<mem, disk, pc, running, now, crashes, doubt, world>>

(***************************************************************************)
(* The tools' operations.                                                  *)
(***************************************************************************)
Operation(s) == Commit(s, At("idle")) /\ UNCHANGED <<now, doubt, native, sent>>

(* Register and Save clean up first, even when they then refuse or find    *)
(* the id already bound: that clean-up is not written.                     *)
Unsaved ==
  /\ Idle
  /\ mem' \in Cleanups(mem)
  /\ UNCHANGED <<disk, pc, running, result, now, crashes, doubt, world>>

(* A native plan's event has an id of its own, derived from the plan's.    *)
Register(v) ==
  /\ Idle /\ \A p \in Plan : EventOf[p] = v => Kind[p] # "native"
  /\ \E s \in Cleanups(mem) :
       /\ v \notin DOMAIN s.events /\ EventCapacity(s)
       /\ Operation([s EXCEPT !.events = With(@, v, "live")])
  /\ UNCHANGED grants

NewPlan(p, next) ==
  [status |-> "active", failures |-> 0, next |-> next, expires |-> next + Lifetime[p],
   lastWake |-> 0, retired |-> FALSE]

(* Save asks for the grant before it writes: the grant can outlive a       *)
(* failed write.                                                           *)
Save(p) ==
  /\ Idle /\ Kind[p] # "native"
  /\ \E s \in Cleanups(mem) :
       /\ p \notin DOMAIN s.plans /\ PlanCapacity(s)
       /\ EventOf[p] \in DOMAIN s.events /\ s.events[EventOf[p]] = "live"
       /\ Operation([s EXCEPT !.plans = With(@, p, NewPlan(p,
            IF Kind[p] = "completion" THEN now ELSE now + Seconds[p]))])
  /\ grants' = grants \cup {GrantOf[p]}

(* A native plan brings its own event, whose id must not be retained.      *)
SaveNative(p) ==
  /\ Idle /\ Kind[p] = "native" /\ p \notin Imported
  /\ p \notin DOMAIN mem.plans /\ EventOf[p] \notin DOMAIN mem.events
  /\ PlanCapacity(mem) /\ EventCapacity(mem)
  /\ Operation([mem EXCEPT !.plans = With(@, p, NewPlan(p, now)),
                           !.events = With(@, EventOf[p], "live")])
  /\ grants' = grants \cup {GrantOf[p]}

Remove(p) ==
  /\ Idle /\ p \in DOMAIN mem.plans \cap Removable
  /\ Operation(SetPlan(Restatus(mem, [o \in DOMAIN mem.occs |->
       IF mem.occs[o].plan = p /\ mem.occs[o].status = "pending" THEN "cancelled"
       ELSE mem.occs[o].status]), p, "cancelled"))
  /\ UNCHANGED grants

ArchiveEvent(v) ==
  /\ Idle /\ v \in DOMAIN mem.events
  /\ \A p \in DOMAIN mem.plans : EventOf[p] = v => ~Holding(mem, p)
  /\ Operation([mem EXCEPT !.events[v] = IF @ = "retired" THEN "retired" ELSE "archived"])
  /\ UNCHANGED grants

ConfigurePolicy(y) ==
  /\ Idle /\ mem.policy # y
  /\ Operation([mem EXCEPT !.policy = y])
  /\ UNCHANGED grants

(* ReceiveNative: an observation newer than the watermark goes to every    *)
(* native plan that is free to take it, one after the other; watermark and *)
(* occurrences share one write.  A cancelled context leaves them unwritten.*)
ReceptiveAgain(p) ==                                            \* mutant
  Kind[p] = "native" /\ mem.plans[p].status = "active" /\ now < mem.plans[p].expires
Receptive(p) ==
  /\ Kind[p] = "native" /\ mem.plans[p].status = "active" /\ now < mem.plans[p].expires
  /\ ~Pending(mem, p)
  /\ mem.plans[p].lastWake = 0 \/ now >= mem.plans[p].lastWake + Cooldown[p]

ReceiveNative(t) ==
  /\ Idle \/ (pc.at = "ingest" /\ pc.todo = {})
  /\ mem.watermark < t /\ t <= now
  /\ mem' = [mem EXCEPT !.watermark = t]
  /\ pc' = [At("ingest") EXCEPT !.todo = {p \in DOMAIN mem.plans : Receptive(p)}]
  /\ UNCHANGED <<disk, running, result, now, crashes, doubt, world>>

Observe(p, r) ==
  /\ pc.at = "ingest" /\ p \in pc.todo /\ mem.last < MaxOcc
  /\ LET s == AddOcc(mem, "collecting", p, 0, now + Pendency[p])
     IN  mem' = FinishCollection(s, s.last, r) /\ Room(mem')
  /\ pc' = [pc EXCEPT !.todo = @ \ {p}]
  /\ UNCHANGED <<disk, running, result, now, crashes, doubt, world>>

Ingested ==
  /\ pc.at = "ingest" /\ (pc.todo = {} \/ mem.last + 2 > MaxOcc)
  /\ Commit(mem, At("idle")) \/ (pc' = At("idle") /\ UNCHANGED <<mem, disk, running, result, crashes>>)
  /\ UNCHANGED <<now, doubt, world>>

(***************************************************************************)
(* The world: the clock, and turns that end at the Runtime.                *)
(***************************************************************************)
Clock ==
  /\ pc.at \in {"down", "idle"} /\ now < MaxTime
  /\ now' = now + 1
  /\ UNCHANGED <<mem, disk, pc, running, result, crashes, doubt, world>>

NativeFinish(o) ==
  /\ native[o] = "accepted"
  /\ native' = [native EXCEPT ![o] = "finished"]
  /\ UNCHANGED <<mem, disk, pc, running, result, now, crashes, doubt, sent, grants>>

Opening == OpenQuiet \/ (\E o \in InterruptedLive : OpenInterrupted(o))
Starting == Migrate \/ SkipMigration
Scanning ==
  \/ \E o \in DOMAIN mem.occs : Expire(o) \/ CancelMoot(o) \/ Dispatch(o)
  \/ \E p \in DOMAIN mem.plans : StartCollection(p)
  \/ EndTick
Submitting == SubmitDeferred \/ SubmitAccepted \/ SubmitRejected \/ SubmitUnknown
Ingesting == (\E p \in pc.todo : \E r \in Results(p) : Observe(p, r)) \/ Ingested

(* What the engine does on its own while the process lives ...             *)
Engine == Starting \/ TickBegin \/ Scanning \/ Submitting \/ Spawn \/ Ingesting

(* ... and what users, collectors, the Runtime and failures do to it.      *)
Environment ==
  \/ Opening \/ Crash \/ Collect \/ Clock
  \/ \E o \in Occ : NativeFinish(o)
  \/ Unsaved
  \/ \E v \in Event : Register(v) \/ ArchiveEvent(v)
  \/ \E p \in Plan : Save(p) \/ SaveNative(p) \/ Remove(p)
  \/ \E y \in Policies : ConfigurePolicy(y)
  \/ \E t \in 1..MaxTime : ReceiveNative(t)

Next == Engine \/ Environment

Spec == Init /\ [][Next]_vars

(***************************************************************************)
(* Properties.                                                             *)
(***************************************************************************)

(* The ledgers keep their shape, and Engine.mu its protocol.               *)
LedgerOK(s) ==
  /\ DOMAIN s.plans \subseteq Plan /\ s.plans \in [DOMAIN s.plans -> PlanRec]
  /\ DOMAIN s.events \subseteq Event /\ s.events \in [DOMAIN s.events -> EventStatus]
  /\ DOMAIN s.occs \subseteq Occ /\ s.occs \in [DOMAIN s.occs -> OccRec]
  /\ s.last \in 0..MaxOcc
  /\ s.attempts \subseteq Occ \X Nat
  /\ s.policy \in Policies /\ s.watermark \in Nat /\ s.migrated \in BOOLEAN
TypeOK ==
  /\ LedgerOK(mem) /\ LedgerOK(disk)
  /\ pc \in [at : PCAt, occ : 0..MaxOcc, prev : Nat, todo : SUBSET Plan]
  /\ running \in 0..MaxOcc
  /\ result \in {"none", "match", "nomatch", "nonterminal", "condition_error", "failed", "lost"}
  /\ now \in Nat /\ crashes \in Nat
  /\ native \in [Occ -> NativeState] /\ sent \in [Occ -> Seq(Nat)]
  /\ doubt \subseteq Event /\ grants \subseteq Grant

(* Whatever was written, even by a write that reported failure, can be     *)
(* opened again: no arrangement lost its collector, no occurrence its      *)
(* arrangement, no maintenance wake the original it asks to read, no       *)
(* unfinished arrangement has an archived collector (event_unavailable     *)
(* cannot happen), and one collection at most was in flight.               *)
Reopenable ==
  /\ Valid(disk)
  /\ \A o \in DOMAIN disk.occs : disk.occs[o].for # 0 => disk.occs[o].for \in DOMAIN disk.occs
  /\ \A p \in DOMAIN disk.plans : ~Finished(disk, p) => disk.events[EventOf[p]] = "live"
  /\ Cardinality(Interrupted(disk)) <= 1

(* Each occurrence is submitted to the Runtime at most once, not counting  *)
(* submissions it proved to have created nothing: not after a lost answer, *)
(* a failed write, or a crash on either side of the call.                  *)
AtMostOneWake == \A o \in Occ : Len(sent[o]) <= 1

(* An uncertain collection is never executed again: no collector starts    *)
(* while its event has one running, or one that ended, or may have, without*)
(* a confirmed outcome, in this process or before a crash.                 *)
UncertainNeverRerun ==
  [][running' # running /\ running' # 0
       => running = 0 /\ EventOf[mem.occs[running'].plan] \notin doubt]_vars

(* A one-shot arrangement collects once, whatever fails and restarts.      *)
OneShotOnce ==
  \A p \in DOMAIN mem.plans :
    Kind[p] = "after" => Cardinality({o \in OccsOf(mem, p) : mem.occs[o].for = 0}) <= 1

(* An arrangement has at most one open occurrence and one open maintenance *)
(* wake, and an original gets one maintenance wake, across restarts.       *)
OneOpenReceipt ==
  /\ \A p \in DOMAIN mem.plans :
       LET open == {o \in OccsOf(mem, p) : Unresolved(mem, o)}
       IN  /\ Cardinality({o \in open : mem.occs[o].for = 0}) <= 1
           /\ Cardinality({o \in open : mem.occs[o].for # 0}) <= 1
  /\ \A x, y \in DOMAIN mem.occs : mem.occs[x].for # 0 /\ mem.occs[x].for = mem.occs[y].for => x = y

(* A cancelled or otherwise finished arrangement stays finished on disk,   *)
(* whatever its in-flight collector answers, until it is retired.          *)
DurableFinality ==
  [][\A p \in DOMAIN disk.plans \cap DOMAIN disk'.plans :
       Finished(disk, p) /\ ~disk.plans[p].retired => Finished(disk', p)]_vars

(* Wakes the Runtime may have seen respect the budget of the rolling       *)
(* window and the gap, across deferrals, failures and restarts.            *)
Wakes(o, t) == {x \in Occ : sent[x] # <<>> /\ x # o /\ sent[x][1] >= 1 /\ sent[x][1] > t - Window}
WakeBudget ==
  [][\A o \in Occ : sent'[o] # sent[o] =>
       /\ Cardinality(Wakes(o, now)) < mem.policy.max
       /\ \A x \in Wakes(o, now) : now >= sent[x][1] + mem.policy.gap]_vars

(* A grant is revoked only when, in the ledger the engine goes on with, no *)
(* arrangement that relies on it is unfinished or waits for a receipt: not *)
(* when another arrangement shares the legacy grant.                       *)
RevokesSettled ==
  [][pc'.at # "down" => \A p \in DOMAIN mem'.plans :
       GrantOf[p] \in grants \ grants' => ~Holding(mem', p)]_vars

(* "Retire native grants after the last unresolved receipt has settled":   *)
(* an arrangement that still has work or receipts open has its grant.      *)
GrantOutlivesReceipts ==
  pc.at # "down" =>
    \A p \in DOMAIN mem.plans : Holding(mem, p) => GrantOf[p] \in grants

(* A pending wake whose expiry lies within the clock's range leaves the    *)
(* queue, unless storage fails or the process dies.                        *)
Queued(o) == /\ o \in DOMAIN mem.occs /\ mem.occs[o].status = "pending"
             /\ mem.occs[o].expires <= MaxTime
PendingSettles ==
  \A o \in Occ : Queued(o) ~> (~Queued(o) \/ pc.at = "down")

(* The resident keeps ticking while its process lives.  Time passes; it is *)
(* strong fairness only because the model stops the clock within a tick.   *)
FairSpec == Spec /\ WF_vars(Engine) /\ SF_vars(Clock)
=============================================================================
