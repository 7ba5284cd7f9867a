-------------------------- MODULE EventPlanProofs --------------------------
(***************************************************************************)
(* Proofs about EventPlan, for every set of arrangements, events, grants   *)
(* and policies, every timing, and any number of occurrences and restarts. *)
(***************************************************************************)
EXTENDS EventPlan, FiniteSetTheorems, TLAPS

(***************************************************************************)
(* The inductive invariant.                                                *)
(***************************************************************************)
Fields == {"plans", "events", "occs", "last", "attempts", "policy", "watermark", "migrated"}

(* What holds of a ledger by itself.  Before the migration neither the     *)
(* legacy plans nor the ids of their activations are in use.               *)
Sound(s) ==
  /\ DOMAIN s = Fields /\ LedgerOK(s)
  /\ DOMAIN s.occs \subseteq 1..s.last /\ s.last >= Cardinality(Imported)
  /\ \A o \in DOMAIN s.occs : s.occs[o].plan \in DOMAIN s.plans
  /\ \A p \in DOMAIN s.plans : ~Finished(s, p) => s.plans[p].failures < MaxFailures
  /\ ~s.migrated => /\ \A o \in DOMAIN s.occs : o > Cardinality(Imported)
                    /\ DOMAIN s.plans \cap Imported = {}

(* A finished plan stays in the ledger, finished, until it is retired.     *)
FinalKept(s, t) ==
  \A p \in DOMAIN s.plans : Finished(s, p) /\ ~s.plans[p].retired =>
    p \in DOMAIN t.plans /\ Finished(t, p) /\ ~t.plans[p].retired

(* Ledger t follows ledger s: ids are not used again, and no occurrence    *)
(* becomes startable again.                                                *)
Startable == {"pending", "collecting"}
Follows(s, t) ==
  /\ s.last <= t.last /\ t.migrated = s.migrated
  /\ \A o \in DOMAIN t.occs :
       /\ o \in DOMAIN s.occs \/ o > s.last
       /\ o \in DOMAIN s.occs /\ s.occs[o].status \notin Startable => t.occs[o].status \notin Startable
  /\ FinalKept(s, t)

(* Collections in doubt, except x, are left alone.                         *)
Keeps(s, t, x) ==
  \A o \in DOMAIN s.occs \ {x} : s.occs[o].status \in {"collecting", "unknown"} =>
    /\ o \in DOMAIN t.occs /\ t.occs[o].status = s.occs[o].status
    /\ t.occs[o].plan = s.occs[o].plan

(* What was submitted is not startable in ledger s, nor an id to come; the *)
(* legacy wakes to migrate were not submitted.                             *)
SentIn(s, f) ==
  /\ \A o \in Occ : f[o] # <<>> =>
       o <= s.last /\ (o \in DOMAIN s.occs => s.occs[o].status \notin Startable)
  /\ ~s.migrated => \A p \in Imported : Legacy[p].saved = "pending" => f[ImportOcc[p]] = <<>>
SentBefore(s) == SentIn(s, sent)

Ledgers ==
  /\ Sound(mem) /\ Sound(disk) /\ mem.migrated = disk.migrated /\ FinalKept(disk, mem)
  /\ pc.at \in {"down", "submit", "spawn"} => mem = disk
SentOnce ==
  /\ SentBefore(mem) /\ SentBefore(disk)
  /\ \A o \in Occ : Len(sent[o]) <= 1
Submits ==
  pc.at = "submit" => /\ pc.occ \in DOMAIN mem.occs /\ mem.occs[pc.occ].status = "dispatching"
                      /\ sent[pc.occ] = <<>>
InDoubt == \A v \in doubt : UnknownEvent(mem, v) /\ UnknownEvent(disk, v)
Spawning ==
  pc.at = "spawn" => /\ running = 0
                     /\ pc.occ \in DOMAIN mem.occs /\ mem.occs[pc.occ].status = "collecting"
                     /\ EventOf[mem.occs[pc.occ].plan] \notin doubt
Running ==
  /\ running # 0 => running \in DOMAIN mem.occs /\ mem.occs[running].status = "collecting"
  /\ result # "none" => running # 0
  /\ pc.at = "down" => running = 0
Ingests == pc.at = "ingest" => pc.todo \subseteq DOMAIN mem.plans

Inv == TypeOK /\ Ledgers /\ SentOnce /\ Submits /\ InDoubt /\ Spawning /\ Running /\ Ingests

(***************************************************************************)
(* Relations between ledgers.                                              *)
(***************************************************************************)
(* There are as many ids as legacy plans.                                  *)
LEMMA ImportedFit == Cardinality(Imported) \in 0..MaxOcc
<1>1. IsFiniteSet(1..MaxOcc) /\ Cardinality(1..MaxOcc) = MaxOcc
  BY FS_Interval, Timing
<1>2. ImportOcc \in Injection(Imported, 1..MaxOcc)
  BY Identities DEF Injection, IsInjective, Occ
<1>3. Cardinality(Imported) <= MaxOcc
  BY <1>1, <1>2, FS_Injection
<1> QED
  BY <1>3, Identities, FS_CardinalityType, Timing

(* A ledger follows itself, and following is transitive.                   *)
LEMMA FollowsSelf == \A s : Sound(s) => Follows(s, s) /\ Keeps(s, s, 0)
BY DEF Sound, LedgerOK, Follows, FinalKept, Keeps

LEMMA FollowsOn ==
  ASSUME NEW s, NEW t, NEW u, Sound(s), Sound(t), Sound(u), Follows(s, t), Follows(t, u)
  PROVE  Follows(s, u)
<1>1. FinalKept(s, u)
  BY DEF Follows, FinalKept
<1>2. s.last <= u.last /\ u.migrated = s.migrated
  BY DEF Follows, Sound, LedgerOK
<1>3. ASSUME NEW o \in DOMAIN u.occs
      PROVE  /\ o \in DOMAIN s.occs \/ o > s.last
             /\ o \in DOMAIN s.occs /\ s.occs[o].status \notin Startable => u.occs[o].status \notin Startable
  BY <1>3 DEF Follows, Sound, LedgerOK, Occ
<1> QED
  BY <1>1, <1>2, <1>3 DEF Follows

(* So it is with what is kept.                                             *)
LEMMA KeepsAll ==
  ASSUME NEW s, NEW t, Sound(s), Keeps(s, t, 0) PROVE \A x : Keeps(s, t, x)
BY DEF Keeps, Sound

LEMMA KeepsOn ==
  ASSUME NEW s, NEW t, NEW u, NEW x, Keeps(s, t, x), Keeps(t, u, x)
  PROVE  Keeps(s, u, x)
BY DEF Keeps

(* The records of a sound ledger.                                          *)
LEMMA SoundRecords ==
  ASSUME NEW s, Sound(s)
  PROVE  /\ \A p \in DOMAIN s.plans : p \in Plan /\ s.plans[p] \in PlanRec
         /\ \A o \in DOMAIN s.occs : o \in Occ /\ s.occs[o] \in OccRec /\ s.occs[o].plan \in DOMAIN s.plans
BY DEF Sound, LedgerOK

(***************************************************************************)
(* What the operators on ledgers do.                                       *)
(***************************************************************************)
(* An occurrence with another status.                                      *)
LEMMA SetOccIs ==
  ASSUME NEW s, Sound(s), NEW o \in DOMAIN s.occs, NEW st \in OccStatus
  PROVE  /\ Sound(SetOcc(s, o, st))
         /\ s.occs[o].status \in Startable \/ st \notin Startable => Follows(s, SetOcc(s, o, st))
         /\ Keeps(s, SetOcc(s, o, st), o)
         /\ SetOcc(s, o, st).plans = s.plans /\ SetOcc(s, o, st).last = s.last
         /\ SetOcc(s, o, st).migrated = s.migrated
         /\ DOMAIN SetOcc(s, o, st).occs = DOMAIN s.occs
         /\ SetOcc(s, o, st).occs[o].status = st /\ SetOcc(s, o, st).occs[o].plan = s.occs[o].plan
         /\ \A x \in DOMAIN s.occs : x # o => SetOcc(s, o, st).occs[x] = s.occs[x]
<1> DEFINE t == SetOcc(s, o, st)
<1>1. /\ DOMAIN t = Fields /\ t.plans = s.plans /\ t.events = s.events /\ t.last = s.last
      /\ t.attempts = s.attempts /\ t.policy = s.policy
      /\ t.watermark = s.watermark /\ t.migrated = s.migrated
      /\ t.occs = [s.occs EXCEPT ![o].status = st]
  BY DEF SetOcc, Sound, Fields
<1>2. /\ DOMAIN t.occs = DOMAIN s.occs
      /\ t.occs[o] = [s.occs[o] EXCEPT !.status = st]
      /\ \A x \in DOMAIN s.occs : x # o => t.occs[x] = s.occs[x]
  BY <1>1 DEF Sound, LedgerOK
<1>3. s.occs[o] \in OccRec /\ t.occs \in [DOMAIN s.occs -> OccRec]
  BY <1>1 DEF Sound, LedgerOK, OccRec
<1>4. t.occs[o].plan = s.occs[o].plan /\ t.occs[o].status = st
  BY <1>2, <1>3 DEF OccRec
<1> HIDE DEF t
<1>5. Sound(t)
  BY <1>1, <1>2, <1>3, <1>4 DEF Sound, LedgerOK, Finished
<1>6. s.occs[o].status \in Startable \/ st \notin Startable => Follows(s, t)
  BY <1>1, <1>2, <1>4 DEF Sound, LedgerOK, Follows, FinalKept, Finished
<1>7. Keeps(s, t, o)
  BY <1>2 DEF Keeps
<1> QED
  BY <1>1, <1>2, <1>4, <1>5, <1>6, <1>7 DEF t

(* A new occurrence takes the next id.                                     *)
LEMMA AddOccIs ==
  ASSUME NEW s, Sound(s), s.last < MaxOcc, NEW st \in OccStatus,
         NEW p \in DOMAIN s.plans, NEW o \in 0..MaxOcc, NEW u \in Nat
  PROVE  LET t == AddOcc(s, st, p, o, u)
         IN  /\ Sound(t) /\ Follows(s, t) /\ Keeps(s, t, 0)
             /\ t.plans = s.plans /\ t.last = s.last + 1 /\ t.last \in DOMAIN t.occs
             /\ t.last \notin DOMAIN s.occs
             /\ t.occs[t.last].status = st /\ t.occs[t.last].plan = p
<1> DEFINE t == AddOcc(s, st, p, o, u)
<1>1. /\ DOMAIN t = Fields /\ t.plans = s.plans /\ t.events = s.events /\ t.last = s.last + 1
      /\ t.attempts = s.attempts /\ t.policy = s.policy
      /\ t.watermark = s.watermark /\ t.migrated = s.migrated
      /\ t.occs = With(s.occs, s.last + 1, [status |-> st, plan |-> p, for |-> o, expires |-> u])
  BY DEF AddOcc, Sound, Fields
<1>2. s.last \in Nat /\ s.last + 1 \in Occ /\ s.last + 1 \notin DOMAIN s.occs
  BY Timing DEF Sound, LedgerOK, Occ
<1>3. /\ DOMAIN t.occs = DOMAIN s.occs \cup {t.last}
      /\ t.occs[t.last] = [status |-> st, plan |-> p, for |-> o, expires |-> u]
      /\ \A x \in DOMAIN s.occs : t.occs[x] = s.occs[x]
  BY <1>1, <1>2 DEF With
<1>4. t.occs \in [DOMAIN t.occs -> OccRec]
  <2>1. [status |-> st, plan |-> p, for |-> o, expires |-> u] \in OccRec
    BY SoundRecords DEF OccRec
  <2> QED
    BY <1>1, <1>2, <2>1, SoundRecords DEF With
<1> HIDE DEF t
<1>5. Sound(t)
  BY <1>1, <1>2, <1>3, <1>4, ImportedFit DEF Sound, LedgerOK, Finished, Occ
<1>6. Follows(s, t)
  BY <1>1, <1>2, <1>3 DEF Sound, LedgerOK, Follows, FinalKept, Finished
<1>7. Keeps(s, t, 0)
  BY <1>3 DEF Keeps
<1> QED
  BY <1>1, <1>2, <1>3, <1>5, <1>6, <1>7 DEF t

(* One plan's record changes, and not back from finished.                  *)
OnlyPlan(s, t, p) ==
  /\ DOMAIN t = Fields /\ t.events = s.events /\ t.occs = s.occs /\ t.last = s.last
  /\ t.attempts = s.attempts /\ t.policy = s.policy
  /\ t.watermark = s.watermark /\ t.migrated = s.migrated
  /\ t.plans \in [DOMAIN s.plans -> PlanRec]
  /\ \A x \in DOMAIN s.plans \ {p} : t.plans[x] = s.plans[x]
  /\ t.plans[p].retired = s.plans[p].retired /\ (Finished(s, p) => Finished(t, p))

(* Such a change is sound and follows, twice too.                          *)
LEMMA OnlyPlanIs ==
  ASSUME NEW s, NEW t, NEW p \in DOMAIN s.plans, Sound(s), OnlyPlan(s, t, p),
         Finished(t, p) \/ t.plans[p].failures < MaxFailures
  PROVE  Sound(t) /\ Follows(s, t) /\ Keeps(s, t, 0)
<1>1. DOMAIN t.plans = DOMAIN s.plans
  BY DEF OnlyPlan
<1>2. \A x \in DOMAIN s.plans \ {p} : t.plans[x] = s.plans[x]
  BY DEF OnlyPlan
<1>3. Sound(t)
  BY <1>1, <1>2 DEF OnlyPlan, Sound, LedgerOK, Finished
<1>4. Follows(s, t)
  BY <1>1, <1>2 DEF OnlyPlan, Sound, LedgerOK, Follows, FinalKept, Finished
<1>5. Keeps(s, t, 0)
  BY DEF OnlyPlan, Keeps
<1> QED
  BY <1>3, <1>4, <1>5

LEMMA OnlyPlanOn ==
  ASSUME NEW s, NEW t, NEW u, NEW p \in DOMAIN s.plans, OnlyPlan(s, t, p), OnlyPlan(t, u, p)
  PROVE  OnlyPlan(s, u, p)
BY DEF OnlyPlan

(* Typed is enough, so that a count may reach the limit in between.        *)
LEMMA SetPlanOnly ==
  ASSUME NEW s, DOMAIN s = Fields, s.plans \in [DOMAIN s.plans -> PlanRec],
         NEW p \in DOMAIN s.plans, NEW st \in PlanStatus, st \in DoneStatus \/ ~Finished(s, p)
  PROVE  /\ OnlyPlan(s, SetPlan(s, p, st), p)
         /\ SetPlan(s, p, st).plans[p].status = st
         /\ SetPlan(s, p, st).plans[p].failures = s.plans[p].failures
<1> DEFINE t == SetPlan(s, p, st)
           q == [s.plans[p] EXCEPT !.status = st]
<1>1. /\ DOMAIN t = Fields /\ t.events = s.events /\ t.occs = s.occs /\ t.last = s.last
      /\ t.attempts = s.attempts /\ t.policy = s.policy
      /\ t.watermark = s.watermark /\ t.migrated = s.migrated
      /\ t.plans = [s.plans EXCEPT ![p] = q]
  BY DEF SetPlan, Fields
<1>2. q \in PlanRec /\ q.status = st /\ q.failures = s.plans[p].failures /\ q.retired = s.plans[p].retired
  BY DEF PlanRec
<1> HIDE DEF t, q
<1>3. /\ t.plans \in [DOMAIN s.plans -> PlanRec] /\ t.plans[p] = q
      /\ \A x \in DOMAIN s.plans \ {p} : t.plans[x] = s.plans[x]
  BY <1>1, <1>2
<1> QED
  BY <1>1, <1>2, <1>3 DEF OnlyPlan, Finished, t

(* A plan takes another status.                                            *)
LEMMA SetPlanIs ==
  ASSUME NEW s, Sound(s), NEW p \in DOMAIN s.plans, NEW st \in PlanStatus,
         st \in DoneStatus \/ ~Finished(s, p)
  PROVE  LET t == SetPlan(s, p, st)
         IN  OnlyPlan(s, t, p) /\ Sound(t) /\ Follows(s, t) /\ Keeps(s, t, 0)
<1> DEFINE t == SetPlan(s, p, st)
<1>1. OnlyPlan(s, t, p) /\ t.plans[p].status = st /\ t.plans[p].failures = s.plans[p].failures
  BY SetPlanOnly DEF Sound, LedgerOK
<1> HIDE DEF t
<1>2. Finished(t, p) \/ t.plans[p].failures < MaxFailures
  BY <1>1 DEF Finished, Sound
<1> QED
  BY <1>1, <1>2, OnlyPlanIs DEF t

(* A plan's failures are counted, or forgotten.                            *)
LEMMA FailuresIs ==
  ASSUME NEW s, Sound(s), NEW p \in DOMAIN s.plans, NEW n \in 0..MaxFailures
  PROVE  LET t == [s EXCEPT !.plans[p].failures = n]
         IN  /\ OnlyPlan(s, t, p) /\ t.plans[p].failures = n
             /\ Finished(t, p) = Finished(s, p)
<1> DEFINE q == [s.plans[p] EXCEPT !.failures = n]
           t == [s EXCEPT !.plans[p] = q]
<1>1. /\ DOMAIN t = Fields /\ t.events = s.events /\ t.occs = s.occs /\ t.last = s.last
      /\ t.attempts = s.attempts /\ t.policy = s.policy
      /\ t.watermark = s.watermark /\ t.migrated = s.migrated
      /\ t.plans = [s.plans EXCEPT ![p] = q]
  BY DEF Sound, Fields
<1>2. s.plans[p] \in PlanRec /\ s.plans \in [DOMAIN s.plans -> PlanRec]
  BY DEF Sound, LedgerOK
<1>3. /\ q \in PlanRec /\ q.failures = n
      /\ q.status = s.plans[p].status /\ q.retired = s.plans[p].retired
  BY <1>2 DEF PlanRec
<1> HIDE DEF t, q
<1>4. /\ t.plans \in [DOMAIN s.plans -> PlanRec] /\ t.plans[p] = q
      /\ \A x \in DOMAIN s.plans \ {p} : t.plans[x] = s.plans[x]
  BY <1>1, <1>2, <1>3
<1>5. t = [s EXCEPT !.plans[p].failures = n]
  BY DEF t, q
<1> QED
  BY <1>1, <1>3, <1>4, <1>5 DEF OnlyPlan, Finished

(* The maintenance wake about an occurrence.                               *)
LEMMA AttentionIs ==
  ASSUME NEW s, Sound(s), now \in Nat, NEW o \in DOMAIN s.occs, s.last < MaxOcc
  PROVE  LET t == Attention(s, o)
         IN  /\ Sound(t) /\ Follows(s, t) /\ Keeps(s, t, 0)
             /\ t.last = s.last + 1 /\ t.plans = s.plans
             /\ o \in DOMAIN t.occs /\ t.occs[o] = s.occs[o]
<1>1. /\ s.occs[o].plan \in DOMAIN s.plans /\ o \in 0..MaxOcc /\ now + WakeLife \in Nat
      /\ "pending" \in OccStatus
  BY SoundRecords, Timing DEF Occ, OccStatus, OpenStatus
<1>2. o \in DOMAIN Attention(s, o).occs /\ Attention(s, o).occs[o] = s.occs[o]
  BY DEF Attention, AddOcc, With, Sound, LedgerOK, Fields, Occ
<1> QED
  BY <1>1, <1>2, AddOccIs DEF Attention

(* Its id, for any record with the fields of a ledger.                     *)
LEMMA AttentionIds ==
  ASSUME NEW s, DOMAIN s = Fields, NEW o
  PROVE  /\ Attention(s, o).last = s.last + 1
         /\ DOMAIN Attention(s, o).occs = DOMAIN s.occs \cup {s.last + 1}
         /\ Attention(s, o).plans = s.plans
BY DEF Attention, AddOcc, With, Fields

(* A collector's answer.  It needs at most one new id, if there is one.    *)
LEMMA FinishFailedIs ==
  ASSUME NEW s, Sound(s), now \in Nat,
         NEW o \in DOMAIN s.occs, ~Finished(s, s.occs[o].plan),
         s.last < MaxOcc \/ FinishFailed(s, o).last = s.last
  PROVE  LET t == FinishFailed(s, o)
         IN  Sound(t) /\ Follows(s, t) /\ Keeps(s, t, o) /\ t.last <= s.last + 1
<1> DEFINE p == s.occs[o].plan
           n == s.plans[p].failures + 1
           u == SetOcc(s, o, "failed")
           t == [u EXCEPT !.plans[p].failures = @ + 1]
           w == SetPlan(t, p, "failed")
<1>1. Sound(u) /\ Follows(s, u) /\ Keeps(s, u, o) /\ u.plans = s.plans /\ u.last = s.last
      /\ o \in DOMAIN u.occs /\ u.occs[o].plan = p
  <2> HIDE DEF t, w, n
  <2>1. "failed" \in OccStatus /\ "failed" \notin Startable
    BY DEF OccStatus, DoneStatus, Startable
  <2> QED
    BY <2>1, SetOccIs
<1>2. p \in DOMAIN s.plans /\ s.plans[p] \in PlanRec /\ s.plans[p].failures < MaxFailures
  BY SoundRecords DEF Sound
<1>3. n \in 0..MaxFailures
  BY <1>2 DEF PlanRec, MaxFailures
<1>4. FinishFailed(s, o) = IF t.plans[p].failures >= MaxFailures \/ Kind[p] = "after"
                           THEN Attention(w, o) ELSE t
  BY DEF FinishFailed
<1> HIDE DEF p, u, n
<1>5. OnlyPlan(u, t, p) /\ t.plans[p].failures = n
  <2>1. t = [u EXCEPT !.plans[p].failures = n]
    BY <1>1 DEF n
  <2> HIDE DEF t, w
  <2>2. /\ OnlyPlan(u, [u EXCEPT !.plans[p].failures = n], p)
        /\ [u EXCEPT !.plans[p].failures = n].plans[p].failures = n
    <3>1. Sound(u) /\ p \in DOMAIN u.plans
      BY <1>1, <1>2
    <3> QED
      BY <1>3, <3>1, FailuresIs
  <2> QED
    BY <2>1, <2>2
<1> HIDE DEF t
<1>6. CASE t.plans[p].failures >= MaxFailures \/ Kind[p] = "after"
  <2>1. OnlyPlan(u, w, p) /\ Finished(w, p) /\ w.occs = u.occs /\ w.last = u.last
    <3>1. /\ DOMAIN t = Fields /\ t.plans \in [DOMAIN t.plans -> PlanRec] /\ p \in DOMAIN t.plans
          /\ "failed" \in PlanStatus /\ "failed" \in DoneStatus
      BY <1>1, <1>2, <1>5 DEF OnlyPlan, PlanStatus, DoneStatus
    <3>2. OnlyPlan(t, w, p) /\ w.plans[p].status = "failed"
      BY <3>1, SetPlanOnly
    <3>3. OnlyPlan(u, w, p)
      BY <1>1, <1>2, <1>5, <3>2, OnlyPlanOn
    <3> QED
      BY <3>1, <3>2, <3>3 DEF OnlyPlan, Finished
  <2> HIDE DEF w
  <2>2. Sound(w) /\ Follows(u, w) /\ Keeps(u, w, 0)
    BY <1>1, <1>2, <2>1, OnlyPlanIs
  <2>3. /\ Sound(Attention(w, o)) /\ Follows(w, Attention(w, o)) /\ Keeps(w, Attention(w, o), 0)
        /\ Attention(w, o).last = s.last + 1
    <3>1. Attention(w, o).last = s.last + 1
      BY <1>1, <2>1, <2>2, AttentionIds DEF Sound
    <3>2. w.last < MaxOcc /\ o \in DOMAIN w.occs
      BY <1>1, <1>4, <1>6, <2>1, <3>1 DEF Sound, LedgerOK
    <3> QED
      BY <2>2, <3>1, <3>2, AttentionIs
  <2>4. Follows(s, w)
    BY <1>1, <2>2, FollowsOn
  <2>5. Follows(s, Attention(w, o))
    BY <2>2, <2>3, <2>4, FollowsOn
  <2>6. Keeps(u, w, o) /\ Keeps(w, Attention(w, o), o)
    BY <1>1, <2>2, <2>3, KeepsAll
  <2>7. Keeps(s, Attention(w, o), o)
    BY <1>1, <2>6, KeepsOn
  <2> QED
    BY <1>4, <1>6, <2>3, <2>5, <2>7 DEF Sound, LedgerOK
<1>7. CASE ~(t.plans[p].failures >= MaxFailures \/ Kind[p] = "after")
  <2>1. t.plans[p].failures < MaxFailures /\ p \in DOMAIN u.plans
    BY <1>1, <1>2, <1>3, <1>5, <1>7 DEF MaxFailures
  <2>2. Sound(t) /\ Follows(u, t) /\ Keeps(u, t, o) /\ t.last = s.last
    BY <1>1, <1>5, <2>1, OnlyPlanIs, KeepsAll DEF OnlyPlan
  <2>3. Follows(s, t) /\ Keeps(s, t, o)
    BY <1>1, <2>2, FollowsOn, KeepsOn
  <2> QED
    BY <1>4, <1>7, <2>2, <2>3 DEF Sound, LedgerOK
<1> QED
  BY <1>6, <1>7

(* An answer of a plan that goes on.                                       *)
LEMMA FinishSeenIs ==
  ASSUME NEW s, Sound(s), now \in Nat, NEW r,
         NEW o \in DOMAIN s.occs, s.occs[o].status = "collecting", ~Finished(s, s.occs[o].plan),
         s.last < MaxOcc \/ FinishSeen(s, o, r).last = s.last
  PROVE  LET t == FinishSeen(s, o, r)
         IN  Sound(t) /\ Follows(s, t) /\ Keeps(s, t, o) /\ t.last <= s.last + 1
<1> DEFINE p == s.occs[o].plan
           t == [s EXCEPT !.plans[p].failures = 0]
           u == SetOcc(t, o, "failed")
           w == SetPlan(u, p, "failed")
<1>1. FinishSeen(s, o, r) =
        CASE r = "match"       -> SetOcc(t, o, "pending")
          [] r = "nomatch"     -> SetOcc(t, o, "filtered")
          [] r = "nonterminal" -> SetOcc(t, o, "waiting")
          [] OTHER             -> Attention(w, o)
  BY DEF FinishSeen
<1>2. /\ Sound(t) /\ Follows(s, t) /\ Keeps(s, t, o) /\ t.last = s.last /\ t.occs = s.occs
      /\ p \in DOMAIN t.plans /\ ~Finished(t, p)
  <2>1. 0 \in 0..MaxFailures /\ 0 < MaxFailures
    BY DEF MaxFailures
  <2>2. p \in DOMAIN s.plans
    BY SoundRecords
  <2>3. OnlyPlan(s, t, p) /\ t.plans[p].failures = 0 /\ Finished(t, p) = Finished(s, p)
    BY <2>1, <2>2, FailuresIs
  <2> HIDE DEF t, u, w
  <2> QED
    BY <2>1, <2>2, <2>3, OnlyPlanIs, KeepsAll DEF OnlyPlan
<1> HIDE DEF t
<1>3. ASSUME NEW st \in OccStatus
      PROVE  LET x == SetOcc(t, o, st)
             IN  Sound(x) /\ Follows(s, x) /\ Keeps(s, x, o) /\ x.last = s.last /\ o \in DOMAIN x.occs
                 /\ x.occs[o].plan = p /\ x.plans = t.plans
  <2> DEFINE x == SetOcc(t, o, st)
  <2>1. o \in DOMAIN t.occs /\ t.occs[o].status \in Startable
    BY <1>2 DEF Startable
  <2>2. /\ Sound(x) /\ Follows(t, x) /\ Keeps(t, x, o) /\ x.last = t.last
        /\ o \in DOMAIN x.occs /\ x.occs[o].plan = t.occs[o].plan /\ x.plans = t.plans
    BY <1>2, <2>1, SetOccIs
  <2> HIDE DEF x
  <2>3. Follows(s, x) /\ Keeps(s, x, o)
    BY <1>2, <2>2, FollowsOn, KeepsOn
  <2> QED
    BY <1>2, <2>2, <2>3 DEF x
<1>4. {"pending", "filtered", "waiting", "failed"} \subseteq OccStatus
  BY DEF OccStatus, OpenStatus, DoneStatus
<1>5. CASE r \in {"match", "nomatch", "nonterminal"}
  <2>1. \E st \in OccStatus : FinishSeen(s, o, r) = SetOcc(t, o, st)
    BY <1>1, <1>4, <1>5
  <2> QED
    BY <1>3, <2>1 DEF Sound, LedgerOK
<1>6. CASE r \notin {"match", "nomatch", "nonterminal"}
  <2>1. FinishSeen(s, o, r) = Attention(w, o)
    BY <1>1, <1>6
  <2>2. /\ Sound(u) /\ Follows(s, u) /\ Keeps(s, u, o) /\ u.last = s.last
        /\ o \in DOMAIN u.occs /\ u.occs[o].plan = p /\ p \in DOMAIN u.plans
    BY <1>2, <1>3, <1>4
  <2> HIDE DEF u
  <2>3. /\ Sound(w) /\ Follows(u, w) /\ Keeps(u, w, o) /\ w.last = s.last /\ o \in DOMAIN w.occs
    <3>1. "failed" \in PlanStatus /\ "failed" \in DoneStatus
      BY DEF PlanStatus, DoneStatus
    <3> QED
      BY <2>2, <3>1, SetPlanIs, KeepsAll DEF OnlyPlan
  <2> HIDE DEF w
  <2>4. s.last < MaxOcc
    BY <2>1, <2>3, AttentionIds DEF Sound, LedgerOK
  <2>5. /\ Sound(Attention(w, o)) /\ Follows(w, Attention(w, o)) /\ Keeps(w, Attention(w, o), o)
        /\ Attention(w, o).last = s.last + 1
    BY <2>3, <2>4, AttentionIs, KeepsAll
  <2>6. Follows(s, w) /\ Keeps(s, w, o)
    BY <2>2, <2>3, FollowsOn, KeepsOn
  <2>7. Follows(s, Attention(w, o)) /\ Keeps(s, Attention(w, o), o)
    BY <2>3, <2>5, <2>6, FollowsOn, KeepsOn
  <2> QED
    BY <2>1, <2>5, <2>7 DEF Sound, LedgerOK
<1> QED
  BY <1>5, <1>6

(* Any answer: the occurrence is no longer startable, and a lost one stays *)
(* in doubt.                                                               *)
LEMMA FinishIs ==
  ASSUME NEW s, Sound(s), now \in Nat, NEW r,
         NEW o \in DOMAIN s.occs, s.occs[o].status = "collecting",
         s.last < MaxOcc \/ FinishCollection(s, o, r).last = s.last
  PROVE  LET t == FinishCollection(s, o, r)
         IN  /\ Sound(t) /\ Follows(s, t) /\ Keeps(s, t, o) /\ t.last <= s.last + 1
             /\ r = "lost" => /\ o \in DOMAIN t.occs /\ t.occs[o].status = "unknown"
                              /\ t.occs[o].plan = s.occs[o].plan
<1> DEFINE p == s.occs[o].plan
           t == FinishCollection(s, o, r)
           u == SetOcc(s, o, "unknown")
           w == SetPlan(u, p, "suspended")
<1>1. ASSUME NEW st \in OccStatus
      PROVE  LET x == SetOcc(s, o, st)
             IN  Sound(x) /\ Follows(s, x) /\ Keeps(s, x, o) /\ x.last = s.last /\ o \in DOMAIN x.occs
                 /\ x.occs[o].plan = p /\ x.occs[o].status = st /\ x.plans = s.plans
  BY SetOccIs DEF Startable
<1>2. "unknown" \in OccStatus /\ "cancelled" \in OccStatus /\ s.last \in Nat /\ p \in DOMAIN s.plans
  BY SoundRecords DEF OccStatus, OpenStatus, DoneStatus, Sound, LedgerOK
<1>3. CASE Finished(s, p)
  <2>1. t = SetOcc(s, o, IF r = "lost" THEN "unknown" ELSE "cancelled")
    BY <1>3 DEF FinishCollection
  <2> QED
    BY <1>1, <1>2, <2>1
<1>4. CASE ~Finished(s, p) /\ r = "failed"
  <2>1. t = FinishFailed(s, o)
    BY <1>4 DEF FinishCollection
  <2> QED
    BY <1>4, <2>1, FinishFailedIs
<1>5. CASE ~Finished(s, p) /\ r = "lost"
  <2>1. t = Attention(w, o)
    BY <1>5 DEF FinishCollection
  <2>2. Sound(u) /\ Follows(s, u) /\ Keeps(s, u, o) /\ u.last = s.last /\ o \in DOMAIN u.occs
        /\ u.occs[o].plan = p /\ u.occs[o].status = "unknown" /\ p \in DOMAIN u.plans
        /\ ~Finished(u, p)
    BY <1>1, <1>2, <1>5 DEF Finished
  <2> HIDE DEF u
  <2>3. /\ Sound(w) /\ Follows(u, w) /\ Keeps(u, w, o) /\ w.last = s.last /\ w.occs = u.occs
    <3>1. "suspended" \in PlanStatus
      BY DEF PlanStatus
    <3> QED
      BY <2>2, <3>1, SetPlanIs, KeepsAll DEF OnlyPlan
  <2> HIDE DEF w
  <2>4. s.last < MaxOcc
    BY <1>2, <2>1, <2>3, AttentionIds DEF Sound
  <2>5. /\ Sound(Attention(w, o)) /\ Follows(w, Attention(w, o)) /\ Keeps(w, Attention(w, o), o)
        /\ Attention(w, o).last = s.last + 1
        /\ o \in DOMAIN Attention(w, o).occs /\ Attention(w, o).occs[o] = u.occs[o]
    BY <2>2, <2>3, <2>4, AttentionIs, KeepsAll
  <2>6. Follows(s, w) /\ Keeps(s, w, o)
    BY <2>2, <2>3, FollowsOn, KeepsOn
  <2>7. Follows(s, Attention(w, o)) /\ Keeps(s, Attention(w, o), o)
    BY <2>3, <2>5, <2>6, FollowsOn, KeepsOn
  <2> HIDE DEF t, p
  <2> QED
    BY <1>2, <2>1, <2>2, <2>5, <2>7 DEF t, p
<1>6. CASE ~Finished(s, p) /\ r \notin {"failed", "lost"}
  <2>1. t = FinishSeen(s, o, r)
    BY <1>6 DEF FinishCollection
  <2> QED
    BY <1>6, <2>1, FinishSeenIs
<1> QED
  BY <1>3, <1>4, <1>5, <1>6

(* Whatever the answer, the ids stay those in use, with one more at most.  *)
LEMMA FinishIds ==
  ASSUME NEW s, Sound(s), NEW r, NEW o \in DOMAIN s.occs
  PROVE  LET t == FinishCollection(s, o, r)
         IN  /\ t.last \in {s.last, s.last + 1} /\ DOMAIN t.occs \subseteq 1..(s.last + 1)
             /\ DOMAIN t.plans = DOMAIN s.plans
<1> DEFINE Ids(t) == /\ DOMAIN t = Fields /\ t.last = s.last /\ DOMAIN t.occs = DOMAIN s.occs
                     /\ DOMAIN t.plans = DOMAIN s.plans
<1>1. \A t, st : Ids(t) => Ids(SetOcc(t, o, st))
  BY DEF SetOcc, Fields
<1>2. \A t, p, st : Ids(t) => Ids(SetPlan(t, p, st))
  BY DEF SetPlan, Fields
<1>3. \A t, p, n : Ids(t) => Ids([t EXCEPT !.plans[p].failures = n])
  BY DEF Fields
<1>4. Ids(s)
  BY DEF Sound
<1>5. s.last \in Nat /\ DOMAIN s.occs \subseteq 1..s.last
  BY DEF Sound, LedgerOK
<1>6. \A t : Ids(t) => /\ Attention(t, o).last = s.last + 1
                       /\ DOMAIN Attention(t, o).occs = DOMAIN s.occs \cup {s.last + 1}
                       /\ DOMAIN Attention(t, o).plans = DOMAIN s.plans
  BY AttentionIds
<1> HIDE DEF Ids
<1> DEFINE Fits(t) == /\ t.last \in {s.last, s.last + 1} /\ DOMAIN t.occs \subseteq 1..(s.last + 1)
                      /\ DOMAIN t.plans = DOMAIN s.plans
<1>7. \A t : Ids(t) => Fits(t) /\ Fits(Attention(t, o))
  BY <1>5, <1>6 DEF Ids
<1> HIDE DEF Fits
<1>8. Fits(FinishFailed(s, o))
  BY <1>1, <1>2, <1>3, <1>4, <1>7 DEF FinishFailed
<1>9. Fits(FinishSeen(s, o, r))
  <2> DEFINE v == [s EXCEPT !.plans[s.occs[o].plan].failures = 0]
  <2>1. Ids(v)
    BY <1>3, <1>4
  <2>2. FinishSeen(s, o, r) =
          CASE r = "match"       -> SetOcc(v, o, "pending")
            [] r = "nomatch"     -> SetOcc(v, o, "filtered")
            [] r = "nonterminal" -> SetOcc(v, o, "waiting")
            [] OTHER             -> Attention(SetPlan(SetOcc(v, o, "failed"), s.occs[o].plan, "failed"), o)
    BY DEF FinishSeen
  <2> HIDE DEF v
  <2>3. \A st : Ids(SetOcc(v, o, st)) /\ \A p : Ids(SetPlan(SetOcc(v, o, st), p, "failed"))
    BY <1>1, <1>2, <2>1
  <2> QED
    BY <1>7, <2>2, <2>3
<1>10. Fits(FinishCollection(s, o, r))
  BY <1>1, <1>2, <1>4, <1>7, <1>8, <1>9 DEF FinishCollection
<1> QED
  BY <1>10 DEF Fits

(* Cleaning finishes plans, and never the other way round.                 *)
LEMMA CleanPlanIs ==
  ASSUME NEW s, Sound(s), NEW p \in DOMAIN s.plans
  PROVE  LET q == CleanPlan(s, p)
         IN  /\ q \in PlanRec /\ q.retired = s.plans[p].retired
             /\ q.failures = s.plans[p].failures
             /\ Finished(s, p) => q.status \in DoneStatus
<1> DEFINE q == s.plans[p]
<1>1. q \in PlanRec
  BY SoundRecords
<1>2. ASSUME NEW st \in DoneStatus
      PROVE  LET r == [q EXCEPT !.status = st]
             IN  r \in PlanRec /\ r.retired = q.retired /\ r.failures = q.failures /\ r.status = st
  BY <1>1 DEF PlanRec, PlanStatus
<1>3. \A x, y \in Occ : IsNewest(s, p, x) /\ IsNewest(s, p, y) => x = y
  BY DEF IsNewest, Occ
<1>4. \/ CleanPlan(s, p) = q
      \/ ~Finished(s, p) /\ \E st \in DoneStatus : CleanPlan(s, p) = [q EXCEPT !.status = st]
  <2>1. "expired" \in DoneStatus
    BY DEF DoneStatus
  <2>2. ASSUME NEW o \in Occ, IsNewest(s, p, o) PROVE (CHOOSE x \in Occ : IsNewest(s, p, x)) = o
    BY <1>3, <2>2
  <2> QED
    BY <2>1, <2>2 DEF CleanPlan
<1> QED
  BY <1>1, <1>2, <1>4 DEF Finished

(* Clean-up loses no open occurrence and no unretired final plan.          *)
LEMMA CleanupIs ==
  ASSUME NEW s, Sound(s), NEW old \in SUBSET Settled(s), NEW aged
  PROVE  LET c == Cleanup(s, old, aged) IN Sound(c) /\ Follows(s, c) /\ Keeps(s, c, 0)
<1> DEFINE a == [s EXCEPT !.attempts = {x \in @ : x[2] + Window > now},
                          !.plans = [p \in DOMAIN @ |-> CleanPlan(s, p)]]
           b == [a EXCEPT !.events = [v \in DOMAIN @ |->
                   IF v \in aged /\ @[v] = "live" /\ Unused(a, v) THEN "archived" ELSE @[v]]]
           k == [b EXCEPT !.occs = Without(@, old)]
           d == [k EXCEPT !.plans = Without(@, PlansGone(k, aged))]
           c == [d EXCEPT !.events = Without(@, EventsGone(d, aged))]
<1>0. Cleanup(s, old, aged) = c
  BY DEF Cleanup
<1>1. /\ DOMAIN a = Fields /\ a.plans = [p \in DOMAIN s.plans |-> CleanPlan(s, p)]
      /\ a.events = s.events /\ a.occs = s.occs /\ a.last = s.last /\ a.policy = s.policy
      /\ a.attempts = {x \in s.attempts : x[2] + Window > now}
      /\ a.watermark = s.watermark /\ a.migrated = s.migrated
  BY DEF Sound, Fields
<1> HIDE DEF a
<1>2. Sound(a) /\ Follows(s, a) /\ Keeps(s, a, 0)
  <2>1. Sound(a)
    BY <1>1, CleanPlanIs DEF Sound, LedgerOK, Finished
  <2>2. Follows(s, a)
    BY <1>1, CleanPlanIs DEF Sound, LedgerOK, Follows, FinalKept, Finished
  <2> QED
    BY <1>1, <2>1, <2>2 DEF Keeps
<1>3. /\ DOMAIN b = Fields /\ b.plans = a.plans /\ b.occs = a.occs /\ b.last = a.last
      /\ b.attempts = a.attempts /\ b.policy = a.policy
      /\ b.watermark = a.watermark /\ b.migrated = a.migrated
      /\ DOMAIN b.events = DOMAIN a.events /\ b.events \in [DOMAIN a.events -> EventStatus]
  BY <1>2 DEF Sound, LedgerOK, Fields, EventStatus
<1> HIDE DEF b
<1>4. /\ DOMAIN k = Fields /\ k.plans = b.plans /\ k.events = b.events /\ k.last = b.last
      /\ k.occs = [x \in DOMAIN s.occs \ old |-> s.occs[x]]
      /\ k.attempts = b.attempts /\ k.policy = b.policy
      /\ k.watermark = b.watermark /\ k.migrated = b.migrated
  BY <1>1, <1>3 DEF Fields, Without
<1> HIDE DEF k
<1>5. /\ DOMAIN d = Fields /\ d.events = k.events /\ d.last = k.last /\ d.occs = k.occs
      /\ d.plans = [x \in DOMAIN k.plans \ PlansGone(k, aged) |-> k.plans[x]]
      /\ d.attempts = k.attempts /\ d.policy = k.policy
      /\ d.watermark = k.watermark /\ d.migrated = k.migrated
  BY <1>4 DEF Fields, Without
<1> HIDE DEF d
<1>6. /\ DOMAIN c = Fields /\ c.plans = d.plans /\ c.last = d.last /\ c.occs = d.occs
      /\ c.events = [x \in DOMAIN d.events \ EventsGone(d, aged) |-> d.events[x]]
      /\ c.attempts = d.attempts /\ c.policy = d.policy
      /\ c.watermark = d.watermark /\ c.migrated = d.migrated
  BY <1>5 DEF Fields, Without
<1> HIDE DEF c
<1>7. /\ c.occs = [x \in DOMAIN s.occs \ old |-> s.occs[x]] /\ c.last = a.last
      /\ c.plans = [x \in DOMAIN a.plans \ PlansGone(k, aged) |-> a.plans[x]]
      /\ c.events \in [DOMAIN c.events -> EventStatus] /\ DOMAIN c.events \subseteq DOMAIN a.events
      /\ c.attempts = a.attempts /\ c.policy = a.policy
      /\ c.watermark = a.watermark /\ c.migrated = a.migrated
  BY <1>3, <1>4, <1>5, <1>6
<1>8. \A p \in PlansGone(k, aged) : /\ p \in DOMAIN a.plans /\ a.plans[p].retired
                                    /\ \A o \in DOMAIN c.occs : c.occs[o].plan # p
  <2>1. k.plans = a.plans /\ k.occs = c.occs
    BY <1>3, <1>4, <1>5, <1>6
  <2>2. \A p \in PlansGone(k, aged) : p \in DOMAIN k.plans /\ k.plans[p].retired /\ OccsOf(k, p) = {}
    BY DEF PlansGone
  <2>3. \A p, o : OccsOf(k, p) = {} /\ o \in DOMAIN k.occs => k.occs[o].plan # p
    BY DEF OccsOf
  <2> QED
    BY <2>1, <2>2, <2>3
<1>9. Sound(c)
  <2>1. c.plans \in [DOMAIN c.plans -> PlanRec] /\ DOMAIN c.plans \subseteq DOMAIN a.plans
    BY <1>2, <1>7 DEF Sound, LedgerOK
  <2>2. c.occs \in [DOMAIN c.occs -> OccRec] /\ DOMAIN c.occs \subseteq DOMAIN a.occs
    BY <1>1, <1>2, <1>7 DEF Sound, LedgerOK
  <2>3. \A o \in DOMAIN c.occs : c.occs[o] = a.occs[o]
    BY <1>1, <1>7
  <2>4. DOMAIN c.plans = DOMAIN a.plans \ PlansGone(k, aged)
        /\ \A p \in DOMAIN c.plans : c.plans[p] = a.plans[p]
    BY <1>7
  <2>5. \A o \in DOMAIN c.occs : c.occs[o].plan \in DOMAIN c.plans
    BY <1>2, <1>8, <2>2, <2>3, <2>4 DEF Sound
  <2>6. LedgerOK(c)
    BY <1>2, <1>7, <2>1, <2>2 DEF Sound, LedgerOK
  <2>7. ~c.migrated => /\ \A o \in DOMAIN c.occs : o > Cardinality(Imported)
                       /\ DOMAIN c.plans \cap Imported = {}
    BY <1>2, <1>7, <2>1, <2>2 DEF Sound
  <2> QED
    BY <1>2, <1>6, <1>7, <2>2, <2>4, <2>5, <2>6, <2>7 DEF Sound, Finished
<1>10. Follows(a, c)
  <2>1. \A p \in DOMAIN a.plans : ~a.plans[p].retired => p \in DOMAIN c.plans /\ c.plans[p] = a.plans[p]
    BY <1>7, <1>8
  <2>2. FinalKept(a, c)
    BY <2>1 DEF FinalKept, Finished
  <2>3. \A o \in DOMAIN c.occs : o \in DOMAIN a.occs /\ c.occs[o] = a.occs[o]
    BY <1>1, <1>7
  <2>4. a.last <= c.last /\ c.migrated = a.migrated
    BY <1>2, <1>7 DEF Sound, LedgerOK
  <2> QED
    BY <2>2, <2>3, <2>4 DEF Follows
<1>11. Keeps(s, c, 0)
  <2>1. \A o \in old : s.occs[o].status \notin {"collecting", "unknown"}
    BY DEF Settled, Unresolved, OpenStatus
  <2> QED
    BY <1>7, <2>1 DEF Keeps
<1> QED
  BY <1>0, <1>2, <1>9, <1>10, <1>11, FollowsOn

(* Whatever clean-up the model chooses.                                    *)
LEMMA CleanupsAre ==
  ASSUME NEW s, Sound(s), NEW c \in Cleanups(s)
  PROVE  Sound(c) /\ Follows(s, c) /\ Keeps(s, c, 0)
<1>1. \E old \in SUBSET Settled(s) : \E aged : c = Cleanup(s, old, aged)
  <2>1. CASE Retaining
    BY <2>1 DEF Cleanups
  <2>2. CASE ~Retaining
    BY <2>2 DEF Cleanups
  <2> QED
    BY <2>1, <2>2
<1> QED
  BY <1>1, CleanupIs

(* Every occurrence takes a status of its own.                             *)
LEMMA RestatusIs ==
  ASSUME NEW s, Sound(s), NEW f \in [DOMAIN s.occs -> OccStatus]
  PROVE  LET t == Restatus(s, f)
         IN  /\ Sound(t) /\ t.plans = s.plans /\ t.last = s.last /\ DOMAIN t.occs = DOMAIN s.occs
             /\ \A o \in DOMAIN s.occs : t.occs[o].status = f[o] /\ t.occs[o].plan = s.occs[o].plan
             /\ (\A o \in DOMAIN s.occs : s.occs[o].status \notin Startable => f[o] \notin Startable)
                  => Follows(s, t)
             /\ (\A o \in DOMAIN s.occs :
                   s.occs[o].status \in {"collecting", "unknown"} => f[o] = s.occs[o].status)
                  => Keeps(s, t, 0)
<1> DEFINE t == Restatus(s, f)
<1>1. /\ DOMAIN t = Fields /\ t.plans = s.plans /\ t.events = s.events /\ t.last = s.last
      /\ t.attempts = s.attempts /\ t.policy = s.policy
      /\ t.watermark = s.watermark /\ t.migrated = s.migrated
      /\ t.occs = [o \in DOMAIN s.occs |-> [s.occs[o] EXCEPT !.status = f[o]]]
  BY DEF Restatus, Sound, Fields
<1> HIDE DEF t
<1>2. \A o \in DOMAIN s.occs : /\ t.occs[o] \in OccRec
                               /\ t.occs[o].plan = s.occs[o].plan /\ t.occs[o].status = f[o]
  BY <1>1, SoundRecords DEF OccRec
<1>3. DOMAIN t.occs = DOMAIN s.occs /\ t.occs \in [DOMAIN s.occs -> OccRec]
  BY <1>1, <1>2
<1>4. Sound(t)
  BY <1>1, <1>2, <1>3 DEF Sound, LedgerOK, Finished
<1>5. FinalKept(s, t)
  BY <1>1 DEF FinalKept, Finished
<1>6. (\A o \in DOMAIN s.occs : s.occs[o].status \notin Startable => f[o] \notin Startable)
        => Follows(s, t)
  BY <1>1, <1>2, <1>3, <1>5 DEF Follows, Sound, LedgerOK
<1>7. (\A o \in DOMAIN s.occs :
        s.occs[o].status \in {"collecting", "unknown"} => f[o] = s.occs[o].status) => Keeps(s, t, 0)
  BY <1>2, <1>3 DEF Keeps
<1> QED
  BY <1>1, <1>2, <1>3, <1>4, <1>6, <1>7 DEF t

(* Reconciling touches uncertain and accepted wakes only.                  *)
LEMMA ReconciledIs ==
  ASSUME NEW s, Sound(s), NEW seen
  PROVE  LET t == Reconciled(s, seen) IN Sound(t) /\ Follows(s, t) /\ Keeps(s, t, 0)
<1> DEFINE f == [o \in DOMAIN s.occs |->
                  IF o \in seen THEN Receipt(o, s.occs[o].status) ELSE s.occs[o].status]
<1>1. Reconciled(s, seen) = Restatus(s, f)
  BY DEF Reconciled
<1>2. \A o : \A st \in OccStatus :
        /\ Receipt(o, st) \in OccStatus
        /\ st \notin Startable => Receipt(o, st) \notin Startable
        /\ st \in {"collecting", "unknown"} => Receipt(o, st) = st
  BY DEF Receipt, OccStatus, OpenStatus, DoneStatus, Startable
<1>3. \A o \in DOMAIN s.occs : s.occs[o].status \in OccStatus
  BY SoundRecords DEF OccRec
<1>4. /\ f \in [DOMAIN s.occs -> OccStatus]
      /\ \A o \in DOMAIN s.occs :
           /\ s.occs[o].status \notin Startable => f[o] \notin Startable
           /\ s.occs[o].status \in {"collecting", "unknown"} => f[o] = s.occs[o].status
  BY <1>2, <1>3
<1> HIDE DEF f
<1> QED
  BY <1>1, <1>4, RestatusIs

(* Opening fences what was in flight; what was in doubt stays in doubt.    *)
LEMMA FencedIs ==
  ASSUME NEW s, Sound(s)
  PROVE  LET t == Fenced(s)
         IN  /\ Sound(t) /\ Follows(s, t) /\ t.plans = s.plans /\ t.last = s.last
             /\ DOMAIN t.occs = DOMAIN s.occs
             /\ \A v : UnknownEvent(s, v) => UnknownEvent(t, v)
<1> DEFINE f == [o \in DOMAIN s.occs |-> CASE s.occs[o].status = "collecting"  -> "unknown"
                                           [] s.occs[o].status = "dispatching" -> "unknown_wake"
                                           [] OTHER -> s.occs[o].status]
<1>1. Fenced(s) = Restatus(s, f)
  BY DEF Fenced
<1>2. \A o \in DOMAIN s.occs : s.occs[o].status \in OccStatus
  BY SoundRecords DEF OccRec
<1>3. /\ f \in [DOMAIN s.occs -> OccStatus]
      /\ \A o \in DOMAIN s.occs : /\ s.occs[o].status \notin Startable => f[o] \notin Startable
                                  /\ s.occs[o].status \in {"unknown", "collecting"} => f[o] = "unknown"
  BY <1>2 DEF OccStatus, OpenStatus, DoneStatus, Startable
<1> HIDE DEF f
<1>4. LET t == Restatus(s, f)
      IN  /\ Sound(t) /\ t.plans = s.plans /\ t.last = s.last /\ DOMAIN t.occs = DOMAIN s.occs
          /\ \A o \in DOMAIN s.occs : t.occs[o].status = f[o] /\ t.occs[o].plan = s.occs[o].plan
          /\ Follows(s, t)
  BY <1>3, RestatusIs
<1>5. \A v : UnknownEvent(s, v) => UnknownEvent(Fenced(s), v)
  BY <1>1, <1>3, <1>4 DEF UnknownEvent
<1> QED
  BY <1>1, <1>4, <1>5

(* Everything but occurrences and statuses may change; new plans are new.  *)
SameWork(s, t) ==
  /\ DOMAIN t = Fields /\ LedgerOK(t)
  /\ t.occs = s.occs /\ t.last = s.last /\ t.migrated = s.migrated
  /\ DOMAIN s.plans \subseteq DOMAIN t.plans
  /\ \A p \in DOMAIN s.plans : /\ t.plans[p].status = s.plans[p].status
                               /\ t.plans[p].failures = s.plans[p].failures
  /\ \A p \in DOMAIN t.plans \ DOMAIN s.plans :
       t.plans[p].failures = 0 /\ (~s.migrated => p \notin Imported)

(* Such a ledger is sound, and follows if nothing is retired.              *)
LEMMA SameWorkIs ==
  ASSUME NEW s, NEW t, Sound(s), SameWork(s, t)
  PROVE  /\ Sound(t) /\ Keeps(s, t, 0)
         /\ (\A p \in DOMAIN s.plans : t.plans[p].retired = s.plans[p].retired) => Follows(s, t)
<1>1. Sound(t)
  <2>1. \A p \in DOMAIN t.plans : ~Finished(t, p) => t.plans[p].failures < MaxFailures
    BY DEF SameWork, Sound, Finished, MaxFailures
  <2>2. \A o \in DOMAIN t.occs : t.occs[o].plan \in DOMAIN t.plans
    BY DEF SameWork, Sound
  <2>3. ~t.migrated => /\ \A o \in DOMAIN t.occs : o > Cardinality(Imported)
                       /\ DOMAIN t.plans \cap Imported = {}
    BY DEF SameWork, Sound
  <2> QED
    BY <2>1, <2>2, <2>3 DEF SameWork, Sound
<1>2. Keeps(s, t, 0)
  BY DEF SameWork, Keeps
<1>3. ASSUME \A p \in DOMAIN s.plans : t.plans[p].retired = s.plans[p].retired PROVE Follows(s, t)
  <2>1. FinalKept(s, t)
    BY <1>3 DEF SameWork, FinalKept, Finished
  <2> QED
    BY <2>1 DEF SameWork, Follows, Sound, LedgerOK
<1> QED
  BY <1>1, <1>2, <1>3

(* The last wake of a plan, with the attempts.                             *)
Attempted(s, t, p, w) ==
  /\ DOMAIN t = Fields /\ t.events = s.events /\ t.occs = s.occs /\ t.last = s.last
  /\ t.policy = s.policy /\ t.watermark = s.watermark /\ t.migrated = s.migrated
  /\ t.attempts \subseteq Occ \X Nat
  /\ t.plans = [s.plans EXCEPT ![p].lastWake = w]

(* It follows.                                                             *)
LEMMA AttemptedIs ==
  ASSUME NEW s, Sound(s), NEW p \in DOMAIN s.plans, NEW w \in Nat, NEW t, Attempted(s, t, p, w)
  PROVE  Sound(t) /\ Follows(s, t) /\ Keeps(s, t, 0)
<1> DEFINE q == [s.plans[p] EXCEPT !.lastWake = w]
<1>1. s.plans[p] \in PlanRec /\ s.plans \in [DOMAIN s.plans -> PlanRec]
  BY DEF Sound, LedgerOK
<1>2. /\ q \in PlanRec /\ q.failures = s.plans[p].failures
      /\ q.status = s.plans[p].status /\ q.retired = s.plans[p].retired
  BY <1>1 DEF PlanRec
<1>3. t.plans = [s.plans EXCEPT ![p] = q]
  BY DEF Attempted
<1> HIDE DEF q
<1>4. /\ t.plans \in [DOMAIN s.plans -> PlanRec] /\ t.plans[p] = q
      /\ \A x \in DOMAIN s.plans \ {p} : t.plans[x] = s.plans[x]
  BY <1>1, <1>2, <1>3
<1>5. SameWork(s, t)
  BY <1>2, <1>4 DEF SameWork, Sound, LedgerOK, Attempted
<1> QED
  BY <1>2, <1>4, <1>5, SameWorkIs

(* The next collection of a plan.                                          *)
LEMMA NextIs ==
  ASSUME NEW s, Sound(s), NEW p \in DOMAIN s.plans, NEW n \in Nat
  PROVE  LET t == [s EXCEPT !.plans[p].next = n]
         IN  Sound(t) /\ Follows(s, t) /\ Keeps(s, t, 0) /\ t.occs = s.occs /\ t.last = s.last
<1> DEFINE q == [s.plans[p] EXCEPT !.next = n]
           t == [s EXCEPT !.plans[p] = q]
<1>1. /\ DOMAIN t = Fields /\ t.events = s.events /\ t.occs = s.occs /\ t.last = s.last
      /\ t.attempts = s.attempts /\ t.policy = s.policy
      /\ t.watermark = s.watermark /\ t.migrated = s.migrated
      /\ t.plans = [s.plans EXCEPT ![p] = q]
  BY DEF Sound, Fields
<1>2. s.plans[p] \in PlanRec /\ s.plans \in [DOMAIN s.plans -> PlanRec]
  BY DEF Sound, LedgerOK
<1>3. /\ q \in PlanRec /\ q.failures = s.plans[p].failures
      /\ q.status = s.plans[p].status /\ q.retired = s.plans[p].retired
  BY <1>2 DEF PlanRec
<1>4. t = [s EXCEPT !.plans[p].next = n]
  OBVIOUS
<1> HIDE DEF t, q
<1>5. /\ DOMAIN t.plans = DOMAIN s.plans /\ t.plans \in [DOMAIN s.plans -> PlanRec] /\ t.plans[p] = q
      /\ \A x \in DOMAIN s.plans \ {p} : t.plans[x] = s.plans[x]
  BY <1>1, <1>2, <1>3
<1>6. SameWork(s, t) /\ \A x \in DOMAIN s.plans : t.plans[x].retired = s.plans[x].retired
  BY <1>1, <1>3, <1>5 DEF SameWork, Sound, LedgerOK
<1>7. Sound(t) /\ Follows(s, t) /\ Keeps(s, t, 0)
  BY <1>6, SameWorkIs
<1> QED
  BY <1>1, <1>4, <1>7

(* A retirement leaves work and statuses as they are.                      *)
LEMMA RetirePlanIs ==
  ASSUME NEW c, Sound(c), NEW p \in DOMAIN c.plans
  PROVE  LET t == RetirePlan(c, p) IN SameWork(c, t) /\ DOMAIN t.plans = DOMAIN c.plans
<1> DEFINE q == [c.plans[p] EXCEPT !.retired = TRUE]
           t == [c EXCEPT !.plans[p] = q]
<1>1. t = RetirePlan(c, p)
  BY DEF RetirePlan
<1>2. /\ DOMAIN t = Fields /\ t.events = c.events /\ t.occs = c.occs /\ t.last = c.last
      /\ t.attempts = c.attempts /\ t.policy = c.policy
      /\ t.watermark = c.watermark /\ t.migrated = c.migrated
      /\ t.plans = [c.plans EXCEPT ![p] = q]
  BY DEF Sound, Fields
<1>3. c.plans[p] \in PlanRec /\ c.plans \in [DOMAIN c.plans -> PlanRec]
  BY DEF Sound, LedgerOK
<1>4. /\ q \in PlanRec /\ q.failures = c.plans[p].failures /\ q.status = c.plans[p].status
  BY <1>3 DEF PlanRec
<1> HIDE DEF t, q
<1>5. /\ DOMAIN t.plans = DOMAIN c.plans /\ t.plans \in [DOMAIN c.plans -> PlanRec] /\ t.plans[p] = q
      /\ \A x \in DOMAIN c.plans \ {p} : t.plans[x] = c.plans[x]
  BY <1>2, <1>3, <1>4
<1> QED
  BY <1>1, <1>2, <1>4, <1>5 DEF SameWork, Sound, LedgerOK

(* A retired event.                                                        *)
LEMMA RetireEventIs ==
  ASSUME NEW c, Sound(c), NEW v \in DOMAIN c.events
  PROVE  SameWork(c, RetireEvent(c, v))
<1> DEFINE t == RetireEvent(c, v)
<1>1. /\ DOMAIN t = Fields /\ t.plans = c.plans /\ t.occs = c.occs /\ t.last = c.last
      /\ t.attempts = c.attempts /\ t.policy = c.policy
      /\ t.watermark = c.watermark /\ t.migrated = c.migrated
      /\ t.events = [c.events EXCEPT ![v] = "retired"]
  BY DEF RetireEvent, Sound, Fields
<1> HIDE DEF t
<1>2. DOMAIN t.events = DOMAIN c.events /\ t.events \in [DOMAIN c.events -> EventStatus]
  BY <1>1 DEF Sound, LedgerOK, EventStatus
<1> QED
  BY <1>1, <1>2 DEF SameWork, Sound, LedgerOK, t

(* A tick writes a ledger that did the work of c, or a crash does.  What   *)
(* it revokes is not needed by that ledger.                                *)
Needless(t) ==
  grants' \subseteq grants /\ \A p \in DOMAIN t.plans : GrantOf[p] \in grants \ grants' => ~Holding(t, p)

(* One tick's retirement.                                                  *)
LEMMA RetireIs ==
  ASSUME NEW c, Sound(c), Retire(c)
  PROVE  \E t : Written(t) /\ SameWork(c, t) /\ Sound(t) /\ Keeps(c, t, 0) /\ Needless(t)
<1>1. \E t : Written(t) /\ SameWork(c, t) /\ Needless(t)
  <2>1. SameWork(c, c)
    BY DEF Sound, SameWork
  <2>2. \A p \in Retirable(c) : p \in DOMAIN c.plans /\ ~Holding(c, p)
    BY DEF Retirable
  <2>3. grants' = grants => \A t : Needless(t)
    BY DEF Needless
  <2>4. ASSUME NEW p \in Retirable(c), ~Shared(c, p), grants' = grants \ {GrantOf[p]},
               NEW t, SameWork(c, t), DOMAIN t.plans = DOMAIN c.plans
        PROVE  Needless(t)
    <3>1. \A q \in DOMAIN c.plans : GrantOf[q] = GrantOf[p] => ~Holding(c, q)
      BY <2>2, <2>4 DEF Shared
    <3>2. \A q \in DOMAIN c.plans : Holding(t, q) => Holding(c, q)
      BY <2>4 DEF SameWork, Holding, Finished, Pending, OccsOf, Unresolved
    <3> QED
      BY <2>4, <3>1, <3>2 DEF Needless
  <2>5. CASE Written(c) /\ UNCHANGED grants
    BY <2>1, <2>3, <2>5
  <2>6. ASSUME NEW p \in Retirable(c), Written(RetirePlan(c, p)), UNCHANGED grants
        PROVE  \E t : Written(t) /\ SameWork(c, t) /\ Needless(t)
    BY <2>2, <2>3, <2>6, RetirePlanIs
  <2>7. ASSUME NEW p \in Retirable(c), NEW t \in {c, RetirePlan(c, p)},
               ~Shared(c, p), Written(t), grants' = grants \ {GrantOf[p]}
        PROVE  SameWork(c, t) /\ Needless(t)
    <3>1. SameWork(c, t) /\ DOMAIN t.plans = DOMAIN c.plans
      BY <2>1, <2>2, <2>7, RetirePlanIs
    <3> QED
      BY <2>4, <2>7, <3>1
  <2>8. ASSUME NEW v \in DOMAIN c.events, Written(RetireEvent(c, v)), UNCHANGED grants
        PROVE  \E t : Written(t) /\ SameWork(c, t) /\ Needless(t)
    BY <2>3, <2>8, RetireEventIs
  <2> QED
    BY <2>5, <2>6, <2>7, <2>8 DEF Retire
<1> QED
  BY <1>1, SameWorkIs

(***************************************************************************)
(* What a step may do, besides keeping the invariant.                      *)
(***************************************************************************)
Durably ==
  \A p \in DOMAIN disk.plans \cap DOMAIN disk'.plans :
    Finished(disk, p) /\ ~disk.plans[p].retired => Finished(disk', p)
NoRerun ==
  running' # running /\ running' # 0
    => running = 0 /\ EventOf[mem.occs[running'].plan] \notin doubt
Revoking ==
  pc'.at # "down" => \A p \in DOMAIN mem'.plans : GrantOf[p] \in grants \ grants' => ~Holding(mem', p)
Good == Inv' /\ Durably /\ NoRerun /\ Revoking

PCState == [at : PCAt, occ : 0..MaxOcc, prev : Nat, todo : SUBSET Plan]
Plain == {"idle", "migrate", "scan"}

(* The states of Engine.mu between operations.                             *)
LEMMA PlainAt == \A a \in Plain : At(a) \in PCState /\ At(a).at = a
BY Timing DEF At, PCState, PCAt, Plain

(* A ledger that follows one in which what was sent is not startable.      *)
LEMMA SentFollows ==
  ASSUME Inv, NEW s, NEW t, Sound(s), Sound(t), Follows(s, t), SentBefore(s)
  PROVE  SentBefore(t)
BY DEF SentBefore, SentIn, Follows, Sound, LedgerOK, Occ

(* Nothing is lost in no step.                                             *)
LEMMA FinalSelf == \A s : FinalKept(s, s)
BY DEF FinalKept

(* An event in doubt stays in doubt.                                       *)
LEMMA DoubtKept ==
  ASSUME NEW s, NEW t, Keeps(s, t, 0), Sound(s)
  PROVE  \A v : UnknownEvent(s, v) => UnknownEvent(t, v)
BY DEF Keeps, UnknownEvent, Sound

(* Every write: of ledger t, after which the engine goes on with `next', or *)
(* one that fails.                                                         *)
Prepared(t, next) ==
  /\ next \in PCState /\ next.at \in Plain \cup {"submit", "spawn"}
  /\ next.at = "submit" =>
       /\ next.occ \in DOMAIN t.occs /\ t.occs[next.occ].status = "dispatching"
       /\ sent'[next.occ] = <<>>
  /\ next.at = "spawn" =>
       /\ running = 0 /\ next.occ \in DOMAIN t.occs /\ t.occs[next.occ].status = "collecting"
       /\ EventOf[t.occs[next.occ].plan] \notin doubt
FinalStays(s, t) ==
  \A p \in DOMAIN s.plans \cap DOMAIN t.plans :
    Finished(s, p) /\ ~s.plans[p].retired => Finished(t, p)

(* It is enough to look at t.                                              *)
LEMMA WriteGood ==
  ASSUME Inv, NEW t, NEW next,
         \/ /\ Saved(t, next) /\ running' \in {running, 0} /\ result' \in {result, "none"}
            /\ running' = 0 => result' = "none"
            /\ running' # 0 => running \in DOMAIN t.occs /\ t.occs[running].status = "collecting"
         \/ Frozen(t),
         Sound(t), FinalStays(mem, t), Prepared(t, next),
         sent' \in [Occ -> Seq(Nat)], \A o \in Occ : Len(sent'[o]) <= 1,
         SentIn(t, sent'), SentIn(disk, sent'), native' \in [Occ -> NativeState], now' = now,
         doubt' \subseteq doubt, \A v \in doubt' : UnknownEvent(mem, v) => UnknownEvent(t, v),
         grants' \subseteq Grant, Revoking
  PROVE  Good
<1>1. /\ disk' \in {disk, t} /\ mem' = disk' /\ crashes' \in Nat
      /\ \/ /\ pc' = next /\ mem' = t /\ running' \in {running, 0} /\ result' \in {result, "none"}
            /\ running' = 0 => result' = "none"
            /\ running' # 0 => running \in DOMAIN t.occs /\ t.occs[running].status = "collecting"
         \/ pc' = At("down") /\ running' = 0 /\ result' = "none"
  BY DEF Saved, Frozen, Inv, TypeOK
<1>2. At("down") \in PCState /\ At("down").at = "down"
  BY Timing DEF At, PCState, PCAt
<1>3. TypeOK'
  <2>1. LedgerOK(mem') /\ LedgerOK(disk')
    BY <1>1 DEF Inv, Ledgers, Sound
  <2>2. LedgerOK(mem)' /\ LedgerOK(disk)'
    BY <2>1 DEF LedgerOK
  <2>3. pc' \in PCState
    BY <1>1, <1>2 DEF Prepared
  <2>4. doubt' \subseteq Event
    BY DEF Inv, TypeOK
  <2> QED
    BY Timing, <1>1, <2>2, <2>3, <2>4 DEF Inv, TypeOK, PCState
<1>4. Ledgers'
  <2>1. Sound(mem') /\ Sound(disk') /\ mem' = disk'
    BY <1>1 DEF Inv, Ledgers
  <2>2. Sound(mem)' /\ Sound(disk)'
    BY <2>1 DEF Sound, LedgerOK, Finished
  <2> QED
    BY <2>1, <2>2, FinalSelf DEF Ledgers
<1>5. SentOnce'
  <2>1. SentIn(mem', sent') /\ SentIn(disk', sent')
    BY <1>1
  <2> QED
    BY <2>1 DEF SentOnce, SentBefore, SentIn
<1>6. Submits' /\ Spawning' /\ Ingests'
  BY <1>1, <1>2 DEF Submits, Spawning, Ingests, Prepared, Plain
<1>7. InDoubt'
  <2>1. \A v \in doubt' : UnknownEvent(t, v) /\ UnknownEvent(disk, v)
    BY DEF Inv, InDoubt
  <2> QED
    BY <1>1, <2>1 DEF InDoubt, UnknownEvent
<1>8. Running'
  BY <1>1, <1>2 DEF Inv, Running, Prepared, Plain
<1>9. Durably
  <2>1. FinalKept(disk, mem)
    BY DEF Inv, Ledgers
  <2> QED
    BY <1>1, <2>1 DEF FinalKept, FinalStays, Durably, Finished
<1>10. NoRerun
  BY <1>1 DEF NoRerun
<1> QED
  BY <1>3, <1>4, <1>5, <1>6, <1>7, <1>8, <1>9, <1>10 DEF Inv, Good

(* The write of a ledger that follows the one in memory.                   *)
LEMMA CommitGood ==
  ASSUME Inv, NEW t, NEW next, Commit(t, next),
         Sound(t), Follows(mem, t), \A v : UnknownEvent(mem, v) => UnknownEvent(t, v),
         running # 0 => running \in DOMAIN t.occs /\ t.occs[running].status = "collecting",
         Prepared(t, next), grants \subseteq grants', grants' \subseteq Grant,
         UNCHANGED <<now, doubt, native, sent>>
  PROVE  Good
<1>1. SentIn(t, sent') /\ SentIn(disk, sent')
  BY SentFollows DEF Inv, Ledgers, SentOnce, SentBefore
<1>2. FinalStays(mem, t)
  BY DEF Follows, FinalKept, FinalStays
<1>3. sent' \in [Occ -> Seq(Nat)] /\ native' \in [Occ -> NativeState]
      /\ \A o \in Occ : Len(sent'[o]) <= 1
  BY DEF Inv, TypeOK, SentOnce
<1>4. Revoking
  BY DEF Revoking
<1>5. running = 0 => result = "none"
  BY DEF Inv, Running
<1> QED
  BY <1>1, <1>2, <1>3, <1>4, <1>5, WriteGood DEF Commit

(* A change of what is in memory, written later.                           *)
LEMMA MemoryGood ==
  ASSUME Inv, Sound(mem'), Follows(mem, mem'), \A v : UnknownEvent(mem, v) => UnknownEvent(mem', v),
         running # 0 => running \in DOMAIN mem'.occs /\ mem'.occs[running].status = "collecting",
         pc' \in PCState, pc'.at \in Plain \/ (pc'.at = "ingest" /\ pc'.todo \subseteq DOMAIN mem'.plans),
         UNCHANGED <<disk, running, result, now, crashes, doubt, world>>
  PROVE  Good
<1>0. /\ disk' = disk /\ running' = running /\ result' = result /\ now' = now /\ crashes' = crashes
      /\ doubt' = doubt /\ native' = native /\ sent' = sent /\ grants' = grants
  BY DEF world
<1>1. TypeOK'
  <2>1. LedgerOK(mem)' /\ LedgerOK(disk)'
    BY <1>0 DEF Inv, TypeOK, Sound, LedgerOK
  <2> QED
    BY <1>0, <2>1 DEF Inv, TypeOK, PCState
<1>2. Sound(mem)' /\ Sound(disk)'
  BY <1>0 DEF Inv, Ledgers, Sound, LedgerOK, Finished
<1>3. Ledgers'
  <2>1. FinalKept(disk, mem')
    BY DEF Inv, Ledgers, Follows, FinalKept
  <2>2. FinalKept(disk, mem)'
    BY <1>0, <2>1 DEF FinalKept, Finished
  <2> QED
    BY <1>0, <1>2, <2>2 DEF Inv, Ledgers, Follows, Plain
<1>4. SentOnce'
  <2>1. SentBefore(mem')
    BY SentFollows DEF Inv, Ledgers, SentOnce
  <2>2. SentBefore(mem)' /\ SentBefore(disk)'
    BY <1>0, <2>1 DEF Inv, SentOnce, SentBefore, SentIn
  <2> QED
    BY <1>0, <2>2 DEF Inv, SentOnce, Follows
<1>5. Submits' /\ Spawning' /\ Ingests'
  BY DEF Submits, Spawning, Ingests, Plain
<1>6. InDoubt'
  <2>1. \A v \in doubt : UnknownEvent(mem', v) /\ UnknownEvent(disk, v)
    BY DEF Inv, InDoubt
  <2> QED
    BY <1>0, <2>1 DEF InDoubt, UnknownEvent
<1>7. Running'
  BY <1>0 DEF Inv, Running, Plain
<1>8. Durably /\ NoRerun /\ Revoking
  BY <1>0 DEF Durably, NoRerun, Revoking, Finished
<1> QED
  BY <1>1, <1>3, <1>4, <1>5, <1>6, <1>7, <1>8 DEF Inv, Good

(* Steps that touch no ledger.                                             *)
LEMMA QuietGood ==
  ASSUME Inv, UNCHANGED <<mem, disk, running, crashes, doubt, sent, grants>>,
         pc' = pc \/ (pc' = At("idle") /\ UNCHANGED result), now' \in Nat,
         native' \in [Occ -> NativeState],
         result' \in {"none", "match", "nomatch", "nonterminal", "condition_error", "failed", "lost"},
         result' # "none" => running # 0
  PROVE  Good
<1>0. At("idle") \in PCState /\ At("idle").at = "idle"
  BY PlainAt DEF Plain
<1>1. TypeOK'
  BY <1>0 DEF Inv, TypeOK, LedgerOK, PCState
<1>2. Ledgers'
  BY <1>0 DEF Inv, Ledgers, Sound, LedgerOK, Finished, FinalKept
<1>3. SentOnce'
  BY DEF Inv, SentOnce, SentBefore, SentIn
<1>4. Submits' /\ Spawning' /\ Ingests'
  BY <1>0 DEF Inv, Submits, Spawning, Ingests
<1>5. InDoubt'
  BY DEF Inv, InDoubt, UnknownEvent
<1>6. Running'
  BY <1>0 DEF Inv, Running
<1>7. Durably /\ NoRerun /\ Revoking
  BY DEF Durably, NoRerun, Revoking, Finished
<1> QED
  BY <1>1, <1>2, <1>3, <1>4, <1>5, <1>6, <1>7 DEF Inv, Good

(* Failures, collectors, the clock and the Runtime.                        *)
LEMMA WorldGood ==
  ASSUME Inv, Crash \/ Collect \/ Clock \/ (\E o \in Occ : NativeFinish(o))
              \/ SkipMigration \/ EndTick \/ UNCHANGED vars
  PROVE  Good
<1>0. /\ result \in {"none", "match", "nomatch", "nonterminal", "condition_error", "failed", "lost"}
      /\ now \in Nat /\ native \in [Occ -> NativeState] /\ (result # "none" => running # 0)
  BY DEF Inv, TypeOK, Running
<1>1. CASE Collect
  <2>1. \A p : Results(p) \subseteq {"match", "nomatch", "nonterminal", "condition_error", "failed", "lost"}
    BY DEF Results
  <2> QED
    BY <1>0, <1>1, <2>1, QuietGood DEF Collect, world
<1>2. CASE Clock
  BY <1>0, <1>2, QuietGood DEF Clock, world
<1>3. ASSUME NEW o \in Occ, NativeFinish(o) PROVE Good
  <2>1. native' \in [Occ -> NativeState]
    BY <1>0, <1>3 DEF NativeFinish, NativeState
  <2> QED
    BY <1>0, <1>3, <2>1, QuietGood DEF NativeFinish
<1>4. CASE SkipMigration \/ EndTick
  BY <1>0, <1>4, QuietGood DEF SkipMigration, EndTick, world
<1>5. CASE UNCHANGED vars
  BY <1>0, <1>5, QuietGood DEF vars
<1>6. CASE Crash
  <2>0. At("down") \in PCState /\ At("down").at = "down"
    BY Timing DEF At, PCState, PCAt
  <2>1. /\ disk' = disk /\ mem' = disk /\ pc' = At("down") /\ running' = 0 /\ result' = "none"
        /\ crashes' \in Nat /\ now' = now /\ doubt' = doubt
        /\ native' = native /\ sent' = sent /\ grants' = grants
    BY <1>6 DEF Crash, world, Inv, TypeOK
  <2>2. LedgerOK(mem)' /\ LedgerOK(disk)' /\ Sound(mem)' /\ Sound(disk)'
    BY <2>1 DEF Inv, Ledgers, Sound, LedgerOK, Finished
  <2>3. TypeOK'
    BY <2>0, <2>1, <2>2, Timing DEF Inv, TypeOK, PCState
  <2>4. Ledgers'
    BY <2>1, <2>2, FinalSelf DEF Inv, Ledgers
  <2>5. SentOnce'
    BY <2>1 DEF Inv, Ledgers, SentOnce, SentBefore, SentIn
  <2>6. InDoubt'
    BY <2>1 DEF Inv, InDoubt, UnknownEvent
  <2>7. Submits' /\ Spawning' /\ Running' /\ Ingests'
    BY <2>0, <2>1 DEF Submits, Spawning, Running, Ingests
  <2>8. Durably /\ NoRerun /\ Revoking
    BY <2>1 DEF Durably, NoRerun, Revoking, Finished
  <2> QED
    BY <2>3, <2>4, <2>5, <2>6, <2>7, <2>8 DEF Inv, Good
<1> QED
  BY <1>1, <1>2, <1>3, <1>4, <1>5, <1>6

(***************************************************************************)
(* The actions, one by one.                                                *)
(***************************************************************************)
LEMMA NowNat == Inv => now \in Nat
BY DEF Inv, TypeOK

(* Open fences what was in flight, so that it follows the file.            *)
LEMMA OpeningGood == ASSUME Inv, Opening PROVE Good
<1>1. ASSUME NEW s, Sound(s), Follows(disk, s), \A v : UnknownEvent(disk, v) => UnknownEvent(s, v),
             pc.at = "down", OpenWith(s)
      PROVE  Good
  <2>1. PICK c \in Cleanups(s) : Commit(c, At("migrate"))
    BY <1>1 DEF OpenWith
  <2>2. Sound(c) /\ Follows(s, c) /\ Keeps(s, c, 0)
    BY <1>1, CleanupsAre
  <2>3. mem = disk /\ Sound(disk) /\ running = 0 /\ grants \subseteq Grant
    BY <1>1 DEF Inv, Ledgers, Running, TypeOK
  <2>4. Follows(mem, c)
    BY <1>1, <2>2, <2>3, FollowsOn
  <2>5. \A v : UnknownEvent(mem, v) => UnknownEvent(c, v)
    BY <1>1, <2>2, <2>3, DoubtKept
  <2>6. Prepared(c, At("migrate"))
    BY PlainAt DEF Plain, Prepared
  <2>7. UNCHANGED <<now, doubt, native, sent, grants>>
    BY <1>1 DEF OpenWith, world
  <2> QED
    BY <2>1, <2>2, <2>3, <2>4, <2>5, <2>6, <2>7, CommitGood
<1>2. Sound(disk)
  BY DEF Inv, Ledgers
<1>3. CASE OpenQuiet
  BY <1>1, <1>2, <1>3, FencedIs DEF OpenQuiet
<1>4. ASSUME NEW o \in InterruptedLive, OpenInterrupted(o) PROVE Good
  <2> DEFINE p == disk.occs[o].plan
             u == Fenced(disk)
             w == SetPlan(u, p, "suspended")
             s == Attention(w, o)
  <2>1. /\ Sound(u) /\ Follows(disk, u) /\ u.plans = disk.plans /\ u.last = disk.last
        /\ DOMAIN u.occs = DOMAIN disk.occs
        /\ \A v : UnknownEvent(disk, v) => UnknownEvent(u, v)
    BY <1>2, FencedIs
  <2>2. o \in DOMAIN disk.occs /\ p \in DOMAIN disk.plans /\ ~Finished(u, p) /\ disk.last < MaxOcc
    BY <1>2, <1>4, <2>1, SoundRecords DEF InterruptedLive, Interrupted, Finished, OpenInterrupted
  <2>3. OpenWith(s) /\ pc.at = "down"
    BY <1>4 DEF OpenInterrupted
  <2> HIDE DEF u, p
  <2>4. "suspended" \in PlanStatus
    BY DEF PlanStatus
  <2>5. /\ Sound(w) /\ Follows(u, w) /\ Keeps(u, w, 0) /\ w.last = disk.last /\ o \in DOMAIN w.occs
    BY <2>1, <2>2, <2>4, SetPlanIs DEF OnlyPlan
  <2> HIDE DEF w
  <2>6. Sound(s) /\ Follows(w, s) /\ Keeps(w, s, 0)
    BY <2>2, <2>5, AttentionIs, NowNat
  <2> HIDE DEF s
  <2>7. Follows(disk, w)
    BY <1>2, <2>1, <2>5, FollowsOn
  <2>8. Follows(disk, s)
    BY <1>2, <2>5, <2>6, <2>7, FollowsOn
  <2>9. \A v : UnknownEvent(disk, v) => UnknownEvent(s, v)
    BY <2>1, <2>5, <2>6, DoubtKept
  <2> QED
    BY <1>1, <2>3, <2>6, <2>8, <2>9
<1> QED
  BY <1>3, <1>4 DEF Opening

(* An operation that writes a ledger which follows the one in memory.      *)
LEMMA OperationGood ==
  ASSUME Inv, NEW t, Sound(t), Follows(mem, t), Keeps(mem, t, 0),
         Operation(t), UNCHANGED grants \/ \E p \in Plan : grants' = grants \cup {GrantOf[p]}
  PROVE  Good
<1>1. Sound(mem) /\ grants \subseteq Grant
  BY DEF Inv, Ledgers, TypeOK
<1>2. grants \subseteq grants' /\ grants' \subseteq Grant
  BY <1>1, Identities
<1>3. running # 0 => running \in DOMAIN t.occs /\ t.occs[running].status = "collecting"
  <2>1. running \in DOMAIN mem.occs => running # 0
    BY <1>1 DEF Sound
  <2> QED
    BY <2>1 DEF Inv, Running, Keeps
<1>4. Prepared(t, At("idle"))
  BY PlainAt DEF Plain, Prepared
<1>5. \A v : UnknownEvent(mem, v) => UnknownEvent(t, v)
  BY <1>1, DoubtKept
<1> QED
  BY <1>2, <1>3, <1>4, <1>5, CommitGood DEF Operation

(* ... or follows a clean-up of it with the same work.                     *)
LEMMA ChangeGood ==
  ASSUME Inv, NEW s \in Cleanups(mem) \cup {mem}, NEW t, SameWork(s, t),
         \A p \in DOMAIN s.plans : t.plans[p].retired = s.plans[p].retired,
         Operation(t), UNCHANGED grants \/ \E p \in Plan : grants' = grants \cup {GrantOf[p]}
  PROVE  Good
<1>1. Sound(mem)
  BY DEF Inv, Ledgers
<1>2. Sound(s) /\ Follows(mem, s) /\ Keeps(mem, s, 0)
  BY <1>1, CleanupsAre, FollowsSelf
<1>3. Sound(t) /\ Follows(s, t) /\ Keeps(s, t, 0)
  BY <1>2, SameWorkIs
<1>4. Follows(mem, t) /\ Keeps(mem, t, 0)
  BY <1>1, <1>2, <1>3, FollowsOn, KeepsOn
<1> QED
  BY <1>3, <1>4, OperationGood

(* A new event.                                                            *)
LEMMA RegisterGood == ASSUME Inv, NEW v \in Event, Register(v) PROVE Good
<1>1. PICK s \in Cleanups(mem) : Operation([s EXCEPT !.events = With(@, v, "live")])
  BY DEF Register
<1> DEFINE t == [s EXCEPT !.events = With(@, v, "live")]
<1>2. Sound(s)
  BY CleanupsAre DEF Inv, Ledgers
<1>3. /\ DOMAIN t = Fields /\ t.plans = s.plans /\ t.occs = s.occs /\ t.last = s.last
      /\ t.attempts = s.attempts /\ t.policy = s.policy
      /\ t.watermark = s.watermark /\ t.migrated = s.migrated /\ t.events = With(s.events, v, "live")
  BY <1>2 DEF Sound, Fields
<1> HIDE DEF t
<1>4. DOMAIN t.events \subseteq Event /\ t.events \in [DOMAIN t.events -> EventStatus]
  BY <1>2, <1>3 DEF Sound, LedgerOK, With, EventStatus
<1>5. SameWork(s, t)
  BY <1>2, <1>3, <1>4 DEF SameWork, Sound, LedgerOK
<1>6. Operation(t) /\ UNCHANGED grants
  BY <1>1 DEF Register, t
<1> QED
  BY <1>3, <1>5, <1>6, ChangeGood

(* A new plan in the ledger, with its event for a native one.              *)
LEMMA AddPlanIs ==
  ASSUME NEW s, Sound(s), NEW p \in Plan, p \notin DOMAIN s.plans, p \notin Imported,
         NEW n \in Nat, NEW t, NEW e, DOMAIN t = Fields,
         t.plans = With(s.plans, p, NewPlan(p, n)), t.events = e,
         DOMAIN e \subseteq Event, e \in [DOMAIN e -> EventStatus],
         t.occs = s.occs, t.last = s.last, t.attempts = s.attempts, t.policy = s.policy,
         t.watermark = s.watermark, t.migrated = s.migrated
  PROVE  SameWork(s, t) /\ \A x \in DOMAIN s.plans : t.plans[x].retired = s.plans[x].retired
<1>1. NewPlan(p, n) \in PlanRec /\ NewPlan(p, n).failures = 0
  BY Timing DEF NewPlan, PlanRec, PlanStatus, MaxFailures
<1>2. /\ DOMAIN t.plans = DOMAIN s.plans \cup {p} /\ t.plans[p] = NewPlan(p, n)
      /\ \A x \in DOMAIN s.plans : t.plans[x] = s.plans[x]
      /\ t.plans \in [DOMAIN t.plans -> PlanRec]
  BY <1>1, SoundRecords DEF With
<1>3. LedgerOK(t)
  BY <1>2 DEF Sound, LedgerOK
<1> QED
  BY <1>1, <1>2, <1>3 DEF SameWork

(* A new arrangement.                                                      *)
LEMMA SaveGood == ASSUME Inv, NEW p \in Plan, Save(p) PROVE Good
<1> DEFINE n == IF Kind[p] = "completion" THEN now ELSE now + Seconds[p]
           t(s) == [s EXCEPT !.plans = With(@, p, NewPlan(p, n))]
<1>1. PICK s \in Cleanups(mem) : Operation(t(s)) /\ p \notin DOMAIN s.plans
  BY DEF Save
<1>2. Sound(s)
  BY CleanupsAre DEF Inv, Ledgers
<1>3. n \in Nat /\ p \notin Imported
  BY NowNat, Timing, Identities DEF Save
<1> HIDE DEF n
<1>4. /\ DOMAIN t(s) = Fields /\ t(s).events = s.events /\ t(s).occs = s.occs /\ t(s).last = s.last
      /\ t(s).attempts = s.attempts /\ t(s).policy = s.policy /\ t(s).watermark = s.watermark
      /\ t(s).migrated = s.migrated /\ t(s).plans = With(s.plans, p, NewPlan(p, n))
  BY <1>2 DEF Sound, Fields
<1> HIDE DEF t
<1>5. SameWork(s, t(s)) /\ \A x \in DOMAIN s.plans : t(s).plans[x].retired = s.plans[x].retired
  <2>1. DOMAIN s.events \subseteq Event /\ s.events \in [DOMAIN s.events -> EventStatus]
    BY <1>2 DEF Sound, LedgerOK
  <2> QED
    BY <1>1, <1>2, <1>3, <1>4, <2>1, AddPlanIs
<1>6. grants' = grants \cup {GrantOf[p]}
  BY DEF Save
<1> QED
  BY <1>1, <1>5, <1>6, ChangeGood

(* A new native arrangement with its event.                                *)
LEMMA SaveNativeGood == ASSUME Inv, NEW p \in Plan, SaveNative(p) PROVE Good
<1> DEFINE t == [mem EXCEPT !.plans = With(@, p, NewPlan(p, now)),
                            !.events = With(@, EventOf[p], "live")]
<1>1. Operation(t) /\ p \notin DOMAIN mem.plans /\ p \notin Imported
      /\ grants' = grants \cup {GrantOf[p]}
  BY DEF SaveNative
<1>2. Sound(mem)
  BY DEF Inv, Ledgers
<1>3. /\ DOMAIN t = Fields /\ t.occs = mem.occs /\ t.last = mem.last
      /\ t.attempts = mem.attempts /\ t.policy = mem.policy
      /\ t.watermark = mem.watermark /\ t.migrated = mem.migrated
      /\ t.plans = With(mem.plans, p, NewPlan(p, now)) /\ t.events = With(mem.events, EventOf[p], "live")
  BY <1>2 DEF Sound, Fields
<1> HIDE DEF t
<1>4. DOMAIN t.events \subseteq Event /\ t.events \in [DOMAIN t.events -> EventStatus]
  BY <1>2, <1>3, Identities DEF Sound, LedgerOK, With, EventStatus
<1>5. SameWork(mem, t) /\ \A x \in DOMAIN mem.plans : t.plans[x].retired = mem.plans[x].retired
  BY <1>1, <1>2, <1>3, <1>4, NowNat, AddPlanIs
<1> QED
  BY <1>1, <1>5, ChangeGood

(* An archived event.                                                      *)
LEMMA ArchiveEventGood == ASSUME Inv, NEW v \in Event, ArchiveEvent(v) PROVE Good
<1> DEFINE st == IF mem.events[v] = "retired" THEN "retired" ELSE "archived"
           t == [mem EXCEPT !.events[v] = st]
<1>1. Operation(t) /\ v \in DOMAIN mem.events /\ UNCHANGED grants
  BY DEF ArchiveEvent
<1>2. Sound(mem)
  BY DEF Inv, Ledgers
<1>3. /\ DOMAIN t = Fields /\ t.plans = mem.plans /\ t.occs = mem.occs /\ t.last = mem.last
      /\ t.attempts = mem.attempts /\ t.policy = mem.policy
      /\ t.watermark = mem.watermark /\ t.migrated = mem.migrated
      /\ t.events = [mem.events EXCEPT ![v] = st]
  BY <1>2 DEF Sound, Fields
<1>4. st \in EventStatus
  BY DEF EventStatus
<1> HIDE DEF t, st
<1>5. DOMAIN t.events \subseteq Event /\ t.events \in [DOMAIN t.events -> EventStatus]
  BY <1>2, <1>3, <1>4 DEF Sound, LedgerOK
<1>6. SameWork(mem, t)
  BY <1>2, <1>3, <1>5 DEF SameWork, Sound, LedgerOK
<1> QED
  BY <1>1, <1>3, <1>6, ChangeGood

(* Another interruption policy.                                            *)
LEMMA ConfigurePolicyGood == ASSUME Inv, NEW y \in Policies, ConfigurePolicy(y) PROVE Good
<1> DEFINE t == [mem EXCEPT !.policy = y]
<1>1. Operation(t) /\ UNCHANGED grants
  BY DEF ConfigurePolicy
<1>2. Sound(mem)
  BY DEF Inv, Ledgers
<1>3. /\ DOMAIN t = Fields /\ t.plans = mem.plans /\ t.occs = mem.occs /\ t.last = mem.last
      /\ t.attempts = mem.attempts /\ t.policy = y /\ t.events = mem.events
      /\ t.watermark = mem.watermark /\ t.migrated = mem.migrated
  BY <1>2 DEF Sound, Fields
<1> HIDE DEF t
<1>4. SameWork(mem, t)
  BY <1>2, <1>3 DEF SameWork, Sound, LedgerOK
<1> QED
  BY <1>1, <1>3, <1>4, ChangeGood

(* A removed plan is finished, and its pending wakes are cancelled.        *)
LEMMA RemoveGood == ASSUME Inv, NEW p \in Plan, Remove(p) PROVE Good
<1> DEFINE f == [o \in DOMAIN mem.occs |->
                  IF mem.occs[o].plan = p /\ mem.occs[o].status = "pending" THEN "cancelled"
                  ELSE mem.occs[o].status]
           u == Restatus(mem, f)
           t == SetPlan(u, p, "cancelled")
<1>1. Operation(t) /\ p \in DOMAIN mem.plans /\ UNCHANGED grants
  BY DEF Remove
<1>2. Sound(mem)
  BY DEF Inv, Ledgers
<1>3. /\ f \in [DOMAIN mem.occs -> OccStatus]
      /\ \A o \in DOMAIN mem.occs :
           /\ mem.occs[o].status \notin Startable => f[o] \notin Startable
           /\ mem.occs[o].status \in {"collecting", "unknown"} => f[o] = mem.occs[o].status
  <2>1. \A o \in DOMAIN mem.occs : mem.occs[o].status \in OccStatus
    BY <1>2, SoundRecords DEF OccRec
  <2> QED
    BY <2>1 DEF OccStatus, DoneStatus, Startable
<1> HIDE DEF f
<1>4. Sound(u) /\ Follows(mem, u) /\ Keeps(mem, u, 0) /\ u.plans = mem.plans
  BY <1>2, <1>3, RestatusIs
<1> HIDE DEF u
<1>5. Sound(t) /\ Follows(u, t) /\ Keeps(u, t, 0)
  <2>1. "cancelled" \in PlanStatus /\ "cancelled" \in DoneStatus /\ p \in DOMAIN u.plans
    BY <1>1, <1>4 DEF PlanStatus, DoneStatus
  <2> QED
    BY <1>4, <2>1, SetPlanIs
<1> HIDE DEF t
<1>6. Follows(mem, t) /\ Keeps(mem, t, 0)
  BY <1>2, <1>4, <1>5, FollowsOn, KeepsOn
<1> QED
  BY <1>1, <1>5, <1>6, OperationGood

(* Changes in memory.                                                      *)
LEMMA KeptGood ==
  ASSUME Inv, NEW t, mem' = t, Sound(t), Follows(mem, t), Keeps(mem, t, 0),
         pc' \in PCState, pc'.at \in Plain \/ (pc'.at = "ingest" /\ pc'.todo \subseteq DOMAIN t.plans),
         UNCHANGED <<disk, running, result, now, crashes, doubt, world>>
  PROVE  Good
<1>1. Sound(mem)
  BY DEF Inv, Ledgers
<1>2. running # 0 => running \in DOMAIN t.occs /\ t.occs[running].status = "collecting"
  BY <1>1 DEF Inv, Running, Keeps, Sound
<1>3. \A v : UnknownEvent(mem, v) => UnknownEvent(t, v)
  BY <1>1, DoubtKept
<1> QED
  BY <1>2, <1>3, MemoryGood

(* A clean-up that is not written.                                         *)
LEMMA UnsavedGood == ASSUME Inv, Unsaved PROVE Good
<1>1. Sound(mem) /\ pc \in PCState /\ pc.at \in Plain
  BY DEF Inv, Ledgers, TypeOK, PCState, Unsaved, Idle, Plain
<1>2. PICK s \in Cleanups(mem) : mem' = s
  BY DEF Unsaved
<1>3. Sound(s) /\ Follows(mem, s) /\ Keeps(mem, s, 0)
  BY <1>1, CleanupsAre
<1>4. pc' = pc /\ UNCHANGED <<disk, running, result, now, crashes, doubt, world>>
  BY DEF Unsaved
<1> QED
  BY <1>1, <1>2, <1>3, <1>4, KeptGood

(* A new sample raises the watermark in memory.                            *)
LEMMA ReceiveNativeGood == ASSUME Inv, NEW t \in 1..MaxTime, ReceiveNative(t) PROVE Good
<1> DEFINE s == [mem EXCEPT !.watermark = t]
<1>1. Sound(mem)
  BY DEF Inv, Ledgers
<1>2. /\ DOMAIN s = Fields /\ s.plans = mem.plans /\ s.occs = mem.occs /\ s.last = mem.last
      /\ s.attempts = mem.attempts /\ s.policy = mem.policy /\ s.events = mem.events
      /\ s.watermark = t /\ s.migrated = mem.migrated
  BY <1>1 DEF Sound, Fields
<1>3. mem' = s /\ UNCHANGED <<disk, running, result, now, crashes, doubt, world>>
  BY DEF ReceiveNative
<1>4. pc' \in PCState /\ pc'.at = "ingest" /\ pc'.todo \subseteq DOMAIN s.plans
  <2>1. {p \in DOMAIN mem.plans : Receptive(p)} \in SUBSET Plan
    BY <1>1, SoundRecords
  <2> QED
    BY <1>2, <2>1, Timing DEF ReceiveNative, At, PCState, PCAt
<1> HIDE DEF s
<1>5. t \in Nat
  BY Timing
<1>6. SameWork(mem, s)
  BY <1>1, <1>2, <1>5 DEF SameWork, Sound, LedgerOK
<1>7. Sound(s) /\ Follows(mem, s) /\ Keeps(mem, s, 0)
  BY <1>1, <1>2, <1>6, SameWorkIs
<1> QED
  BY <1>3, <1>4, <1>7, KeptGood

(* Room says that the observation and its maintenance wake found ids.      *)
LEMMA ObserveGood == ASSUME Inv, NEW p \in pc.todo, NEW r \in Results(p), Observe(p, r) PROVE Good
<1> DEFINE s == AddOcc(mem, "collecting", p, 0, now + Pendency[p])
           t == FinishCollection(s, s.last, r)
<1>1. Sound(mem) /\ pc \in PCState /\ p \in Plan
  BY DEF Inv, Ledgers, TypeOK, PCState
<1>2. mem' = t /\ Room(t) /\ mem.last < MaxOcc
      /\ UNCHANGED <<disk, running, result, now, crashes, doubt, world>>
  BY DEF Observe
<1>3. /\ pc' \in PCState /\ pc'.at = "ingest" /\ pc'.todo \subseteq DOMAIN mem.plans
      /\ p \in DOMAIN mem.plans
  <2>1. pc' = [pc EXCEPT !.todo = @ \ {p}] /\ pc.at = "ingest" /\ pc.todo \subseteq DOMAIN mem.plans
    BY DEF Observe, Inv, Ingests
  <2> QED
    BY <1>1, <2>1 DEF PCState
<1>4. /\ Sound(s) /\ Follows(mem, s) /\ Keeps(mem, s, 0) /\ s.last = mem.last + 1
      /\ s.last \in DOMAIN s.occs /\ s.last \notin DOMAIN mem.occs
      /\ s.occs[s.last].status = "collecting" /\ s.plans = mem.plans
  <2>1. "collecting" \in OccStatus /\ 0 \in 0..MaxOcc /\ now + Pendency[p] \in Nat
    BY <1>1, NowNat, Timing DEF OccStatus, OpenStatus
  <2> QED
    BY <1>1, <1>2, <1>3, <2>1, AddOccIs
<1> HIDE DEF s
<1>5. t.last \in Nat /\ DOMAIN t.occs \subseteq 1..(s.last + 1) /\ s.last \in Nat
      /\ t.last \in {s.last, s.last + 1} /\ DOMAIN t.plans = DOMAIN mem.plans
  BY <1>4, FinishIds DEF Sound, LedgerOK
<1> HIDE DEF t
<1>6. Cardinality(Interrupted(t)) \in Nat
  <2>1. Interrupted(t) \subseteq 1..(s.last + 1)
    BY <1>5 DEF Interrupted
  <2>2. IsFiniteSet(1..(s.last + 1))
    BY <1>5, FS_Interval
  <2>3. IsFiniteSet(Interrupted(t))
    BY <2>1, <2>2, FS_Subset
  <2> QED
    BY <2>3, FS_CardinalityType
<1>7. s.last < MaxOcc \/ t.last = s.last
  <2>1. t.last <= MaxOcc
    BY <1>2, <1>5, <1>6, Timing DEF Room
  <2> QED
    BY <1>5, <2>1, Timing
<1>8. Sound(t) /\ Follows(s, t) /\ Keeps(s, t, s.last)
  BY <1>4, <1>7, FinishIs, NowNat DEF t
<1>9. Follows(mem, t)
  BY <1>1, <1>4, <1>8, FollowsOn
<1>10. Keeps(mem, t, 0)
  BY <1>4, <1>8 DEF Keeps
<1> QED
  BY <1>2, <1>3, <1>5, <1>8, <1>9, <1>10, KeptGood

(* Writes at the end of a step that leaves collections alone.              *)
LEMMA StepGood ==
  ASSUME Inv, NEW t, NEW next, Commit(t, next), Sound(t), Follows(mem, t), Keeps(mem, t, 0),
         Prepared(t, next), UNCHANGED <<now, doubt, world>>
  PROVE  Good
<1>1. Sound(mem) /\ grants \subseteq Grant
  BY DEF Inv, Ledgers, TypeOK
<1>2. running # 0 => running \in DOMAIN t.occs /\ t.occs[running].status = "collecting"
  BY <1>1 DEF Inv, Running, Keeps, Sound
<1>3. \A v : UnknownEvent(mem, v) => UnknownEvent(t, v)
  BY <1>1, DoubtKept
<1> QED
  BY <1>1, <1>2, <1>3, CommitGood DEF world

(* The samples are written, or left in memory.                             *)
LEMMA IngestedGood == ASSUME Inv, Ingested PROVE Good
<1>1. CASE Commit(mem, At("idle"))
  <2>1. Prepared(mem, At("idle"))
    BY PlainAt DEF Plain, Prepared
  <2>2. Sound(mem) /\ Follows(mem, mem) /\ Keeps(mem, mem, 0)
    BY FollowsSelf DEF Inv, Ledgers
  <2> QED
    BY <1>1, <2>1, <2>2, StepGood DEF Ingested
<1>2. CASE pc' = At("idle") /\ UNCHANGED <<mem, disk, running, result, crashes>>
  <2>1. /\ result \in {"none", "match", "nomatch", "nonterminal", "condition_error", "failed", "lost"}
        /\ now \in Nat /\ native \in [Occ -> NativeState] /\ (result # "none" => running # 0)
    BY DEF Inv, TypeOK, Running
  <2> QED
    BY <1>2, <2>1, QuietGood DEF Ingested, world
<1> QED
  BY <1>1, <1>2 DEF Ingested

(* A pending occurrence changes.                                           *)
LEMMA PendingIs ==
  ASSUME NEW s, Sound(s), NEW o \in DOMAIN s.occs, s.occs[o].status \in {"pending", "dispatching"},
         NEW st \in OccStatus
  PROVE  LET t == SetOcc(s, o, st)
         IN  Sound(t) /\ Keeps(s, t, 0) /\ (s.occs[o].status = "pending" => Follows(s, t))
<1>1. Sound(SetOcc(s, o, st)) /\ Keeps(s, SetOcc(s, o, st), o)
      /\ (s.occs[o].status = "pending" => Follows(s, SetOcc(s, o, st)))
  BY SetOccIs DEF Startable
<1> QED
  BY <1>1 DEF Keeps

(* A pending wake expires or is cancelled.                                 *)
LEMMA SettleGood ==
  ASSUME Inv, NEW o \in DOMAIN mem.occs, mem.occs[o].status = "pending",
         NEW st \in {"expired", "cancelled"}, SettlePending(o, st)
  PROVE  Good
<1>1. Sound(mem) /\ st \in OccStatus
  BY DEF Inv, Ledgers, OccStatus, DoneStatus
<1>2. Sound(SetOcc(mem, o, st)) /\ Keeps(mem, SetOcc(mem, o, st), 0) /\ Follows(mem, SetOcc(mem, o, st))
  BY <1>1, PendingIs
<1>3. Prepared(SetOcc(mem, o, st), At("idle"))
  BY PlainAt DEF Plain, Prepared
<1> QED
  BY <1>2, <1>3, StepGood DEF SettlePending

(* The state of Engine.mu with an attempt on disk.                         *)
LEMMA NextSubmit ==
  ASSUME NEW o \in Occ, NEW w \in Nat
  PROVE  LET next == [At("submit") EXCEPT !.occ = o, !.prev = w]
         IN  next \in PCState /\ next.at = "submit" /\ next.occ = o
<1> DEFINE a == At("submit")
<1>1. a \in PCState /\ a.at = "submit" /\ o \in 0..MaxOcc
  BY Timing DEF At, PCState, PCAt, Occ
<1> HIDE DEF a
<1>2. LET next == [a EXCEPT !.occ = o, !.prev = w]
      IN  next \in PCState /\ next.at = "submit" /\ next.occ = o
  BY <1>1 DEF PCState
<1> QED
  BY <1>2 DEF a

(* What is dispatched is pending, so it was not sent.                      *)
LEMMA DispatchGood == ASSUME Inv, NEW o \in DOMAIN mem.occs, Dispatch(o) PROVE Good
<1> DEFINE p == mem.occs[o].plan
           w == mem.plans[p].lastWake
           u == SetOcc(mem, o, "dispatching")
           t == [u EXCEPT !.plans[p].lastWake = now, !.attempts = @ \cup {<<o, now>>}]
           next == [At("submit") EXCEPT !.occ = o, !.prev = w]
<1>1. /\ Sound(mem) /\ mem.occs[o].status = "pending" /\ o \in Occ /\ now \in Nat
      /\ p \in DOMAIN mem.plans /\ w \in Nat /\ "dispatching" \in OccStatus
  BY SoundRecords, NowNat DEF Inv, Ledgers, Dispatch, First, Actionable, OccStatus, OpenStatus, PlanRec
<1>2. Commit(t, next) /\ UNCHANGED <<now, doubt, world>>
  BY DEF Dispatch
<1> HIDE DEF p, w
<1>3. next \in PCState /\ next.at = "submit" /\ next.occ = o
  BY <1>1, NextSubmit
<1> HIDE DEF next
<1>4. /\ Sound(u) /\ Follows(mem, u) /\ Keeps(mem, u, 0) /\ u.plans = mem.plans
      /\ o \in DOMAIN u.occs /\ u.occs[o].status = "dispatching"
  BY <1>1, PendingIs, SetOccIs
<1> HIDE DEF u
<1>5. Sound(t) /\ Follows(u, t) /\ Keeps(u, t, 0) /\ t.occs = u.occs
  <2>1. Attempted(u, t, p, now)
    BY <1>1, <1>4 DEF Attempted, Sound, LedgerOK, Fields
  <2> HIDE DEF t
  <2> QED
    BY <1>1, <1>4, <2>1, AttemptedIs DEF Attempted
<1> HIDE DEF t
<1>6. Follows(mem, t) /\ Keeps(mem, t, 0)
  BY <1>1, <1>4, <1>5, FollowsOn, KeepsOn
<1>7. Prepared(t, next)
  <2>1. sent[o] = <<>>
    BY <1>1 DEF Inv, SentOnce, SentBefore, SentIn, Startable
  <2> QED
    BY <1>2, <1>3, <1>4, <1>5, <2>1 DEF Prepared, world
<1> QED
  BY <1>2, <1>5, <1>6, <1>7, StepGood

(* The collector to start is not in doubt.                                 *)
LEMMA StartCollectionGood == ASSUME Inv, NEW p \in DOMAIN mem.plans, StartCollection(p) PROVE Good
<1> DEFINE u == AddOcc(mem, "collecting", p, 0, now + WakeLife)
           n == IF Kind[p] = "after" THEN u.plans[p].next ELSE now + Seconds[p]
           t == [u EXCEPT !.plans[p].next = n]
           next == [At("spawn") EXCEPT !.occ = mem.last + 1]
<1>1. Commit(t, next) /\ UNCHANGED <<now, doubt, world>> /\ running = 0 /\ Due(p)
      /\ mem.last + 2 <= MaxOcc
  BY DEF StartCollection, Earliest, DuePlans
<1>2. Sound(mem) /\ p \in Plan /\ now \in Nat /\ mem.plans[p].next \in Nat /\ mem.last \in Nat
  BY SoundRecords, NowNat DEF Inv, Ledgers, PlanRec, Sound, LedgerOK
<1>3. next \in PCState /\ next.at = "spawn" /\ next.occ = mem.last + 1
  BY <1>1, <1>2, Timing DEF At, PCState, PCAt
<1> HIDE DEF next
<1>4. /\ Sound(u) /\ Follows(mem, u) /\ Keeps(mem, u, 0) /\ u.plans = mem.plans
      /\ mem.last + 1 \in DOMAIN u.occs
      /\ u.occs[mem.last + 1].status = "collecting" /\ u.occs[mem.last + 1].plan = p
  <2>1. /\ "collecting" \in OccStatus /\ 0 \in 0..MaxOcc /\ now + WakeLife \in Nat
        /\ mem.last < MaxOcc
    BY <1>1, <1>2, Timing DEF OccStatus, OpenStatus
  <2> QED
    BY <1>2, <2>1, AddOccIs
<1> HIDE DEF u
<1>5. n \in Nat
  BY <1>2, <1>4, Timing
<1> HIDE DEF n
<1>6. Sound(t) /\ Follows(u, t) /\ Keeps(u, t, 0) /\ t.occs = u.occs
  BY <1>4, <1>5, NextIs
<1> HIDE DEF t
<1>7. Follows(mem, t) /\ Keeps(mem, t, 0)
  BY <1>2, <1>4, <1>6, FollowsOn, KeepsOn
<1>8. EventOf[p] \notin doubt
  BY <1>1 DEF Due, Inv, InDoubt
<1>9. Prepared(t, next)
  BY <1>1, <1>3, <1>4, <1>6, <1>8 DEF Prepared
<1> QED
  BY <1>1, <1>6, <1>7, <1>9, StepGood

(* The second part of a tick.                                              *)
LEMMA ScanningGood == ASSUME Inv, Scanning PROVE Good
<1>1. ASSUME NEW o \in DOMAIN mem.occs, Expire(o) \/ CancelMoot(o) PROVE Good
  <2>1. mem.occs[o].status = "pending"
    BY <1>1 DEF Expire, CancelMoot, First, Actionable
  <2> QED
    BY <1>1, <2>1, SettleGood DEF Expire, CancelMoot
<1> QED
  BY <1>1, DispatchGood, StartCollectionGood, WorldGood DEF Scanning

(* The Runtime's answer: the wake may be pending again only if it was not  *)
(* sent.                                                                   *)
LEMMA AnswerGood ==
  ASSUME Inv, pc.at = "submit", NEW t, Commit(t, At("idle")), Sound(t),
         FinalStays(mem, t), Keeps(mem, t, 0), SentIn(t, sent'), SentIn(disk, sent'),
         sent' \in [Occ -> Seq(Nat)], \A o \in Occ : Len(sent'[o]) <= 1,
         native' \in [Occ -> NativeState], UNCHANGED <<now, doubt, grants>>
  PROVE  Good
<1>1. Prepared(t, At("idle"))
  BY PlainAt DEF Plain, Prepared
<1>2. \A v : UnknownEvent(mem, v) => UnknownEvent(t, v)
  BY DoubtKept DEF Inv, Ledgers
<1>3. running # 0 => running \in DOMAIN t.occs /\ t.occs[running].status = "collecting"
  BY DEF Inv, Running, Keeps, Ledgers, Sound
<1>4. (running = 0 => result = "none") /\ grants' \subseteq Grant
  BY DEF Inv, Running, TypeOK
<1>5. Revoking
  BY DEF Revoking
<1> QED
  BY <1>1, <1>2, <1>3, <1>4, <1>5, WriteGood DEF Commit

(* A deferral: pending again, and not sent.                                *)
LEMMA SubmitDeferredGood == ASSUME Inv, SubmitDeferred PROVE Good
<1> DEFINE o == pc.occ
           p == mem.occs[o].plan
           u == SetOcc(mem, o, "pending")
           t == [u EXCEPT !.plans[p].lastWake = pc.prev, !.attempts = @ \ {<<o, now>>}]
<1>1. /\ pc.at = "submit" /\ Sound(mem) /\ mem = disk
      /\ o \in DOMAIN mem.occs /\ mem.occs[o].status = "dispatching" /\ sent[o] = <<>>
      /\ o \in Occ /\ p \in DOMAIN mem.plans /\ now \in Nat /\ pc.prev \in Nat /\ "pending" \in OccStatus
  BY SoundRecords, NowNat
     DEF SubmitDeferred, Inv, Ledgers, Submits, TypeOK, PCState, OccStatus, OpenStatus
<1>2. Commit(t, At("idle")) /\ UNCHANGED <<now, doubt, world>>
  BY DEF SubmitDeferred
<1> HIDE DEF o, p
<1>3. /\ Sound(u) /\ Keeps(mem, u, 0) /\ u.plans = mem.plans /\ u.last = mem.last
      /\ u.migrated = mem.migrated
      /\ DOMAIN u.occs = DOMAIN mem.occs
      /\ \A x \in DOMAIN mem.occs : x # o => u.occs[x] = mem.occs[x]
  BY <1>1, PendingIs, SetOccIs
<1> HIDE DEF u
<1>4. Sound(t) /\ Follows(u, t) /\ Keeps(u, t, 0) /\ t.occs = u.occs /\ t.last = u.last
  <2>1. Attempted(u, t, p, pc.prev)
    BY <1>1, <1>3 DEF Attempted, Sound, LedgerOK, Fields
  <2> HIDE DEF t
  <2> QED
    BY <1>1, <1>3, <2>1, AttemptedIs DEF Attempted
<1> HIDE DEF t
<1>5. FinalStays(mem, t) /\ Keeps(mem, t, 0)
  BY <1>3, <1>4, KeepsOn DEF Follows, FinalKept, FinalStays, Finished
<1>6. SentIn(t, sent)
  BY <1>1, <1>3, <1>4 DEF Inv, SentOnce, SentBefore, SentIn, Follows
<1> QED
  BY <1>1, <1>2, <1>4, <1>5, <1>6, AnswerGood DEF world, Inv, TypeOK, SentOnce, SentBefore

(* Any other answer: sent once, and not startable.                         *)
LEMMA SubmitGood ==
  ASSUME Inv, NEW answer \in {"accepted", "failed", "unknown_wake"}, NEW fate \in NativeState,
         Submit(answer, fate)
  PROVE  Good
<1> DEFINE o == pc.occ
           t == SetOcc(mem, o, answer)
<1>1. /\ pc.at = "submit" /\ Sound(mem) /\ mem = disk
      /\ o \in DOMAIN mem.occs /\ mem.occs[o].status = "dispatching" /\ sent[o] = <<>>
      /\ o \in Occ /\ now \in Nat /\ answer \in OccStatus /\ answer \notin Startable
  BY SoundRecords, NowNat
     DEF Submit, Inv, Ledgers, Submits, OccStatus, OpenStatus, DoneStatus, Startable
<1>2. /\ Commit(t, At("idle")) /\ UNCHANGED <<now, doubt, grants>>
      /\ native' = [native EXCEPT ![o] = fate]
      /\ sent' = [sent EXCEPT ![o] = Append(sent[o], now)]
  BY DEF Submit
<1> HIDE DEF o
<1>3. /\ Sound(t) /\ Keeps(mem, t, 0) /\ Follows(mem, t) /\ t.plans = mem.plans /\ t.last = mem.last
      /\ t.occs[o].status = answer
  BY <1>1, PendingIs, SetOccIs
<1> HIDE DEF t
<1>4. /\ native' \in [Occ -> NativeState] /\ sent' \in [Occ -> Seq(Nat)]
      /\ Len(sent'[o]) = 1 /\ \A x \in Occ : x # o => sent'[x] = sent[x]
  BY <1>1, <1>2 DEF Inv, TypeOK
<1>5. \A x \in Occ : Len(sent'[x]) <= 1
  <2>1. \A x \in Occ : Len(sent[x]) <= 1
    BY DEF Inv, SentOnce
  <2>2. ASSUME NEW x \in Occ, x # o PROVE Len(sent'[x]) <= 1
    BY <1>4, <2>1, <2>2
  <2>3. Len(sent'[o]) <= 1
    BY <1>4
  <2> QED
    BY <2>2, <2>3
<1>6. SentIn(disk, sent')
  <2>1. o <= mem.last
    BY <1>1 DEF Sound, LedgerOK
  <2>2. ~mem.migrated => \A p \in Imported : ImportOcc[p] # o
    BY <1>1, ImportedFit, Identities DEF Sound, Occ
  <2>3. \A p \in Imported : ImportOcc[p] \in Occ
    BY Identities
  <2>4. ~mem.migrated => \A p \in Imported : Legacy[p].saved = "pending" => sent'[ImportOcc[p]] = <<>>
    BY <1>1, <1>4, <2>2, <2>3 DEF Inv, SentOnce, SentBefore, SentIn
  <2>5. "dispatching" \notin Startable
    BY DEF Startable
  <2>6. \A x \in Occ : sent'[x] # <<>> =>
          x <= mem.last /\ (x \in DOMAIN mem.occs => mem.occs[x].status \notin Startable)
    BY <1>1, <1>4, <2>1, <2>5 DEF Inv, SentOnce, SentBefore, SentIn
  <2> QED
    BY <1>1, <2>4, <2>6 DEF SentIn
<1>7. SentIn(t, sent')
  BY <1>1, <1>3, <1>6 DEF SentIn, Follows, Sound, LedgerOK, Occ
<1>8. FinalStays(mem, t)
  BY <1>3 DEF FinalStays, Follows, FinalKept
<1> QED
  BY <1>1, <1>2, <1>3, <1>4, <1>5, <1>6, <1>7, <1>8, AnswerGood

(* The answers together.                                                   *)
LEMMA SubmittingGood == ASSUME Inv, Submitting PROVE Good
BY SubmitDeferredGood, SubmitGood
   DEF Submitting, SubmitAccepted, SubmitRejected, SubmitUnknown, NativeState

(* The collector to be started joins those in doubt.                       *)
LEMMA SpawnGood == ASSUME Inv, Spawn PROVE Good
<1>1. /\ disk' = disk /\ mem' = mem /\ running' = pc.occ /\ pc' = At("idle") /\ result' = result
      /\ doubt' = doubt \cup {EventOf[mem.occs[pc.occ].plan]}
      /\ now' = now /\ crashes' = crashes /\ native' = native /\ sent' = sent /\ grants' = grants
  BY DEF Spawn, world
<1>2. /\ running = 0 /\ pc.occ \in DOMAIN mem.occs /\ mem.occs[pc.occ].status = "collecting"
      /\ EventOf[mem.occs[pc.occ].plan] \notin doubt /\ mem = disk /\ Sound(mem) /\ result = "none"
      /\ pc.occ \in 0..MaxOcc /\ pc.occ # 0
  BY SoundRecords DEF Spawn, Inv, Spawning, Ledgers, Running, TypeOK, Occ
<1>3. At("idle") \in PCState /\ At("idle").at = "idle"
  BY PlainAt DEF Plain
<1>4. EventOf[mem.occs[pc.occ].plan] \in Event
  BY <1>2, SoundRecords, Identities
<1>5. TypeOK'
  <2>1. LedgerOK(mem)' /\ LedgerOK(disk)'
    BY <1>1 DEF Inv, TypeOK, LedgerOK
  <2> QED
    BY <1>1, <1>2, <1>3, <1>4, <2>1 DEF Inv, TypeOK, PCState
<1>6. Ledgers'
  BY <1>1, <1>2, <1>3 DEF Inv, Ledgers, Sound, LedgerOK, Finished, FinalKept
<1>7. SentOnce'
  BY <1>1 DEF Inv, SentOnce, SentBefore, SentIn
<1>8. Submits' /\ Spawning' /\ Ingests' /\ Running'
  BY <1>1, <1>2, <1>3 DEF Submits, Spawning, Ingests, Running
<1>9. InDoubt'
  <2>1. UnknownEvent(mem, EventOf[mem.occs[pc.occ].plan])
    BY <1>2 DEF UnknownEvent
  <2> QED
    BY <1>1, <1>2, <2>1 DEF Inv, InDoubt, UnknownEvent
<1>10. Durably /\ NoRerun /\ Revoking
  BY <1>1, <1>2 DEF Durably, NoRerun, Revoking, Finished
<1> QED
  BY <1>5, <1>6, <1>7, <1>8, <1>9, <1>10 DEF Inv, Good

(* The migration.  A legacy wake that is to be pending was never sent.     *)
LEMMA MigrateGood == ASSUME Inv, Migrate PROVE Good
<1> DEFINE P == [p \in DOMAIN mem.plans \cup Imported |->
                  IF p \in Imported THEN ImportedPlan(p) ELSE mem.plans[p]]
           E == [v \in DOMAIN mem.events \cup {EventOf[p] : p \in Imported} |->
                  IF v \in DOMAIN mem.events THEN mem.events[v] ELSE "live"]
           O == [o \in DOMAIN mem.occs \cup {ImportOcc[p] : p \in Kept} |->
                  IF o \in DOMAIN mem.occs THEN mem.occs[o]
                  ELSE ImportedOcc(CHOOSE p \in Kept : ImportOcc[p] = o)]
           t == [mem EXCEPT !.migrated = TRUE, !.plans = P, !.events = E, !.occs = O]
<1>1. /\ Sound(mem) /\ ~mem.migrated /\ now \in Nat /\ pc.at = "migrate"
      /\ \A o \in DOMAIN mem.occs : o > Cardinality(Imported)
      /\ DOMAIN mem.plans \cap Imported = {}
      /\ Commit(t, At("idle")) /\ UNCHANGED <<now, doubt, world>>
  BY NowNat DEF Migrate, Inv, Ledgers, Sound
<1>2. /\ DOMAIN t = Fields /\ t.last = mem.last /\ t.attempts = mem.attempts
      /\ t.policy = mem.policy /\ t.watermark = mem.watermark /\ t.migrated = TRUE
      /\ t.plans = P /\ t.events = E /\ t.occs = O
  BY <1>1 DEF Sound, Fields
<1>3. /\ DOMAIN P = DOMAIN mem.plans \cup Imported /\ P \in [DOMAIN P -> PlanRec]
      /\ \A p \in DOMAIN mem.plans : P[p] = mem.plans[p]
      /\ \A p \in Imported : P[p].failures = 0
  <2>1. \A p \in Imported : ImportedPlan(p) \in PlanRec /\ ImportedPlan(p).failures = 0
    BY <1>1, Timing, Identities DEF ImportedPlan, PlanRec, PlanStatus, DoneStatus, MaxFailures
  <2> QED
    BY <1>1, <2>1, SoundRecords
<1>4. DOMAIN E \subseteq Event /\ E \in [DOMAIN E -> EventStatus]
  BY <1>1, Identities DEF Sound, LedgerOK, EventStatus
<1>5. \A o \in DOMAIN O \ DOMAIN mem.occs :
        \E p \in Kept : /\ ImportOcc[p] = o /\ O[o] = ImportedOcc(p) /\ ImportedOcc(p) \in OccRec
                        /\ p \in Imported /\ o \in Occ /\ o <= Cardinality(Imported) /\ O[o].plan = p
                        /\ (O[o].status \in Startable => Legacy[p].saved = "pending")
  <2> SUFFICES ASSUME NEW o \in DOMAIN O \ DOMAIN mem.occs
               PROVE  \E p \in Kept :
                        /\ ImportOcc[p] = o /\ O[o] = ImportedOcc(p) /\ ImportedOcc(p) \in OccRec
                        /\ p \in Imported /\ o \in Occ /\ o <= Cardinality(Imported) /\ O[o].plan = p
                        /\ (O[o].status \in Startable => Legacy[p].saved = "pending")
    OBVIOUS
  <2> DEFINE p == CHOOSE p \in Kept : ImportOcc[p] = o
  <2>1. p \in Kept /\ ImportOcc[p] = o /\ O[o] = ImportedOcc(p)
    OBVIOUS
  <2> HIDE DEF p, O
  <2>2. p \in Imported /\ Legacy[p].saved \in {"pending", "unknown_wake", "accepted"} /\ p \in Plan
        /\ o \in Occ /\ o <= Cardinality(Imported)
    BY <2>1, Identities DEF Kept
  <2>3. /\ ImportedOcc(p).plan = p
        /\ ImportedOcc(p).status \in {Legacy[p].saved, "cancelled"}
        /\ ImportedOcc(p) \in OccRec
    BY <1>1, <2>2, Timing DEF ImportedOcc, OccRec, OccStatus, OpenStatus, DoneStatus
  <2> QED
    BY <2>1, <2>2, <2>3 DEF Startable
<1>6. /\ \A o \in DOMAIN mem.occs : o \in DOMAIN O /\ O[o] = mem.occs[o]
      /\ O = [o \in DOMAIN O |-> O[o]]
  OBVIOUS
<1> HIDE DEF P, E, O, t
<1>7. DOMAIN O \subseteq Occ /\ DOMAIN O \subseteq 1..mem.last /\ O \in [DOMAIN O -> OccRec]
      /\ \A o \in DOMAIN O : O[o].plan \in DOMAIN P
  <2>1. \A o \in DOMAIN O : /\ o \in Occ /\ o \in 1..mem.last /\ O[o] \in OccRec
                            /\ O[o].plan \in DOMAIN P
    <3> SUFFICES ASSUME NEW o \in DOMAIN O
                 PROVE  o \in Occ /\ o \in 1..mem.last /\ O[o] \in OccRec /\ O[o].plan \in DOMAIN P
      OBVIOUS
    <3>1. CASE o \in DOMAIN mem.occs
      BY <1>1, <1>3, <1>6, <3>1, SoundRecords DEF Sound
    <3>2. CASE o \notin DOMAIN mem.occs
      BY <1>1, <1>3, <1>5, <3>2, ImportedFit DEF Sound, LedgerOK, Occ
    <3> QED
      BY <3>1, <3>2
  <2> QED
    BY <1>6, <2>1
<1>8. Sound(t)
  <2>1. LedgerOK(t)
    BY <1>1, <1>2, <1>3, <1>4, <1>7, Identities DEF Sound, LedgerOK
  <2>2. \A p \in DOMAIN t.plans : ~Finished(t, p) => t.plans[p].failures < MaxFailures
    BY <1>1, <1>2, <1>3 DEF Sound, Finished, MaxFailures
  <2> QED
    BY <1>1, <1>2, <1>7, <2>1, <2>2 DEF Sound
<1>9. FinalStays(mem, t) /\ Keeps(mem, t, 0)
  BY <1>2, <1>3, <1>6 DEF FinalStays, Finished, Keeps
<1>10. SentIn(t, sent)
  <2> SUFFICES ASSUME NEW o \in Occ, sent[o] # <<>>
               PROVE  o <= mem.last /\ (o \in DOMAIN O => O[o].status \notin Startable)
    BY <1>2 DEF SentIn
  <2>1. SentIn(mem, sent)
    BY DEF Inv, SentOnce, SentBefore
  <2>2. CASE o \in DOMAIN mem.occs \/ o \notin DOMAIN O
    BY <1>6, <2>1, <2>2 DEF SentIn
  <2>3. CASE o \in DOMAIN O \ DOMAIN mem.occs
    BY <1>1, <1>5, <2>1, <2>3 DEF SentIn
  <2> QED
    BY <2>2, <2>3
<1>11. Prepared(t, At("idle"))
  BY PlainAt DEF Plain, Prepared
<1>12. \A v : UnknownEvent(mem, v) => UnknownEvent(t, v)
  BY <1>1, <1>9, DoubtKept
<1>13. running # 0 => running \in DOMAIN t.occs /\ t.occs[running].status = "collecting"
  BY <1>1, <1>9 DEF Inv, Running, Keeps, Sound
<1>14. Revoking /\ grants' \subseteq Grant /\ (running = 0 => result = "none")
  BY <1>1 DEF Revoking, world, Inv, Running, TypeOK
<1> QED
  BY <1>1, <1>8, <1>9, <1>10, <1>11, <1>12, <1>13, <1>14, WriteGood
     DEF Commit, world, Inv, TypeOK, SentOnce, SentBefore

(* A tick that has nothing to write.                                       *)
LEMMA NothingNewGood ==
  ASSUME Inv, UNCHANGED <<mem, disk, running, result, now, crashes, native, sent>>,
         pc' = At("scan"), pc.at = "idle", doubt' \subseteq doubt, grants' \subseteq Grant, Revoking
  PROVE  Good
<1>0. At("scan") \in PCState /\ At("scan").at = "scan"
  BY PlainAt DEF Plain
<1>1. TypeOK'
  BY <1>0 DEF Inv, TypeOK, LedgerOK, PCState
<1>2. Ledgers'
  BY <1>0 DEF Inv, Ledgers, Sound, LedgerOK, Finished, FinalKept
<1>3. SentOnce'
  BY DEF Inv, SentOnce, SentBefore, SentIn
<1>4. Submits' /\ Spawning' /\ Ingests' /\ Running'
  BY <1>0 DEF Inv, Submits, Spawning, Ingests, Running
<1>5. InDoubt'
  BY DEF Inv, InDoubt, UnknownEvent
<1>6. Durably /\ NoRerun
  BY DEF Durably, NoRerun, Finished
<1> QED
  BY <1>1, <1>2, <1>3, <1>4, <1>5, <1>6 DEF Inv, Good

(* The answer in flight leaves no doubt but the one it confirms.           *)
Finishing == IF result = "none" THEN 0 ELSE running
(* The ledger with the answer in it.                                       *)
LEMMA DrainedIs ==
  ASSUME Inv, result # "none" => mem.last < MaxOcc
  PROVE  /\ Sound(Drained) /\ Follows(mem, Drained) /\ Keeps(mem, Drained, Finishing)
         /\ result = "lost" => /\ running \in DOMAIN Drained.occs
                              /\ Drained.occs[running].status = "unknown"
                              /\ Drained.occs[running].plan = mem.occs[running].plan
<1>1. Sound(mem) /\ now \in Nat
  BY NowNat DEF Inv, Ledgers
<1>2. CASE result = "none"
  BY <1>1, <1>2, FollowsSelf DEF Drained, Finishing
<1>3. CASE result # "none"
  <2>1. running \in DOMAIN mem.occs /\ mem.occs[running].status = "collecting" /\ mem.last < MaxOcc
    BY <1>3 DEF Inv, Running
  <2>2. Drained = FinishCollection(mem, running, result) /\ Finishing = running
    BY <1>3 DEF Drained, Finishing
  <2> QED
    BY <1>1, <2>1, <2>2, FinishIs
<1> QED
  BY <1>2, <1>3

(* The first part of a tick.                                               *)
LEMMA TickBeginGood == ASSUME Inv, TickBegin PROVE Good
<1> DEFINE d == Drained
           x == Finishing
<1>1. PICK seen \in SUBSET Readable(d) : \E c \in Cleanups(Reconciled(d, seen)) : Retire(c)
  BY DEF TickBegin
<1> DEFINE r == Reconciled(d, seen)
<1>2. PICK c \in Cleanups(r) : Retire(c)
  BY <1>1
<1>3. /\ Sound(mem) /\ pc.at = "idle" /\ now' = now /\ native' = native /\ sent' = sent
      /\ doubt' = IF result \in {"none", "lost"} THEN doubt
                  ELSE doubt \ {EventOf[mem.occs[running].plan]}
  BY DEF TickBegin, Idle, Inv, Ledgers
<1>4. /\ Sound(d) /\ Follows(mem, d) /\ Keeps(mem, d, x)
      /\ result = "lost" => /\ running \in DOMAIN d.occs /\ d.occs[running].status = "unknown"
                           /\ d.occs[running].plan = mem.occs[running].plan
  BY DrainedIs DEF TickBegin
<1> HIDE DEF d
<1>5. Sound(r) /\ Follows(d, r) /\ Keeps(d, r, 0)
  BY <1>4, ReconciledIs
<1> HIDE DEF r
<1>6. Sound(c) /\ Follows(r, c) /\ Keeps(r, c, 0)
  BY <1>2, <1>5, CleanupsAre
<1>7. PICK t : Written(t) /\ SameWork(c, t) /\ Sound(t) /\ Keeps(c, t, 0) /\ Needless(t)
  BY <1>2, <1>6, RetireIs
<1>8. Follows(mem, c)
  <2>1. Follows(mem, r)
    BY <1>3, <1>4, <1>5, FollowsOn
  <2> QED
    BY <1>3, <1>5, <1>6, <2>1, FollowsOn
<1>9. Keeps(d, t, 0)
  BY <1>5, <1>6, <1>7, KeepsOn
<1>10. Keeps(mem, t, x)
  BY <1>4, <1>9, KeepsAll, KeepsOn
<1>11. \A v \in doubt' : UnknownEvent(mem, v) => UnknownEvent(t, v)
  <2>1. CASE result = "none"
    BY <1>3, <1>10, <2>1, DoubtKept DEF Finishing
  <2>2. CASE result # "none"
    <3> SUFFICES ASSUME NEW v \in doubt', NEW o \in DOMAIN mem.occs,
                        EventOf[mem.occs[o].plan] = v, mem.occs[o].status \in {"unknown", "collecting"}
                 PROVE  UnknownEvent(t, v)
      BY DEF UnknownEvent
    <3>1. CASE o # running
      BY <1>10, <2>2, <3>1 DEF Keeps, Finishing, UnknownEvent
    <3>2. CASE o = running
      <4>1. result = "lost"
        BY <1>3, <2>2, <3>2
      <4>2. running # 0
        BY <2>2 DEF Inv, Running
      <4> QED
        BY <1>4, <1>9, <3>2, <4>1, <4>2 DEF Keeps, UnknownEvent
    <3> QED
      BY <3>1, <3>2
  <2> QED
    BY <2>1, <2>2
<1>12. SentIn(t, sent) /\ SentIn(disk, sent)
  <2>1. SentBefore(mem) /\ SentBefore(disk)
    BY DEF Inv, SentOnce
  <2>2. SentBefore(c)
    BY <1>3, <1>6, <1>8, <2>1, SentFollows
  <2> QED
    BY <1>7, <2>1, <2>2 DEF SentBefore, SentIn, SameWork
<1>13. FinalStays(mem, t)
  BY <1>7, <1>8 DEF Follows, FinalKept, FinalStays, SameWork, Finished
<1>14. doubt' \subseteq doubt /\ grants' \subseteq Grant
  BY <1>3, <1>7 DEF Needless, Inv, TypeOK
<1>15. Prepared(t, At("scan"))
  BY PlainAt DEF Plain, Prepared
<1>16. Revoking
  <2>1. At("down").at = "down"
    BY DEF At
  <2> QED
    BY <1>7, <2>1 DEF Revoking, Needless, Written, Saved, Frozen, Holding, Finished, Pending, OccsOf, Unresolved
<1>17. CASE t = mem /\ mem' = mem /\ pc' = At("scan") /\ UNCHANGED <<disk, crashes, running, result>>
  BY <1>3, <1>14, <1>16, <1>17, NothingNewGood
<1>18. CASE \/ /\ Saved(t, At("scan"))
               /\ running' = (IF result = "none" THEN running ELSE 0) /\ result' = "none"
            \/ Frozen(t)
  <2>1. result = "none" /\ running # 0
          => running \in DOMAIN t.occs /\ t.occs[running].status = "collecting"
    BY <1>3, <1>10 DEF Inv, Running, Keeps, Finishing, Sound
  <2>2. sent' \in [Occ -> Seq(Nat)] /\ native' \in [Occ -> NativeState]
        /\ \A o \in Occ : Len(sent'[o]) <= 1
    BY <1>3 DEF Inv, TypeOK, SentOnce
  <2> QED
    BY <1>3, <1>7, <1>11, <1>12, <1>13, <1>14, <1>15, <1>16, <1>18, <2>1, <2>2, WriteGood
<1> QED
  BY <1>7, <1>17, <1>18 DEF Written

(* In the empty ledger the legacy wakes are still to come: the Runtime has *)
(* the operations of those, and only those, that were not pending.         *)
LEMMA InitGood == Init => Inv
<1> SUFFICES ASSUME Init PROVE Inv
  OBVIOUS
<1>1. DOMAIN <<>> = {} /\ \A S : <<>> \in [{} -> S]
  OBVIOUS
<1>2. /\ mem = EmptyLedger /\ disk = EmptyLedger /\ pc = At("down") /\ running = 0 /\ result = "none"
      /\ now = 1 /\ crashes = 0 /\ doubt = {} /\ grants = {GrantOf[p] : p \in Imported}
      /\ native \in [Occ -> NativeState] /\ \A o \in Occ : native[o] \in LegacyNative(o)
      /\ sent = [o \in Occ |-> IF native[o] = "none" THEN <<>> ELSE <<0>>]
  BY DEF Init
<1>3. /\ DOMAIN EmptyLedger = Fields /\ EmptyLedger.plans = <<>> /\ EmptyLedger.events = <<>>
      /\ EmptyLedger.occs = <<>> /\ EmptyLedger.last = Cardinality(Imported)
      /\ EmptyLedger.attempts = {} /\ EmptyLedger.policy = FirstPolicy
      /\ EmptyLedger.watermark = 0 /\ EmptyLedger.migrated = FALSE
  BY DEF EmptyLedger, Fields
<1> HIDE DEF EmptyLedger
<1>4. LedgerOK(EmptyLedger)
  <2>1. /\ DOMAIN EmptyLedger.plans = {} /\ DOMAIN EmptyLedger.events = {} /\ DOMAIN EmptyLedger.occs = {}
        /\ EmptyLedger.plans \in [{} -> PlanRec] /\ EmptyLedger.events \in [{} -> EventStatus]
        /\ EmptyLedger.occs \in [{} -> OccRec]
    BY <1>1, <1>3
  <2>2. /\ EmptyLedger.last \in 0..MaxOcc /\ EmptyLedger.policy \in Policies
        /\ EmptyLedger.watermark \in Nat /\ EmptyLedger.migrated \in BOOLEAN
    <3>1. EmptyLedger.last \in 0..MaxOcc
      BY <1>3, ImportedFit
    <3>2. EmptyLedger.policy \in Policies
      BY <1>3, Budgets, Zenon
    <3>3. EmptyLedger.watermark \in Nat
      BY <1>3
    <3>4. EmptyLedger.migrated \in BOOLEAN
      BY <1>3, Zenon
    <3> QED
      BY <3>1, <3>2, <3>3, <3>4
  <2>3. EmptyLedger.attempts \subseteq Occ \X Nat
    BY <1>3
  <2>4. /\ DOMAIN EmptyLedger.plans \subseteq Plan /\ DOMAIN EmptyLedger.events \subseteq Event
        /\ DOMAIN EmptyLedger.occs \subseteq Occ
    BY <2>1
  <2>5. /\ EmptyLedger.plans \in [DOMAIN EmptyLedger.plans -> PlanRec]
        /\ EmptyLedger.events \in [DOMAIN EmptyLedger.events -> EventStatus]
        /\ EmptyLedger.occs \in [DOMAIN EmptyLedger.occs -> OccRec]
    BY <2>1, Zenon
  <2> QED
    BY <2>2, <2>3, <2>4, <2>5 DEF LedgerOK
<1>5. Sound(EmptyLedger)
  <2>1. DOMAIN EmptyLedger.plans = {} /\ DOMAIN EmptyLedger.occs = {}
    BY <1>1, <1>3
  <2> QED
    BY <1>3, <1>4, <2>1, ImportedFit DEF Sound
<1>6. TypeOK
  <2>1. At("down") \in PCState
    BY Timing DEF At, PCState, PCAt
  <2>2. sent \in [Occ -> Seq(Nat)]
    BY <1>2
  <2>3. grants \subseteq Grant
    BY <1>2, Identities
  <2> QED
    BY <1>2, <1>4, <2>1, <2>2, <2>3, Timing DEF TypeOK, PCState
<1>7. Ledgers
  BY <1>2, <1>5, FinalSelf DEF Ledgers
<1>8. SentOnce
  <2>1. \A o \in Occ : sent[o] = (IF native[o] = "none" THEN <<>> ELSE <<0>>)
    BY <1>2
  <2>2. ASSUME NEW o \in Occ, sent[o] # <<>> PROVE o <= Cardinality(Imported)
    <3>1. native[o] # "none" /\ native[o] \in LegacyNative(o)
      BY <1>2, <2>1, <2>2
    <3>2. \E p \in Imported : ImportOcc[p] = o
      BY <3>1 DEF LegacyNative
    <3> QED
      BY <3>2, Identities
  <2>3. ASSUME NEW p \in Imported, Legacy[p].saved = "pending" PROVE sent[ImportOcc[p]] = <<>>
    <3>1. ImportOcc[p] \in Occ /\ \A q \in Imported : ImportOcc[q] = ImportOcc[p] => q = p
      BY Identities
    <3>2. LegacyNative(ImportOcc[p]) = {"none"}
      BY <2>3, <3>1 DEF LegacyNative
    <3> QED
      BY <1>2, <2>1, <3>1, <3>2
  <2>4. SentIn(EmptyLedger, sent)
    BY <1>1, <1>3, <2>2, <2>3 DEF SentIn
  <2>5. \A o \in Occ : Len(sent[o]) <= 1
    <3>1. Len(<<>>) <= 1 /\ Len(<<0>>) <= 1
      OBVIOUS
    <3>2. \A o \in Occ : sent[o] = <<>> \/ sent[o] = <<0>>
      BY <2>1
    <3> QED
      BY <3>1, <3>2, Zenon
  <2> QED
    BY <1>2, <2>4, <2>5 DEF SentOnce, SentBefore
<1>9. Submits /\ InDoubt /\ Spawning /\ Running /\ Ingests
  BY <1>2 DEF At, Submits, InDoubt, Spawning, Running, Ingests
<1> QED
  BY <1>6, <1>7, <1>8, <1>9 DEF Inv

(* After Open.                                                             *)
LEMMA StartingGood == ASSUME Inv, Starting PROVE Good
BY MigrateGood, WorldGood DEF Starting

(* An ingestion.                                                           *)
LEMMA IngestingGood == ASSUME Inv, Ingesting PROVE Good
BY ObserveGood, IngestedGood DEF Ingesting

(* What the engine does.                                                   *)
LEMMA EngineGood == ASSUME Inv, Engine PROVE Good
BY StartingGood, TickBeginGood, ScanningGood, SubmittingGood, SpawnGood, IngestingGood DEF Engine

(* What is done to it.                                                     *)
LEMMA EnvironmentGood == ASSUME Inv, Environment PROVE Good
BY OpeningGood, WorldGood, UnsavedGood, RegisterGood, ArchiveEventGood, SaveGood, SaveNativeGood,
   RemoveGood, ConfigurePolicyGood, ReceiveNativeGood
   DEF Environment

(* Every step.                                                             *)
LEMMA NextGood == Inv /\ [Next]_vars => Good
BY EngineGood, EnvironmentGood, WorldGood DEF Next

(***************************************************************************)
(* The theorems.                                                           *)
(***************************************************************************)
(* The inductive invariant holds in every state.                           *)
LEMMA Invariance == Spec => []Inv
<1>1. Inv /\ [Next]_vars => Inv'
  BY NextGood DEF Good
<1> QED
  BY <1>1, InitGood, PTL DEF Spec

(* Ledgers in memory and on disk, and the protocol of Engine.mu, keep      *)
(* their types, whatever writes fail.                                      *)
THEOREM Typing == Spec => []TypeOK
<1>1. Inv => TypeOK
  BY DEF Inv
<1> QED
  BY <1>1, Invariance, PTL

(* No occurrence is submitted to the Runtime twice, however many writes    *)
(* fail, answers are lost and processes die around dispatchLocked.         *)
THEOREM OneSubmission == Spec => []AtMostOneWake
<1>1. Inv => AtMostOneWake
  BY DEF Inv, SentOnce, AtMostOneWake
<1> QED
  BY <1>1, Invariance, PTL

(* No collector starts while its event has a collection of unknown outcome *)
(* (nextDueLocked, eventHasUnknownLocked), before or after any restart.    *)
THEOREM NoBlindRerun == Spec => UncertainNeverRerun
<1>1. Inv /\ [Next]_vars =>
        [running' # running /\ running' # 0
           => running = 0 /\ EventOf[mem.occs[running'].plan] \notin doubt]_vars
  BY NextGood DEF Good, NoRerun
<1> QED
  BY <1>1, Invariance, PTL DEF Spec, UncertainNeverRerun

(* A finished arrangement stays finished in the file, whatever its         *)
(* collector in flight answers, until retire has dealt with it.            *)
THEOREM Finality == Spec => DurableFinality
<1>1. Inv /\ [Next]_vars =>
        [\A p \in DOMAIN disk.plans \cap DOMAIN disk'.plans :
           Finished(disk, p) /\ ~disk.plans[p].retired => Finished(disk', p)]_vars
  BY NextGood DEF Good, Durably
<1> QED
  BY <1>1, Invariance, PTL DEF Spec, DurableFinality

(* retire revokes no grant that an arrangement of the ledger it leaves     *)
(* still needs, shared or not.                                             *)
THEOREM RevokesOnlySettled == Spec => RevokesSettled
<1>1. Inv /\ [Next]_vars =>
        [pc'.at # "down" => \A p \in DOMAIN mem'.plans :
           GrantOf[p] \in grants \ grants' => ~Holding(mem', p)]_vars
  BY NextGood DEF Good, Revoking
<1> QED
  BY <1>1, Invariance, PTL DEF Spec, RevokesSettled

(***************************************************************************)
(* The budget.  What the window still counts is among the ledger's         *)
(* attempts, and a submission was admitted with all others counted.        *)
(***************************************************************************)
Recent(f, o, n) == f[o] # <<>> /\ f[o][1] >= 1 /\ f[o][1] + Window > n
Counts(s, f, n) ==
  IsFiniteSet(s.attempts) /\ \A o \in Occ : Recent(f, o, n) => <<o, f[o][1]>> \in s.attempts
Others == mem.attempts \ {<<pc.occ, now>>}
Admitted ==
  pc.at = "submit" => /\ <<pc.occ, now>> \in mem.attempts
                      /\ Cardinality(Others) < mem.policy.max
                      /\ \A a \in Others : now >= a[2] + mem.policy.gap
Accounted == Counts(mem, sent, now) /\ Counts(disk, sent, now) /\ Admitted

(***************************************************************************)
(* Attempts, through the operators on ledgers.                             *)
(***************************************************************************)
SameAttempts(s, t) == DOMAIN t = Fields /\ t.attempts = s.attempts

(* Only a clean-up forgets attempts: those that have left the window.      *)
Retains(s, t) ==
  /\ t.attempts \subseteq s.attempts
  /\ \A a \in s.attempts : a[2] + Window > now => a \in t.attempts

(* What is retained is enough.                                             *)
LEMMA RetainsCounts ==
  ASSUME NEW s, NEW t, NEW f, Counts(s, f, now), Retains(s, t)
  PROVE  Counts(t, f, now)
<1>1. IsFiniteSet(t.attempts)
  BY FS_Subset DEF Counts, Retains
<1>2. ASSUME NEW o \in Occ, Recent(f, o, now) PROVE <<o, f[o][1]>> \in t.attempts
  BY <1>2 DEF Counts, Retains, Recent
<1> QED
  BY <1>1, <1>2 DEF Counts

(* The window only moves on.                                               *)
LEMMA CountsLater ==
  ASSUME NEW s, NEW f \in [Occ -> Seq(Nat)], NEW n \in Nat, NEW m \in Nat, n <= m, Counts(s, f, n)
  PROVE  Counts(s, f, m)
<1>1. ASSUME NEW o \in Occ, Recent(f, o, m) PROVE Recent(f, o, n)
  <2>1. f[o] \in Seq(Nat) /\ f[o] # <<>>
    BY <1>1 DEF Recent
  <2>2. f[o][1] \in Nat
    BY <2>1
  <2> QED
    BY <1>1, <2>2, Timing DEF Recent
<1> QED
  BY <1>1 DEF Counts

(* Retaining in a row.                                                     *)
LEMMA RetainsOn ==
  ASSUME NEW s, NEW t, NEW u, Retains(s, t), Retains(t, u) PROVE Retains(s, u)
BY DEF Retains

LEMMA SameRetains == ASSUME NEW s, NEW t, SameAttempts(s, t) PROVE Retains(s, t)
BY DEF SameAttempts, Retains

(* Statuses, plans and new occurrences leave the attempts alone.           *)
LEMMA EditsSame ==
  ASSUME NEW s, DOMAIN s = Fields
  PROVE  /\ \A o, st : SameAttempts(s, SetOcc(s, o, st))
         /\ \A p, st : SameAttempts(s, SetPlan(s, p, st))
         /\ \A f : SameAttempts(s, Restatus(s, f))
         /\ \A o : SameAttempts(s, Attention(s, o))
         /\ \A st, p, o, u : SameAttempts(s, AddOcc(s, st, p, o, u))
         /\ \A p, n : SameAttempts(s, [s EXCEPT !.plans[p].failures = n])
         /\ \A p, n : SameAttempts(s, [s EXCEPT !.plans[p].next = n])
         /\ \A p : SameAttempts(s, RetirePlan(s, p))
         /\ \A v : SameAttempts(s, RetireEvent(s, v))
<1>1. \A st, p, o, u : SameAttempts(s, AddOcc(s, st, p, o, u))
  BY DEF AddOcc, SameAttempts, Fields
<1> QED
  BY <1>1 DEF SetOcc, SetPlan, Restatus, Attention, RetirePlan, RetireEvent, SameAttempts, Fields

LEMMA SameOn ==
  ASSUME NEW s, NEW t, NEW u, SameAttempts(s, t), SameAttempts(t, u) PROVE SameAttempts(s, u)
BY DEF SameAttempts

(* A collector's answer.                                                   *)
LEMMA FinishSame ==
  ASSUME NEW s, DOMAIN s = Fields, NEW o, NEW r
  PROVE  SameAttempts(s, FinishCollection(s, o, r))
<1>1. SameAttempts(s, FinishFailed(s, o))
  <2> DEFINE p == s.occs[o].plan
             u == SetOcc(s, o, "failed")
             t == [u EXCEPT !.plans[p].failures = u.plans[p].failures + 1]
             v == SetPlan(t, p, "failed")
  <2>1. SameAttempts(s, u)
    BY EditsSame
  <2>2. SameAttempts(u, t)
    BY <2>1, EditsSame DEF SameAttempts
  <2>3. SameAttempts(s, t)
    BY <2>1, <2>2, SameOn
  <2>4. FinishFailed(s, o) \in {Attention(v, o), t}
    BY DEF FinishFailed
  <2> HIDE DEF t, u, p
  <2>5. SameAttempts(t, v)
    BY <2>3, EditsSame DEF SameAttempts
  <2> HIDE DEF v
  <2>6. SameAttempts(v, Attention(v, o))
    BY <2>5, EditsSame DEF SameAttempts
  <2> QED
    BY <2>3, <2>4, <2>5, <2>6, SameOn
<1>2. SameAttempts(s, FinishSeen(s, o, r))
  <2> DEFINE p == s.occs[o].plan
             t == [s EXCEPT !.plans[p].failures = 0]
             u == SetOcc(t, o, "failed")
             v == SetPlan(u, p, "failed")
  <2>1. SameAttempts(s, t)
    BY EditsSame
  <2>2. \/ FinishSeen(s, o, r) = Attention(v, o)
        \/ \E st : FinishSeen(s, o, r) = SetOcc(t, o, st)
    BY DEF FinishSeen
  <2> HIDE DEF t, p
  <2>3. \A st : SameAttempts(s, SetOcc(t, o, st))
    BY <2>1, EditsSame DEF SameAttempts
  <2> HIDE DEF u
  <2>4. SameAttempts(s, v)
    BY <2>3, EditsSame DEF SameAttempts, u
  <2> HIDE DEF v
  <2>5. SameAttempts(v, Attention(v, o))
    BY <2>4, EditsSame DEF SameAttempts
  <2> QED
    BY <2>2, <2>3, <2>4, <2>5, SameOn
<1>3. SameAttempts(s, Attention(SetPlan(SetOcc(s, o, "unknown"), s.occs[o].plan, "suspended"), o))
  <2> DEFINE u == SetOcc(s, o, "unknown")
             v == SetPlan(u, s.occs[o].plan, "suspended")
  <2>1. SameAttempts(s, u)
    BY EditsSame
  <2> HIDE DEF u
  <2>2. SameAttempts(s, v)
    BY <2>1, EditsSame DEF SameAttempts
  <2> HIDE DEF v
  <2>3. SameAttempts(v, Attention(v, o))
    BY <2>2, EditsSame DEF SameAttempts
  <2> QED
    BY <2>2, <2>3, SameOn DEF u, v
<1>4. \A st : SameAttempts(s, SetOcc(s, o, st))
  BY EditsSame
<1> HIDE DEF SameAttempts
<1> QED
  BY <1>1, <1>2, <1>3, <1>4 DEF FinishCollection

(* The clean-up.                                                           *)
LEMMA CleanupRetains ==
  ASSUME NEW s, Sound(s), now \in Nat, NEW c \in Cleanups(s)
  PROVE  Retains(s, c) /\ DOMAIN c = Fields
<1>1. PICK old, aged : c = Cleanup(s, old, aged)
  BY DEF Cleanups
<1> DEFINE a == [s EXCEPT !.attempts = {x \in @ : x[2] + Window > now},
                          !.plans = [p \in DOMAIN @ |-> CleanPlan(s, p)]]
           b == [a EXCEPT !.events = [v \in DOMAIN @ |->
                   IF v \in aged /\ @[v] = "live" /\ Unused(a, v) THEN "archived" ELSE @[v]]]
           k == [b EXCEPT !.occs = Without(@, old)]
           d == [k EXCEPT !.plans = Without(@, PlansGone(k, aged))]
<1>2. c = [d EXCEPT !.events = Without(@, EventsGone(d, aged))]
  BY <1>1 DEF Cleanup
<1>3. DOMAIN a = Fields /\ a.attempts = {x \in s.attempts : x[2] + Window > now}
  BY DEF Sound, Fields
<1> HIDE DEF a
<1>4. DOMAIN b = Fields /\ b.attempts = a.attempts
  BY <1>3 DEF Fields
<1> HIDE DEF b
<1>5. DOMAIN k = Fields /\ k.attempts = b.attempts
  BY <1>4 DEF Fields
<1> HIDE DEF k
<1>6. DOMAIN d = Fields /\ d.attempts = k.attempts
  BY <1>5 DEF Fields
<1> HIDE DEF d
<1>7. DOMAIN c = Fields /\ c.attempts = d.attempts
  BY <1>2, <1>6 DEF Fields
<1> QED
  BY <1>3, <1>4, <1>5, <1>6, <1>7 DEF Retains

(***************************************************************************)
(* The steps.                                                              *)
(***************************************************************************)
(* Every step but the submission leaves what was sent alone; the           *)
(* submission is only entered by Dispatch.                                 *)
LEMMA AccountedWrite ==
  ASSUME Inv, Accounted, NEW t, NEW next, Retains(mem, t), next.at # "submit",
         \/ Saved(t, next) \/ Frozen(t)
         \/ mem' = t /\ disk' = disk /\ pc' = next,
         UNCHANGED <<now, sent>>
  PROVE  Accounted'
<1>1. Counts(t, sent, now)
  BY RetainsCounts DEF Accounted
<1>2. mem' \in {t, disk} /\ disk' \in {t, disk}
  BY DEF Saved, Frozen
<1>3. pc'.at # "submit"
  BY DEF Saved, Frozen, At
<1>4. Counts(mem', sent', now') /\ Counts(disk', sent', now')
  BY <1>1, <1>2 DEF Accounted
<1> QED
  BY <1>3, <1>4 DEF Accounted, Admitted, Counts, Recent

LEMMA AccountedCommit ==
  ASSUME Inv, Accounted, NEW t, NEW next, Retains(mem, t), next.at # "submit", Commit(t, next),
         UNCHANGED <<now, sent>>
  PROVE  Accounted'
BY AccountedWrite DEF Commit

LEMMA NotSubmit == \A a : At(a).at = a
BY DEF At

(* The world.                                                              *)
LEMMA AccountedWorld ==
  ASSUME Inv, Accounted, Crash \/ Collect \/ Clock \/ (\E o \in Occ : NativeFinish(o))
              \/ SkipMigration \/ EndTick \/ Spawn \/ UNCHANGED vars
  PROVE  Accounted'
<1>1. CASE Crash
  BY <1>1, NotSubmit DEF Crash, Accounted, Admitted, Counts, Recent, world
<1>2. CASE Clock
  <2>1. now \in Nat /\ sent \in [Occ -> Seq(Nat)]
    BY DEF Inv, TypeOK
  <2>2. /\ mem' = mem /\ disk' = disk /\ pc' = pc /\ sent' = sent /\ now' = now + 1
        /\ pc.at # "submit"
    BY <1>2 DEF Clock, world
  <2>3. Counts(mem, sent, now + 1) /\ Counts(disk, sent, now + 1)
    BY <2>1, CountsLater DEF Accounted
  <2> QED
    BY <2>2, <2>3 DEF Accounted, Admitted, Counts, Recent
<1>3. CASE SkipMigration \/ EndTick \/ Spawn
  BY <1>3, NotSubmit DEF SkipMigration, EndTick, Spawn, Accounted, Admitted, Counts, Recent, world
<1>4. CASE Collect \/ (\E o \in Occ : NativeFinish(o)) \/ UNCHANGED vars
  <2>1. UNCHANGED <<mem, disk, pc, sent, now>>
    BY <1>4 DEF Collect, NativeFinish, vars, world
  <2> QED
    BY <2>1 DEF Accounted, Admitted, Others, Counts, Recent
<1> QED
  BY <1>1, <1>2, <1>3, <1>4

(* Opening.                                                                *)
LEMMA AccountedOpening == ASSUME Inv, Accounted, Opening PROVE Accounted'
<1>0. now \in Nat /\ Sound(disk)
  BY NowNat DEF Inv, Ledgers
<1>1. ASSUME NEW s, Sound(s), SameAttempts(disk, s), pc.at = "down", OpenWith(s) PROVE Accounted'
  <2>1. PICK c \in Cleanups(s) : Commit(c, At("migrate"))
    BY <1>1 DEF OpenWith
  <2>2. Retains(disk, c)
    BY <1>0, <1>1, CleanupRetains, SameRetains, RetainsOn
  <2>3. mem = disk /\ UNCHANGED <<now, sent>>
    BY <1>1 DEF Inv, Ledgers, OpenWith, world
  <2> QED
    BY <2>1, <2>2, <2>3, AccountedCommit, NotSubmit
<1>2. Sound(Fenced(disk)) /\ SameAttempts(disk, Fenced(disk))
  BY <1>0, FencedIs, EditsSame DEF Fenced, Sound
<1>3. CASE OpenQuiet
  BY <1>1, <1>2, <1>3 DEF OpenQuiet
<1>4. ASSUME NEW o \in InterruptedLive, OpenInterrupted(o) PROVE Accounted'
  <2> DEFINE p == disk.occs[o].plan
             f == Fenced(disk)
             u == SetPlan(f, p, "suspended")
             t == Attention(u, o)
  <2>1. /\ o \in DOMAIN disk.occs /\ ~Finished(disk, p) /\ p \in DOMAIN disk.plans /\ disk.last < MaxOcc
        /\ pc.at = "down" /\ OpenWith(t)
    BY <1>0, <1>4, SoundRecords DEF InterruptedLive, Interrupted, OpenInterrupted
  <2>2. /\ Sound(f) /\ f.plans = disk.plans /\ f.last = disk.last /\ DOMAIN f.occs = DOMAIN disk.occs
        /\ SameAttempts(disk, f)
    BY <1>0, <1>2, FencedIs
  <2> HIDE DEF f, p
  <2>3. "suspended" \in PlanStatus
    BY DEF PlanStatus
  <2>4. Sound(u) /\ u.last = f.last /\ u.occs = f.occs /\ SameAttempts(f, u)
    BY <2>1, <2>2, <2>3, SetPlanIs, EditsSame DEF OnlyPlan, Sound, Finished
  <2> HIDE DEF u
  <2>5. Sound(t) /\ SameAttempts(u, t)
    BY <1>0, <2>1, <2>2, <2>4, AttentionIs, EditsSame DEF Sound
  <2> HIDE DEF t
  <2> QED
    BY <1>1, <2>1, <2>2, <2>4, <2>5, SameOn
<1> QED
  BY <1>3, <1>4 DEF Opening

(* The migration: the file of before knows no attempts.                    *)
LEMMA AccountedMigrate == ASSUME Inv, Accounted, Migrate PROVE Accounted'
<1> DEFINE P == [p \in DOMAIN mem.plans \cup Imported |->
                  IF p \in Imported THEN ImportedPlan(p) ELSE mem.plans[p]]
           E == [v \in DOMAIN mem.events \cup {EventOf[p] : p \in Imported} |->
                  IF v \in DOMAIN mem.events THEN mem.events[v] ELSE "live"]
           O == [o \in DOMAIN mem.occs \cup {ImportOcc[p] : p \in Kept} |->
                  IF o \in DOMAIN mem.occs THEN mem.occs[o]
                  ELSE ImportedOcc(CHOOSE p \in Kept : ImportOcc[p] = o)]
           t == [mem EXCEPT !.migrated = TRUE, !.plans = P, !.events = E, !.occs = O]
<1>1. Commit(t, At("idle"))
  BY DEF Migrate
<1> HIDE DEF P, E, O
<1>2. SameAttempts(mem, t)
  BY DEF Inv, Ledgers, Sound, SameAttempts, Fields
<1> HIDE DEF t
<1>3. Commit(t, At("idle")) /\ UNCHANGED <<now, sent>>
  BY <1>1 DEF Migrate, world
<1> QED
  BY <1>2, <1>3, SameRetains, AccountedCommit, NotSubmit

(* The first part of a tick.                                               *)
LEMMA AccountedTick == ASSUME Inv, Accounted, TickBegin PROVE Accounted'
<1>0. /\ now \in Nat /\ Sound(mem) /\ Sound(Drained) /\ UNCHANGED <<now, sent>>
  BY NowNat, DrainedIs DEF Inv, Ledgers, TickBegin
<1>1. PICK seen \in SUBSET Readable(Drained) : \E c \in Cleanups(Reconciled(Drained, seen)) : Retire(c)
  BY DEF TickBegin
<1> DEFINE r == Reconciled(Drained, seen)
<1>2. PICK c \in Cleanups(r) : Retire(c)
  BY <1>1
<1>3. SameAttempts(mem, Drained)
  BY <1>0, FinishSame DEF Drained, SameAttempts, Sound
<1>4. Sound(r) /\ SameAttempts(Drained, r)
  <2> DEFINE f == [o \in DOMAIN Drained.occs |->
                    IF o \in seen THEN Receipt(o, Drained.occs[o].status) ELSE Drained.occs[o].status]
  <2>1. Sound(r)
    BY <1>0, ReconciledIs
  <2>2. r = Restatus(Drained, f)
    BY DEF Reconciled
  <2> HIDE DEF f, r
  <2> QED
    BY <1>0, <2>1, <2>2, EditsSame DEF Sound
<1> HIDE DEF r
<1>5. Retains(mem, c) /\ DOMAIN c = Fields
  BY <1>0, <1>3, <1>4, CleanupRetains, SameRetains, RetainsOn
<1>6. \E t : Written(t) /\ SameAttempts(c, t)
  BY <1>2, <1>5, EditsSame DEF Retire, SameAttempts
<1>7. PICK t : Written(t) /\ SameAttempts(c, t)
  BY <1>6
<1>8. Retains(mem, t)
  BY <1>5, <1>7, SameRetains, RetainsOn
<1>9. Saved(t, At("scan")) \/ Frozen(t) \/ (mem' = t /\ disk' = disk /\ pc' = At("scan"))
  BY <1>7 DEF Written
<1> QED
  BY <1>0, <1>8, <1>9, AccountedWrite, NotSubmit

(* The tools, and what the Runtime lets the engine observe.                *)
LEMMA AccountedOperation ==
  ASSUME Inv, Accounted, NEW s \in Cleanups(mem) \cup {mem}, NEW t, SameAttempts(s, t), Operation(t)
  PROVE  Accounted'
<1>1. Sound(mem) /\ now \in Nat
  BY NowNat DEF Inv, Ledgers
<1>2. Retains(mem, s)
  BY <1>1, CleanupRetains DEF Retains
<1> QED
  BY <1>2, SameRetains, RetainsOn, AccountedCommit, NotSubmit DEF Operation

LEMMA AccountedTools ==
  ASSUME Inv, Accounted,
         \/ Unsaved
         \/ \E v \in Event : Register(v) \/ ArchiveEvent(v)
         \/ \E p \in Plan : Save(p) \/ SaveNative(p) \/ Remove(p)
         \/ \E y \in Policies : ConfigurePolicy(y)
         \/ \E t \in 1..MaxTime : ReceiveNative(t)
  PROVE  Accounted'
<1>0. Sound(mem) /\ now \in Nat /\ DOMAIN mem = Fields
  BY NowNat DEF Inv, Ledgers, Sound
<1>1. \A s \in Cleanups(mem) \cup {mem} : DOMAIN s = Fields
  BY <1>0, CleanupRetains
<1>2. CASE Unsaved
  <2>1. PICK s \in Cleanups(mem) : mem' = s /\ disk' = disk /\ pc' = pc /\ pc.at = "idle"
    BY <1>2 DEF Unsaved, Idle
  <2> QED
    BY <1>0, <1>2, <2>1, CleanupRetains, AccountedWrite DEF Unsaved, world
<1>3. ASSUME NEW v \in Event, Register(v) PROVE Accounted'
  <2>1. PICK s \in Cleanups(mem) : Operation([s EXCEPT !.events = With(@, v, "live")])
    BY <1>3 DEF Register
  <2>2. SameAttempts(s, [s EXCEPT !.events = With(@, v, "live")])
    BY <1>1 DEF SameAttempts, Fields
  <2> QED
    BY <2>1, <2>2, AccountedOperation
<1>4. ASSUME NEW v \in Event, ArchiveEvent(v) PROVE Accounted'
  <2>1. PICK st : Operation([mem EXCEPT !.events[v] = st])
    BY <1>4 DEF ArchiveEvent
  <2>2. SameAttempts(mem, [mem EXCEPT !.events[v] = st])
    BY <1>0 DEF SameAttempts, Fields
  <2> QED
    BY <2>1, <2>2, AccountedOperation
<1>5. ASSUME NEW p \in Plan, Save(p) PROVE Accounted'
  <2>1. \E s \in Cleanups(mem) : \E n : Operation([s EXCEPT !.plans = With(@, p, n)])
    BY <1>5 DEF Save
  <2>2. \A s \in Cleanups(mem) : \A n : SameAttempts(s, [s EXCEPT !.plans = With(@, p, n)])
    BY <1>1 DEF SameAttempts, Fields
  <2> QED
    BY <2>1, <2>2, AccountedOperation
<1>6. ASSUME NEW p \in Plan, SaveNative(p) PROVE Accounted'
  <2> DEFINE t == [mem EXCEPT !.plans = With(@, p, NewPlan(p, now)), !.events = With(@, EventOf[p], "live")]
  <2>1. Operation(t)
    BY <1>6 DEF SaveNative
  <2>2. SameAttempts(mem, t)
    BY <1>0 DEF SameAttempts, Fields
  <2> HIDE DEF t
  <2> QED
    BY <2>1, <2>2, AccountedOperation
<1>7. ASSUME NEW p \in Plan, Remove(p) PROVE Accounted'
  <2>1. PICK f : Operation(SetPlan(Restatus(mem, f), p, "cancelled"))
    BY <1>7 DEF Remove
  <2>2. SameAttempts(mem, Restatus(mem, f))
    BY <1>0, EditsSame
  <2>3. SameAttempts(mem, SetPlan(Restatus(mem, f), p, "cancelled"))
    BY <2>2, EditsSame DEF SameAttempts
  <2> QED
    BY <2>1, <2>3, AccountedOperation
<1>8. ASSUME NEW y \in Policies, ConfigurePolicy(y) PROVE Accounted'
  <2>1. SameAttempts(mem, [mem EXCEPT !.policy = y])
    BY <1>0 DEF SameAttempts, Fields
  <2> QED
    BY <1>8, <2>1, AccountedOperation DEF ConfigurePolicy
<1>9. ASSUME NEW t \in 1..MaxTime, ReceiveNative(t) PROVE Accounted'
  <2> DEFINE s == [mem EXCEPT !.watermark = t]
  <2>1. Retains(mem, s)
    BY <1>0 DEF Retains, Fields
  <2>2. mem' = s /\ disk' = disk /\ pc'.at = "ingest" /\ UNCHANGED <<now, sent>>
    BY <1>9, NotSubmit DEF ReceiveNative, world, At
  <2> QED
    BY <2>1, <2>2, AccountedWrite
<1> QED
  BY <1>2, <1>3, <1>4, <1>5, <1>6, <1>7, <1>8, <1>9

(***************************************************************************)
(* The submission.                                                         *)
(***************************************************************************)
(* A wake is dispatched when the budget admits one more.                   *)
LEMMA AccountedDispatch == ASSUME Inv, Accounted, NEW o \in DOMAIN mem.occs, Dispatch(o) PROVE Accounted'
<1> DEFINE p == mem.occs[o].plan
           w == mem.plans[p].lastWake
           u == SetOcc(mem, o, "dispatching")
           t == [u EXCEPT !.plans[p].lastWake = now, !.attempts = @ \cup {<<o, now>>}]
           next == [At("submit") EXCEPT !.occ = o, !.prev = w]
<1>1. DOMAIN mem = Fields /\ mem.policy \in [max : Nat, gap : Nat] /\ now \in Nat
  BY NowNat, Budgets DEF Inv, Ledgers, Sound, LedgerOK
<1>2. Commit(t, next) /\ UNCHANGED <<now, sent>> /\ InBudget
  BY DEF Dispatch, First, Actionable, Expired, world
<1>3. next.at = "submit" /\ next.occ = o
  BY DEF At
<1> HIDE DEF next, w, p
<1>4. DOMAIN u = Fields /\ u.attempts = mem.attempts /\ u.policy = mem.policy
  BY <1>1 DEF SetOcc, Fields
<1> HIDE DEF u
<1>5. t.attempts = mem.attempts \cup {<<o, now>>} /\ t.policy = mem.policy
  BY <1>4 DEF Fields
<1> HIDE DEF t
<1>6. Counts(t, sent, now)
  BY <1>5, FS_AddElement DEF Accounted, Counts
<1>7. CASE Saved(t, next)
  <2>1. mem' = t /\ disk' = t /\ pc' = next
    BY <1>7 DEF Saved
  <2>2. Counts(mem', sent', now') /\ Counts(disk', sent', now')
    BY <1>2, <1>6, <2>1
  <2> DEFINE B == t.attempts \ {<<o, now>>}
  <2>3. B \subseteq mem.attempts /\ IsFiniteSet(mem.attempts)
    BY <1>5 DEF Accounted, Counts
  <2>4. /\ Cardinality(B) <= Cardinality(mem.attempts)
        /\ Cardinality(B) \in Nat /\ Cardinality(mem.attempts) \in Nat
    BY <2>3, FS_Subset, FS_CardinalityType
  <2>5. Cardinality(B) < mem.policy.max /\ \A a \in B : now >= a[2] + mem.policy.gap
    BY <1>1, <1>2, <2>3, <2>4 DEF InBudget
  <2>6. Admitted'
    BY <1>2, <1>3, <1>5, <2>1, <2>5 DEF Admitted, Others
  <2> QED
    BY <2>2, <2>6 DEF Accounted, Counts, Recent
<1>8. CASE Frozen(t)
  <2>1. mem' \in {t, disk} /\ disk' \in {t, disk} /\ pc'.at = "down"
    BY <1>8, NotSubmit DEF Frozen
  <2>2. Counts(mem', sent', now') /\ Counts(disk', sent', now')
    BY <1>2, <1>6, <2>1 DEF Accounted
  <2> QED
    BY <2>1, <2>2 DEF Accounted, Admitted, Counts, Recent
<1> QED
  BY <1>2, <1>7, <1>8 DEF Commit

(* A collection, an expiry.                                                *)
LEMMA AccountedScanning == ASSUME Inv, Accounted, Scanning PROVE Accounted'
<1>0. DOMAIN mem = Fields
  BY DEF Inv, Ledgers, Sound
<1>1. ASSUME NEW o, NEW st, SettlePending(o, st) PROVE Accounted'
  BY <1>0, <1>1, EditsSame, SameRetains, AccountedCommit, NotSubmit DEF SettlePending, world
<1>2. ASSUME NEW p \in DOMAIN mem.plans, StartCollection(p) PROVE Accounted'
  <2> DEFINE u == AddOcc(mem, "collecting", p, 0, now + WakeLife)
             n == IF Kind[p] = "after" THEN u.plans[p].next ELSE now + Seconds[p]
             t == [u EXCEPT !.plans[p].next = n]
             next == [At("spawn") EXCEPT !.occ = mem.last + 1]
  <2>1. Commit(t, next) /\ UNCHANGED <<now, sent>> /\ next.at = "spawn"
    BY <1>2 DEF StartCollection, At, world
  <2>2. SameAttempts(mem, u)
    BY <1>0, EditsSame
  <2> HIDE DEF u, n, next
  <2>3. SameAttempts(u, t)
    BY <2>2, EditsSame DEF SameAttempts
  <2> HIDE DEF t
  <2> QED
    BY <2>1, <2>2, <2>3, SameOn, SameRetains, AccountedCommit
<1> QED
  BY <1>1, <1>2, AccountedDispatch, AccountedWorld DEF Scanning, Expire, CancelMoot

(* The observations of an ingestion.                                       *)
LEMMA AccountedIngesting == ASSUME Inv, Accounted, Ingesting PROVE Accounted'
<1>0. DOMAIN mem = Fields /\ pc \in PCState
  BY DEF Inv, Ledgers, Sound, TypeOK, PCState
<1>1. ASSUME NEW p, NEW r, Observe(p, r) PROVE Accounted'
  <2> DEFINE s == AddOcc(mem, "collecting", p, 0, now + Pendency[p])
             t == FinishCollection(s, s.last, r)
  <2>1. /\ mem' = t /\ disk' = disk /\ UNCHANGED <<now, sent>>
        /\ pc' = [pc EXCEPT !.todo = @ \ {p}] /\ pc.at = "ingest"
    BY <1>1 DEF Observe, world
  <2>2. SameAttempts(mem, s)
    BY <1>0, EditsSame
  <2> HIDE DEF s
  <2>3. SameAttempts(s, t)
    BY <2>2, FinishSame DEF SameAttempts
  <2> HIDE DEF t
  <2>4. pc'.at # "submit"
    BY <1>0, <2>1 DEF PCState
  <2> QED
    BY <2>1, <2>2, <2>3, <2>4, SameOn, SameRetains, AccountedWrite
<1>2. CASE Ingested
  <2>1. Retains(mem, mem)
    BY DEF Retains
  <2>2. CASE Commit(mem, At("idle"))
    BY <1>2, <2>1, <2>2, AccountedCommit, NotSubmit DEF Ingested, world
  <2>3. CASE pc' = At("idle") /\ mem' = mem /\ disk' = disk
    BY <1>2, <2>1, <2>3, AccountedWrite, NotSubmit DEF Ingested, world
  <2> QED
    BY <1>2, <2>2, <2>3 DEF Ingested
<1> QED
  BY <1>1, <1>2 DEF Ingesting

(* The answer: the attempt stays, unless nothing was sent.                 *)
LEMMA AccountedDeferred == ASSUME Inv, Accounted, SubmitDeferred PROVE Accounted'
<1> DEFINE o == pc.occ
           p == mem.occs[o].plan
           u == SetOcc(mem, o, "pending")
           t == [u EXCEPT !.plans[p].lastWake = pc.prev, !.attempts = @ \ {<<o, now>>}]
<1>1. DOMAIN mem = Fields /\ sent[o] = <<>>
  BY DEF Inv, Ledgers, Sound, Submits, SubmitDeferred
<1>2. Commit(t, At("idle")) /\ UNCHANGED <<now, sent>>
  BY DEF SubmitDeferred, world
<1> HIDE DEF p, o
<1>3. DOMAIN u = Fields /\ u.attempts = mem.attempts
  BY <1>1 DEF SetOcc, Fields
<1> HIDE DEF u
<1>4. t.attempts = mem.attempts \ {<<o, now>>}
  BY <1>3 DEF Fields
<1> HIDE DEF t
<1>5. Counts(t, sent, now)
  <2>1. IsFiniteSet(t.attempts)
    BY <1>4, FS_RemoveElement DEF Accounted, Counts
  <2>2. ASSUME NEW x \in Occ, Recent(sent, x, now) PROVE <<x, sent[x][1]>> \in t.attempts
    <3>1. x # o
      BY <1>1, <2>2 DEF Recent
    <3> QED
      BY <1>4, <2>2, <3>1 DEF Accounted, Counts
  <2> QED
    BY <2>1, <2>2 DEF Counts
<1>6. mem' \in {t, disk} /\ disk' \in {t, disk} /\ pc'.at # "submit"
  BY <1>2, NotSubmit DEF Commit, Saved, Frozen
<1>7. Counts(mem', sent', now') /\ Counts(disk', sent', now')
  BY <1>2, <1>5, <1>6 DEF Accounted
<1> QED
  BY <1>6, <1>7 DEF Accounted, Admitted, Counts, Recent

LEMMA AccountedSubmit == ASSUME Inv, Accounted, NEW answer, NEW fate, Submit(answer, fate) PROVE Accounted'
<1> DEFINE o == pc.occ
           t == SetOcc(mem, o, answer)
<1>1. /\ DOMAIN mem = Fields /\ sent[o] = <<>> /\ o \in Occ /\ now \in Nat /\ mem = disk
      /\ sent \in [Occ -> Seq(Nat)] /\ <<o, now>> \in mem.attempts
  BY NowNat, SoundRecords DEF Inv, Ledgers, Sound, Submits, Submit, TypeOK, Accounted, Admitted
<1>2. Commit(t, At("idle")) /\ now' = now /\ sent' = [sent EXCEPT ![o] = Append(sent[o], now)]
  BY DEF Submit
<1> HIDE DEF o
<1>3. t.attempts = mem.attempts
  BY <1>1, EditsSame DEF SameAttempts
<1> HIDE DEF t
<1>4. \A s : s.attempts = mem.attempts => Counts(s, sent', now)
  <2>1. sent'[o] = <<now>> /\ \A x \in Occ : x # o => sent'[x] = sent[x]
    BY <1>1, <1>2
  <2>2. ASSUME NEW x \in Occ, Recent(sent', x, now) PROVE <<x, sent'[x][1]>> \in mem.attempts
    <3>1. CASE x = o
      <4>1. sent'[o][1] = now
        BY <2>1
      <4> QED
        BY <1>1, <3>1, <4>1
    <3>2. CASE x # o
      <4>1. sent'[x] = sent[x]
        BY <2>1, <3>2
      <4>2. Recent(sent, x, now)
        BY <2>2, <4>1 DEF Recent
      <4> QED
        BY <4>1, <4>2 DEF Accounted, Counts
    <3> QED
      BY <3>1, <3>2
  <2> QED
    BY <2>2 DEF Accounted, Counts
<1>5. mem' \in {t, disk} /\ disk' \in {t, disk} /\ pc'.at # "submit"
  BY <1>2, NotSubmit DEF Commit, Saved, Frozen
<1>6. Counts(mem', sent', now') /\ Counts(disk', sent', now')
  BY <1>1, <1>2, <1>3, <1>4, <1>5
<1> QED
  BY <1>5, <1>6 DEF Accounted, Admitted, Counts, Recent

(***************************************************************************)
(* The budget holds.                                                       *)
(***************************************************************************)
LEMMA AccountedInit == Init => Accounted
<1> SUFFICES ASSUME Init PROVE Accounted
  OBVIOUS
<1>1. IsFiniteSet(EmptyLedger.attempts)
  BY FS_EmptySet DEF EmptyLedger
<1>2. \A o \in Occ : ~Recent(sent, o, now)
  BY DEF Init, Recent
<1>3. Counts(EmptyLedger, sent, now)
  BY <1>1, <1>2 DEF Counts
<1> QED
  BY <1>3, NotSubmit DEF Init, Accounted, Admitted

LEMMA AccountedNext == ASSUME Inv, Accounted, [Next]_vars PROVE Accounted'
BY AccountedWorld, AccountedOpening, AccountedMigrate, AccountedTick, AccountedTools,
   AccountedScanning, AccountedIngesting, AccountedDeferred, AccountedSubmit
   DEF Next, Engine, Environment, Starting, Submitting, SubmitAccepted, SubmitRejected, SubmitUnknown

(* Every attempt that the window counts is in the ledger from before the   *)
(* Runtime hears of it until it leaves the window.                         *)
LEMMA Accounting == Spec => []Accounted
<1>1. Inv /\ Accounted /\ [Next]_vars => Accounted'
  BY AccountedNext
<1> QED
  BY <1>1, AccountedInit, Invariance, PTL DEF Spec

(* What the Runtime may have seen is among the other attempts.             *)
LEMMA WakesFit ==
  ASSUME Inv, Accounted, pc.at = "submit"
  PROVE  /\ Cardinality(Wakes(pc.occ, now)) < mem.policy.max
         /\ \A x \in Wakes(pc.occ, now) : now >= sent[x][1] + mem.policy.gap
<1> DEFINE W == Wakes(pc.occ, now)
           f == [x \in W |-> <<x, sent[x][1]>>]
<1>1. now \in Nat /\ sent \in [Occ -> Seq(Nat)] /\ mem.policy.max \in Nat /\ Window \in Nat
  BY NowNat, Budgets, Timing DEF Inv, TypeOK, LedgerOK
<1>2. ASSUME NEW x \in W PROVE f[x] \in Others
  <2>1. x \in Occ /\ x # pc.occ /\ sent[x] # <<>> /\ sent[x][1] >= 1 /\ sent[x][1] > now - Window
    BY <1>2 DEF Wakes
  <2>2. sent[x][1] \in Nat
    BY <1>1, <2>1
  <2>3. Recent(sent, x, now)
    BY <1>1, <2>1, <2>2 DEF Recent
  <2> QED
    BY <2>1, <2>3 DEF Accounted, Counts, Others
<1>3. f \in Injection(W, Others)
  BY <1>2 DEF Injection, IsInjective
<1>4. IsFiniteSet(Others)
  BY FS_RemoveElement DEF Accounted, Counts, Others
<1>5. Cardinality(W) <= Cardinality(Others) /\ Cardinality(W) \in Nat /\ Cardinality(Others) \in Nat
  BY <1>3, <1>4, FS_Injection, FS_CardinalityType
<1>6. Cardinality(Others) < mem.policy.max /\ \A a \in Others : now >= a[2] + mem.policy.gap
  BY DEF Accounted, Admitted
<1>7. ASSUME NEW x \in W PROVE now >= sent[x][1] + mem.policy.gap
  BY <1>2, <1>6
<1> QED
  BY <1>1, <1>5, <1>6, <1>7

(* The interruption budget: whatever is deferred, lost, restarted or       *)
(* reconfigured, a wake reaches the Runtime only when those it may have    *)
(* seen in the rolling window leave room for it, and none is too close     *)
(* (Engine.Tick, ConfigurePolicy, cleanup of WakeAttempts).                *)
THEOREM WithinBudget == Spec => WakeBudget
<1>1. Inv /\ Accounted /\ [Next]_vars =>
        [\A o \in Occ : sent'[o] # sent[o] =>
           /\ Cardinality(Wakes(o, now)) < mem.policy.max
           /\ \A x \in Wakes(o, now) : now >= sent[x][1] + mem.policy.gap]_vars
  <2> SUFFICES ASSUME Inv, Accounted, Next, NEW o \in Occ, sent'[o] # sent[o]
               PROVE  /\ Cardinality(Wakes(o, now)) < mem.policy.max
                      /\ \A x \in Wakes(o, now) : now >= sent[x][1] + mem.policy.gap
    OBVIOUS
  <2>1. PICK answer, fate : Submit(answer, fate)
    <3>1. sent' # sent
      OBVIOUS
    <3>2. Opening \/ Starting \/ TickBegin \/ Scanning \/ SubmitDeferred \/ Spawn \/ Ingesting => sent' = sent
      BY DEF Opening, OpenQuiet, OpenInterrupted, OpenWith, Starting, Migrate, SkipMigration, TickBegin,
             Scanning, Expire, CancelMoot, SettlePending, Dispatch, StartCollection, EndTick, SubmitDeferred,
             Spawn, Ingesting, Observe, Ingested, world
    <3>3. Environment => sent' = sent
      BY <3>2 DEF Environment, Crash, Collect, Clock, NativeFinish, Unsaved, Register, ArchiveEvent, Save,
                  SaveNative, Remove, ConfigurePolicy, ReceiveNative, Operation, world
    <3> QED
      BY <3>1, <3>2, <3>3 DEF Next, Engine, Submitting, SubmitAccepted, SubmitRejected, SubmitUnknown
  <2>2. o = pc.occ /\ pc.at = "submit"
    BY <2>1 DEF Submit, Inv, TypeOK
  <2> QED
    BY <2>2, WakesFit
<1> QED
  BY <1>1, Invariance, Accounting, PTL DEF Spec, WakeBudget
=============================================================================
