------------------------- MODULE EventPlanReceipts -------------------------
(***************************************************************************)
(* Receipts of arrangements, EventPlan's Reopenable, OneShotOnce and       *)
(* OneOpenReceipt, for every value of the constants.  Ledgers stay tidy:   *)
(* what a receipt, an arrangement or a maintenance wake refers to is there,*)
(* and an arrangement has one open receipt of a kind.  Most steps close or *)
(* prune receipts (Wanes); the others add one to an arrangement that has   *)
(* nothing open.                                                           *)
(***************************************************************************)
EXTENDS EventPlanProofs, WellFoundedInduction

(* Arrangements have their event, unfinished ones a live one, and a legacy *)
(* plan's event is not there before it is imported.                        *)
Backed(s) ==
  /\ \A p \in DOMAIN s.plans :
       EventOf[p] \in DOMAIN s.events /\ (~Finished(s, p) => s.events[EventOf[p]] = "live")
  /\ ~s.migrated => \A p \in Imported : EventOf[p] \notin DOMAIN s.events

(* A maintenance wake has its original, which ended unknown or failed.     *)
Original(s, o) == s.occs[o].status \in {"unknown", "failed"}
Originals(s) ==
  /\ \A o \in DOMAIN s.occs : s.occs[o].for # 0 =>
       s.occs[o].for \in DOMAIN s.occs /\ Original(s, s.occs[o].for)
  /\ \A x, y \in DOMAIN s.occs : s.occs[x].for # 0 /\ s.occs[x].for = s.occs[y].for => x = y

SamePlan(s, x, y) == s.occs[x].plan = s.occs[y].plan

(* Of two open receipts of an arrangement one is a maintenance wake, and   *)
(* a collection in flight is the only one.                                 *)
OneEach(s) ==
  /\ \A x, y \in DOMAIN s.occs :
       /\ Unresolved(s, x) /\ Unresolved(s, y) /\ SamePlan(s, x, y)
       /\ (s.occs[x].for = 0 <=> s.occs[y].for = 0)
       => x = y
  /\ \A x, y \in DOMAIN s.occs :
       s.occs[x].status = "collecting" /\ Unresolved(s, y) /\ SamePlan(s, x, y) => x = y
  /\ \A x \in DOMAIN s.occs : s.occs[x].status = "collecting" => s.occs[x].for = 0

(* One collection at most is in flight.                                    *)
OneFlight(s) == \A x, y \in Interrupted(s) : x = y

(* A one-shot arrangement has one occurrence, and only a completion waits. *)
Shots(s) ==
  /\ \A x, y \in DOMAIN s.occs :
       /\ Kind[s.occs[x].plan] = "after" /\ SamePlan(s, x, y)
       /\ s.occs[x].for = 0 /\ s.occs[y].for = 0
       => x = y
  /\ \A x \in DOMAIN s.occs : s.occs[x].status = "waiting" => Kind[s.occs[x].plan] = "completion"

(* Receipts in order, and the whole ledger.                                *)
Orderly(s) == Originals(s) /\ OneEach(s) /\ Shots(s)
Tidy(s) == Backed(s) /\ Orderly(s) /\ OneFlight(s)

(* What is in flight is the collector that runs, or the one to be spawned; *)
(* its answer is one of its kind.                                          *)
InFlight ==
  pc.at # "down" =>
    \A o \in Interrupted(mem) : o = running \/ (pc.at = "spawn" /\ o = pc.occ)
Answer == result # "none" => result \in Results(mem.occs[running].plan)

(* After the clean-up a one-shot arrangement that goes on has not          *)
(* collected, or still waits.                                              *)
Taken(s, p) == s.plans[p].status = "active" /\ Kind[p] = "after" => Pending(s, p) \/ OccsOf(s, p) = {}
Scanned == pc.at = "scan" => \A p \in DOMAIN mem.plans : Taken(mem, p)

(* What is to be ingested goes to native arrangements without open         *)
(* receipts.                                                               *)
Free == pc.at = "ingest" => \A p \in pc.todo : Kind[p] = "native" /\ ~Pending(mem, p)

(* The strengthening of Inv that the three invariants follow from.         *)
RInv == Tidy(mem) /\ Tidy(disk) /\ InFlight /\ Answer /\ Scanned /\ Free

(***************************************************************************)
(* What becomes of receipts.                                               *)
(***************************************************************************)
(* Receipts of t are receipts of s, closed or as open as they were.        *)
Wanes(s, t) ==
  /\ DOMAIN t.occs \subseteq DOMAIN s.occs
  /\ \A o \in DOMAIN t.occs :
       /\ t.occs[o].plan = s.occs[o].plan /\ t.occs[o].for = s.occs[o].for
       /\ Unresolved(t, o) => Unresolved(s, o)
       /\ t.occs[o].status = "collecting" => s.occs[o].status = "collecting"
       /\ t.occs[o].status = "waiting" =>
            s.occs[o].status = "waiting" \/ Kind[s.occs[o].plan] = "completion"
       /\ Original(s, o) => Original(t, o)
       /\ t.occs[o].for # 0 => t.occs[o].for \in DOMAIN t.occs

(* They stay in order.                                                     *)
LEMMA WanesOrderly ==
  ASSUME NEW s, NEW t, Orderly(s), Wanes(s, t)
  PROVE  Orderly(t) /\ Interrupted(t) \subseteq Interrupted(s)
<1>1. \A o \in DOMAIN t.occs : /\ o \in DOMAIN s.occs /\ t.occs[o].plan = s.occs[o].plan
                               /\ t.occs[o].for = s.occs[o].for
                               /\ Unresolved(t, o) => Unresolved(s, o)
                               /\ t.occs[o].status = "collecting" => s.occs[o].status = "collecting"
  BY DEF Wanes
<1>2. Originals(t)
  BY <1>1 DEF Wanes, Orderly, Originals
<1>3. OneEach(t)
  <2>1. \A x, y \in DOMAIN t.occs : SamePlan(t, x, y) => SamePlan(s, x, y)
    BY <1>1 DEF SamePlan
  <2> QED
    BY <1>1, <2>1 DEF Orderly, OneEach
<1>4. Shots(t)
  BY <1>1 DEF Wanes, Orderly, Shots, SamePlan
<1> QED
  BY <1>1, <1>2, <1>3, <1>4 DEF Orderly, Interrupted

(* An arrangement with nothing open in s has nothing open in t.            *)
LEMMA WanesPending ==
  ASSUME NEW s, NEW t, Wanes(s, t), NEW p, Pending(t, p) PROVE Pending(s, p)
BY DEF Wanes, Pending, OccsOf

(* The same receipts.                                                      *)
LEMMA SameOccsWanes ==
  ASSUME NEW s, NEW t, Orderly(s), t.occs = s.occs PROVE Wanes(s, t)
BY DEF Wanes, Orderly, Originals, Original, Unresolved

(* What is in order does not depend on the definitions.                    *)
LEMMA SameOccsOrderly ==
  ASSUME NEW s, NEW t, Orderly(s), t.occs = s.occs
  PROVE  Orderly(t) /\ Interrupted(t) = Interrupted(s) /\ \A p : Pending(t, p) = Pending(s, p)
BY DEF Orderly, Originals, OneEach, Shots, Original, SamePlan, Unresolved, Interrupted, Pending, OccsOf

(* One status changes.                                                     *)
LEMMA SetOccFor ==
  ASSUME NEW s, Sound(s), NEW o \in DOMAIN s.occs, NEW st \in OccStatus
  PROVE  SetOcc(s, o, st).occs[o].for = s.occs[o].for /\ SetOcc(s, o, st).events = s.events
<1>1. SetOcc(s, o, st).occs = [s.occs EXCEPT ![o].status = st] /\ SetOcc(s, o, st).events = s.events
  BY DEF SetOcc, Sound, Fields
<1>2. SetOcc(s, o, st).occs[o] = [s.occs[o] EXCEPT !.status = st]
  BY <1>1 DEF Sound, LedgerOK
<1> QED
  BY <1>1, <1>2, SoundRecords DEF OccRec

(* A receipt that closes, or stays open with another status.               *)
LEMMA SetOccWanes ==
  ASSUME NEW s, Sound(s), Orderly(s), NEW o \in DOMAIN s.occs, NEW st \in OccStatus,
         st \in OpenStatus => Unresolved(s, o), st # "collecting", ~Original(s, o),
         st = "waiting" => Kind[s.occs[o].plan] = "completion"
  PROVE  Wanes(s, SetOcc(s, o, st))
<1> DEFINE t == SetOcc(s, o, st)
<1>1. /\ DOMAIN t.occs = DOMAIN s.occs
      /\ t.occs[o].status = st /\ t.occs[o].plan = s.occs[o].plan /\ t.occs[o].for = s.occs[o].for
      /\ \A x \in DOMAIN s.occs : x # o => t.occs[x] = s.occs[x]
  BY SetOccIs, SetOccFor
<1> HIDE DEF t
<1>2. Wanes(s, t)
  BY <1>1 DEF Wanes, Orderly, Originals, Original, Unresolved
<1> QED
  BY <1>2 DEF t

(* Many do, of open receipts.                                              *)
LEMMA RestatusWanes ==
  ASSUME NEW s, Sound(s), Orderly(s), NEW f \in [DOMAIN s.occs -> OccStatus],
         \A o \in DOMAIN s.occs :
           \/ f[o] = s.occs[o].status
           \/ /\ Unresolved(s, o) /\ f[o] \notin {"collecting", "waiting"}
              /\ s.occs[o].status # "unknown"
  PROVE  Wanes(s, Restatus(s, f)) /\ Restatus(s, f).events = s.events
<1> DEFINE t == Restatus(s, f)
<1>1. DOMAIN t.occs = DOMAIN s.occs
      /\ \A o \in DOMAIN s.occs : t.occs[o].status = f[o] /\ t.occs[o].plan = s.occs[o].plan
  BY RestatusIs
<1>2. t.events = s.events /\ \A o \in DOMAIN s.occs : t.occs[o].for = s.occs[o].for
  <2>1. t.events = s.events /\ t.occs = [o \in DOMAIN s.occs |-> [s.occs[o] EXCEPT !.status = f[o]]]
    BY DEF Restatus, Sound, Fields
  <2> QED
    BY <2>1, SoundRecords DEF OccRec
<1> HIDE DEF t
<1>3. \A o \in DOMAIN s.occs : Original(s, o) => Original(t, o)
  BY <1>1 DEF Original, Unresolved, OpenStatus
<1>4. \A o \in DOMAIN t.occs : Unresolved(t, o) => Unresolved(s, o)
  BY <1>1 DEF Unresolved
<1>5. Wanes(s, t)
  BY <1>1, <1>2, <1>3, <1>4 DEF Wanes, Orderly, Originals
<1> QED
  BY <1>2, <1>5 DEF t

(* A new occurrence of an arrangement that has nothing open.               *)
LEMMA AddOccFor ==
  ASSUME NEW s, DOMAIN s = Fields, s.last \in Nat, DOMAIN s.occs \subseteq 1..s.last,
         NEW st, NEW p, NEW o, NEW u
  PROVE  LET t == AddOcc(s, st, p, o, u)
         IN  /\ t.events = s.events /\ t.migrated = s.migrated /\ t.plans = s.plans
             /\ t.last = s.last + 1 /\ t.last \notin DOMAIN s.occs
             /\ DOMAIN t.occs = DOMAIN s.occs \cup {t.last}
             /\ t.occs[t.last] = [status |-> st, plan |-> p, for |-> o, expires |-> u]
             /\ \A x \in DOMAIN s.occs : t.occs[x] = s.occs[x]
<1> DEFINE t == AddOcc(s, st, p, o, u)
<1>1. /\ t.events = s.events /\ t.migrated = s.migrated /\ t.plans = s.plans
      /\ t.last = s.last + 1
      /\ t.occs = With(s.occs, s.last + 1, [status |-> st, plan |-> p, for |-> o, expires |-> u])
  BY DEF AddOcc, Fields
<1>2. s.last + 1 \notin DOMAIN s.occs
  OBVIOUS
<1> HIDE DEF t
<1>3. /\ DOMAIN t.occs = DOMAIN s.occs \cup {t.last}
      /\ t.occs[t.last] = [status |-> st, plan |-> p, for |-> o, expires |-> u]
      /\ \A x \in DOMAIN s.occs : t.occs[x] = s.occs[x]
  BY <1>1, <1>2 DEF With
<1> QED
  BY <1>1, <1>2, <1>3 DEF t

(* A collection of an arrangement that has nothing open.                   *)
LEMMA CollectOrderly ==
  ASSUME NEW s, Sound(s), Orderly(s), NEW p \in DOMAIN s.plans, NEW u \in Nat,
         ~Pending(s, p), Kind[p] = "after" => OccsOf(s, p) = {}
  PROVE  LET t == AddOcc(s, "collecting", p, 0, u)
         IN  /\ Orderly(t) /\ Interrupted(t) = Interrupted(s) \cup {t.last}
             /\ t.events = s.events /\ t.migrated = s.migrated /\ t.plans = s.plans
             /\ t.last \notin DOMAIN s.occs /\ t.last \in DOMAIN t.occs
             /\ DOMAIN t.occs = DOMAIN s.occs \cup {t.last}
             /\ t.occs[t.last].status = "collecting" /\ t.occs[t.last].plan = p
             /\ \A x \in DOMAIN s.occs : t.occs[x] = s.occs[x]
<1> DEFINE t == AddOcc(s, "collecting", p, 0, u)
           n == t.last
<1>1. /\ t.events = s.events /\ t.migrated = s.migrated /\ t.plans = s.plans
      /\ n \notin DOMAIN s.occs
      /\ DOMAIN t.occs = DOMAIN s.occs \cup {n}
      /\ t.occs[n] = [status |-> "collecting", plan |-> p, for |-> 0, expires |-> u]
      /\ \A x \in DOMAIN s.occs : t.occs[x] = s.occs[x]
  <2>1. DOMAIN s = Fields /\ s.last \in Nat /\ DOMAIN s.occs \subseteq 1..s.last
    BY DEF Sound, LedgerOK
  <2> QED
    BY <2>1, AddOccFor
<1> HIDE DEF t, n
<1>2. \A x \in DOMAIN s.occs : s.occs[x].plan = p => ~Unresolved(s, x)
  BY DEF Pending, OccsOf
<1>3. Originals(t)
  BY <1>1 DEF Orderly, Originals, Original
<1>4. OneEach(t)
  <2>1. \A x \in DOMAIN s.occs : Unresolved(t, x) = Unresolved(s, x)
    BY <1>1 DEF Unresolved
  <2>2. \A x, y \in DOMAIN s.occs : SamePlan(t, x, y) = SamePlan(s, x, y)
    BY <1>1 DEF SamePlan
  <2>3. \A x \in DOMAIN s.occs : SamePlan(t, x, n) \/ SamePlan(t, n, x) => ~Unresolved(t, x)
    BY <1>1, <1>2, <2>1 DEF SamePlan
  <2>4. \A x \in DOMAIN s.occs : s.occs[x].status = "collecting" => Unresolved(s, x)
    BY DEF Unresolved, OpenStatus
  <2> QED
    BY <1>1, <2>1, <2>2, <2>3, <2>4 DEF Orderly, OneEach
<1>5. Shots(t)
  <2>1. Kind[p] = "after" => \A x \in DOMAIN s.occs : s.occs[x].plan # p
    BY DEF OccsOf
  <2> QED
    BY <1>1, <2>1 DEF Orderly, Shots, SamePlan
<1>6. Interrupted(t) = Interrupted(s) \cup {n}
  BY <1>1 DEF Interrupted
<1> QED
  BY <1>1, <1>3, <1>4, <1>5, <1>6 DEF Orderly, t, n

(* The maintenance wake about an occurrence that had the arrangement for   *)
(* itself.                                                                 *)
Lone(s, o) ==
  /\ s.occs[o].for = 0
  /\ \A x \in DOMAIN s.occs : s.occs[x].for # o
  /\ \A x \in DOMAIN s.occs : Unresolved(s, x) /\ SamePlan(s, x, o) => x = o

(* A collection in flight is the only open receipt, without a wake yet.    *)
LEMMA CollectingLone ==
  ASSUME NEW s, Sound(s), Orderly(s), NEW o \in DOMAIN s.occs, s.occs[o].status = "collecting"
  PROVE  Lone(s, o)
<1>1. \A x \in DOMAIN s.occs : s.occs[x].for # o
  BY SoundRecords DEF Orderly, Originals, Original, Occ
<1>2. \A x \in DOMAIN s.occs : Unresolved(s, x) /\ SamePlan(s, x, o) => x = o
  BY DEF Orderly, OneEach, SamePlan
<1> QED
  BY <1>1, <1>2 DEF Lone, Orderly, OneEach

(* Its maintenance wake.                                                   *)
LEMMA AttentionOrderly ==
  ASSUME NEW s, Sound(s), Orderly(s), NEW o \in DOMAIN s.occs, Lone(s, o), Original(s, o)
  PROVE  LET t == Attention(s, o)
         IN  /\ Orderly(t) /\ Interrupted(t) = Interrupted(s)
             /\ t.events = s.events /\ t.migrated = s.migrated /\ t.plans = s.plans
             /\ DOMAIN s.occs \subseteq DOMAIN t.occs
             /\ \A x \in DOMAIN s.occs : t.occs[x] = s.occs[x]
             /\ \A q : q # s.occs[o].plan => Pending(t, q) = Pending(s, q)
<1> DEFINE t == Attention(s, o)
           n == t.last
           p == s.occs[o].plan
<1>1. /\ t.events = s.events /\ t.migrated = s.migrated /\ t.plans = s.plans
      /\ n \notin DOMAIN s.occs
      /\ DOMAIN t.occs = DOMAIN s.occs \cup {n}
      /\ t.occs[n] = [status |-> "pending", plan |-> p, for |-> o, expires |-> now + WakeLife]
      /\ \A x \in DOMAIN s.occs : t.occs[x] = s.occs[x]
  <2>1. DOMAIN s = Fields /\ s.last \in Nat /\ DOMAIN s.occs \subseteq 1..s.last
    BY DEF Sound, LedgerOK
  <2> QED
    BY <2>1, AddOccFor DEF Attention
<1> HIDE DEF t, n, p
<1>2. o \in Occ /\ o # 0
  BY SoundRecords DEF Occ
<1>3. Originals(t)
  BY <1>1, <1>2 DEF Orderly, Originals, Original, Lone
<1>4. OneEach(t)
  <2>1. \A x \in DOMAIN s.occs : Unresolved(t, x) = Unresolved(s, x)
    BY <1>1 DEF Unresolved
  <2>2. \A x, y \in DOMAIN s.occs : SamePlan(t, x, y) = SamePlan(s, x, y)
    BY <1>1 DEF SamePlan
  <2>3. \A x \in DOMAIN s.occs : (SamePlan(t, x, n) \/ SamePlan(t, n, x)) /\ Unresolved(t, x) => x = o
    BY <1>1, <2>1 DEF SamePlan, Lone, p
  <2>4. t.occs[o].status # "collecting" /\ t.occs[o].for = 0
    BY <1>1 DEF Original, Lone
  <2>5. \A x \in DOMAIN s.occs : s.occs[x].status = "collecting" => Unresolved(s, x)
    BY DEF Unresolved, OpenStatus
  <2> QED
    BY <1>1, <1>2, <2>1, <2>2, <2>3, <2>4, <2>5 DEF Orderly, OneEach
<1>5. Shots(t)
  BY <1>1, <1>2 DEF Orderly, Shots, SamePlan
<1>6. Interrupted(t) = Interrupted(s)
  BY <1>1 DEF Interrupted
<1>7. ASSUME NEW q, q # p PROVE Pending(t, q) = Pending(s, q)
  BY <1>1, <1>7 DEF Pending, OccsOf, Unresolved
<1> QED
  BY <1>1, <1>3, <1>4, <1>5, <1>6, <1>7 DEF Orderly, t, n, p

(***************************************************************************)
(* What becomes of arrangements and their events.                          *)
(***************************************************************************)
(* The same arrangements, some of them finished.                           *)
Finishes(s, t) ==
  /\ t.events = s.events /\ t.migrated = s.migrated /\ DOMAIN t.plans = DOMAIN s.plans
  /\ \A p \in DOMAIN s.plans : Finished(s, p) => Finished(t, p)

(* One finishing after another.                                            *)
LEMMA FinishesOn ==
  ASSUME NEW s, NEW t, NEW u, Finishes(s, t), Finishes(t, u) PROVE Finishes(s, u)
BY DEF Finishes

(* Finishing keeps every event where it is needed.                         *)
LEMMA FinishesBacked ==
  ASSUME NEW s, NEW t, Backed(s), Finishes(s, t) PROVE Backed(t)
BY DEF Backed, Finishes

(* Definitions as they were.                                               *)
LEMMA SameFinishes ==
  ASSUME NEW s, NEW t, t.events = s.events, t.migrated = s.migrated, t.plans = s.plans
  PROVE  Finishes(s, t)
BY DEF Finishes, Finished

(* One record that changes, and not back from finished.                    *)
LEMMA OnlyPlanFinishes ==
  ASSUME NEW s, NEW t, NEW p \in DOMAIN s.plans, OnlyPlan(s, t, p) PROVE Finishes(s, t)
<1>1. DOMAIN t.plans = DOMAIN s.plans /\ t.events = s.events /\ t.migrated = s.migrated
  BY DEF OnlyPlan
<1>2. \A x \in DOMAIN s.plans : x # p => t.plans[x] = s.plans[x]
  BY DEF OnlyPlan
<1>3. Finished(s, p) => Finished(t, p)
  BY DEF OnlyPlan
<1> QED
  BY <1>1, <1>2, <1>3 DEF Finishes, Finished

(***************************************************************************)
(* A collector's answer.                                                   *)
(***************************************************************************)
(* The occurrence o ends with a status st, in a ledger w that finished at  *)
(* most its arrangement, and a maintenance wake may be added to it.        *)
Ends(s, w, o, st) ==
  /\ Sound(w) /\ Finishes(s, w) /\ w.last = s.last /\ w.occs = SetOcc(s, o, st).occs
  /\ st \in OccStatus /\ st # "collecting"
  /\ st = "waiting" => Kind[s.occs[o].plan] = "completion"

(* An occurrence ends.                                                     *)
LEMMA SetOccEnds ==
  ASSUME NEW s, Sound(s), NEW o \in DOMAIN s.occs, NEW st \in OccStatus, st # "collecting",
         st = "waiting" => Kind[s.occs[o].plan] = "completion"
  PROVE  Ends(s, SetOcc(s, o, st), o, st)
<1>1. /\ Sound(SetOcc(s, o, st)) /\ SetOcc(s, o, st).last = s.last
      /\ SetOcc(s, o, st).plans = s.plans /\ SetOcc(s, o, st).migrated = s.migrated
      /\ SetOcc(s, o, st).events = s.events
  BY SetOccIs, SetOccFor
<1> QED
  BY <1>1, SameFinishes DEF Ends

(* Its arrangement ends with it.                                           *)
LEMMA EndsPlan ==
  ASSUME NEW s, NEW w, NEW o, NEW st, Ends(s, w, o, st),
         NEW p \in DOMAIN w.plans, NEW t, OnlyPlan(w, t, p), Sound(t)
  PROVE  Ends(s, t, o, st)
<1>1. Finishes(w, t)
  BY OnlyPlanFinishes
<1> QED
  BY <1>1, FinishesOn DEF Ends, OnlyPlan

(* A collector that failed.                                                *)
LEMMA FailureEnds ==
  ASSUME NEW s, Sound(s), NEW o \in DOMAIN s.occs, ~Finished(s, s.occs[o].plan)
  PROVE  \E w : Ends(s, w, o, "failed") /\ FinishFailed(s, o) \in {w, Attention(w, o)}
<1> DEFINE p == s.occs[o].plan
           n == s.plans[p].failures + 1
           u == SetOcc(s, o, "failed")
           t == [u EXCEPT !.plans[p].failures = @ + 1]
           w == SetPlan(t, p, "failed")
<1>1. Ends(s, u, o, "failed") /\ u.plans = s.plans
  <2>1. "failed" \in OccStatus
    BY DEF OccStatus, DoneStatus
  <2> QED
    BY <2>1, SetOccEnds, SetOccIs
<1>2. p \in DOMAIN s.plans /\ s.plans[p] \in PlanRec /\ s.plans[p].failures < MaxFailures
  BY SoundRecords DEF Sound
<1>3. n \in 0..MaxFailures
  BY <1>2 DEF PlanRec, MaxFailures
<1>4. FinishFailed(s, o) = IF t.plans[p].failures >= MaxFailures \/ Kind[p] = "after"
                           THEN Attention(w, o) ELSE t
  BY DEF FinishFailed
<1> HIDE DEF p, u, n
<1>5. OnlyPlan(u, t, p) /\ t.plans[p].failures = n
  <2>1. t = [u EXCEPT !.plans[p].failures = n]
    BY <1>1 DEF n
  <2> HIDE DEF t, w
  <2>2. Sound(u) /\ p \in DOMAIN u.plans
    BY <1>1, <1>2 DEF Ends
  <2> QED
    BY <1>3, <2>1, <2>2, FailuresIs
<1> HIDE DEF t
<1>6. CASE t.plans[p].failures >= MaxFailures \/ Kind[p] = "after"
  <2>1. OnlyPlan(u, w, p) /\ Finished(w, p)
    <3>1. /\ DOMAIN t = Fields /\ t.plans \in [DOMAIN t.plans -> PlanRec] /\ p \in DOMAIN t.plans
          /\ "failed" \in PlanStatus /\ "failed" \in DoneStatus
      BY <1>1, <1>2, <1>5 DEF OnlyPlan, PlanStatus, DoneStatus
    <3>2. OnlyPlan(t, w, p) /\ w.plans[p].status = "failed"
      BY <3>1, SetPlanOnly
    <3>3. OnlyPlan(u, w, p)
      BY <1>1, <1>2, <1>5, <3>2, OnlyPlanOn
    <3> QED
      BY <3>1, <3>2, <3>3 DEF Finished
  <2> HIDE DEF w
  <2>2. Sound(w)
    BY <1>1, <1>2, <2>1, OnlyPlanIs DEF Ends
  <2> QED
    BY <1>1, <1>2, <1>4, <1>6, <2>1, <2>2, EndsPlan
<1>7. CASE ~(t.plans[p].failures >= MaxFailures \/ Kind[p] = "after")
  <2>1. t.plans[p].failures < MaxFailures /\ p \in DOMAIN u.plans
    BY <1>1, <1>2, <1>3, <1>5, <1>7 DEF MaxFailures
  <2>2. Sound(t)
    BY <1>1, <1>5, <2>1, OnlyPlanIs DEF Ends
  <2> QED
    BY <1>1, <1>4, <1>5, <1>7, <2>1, <2>2, EndsPlan
<1> QED
  BY <1>6, <1>7

(* A collector that was heard.                                             *)
LEMMA SeenEnds ==
  ASSUME NEW s, Sound(s), NEW o \in DOMAIN s.occs, ~Finished(s, s.occs[o].plan), NEW r,
         r = "nonterminal" => Kind[s.occs[o].plan] = "completion"
  PROVE  \E st, w : /\ Ends(s, w, o, st)
                    /\ \/ FinishSeen(s, o, r) = w
                       \/ FinishSeen(s, o, r) = Attention(w, o) /\ st = "failed"
<1> DEFINE p == s.occs[o].plan
           t == [s EXCEPT !.plans[p].failures = 0]
           u == SetOcc(t, o, "failed")
           w == SetPlan(u, p, "failed")
<1>1. FinishSeen(s, o, r) =
        CASE r = "match"       -> SetOcc(t, o, "pending")
          [] r = "nomatch"     -> SetOcc(t, o, "filtered")
          [] r = "nonterminal" -> SetOcc(t, o, "waiting")
          [] OTHER             -> Attention(w, o)
  BY DEF FinishSeen
<1>2. p \in DOMAIN s.plans /\ 0 \in 0..MaxFailures /\ 0 < MaxFailures
  BY SoundRecords DEF MaxFailures
<1>3. OnlyPlan(s, t, p) /\ t.plans[p].failures = 0 /\ Finished(t, p) = Finished(s, p)
  BY <1>2, FailuresIs
<1> HIDE DEF t
<1>4. Sound(t) /\ t.occs = s.occs /\ t.last = s.last /\ Finishes(s, t)
  BY <1>2, <1>3, OnlyPlanIs, OnlyPlanFinishes DEF OnlyPlan
<1>5. ASSUME NEW st \in OccStatus, st # "collecting", st = "waiting" => Kind[p] = "completion"
      PROVE  Ends(s, SetOcc(t, o, st), o, st)
  <2>1. Ends(t, SetOcc(t, o, st), o, st)
    BY <1>4, <1>5, SetOccEnds
  <2>2. SetOcc(t, o, st).occs = SetOcc(s, o, st).occs
    <3>1. SetOcc(t, o, st).occs = [t.occs EXCEPT ![o].status = st]
      BY <1>4 DEF SetOcc, Sound, Fields
    <3>2. SetOcc(s, o, st).occs = [s.occs EXCEPT ![o].status = st]
      BY DEF SetOcc, Sound, Fields
    <3> QED
      BY <1>4, <3>1, <3>2
  <2> QED
    BY <1>4, <2>1, <2>2, FinishesOn DEF Ends
<1>6. {"pending", "filtered", "waiting", "failed"} \subseteq OccStatus
  BY DEF OccStatus, OpenStatus, DoneStatus
<1>7. CASE r \in {"match", "nomatch", "nonterminal"}
  <2>1. \E st \in OccStatus : /\ FinishSeen(s, o, r) = SetOcc(t, o, st)
                              /\ st # "collecting" /\ (st = "waiting" => Kind[p] = "completion")
    BY <1>1, <1>6, <1>7
  <2> QED
    BY <1>5, <2>1
<1>8. CASE r \notin {"match", "nomatch", "nonterminal"}
  <2>1. FinishSeen(s, o, r) = Attention(w, o)
    BY <1>1, <1>8
  <2>2. Ends(s, u, o, "failed")
    BY <1>5, <1>6
  <2> HIDE DEF u
  <2>3. p \in DOMAIN u.plans /\ Sound(u)
    BY <1>2, <2>2 DEF Ends, Finishes
  <2>4. OnlyPlan(u, w, p) /\ Sound(w)
    <3>1. "failed" \in PlanStatus /\ "failed" \in DoneStatus
      BY DEF PlanStatus, DoneStatus
    <3> QED
      BY <2>3, <3>1, SetPlanIs
  <2> HIDE DEF w
  <2> QED
    BY <2>1, <2>2, <2>3, <2>4, EndsPlan
<1> QED
  BY <1>7, <1>8

(* Any answer of a collector of that kind.                                 *)
LEMMA AnswerEnds ==
  ASSUME NEW s, Sound(s), NEW o \in DOMAIN s.occs, s.occs[o].status = "collecting",
         NEW r \in Results(s.occs[o].plan)
  PROVE  \E st, w : /\ Ends(s, w, o, st)
                    /\ \/ FinishCollection(s, o, r) = w
                       \/ FinishCollection(s, o, r) = Attention(w, o) /\ st \in {"failed", "unknown"}
<1> DEFINE p == s.occs[o].plan
           t == FinishCollection(s, o, r)
           u == SetOcc(s, o, "unknown")
           w == SetPlan(u, p, "suspended")
<1>1. "unknown" \in OccStatus /\ "cancelled" \in OccStatus /\ "suspended" \in PlanStatus
      /\ p \in DOMAIN s.plans
  BY SoundRecords DEF OccStatus, OpenStatus, DoneStatus, PlanStatus
<1>2. \A st \in {"unknown", "cancelled"} : Ends(s, SetOcc(s, o, st), o, st)
  BY <1>1, SetOccEnds
<1>3. CASE Finished(s, p)
  <2>1. t = SetOcc(s, o, IF r = "lost" THEN "unknown" ELSE "cancelled")
    BY <1>3 DEF FinishCollection
  <2> QED
    BY <1>2, <2>1
<1>4. CASE ~Finished(s, p) /\ r = "failed"
  <2>1. t = FinishFailed(s, o)
    BY <1>4 DEF FinishCollection
  <2>2. \E x : Ends(s, x, o, "failed") /\ FinishFailed(s, o) \in {x, Attention(x, o)}
    BY <1>4, FailureEnds
  <2> QED
    BY <2>1, <2>2
<1>5. CASE ~Finished(s, p) /\ r = "lost"
  <2>1. t = Attention(w, o)
    BY <1>5 DEF FinishCollection
  <2>2. Ends(s, u, o, "unknown") /\ u.plans = s.plans
    BY <1>1, <1>2, SetOccIs
  <2> HIDE DEF u, p
  <2>3. Sound(u) /\ p \in DOMAIN u.plans /\ ~Finished(u, p)
    BY <1>1, <1>5, <2>2 DEF Ends, Finished
  <2>4. OnlyPlan(u, w, p) /\ Sound(w)
    BY <1>1, <2>3, SetPlanIs
  <2> HIDE DEF w
  <2> QED
    BY <2>1, <2>2, <2>3, <2>4, EndsPlan
<1>6. CASE ~Finished(s, p) /\ r \notin {"failed", "lost"}
  <2>1. t = FinishSeen(s, o, r)
    BY <1>6 DEF FinishCollection
  <2>2. r = "nonterminal" => Kind[p] = "completion"
    BY DEF Results
  <2> QED
    BY <1>6, <2>1, <2>2, SeenEnds
<1> QED
  BY <1>3, <1>4, <1>5, <1>6

(* The receipts stay in order, and so do the definitions.                  *)
Answered(s, t, o) ==
  /\ Orderly(t) /\ Interrupted(t) \subseteq Interrupted(s) \ {o} /\ Finishes(s, t)
  /\ \A x \in DOMAIN s.occs : x \in DOMAIN t.occs /\ t.occs[x].plan = s.occs[x].plan
  /\ \A q : q # s.occs[o].plan /\ Pending(t, q) => Pending(s, q)

(* An ending.                                                              *)
LEMMA EndsOrderly ==
  ASSUME NEW s, Sound(s), Orderly(s), NEW o \in DOMAIN s.occs, s.occs[o].status = "collecting",
         NEW w, NEW st, Ends(s, w, o, st)
  PROVE  Answered(s, w, o) /\ Lone(w, o) /\ w.occs[o].status = st
<1> DEFINE t == SetOcc(s, o, st)
<1>1. st \in OccStatus /\ st # "collecting" /\ w.occs = t.occs /\ Finishes(s, w)
      /\ (st = "waiting" => Kind[s.occs[o].plan] = "completion")
  BY DEF Ends
<1>2. /\ DOMAIN t.occs = DOMAIN s.occs
      /\ t.occs[o].status = st /\ t.occs[o].plan = s.occs[o].plan /\ t.occs[o].for = s.occs[o].for
      /\ \A x \in DOMAIN s.occs : x # o => t.occs[x] = s.occs[x]
  BY <1>1, SetOccIs, SetOccFor
<1>3. Wanes(s, t)
  <2>1. Unresolved(s, o) /\ ~Original(s, o)
    BY DEF Unresolved, Original, OpenStatus
  <2> QED
    BY <1>1, <2>1, SetOccWanes
<1> HIDE DEF t
<1>4. Orderly(t) /\ Interrupted(t) \subseteq Interrupted(s) \ {o}
  BY <1>1, <1>2, <1>3, WanesOrderly DEF Interrupted
<1>5. Orderly(w) /\ Interrupted(w) = Interrupted(t) /\ \A q : Pending(w, q) = Pending(t, q)
  BY <1>1, <1>4, SameOccsOrderly
<1>6. \A q : Pending(t, q) => Pending(s, q)
  BY <1>3, WanesPending
<1>7. Lone(w, o)
  <2>1. Lone(s, o)
    BY CollectingLone
  <2> QED
    BY <1>1, <1>2, <2>1 DEF Lone, Unresolved, SamePlan
<1> QED
  BY <1>1, <1>2, <1>4, <1>5, <1>6, <1>7 DEF Answered

(* Any answer, with the maintenance wake it may need.                      *)
LEMMA AnswerOrderly ==
  ASSUME NEW s, Sound(s), Orderly(s), NEW o \in DOMAIN s.occs, s.occs[o].status = "collecting",
         NEW r \in Results(s.occs[o].plan)
  PROVE  Answered(s, FinishCollection(s, o, r), o)
<1>1. PICK st, w : /\ Ends(s, w, o, st)
                   /\ \/ FinishCollection(s, o, r) = w
                      \/ FinishCollection(s, o, r) = Attention(w, o) /\ st \in {"failed", "unknown"}
  BY AnswerEnds
<1>2. Answered(s, w, o) /\ Lone(w, o) /\ w.occs[o].status = st /\ Sound(w)
  BY <1>1, EndsOrderly DEF Ends
<1>3. CASE st \in {"failed", "unknown"}
  <2> DEFINE t == Attention(w, o)
  <2>1. o \in DOMAIN w.occs /\ w.occs[o].plan = s.occs[o].plan /\ Original(w, o)
    BY <1>2, <1>3 DEF Answered, Original
  <2>2. /\ Orderly(t) /\ Interrupted(t) = Interrupted(w)
        /\ t.events = w.events /\ t.migrated = w.migrated /\ t.plans = w.plans
        /\ DOMAIN w.occs \subseteq DOMAIN t.occs
        /\ \A x \in DOMAIN w.occs : t.occs[x] = w.occs[x]
        /\ \A q : q # w.occs[o].plan => Pending(t, q) = Pending(w, q)
    BY <1>2, <2>1, AttentionOrderly DEF Answered
  <2> HIDE DEF t
  <2>3. Finishes(s, t)
    BY <1>2, <2>2, SameFinishes, FinishesOn DEF Answered
  <2>4. Answered(s, t, o)
    BY <1>2, <2>1, <2>2, <2>3 DEF Answered
  <2> QED
    BY <1>1, <1>2, <2>4 DEF t
<1> QED
  BY <1>1, <1>2, <1>3

(***************************************************************************)
(* Clean-up and retirement.                                                *)
(***************************************************************************)
(* Receipts that are closed one after the other.                           *)
LEMMA WanesOn ==
  ASSUME NEW s, NEW t, NEW u, Wanes(s, t), Wanes(t, u) PROVE Wanes(s, u)
<1>1. \A o \in DOMAIN t.occs : o \in DOMAIN s.occs /\ t.occs[o].plan = s.occs[o].plan
  BY DEF Wanes
<1> QED
  BY <1>1 DEF Wanes

(* The same receipts in another ledger.                                    *)
LEMMA WanesSame ==
  ASSUME NEW s, NEW t, NEW u, Wanes(s, t), u.occs = t.occs PROVE Wanes(s, u)
BY DEF Wanes, Unresolved, Original

(* Definitions that are as they were.                                      *)
LEMMA FinishesSelf == \A s : Finishes(s, s)
BY DEF Finishes

(* A set of ids has a largest one.                                         *)
LEMMA LargestId ==
  ASSUME NEW S \in SUBSET Occ, S # {} PROVE \E x \in S : \A y \in S : y <= x
<1> DEFINE R == {MaxOcc - x : x \in S}
<1>1. \A x \in S : x \in Nat /\ x <= MaxOcc /\ MaxOcc - x \in Nat
  BY Timing DEF Occ
<1>2. R \subseteq Nat /\ R # {}
  BY <1>1
<1>3. PICK r \in R : \A q \in R : ~(<<q, r>> \in OpToRel(<, Nat))
  BY <1>2, NatLessThanWellFounded, WFMin
<1>4. \A q \in R : r <= q
  <2> TAKE q \in R
  <2>1. q \in Nat /\ r \in Nat
    BY <1>2
  <2>2. ~(q < r)
    BY <1>3, <2>1 DEF OpToRel
  <2> QED
    BY <2>1, <2>2
<1>5. PICK x \in S : r = MaxOcc - x
  OBVIOUS
<1>6. ASSUME NEW y \in S PROVE y <= x
  <2>1. MaxOcc - x <= MaxOcc - y
    BY <1>4, <1>5
  <2> QED
    BY <1>1, <2>1, Timing
<1> QED
  BY <1>6

(* The parts of a clean-up.                                                *)
LEMMA CleanupParts ==
  ASSUME NEW s, Sound(s), NEW old, NEW aged
  PROVE  LET c == Cleanup(s, old, aged)
         IN  /\ c.occs = [o \in DOMAIN s.occs \ old |-> s.occs[o]] /\ c.migrated = s.migrated
             /\ DOMAIN c.plans \subseteq DOMAIN s.plans
             /\ \A p \in DOMAIN c.plans : c.plans[p] = CleanPlan(s, p)
             /\ DOMAIN c.events \subseteq DOMAIN s.events
             /\ \A p \in DOMAIN c.plans : EventOf[p] \in DOMAIN s.events =>
                  /\ EventOf[p] \in DOMAIN c.events
                  /\ ~Finished(c, p) => c.events[EventOf[p]] = s.events[EventOf[p]]
<1> DEFINE a == [s EXCEPT !.attempts = {x \in @ : x[2] + Window > now},
                          !.plans = [p \in DOMAIN @ |-> CleanPlan(s, p)]]
           b == [a EXCEPT !.events = [v \in DOMAIN @ |->
                   IF v \in aged /\ @[v] = "live" /\ Unused(a, v) THEN "archived" ELSE @[v]]]
           k == [b EXCEPT !.occs = Without(@, old)]
           d == [k EXCEPT !.plans = Without(@, PlansGone(k, aged))]
           c == [d EXCEPT !.events = Without(@, EventsGone(d, aged))]
<1>0. Cleanup(s, old, aged) = c
  BY DEF Cleanup
<1>1. /\ DOMAIN a = Fields /\ a.plans = [p \in DOMAIN s.plans |-> CleanPlan(s, p)]
      /\ a.events = s.events /\ a.occs = s.occs /\ a.migrated = s.migrated
  BY DEF Sound, Fields
<1> HIDE DEF a
<1>2. /\ DOMAIN b = Fields /\ b.plans = a.plans /\ b.occs = a.occs /\ b.migrated = a.migrated
      /\ b.events = [v \in DOMAIN a.events |->
           IF v \in aged /\ a.events[v] = "live" /\ Unused(a, v) THEN "archived" ELSE a.events[v]]
  BY <1>1 DEF Fields
<1> HIDE DEF b
<1>3. /\ DOMAIN k = Fields /\ k.plans = b.plans /\ k.events = b.events /\ k.migrated = b.migrated
      /\ k.occs = [o \in DOMAIN s.occs \ old |-> s.occs[o]]
  BY <1>1, <1>2 DEF Fields, Without
<1> HIDE DEF k
<1>4. /\ DOMAIN d = Fields /\ d.events = k.events /\ d.occs = k.occs /\ d.migrated = k.migrated
      /\ d.plans = [x \in DOMAIN k.plans \ PlansGone(k, aged) |-> k.plans[x]]
  BY <1>3 DEF Fields, Without
<1> HIDE DEF d
<1>5. /\ c.plans = d.plans /\ c.occs = d.occs /\ c.migrated = d.migrated
      /\ c.events = [x \in DOMAIN d.events \ EventsGone(d, aged) |-> d.events[x]]
  BY <1>4 DEF Fields, Without
<1> HIDE DEF c
<1>6. /\ DOMAIN c.plans \subseteq DOMAIN s.plans
      /\ \A p \in DOMAIN c.plans : c.plans[p] = CleanPlan(s, p) /\ c.plans[p] = a.plans[p]
  BY <1>1, <1>2, <1>3, <1>4, <1>5
<1>7. DOMAIN c.events \subseteq DOMAIN s.events
  BY <1>1, <1>2, <1>3, <1>4, <1>5
<1>8. ASSUME NEW p \in DOMAIN c.plans, EventOf[p] \in DOMAIN s.events
      PROVE  /\ EventOf[p] \in DOMAIN c.events
             /\ ~Finished(c, p) => c.events[EventOf[p]] = s.events[EventOf[p]]
  <2>1. EventOf[p] \notin EventsGone(d, aged)
    BY <1>5, <1>8 DEF EventsGone
  <2>2. EventOf[p] \in DOMAIN c.events /\ c.events[EventOf[p]] = b.events[EventOf[p]]
    BY <1>1, <1>2, <1>3, <1>4, <1>5, <1>8, <2>1
  <2>3. ~Finished(c, p) => ~Unused(a, EventOf[p])
    BY <1>1, <1>6 DEF Unused, Holding, Finished
  <2> QED
    BY <1>1, <1>2, <1>8, <2>2, <2>3
<1> QED
  BY <1>0, <1>1, <1>2, <1>3, <1>4, <1>5, <1>6, <1>7, <1>8

(* A plan that was cleaned and goes on is the plan before, and a one-shot  *)
(* one has something open, or never collected.                             *)
LEMMA CleanTaken ==
  ASSUME NEW s, Sound(s), Orderly(s), NEW p \in DOMAIN s.plans, CleanPlan(s, p).status = "active"
  PROVE  CleanPlan(s, p) = s.plans[p] /\ (Kind[p] = "after" => Pending(s, p) \/ OccsOf(s, p) = {})
<1>1. s.plans[p] \in PlanRec /\ "active" \notin DoneStatus
  BY SoundRecords DEF DoneStatus
<1>2. ASSUME NEW st \in DoneStatus, CleanPlan(s, p) = [s.plans[p] EXCEPT !.status = st] PROVE FALSE
  BY <1>1, <1>2 DEF PlanRec
<1>3. "expired" \in DoneStatus
  BY DEF DoneStatus
<1>4. \A x, y \in Occ : IsNewest(s, p, x) /\ IsNewest(s, p, y) => x = y
  BY DEF IsNewest, Occ
<1>5. ASSUME NEW o \in Occ, IsNewest(s, p, o) PROVE (CHOOSE x \in Occ : IsNewest(s, p, x)) = o
  BY <1>4, <1>5
<1>6. CleanPlan(s, p) = s.plans[p]
  BY <1>2, <1>3, <1>5 DEF CleanPlan
<1>7. ASSUME Kind[p] = "after", ~Pending(s, p), OccsOf(s, p) # {} PROVE FALSE
  <2>1. OccsOf(s, p) \in SUBSET Occ
    BY SoundRecords DEF OccsOf
  <2>2. PICK o \in OccsOf(s, p) : \A x \in OccsOf(s, p) : x <= o
    BY <1>7, <2>1, LargestId
  <2>3. o \in Occ /\ IsNewest(s, p, o)
    BY <2>1, <2>2 DEF IsNewest
  <2>4. o \in DOMAIN s.occs /\ s.occs[o].plan = p /\ ~Unresolved(s, o)
    BY <1>7 DEF OccsOf, Pending
  <2>5. s.occs[o].status \in DoneStatus
    <3>1. s.occs[o].status \in OccStatus
      BY <2>4, SoundRecords DEF OccRec
    <3>2. s.occs[o].status # "waiting"
      BY <1>7, <2>4 DEF Orderly, Shots
    <3> QED
      BY <2>4, <3>1, <3>2 DEF OccStatus, Unresolved
  <2>6. ~Finished(s, p)
    BY <1>1, <1>6 DEF Finished
  <2>7. ~(now >= s.plans[p].expires)
    BY <1>2, <1>3, <1>7, <2>6 DEF CleanPlan
  <2>8. CleanPlan(s, p) = [s.plans[p] EXCEPT !.status = s.occs[o].status]
    BY <1>5, <1>7, <2>3, <2>5, <2>6, <2>7 DEF CleanPlan
  <2> QED
    BY <1>2, <2>5, <2>8
<1> QED
  BY <1>6, <1>7

(* Clean-up prunes settled receipts, and no event or original that is in   *)
(* use.                                                                    *)
LEMMA CleanupTidy ==
  ASSUME NEW s, Sound(s), Backed(s), Orderly(s), NEW old \in SUBSET Settled(s), NEW aged
  PROVE  LET c == Cleanup(s, old, aged)
         IN  Backed(c) /\ Wanes(s, c) /\ \A p \in DOMAIN c.plans : Taken(c, p)
<1> DEFINE c == Cleanup(s, old, aged)
<1>1. /\ c.occs = [o \in DOMAIN s.occs \ old |-> s.occs[o]] /\ c.migrated = s.migrated
      /\ DOMAIN c.plans \subseteq DOMAIN s.plans
      /\ \A p \in DOMAIN c.plans : c.plans[p] = CleanPlan(s, p)
      /\ DOMAIN c.events \subseteq DOMAIN s.events
      /\ \A p \in DOMAIN c.plans : EventOf[p] \in DOMAIN s.events =>
           /\ EventOf[p] \in DOMAIN c.events
           /\ ~Finished(c, p) => c.events[EventOf[p]] = s.events[EventOf[p]]
  BY CleanupParts
<1> HIDE DEF c
<1>2. Backed(c)
  <2>1. \A p \in DOMAIN c.plans : Finished(s, p) => Finished(c, p)
    BY <1>1, CleanPlanIs DEF Finished
  <2> QED
    BY <1>1, <2>1 DEF Backed
<1>3. /\ DOMAIN c.occs = DOMAIN s.occs \ old
      /\ \A o \in DOMAIN c.occs : o \in DOMAIN s.occs /\ c.occs[o] = s.occs[o]
  BY <1>1
<1>4. Wanes(s, c)
  <2>1. \A o \in DOMAIN c.occs : s.occs[o].for # 0 => s.occs[o].for \in DOMAIN c.occs
    BY <1>3 DEF Orderly, Originals, Settled
  <2> QED
    BY <1>3, <2>1 DEF Wanes, Unresolved, Original
<1>5. ASSUME NEW p \in DOMAIN c.plans PROVE Taken(c, p)
  <2> SUFFICES ASSUME c.plans[p].status = "active", Kind[p] = "after"
               PROVE  Pending(c, p) \/ OccsOf(c, p) = {}
    BY DEF Taken
  <2>1. Pending(s, p) \/ OccsOf(s, p) = {}
    BY <1>1, CleanTaken
  <2>2. OccsOf(s, p) = {} => OccsOf(c, p) = {}
    BY <1>3 DEF OccsOf
  <2>3. Pending(s, p) => Pending(c, p)
    BY <1>3 DEF Pending, OccsOf, Unresolved, Settled
  <2> QED
    BY <2>1, <2>2, <2>3
<1> QED
  BY <1>2, <1>4, <1>5 DEF c

(* Any clean-up.                                                           *)
LEMMA CleanupsTidy ==
  ASSUME NEW s, Sound(s), Backed(s), Orderly(s), NEW c \in Cleanups(s)
  PROVE  Backed(c) /\ Wanes(s, c) /\ \A p \in DOMAIN c.plans : Taken(c, p)
<1>1. \E old \in SUBSET Settled(s) : \E aged : c = Cleanup(s, old, aged)
  BY DEF Cleanups
<1> QED
  BY <1>1, CleanupTidy

(* Retirement changes neither receipts nor statuses, and takes no live     *)
(* event.                                                                  *)
LEMMA RetireTidy ==
  ASSUME NEW c, Sound(c), Backed(c), \A p \in DOMAIN c.plans : Taken(c, p), Retire(c)
  PROVE  \E t : Written(t) /\ Backed(t) /\ t.occs = c.occs /\ \A p \in DOMAIN t.plans : Taken(t, p)
<1>1. ASSUME NEW t, t.occs = c.occs, DOMAIN t.plans = DOMAIN c.plans,
             \A p \in DOMAIN c.plans : t.plans[p].status = c.plans[p].status
      PROVE  \A p \in DOMAIN t.plans : Taken(t, p)
  BY <1>1 DEF Taken, Pending, OccsOf, Unresolved
<1>2. CASE Written(c)
  BY <1>2
<1>3. ASSUME NEW p \in Retirable(c), Written(RetirePlan(c, p))
      PROVE  \E t : Written(t) /\ Backed(t) /\ t.occs = c.occs /\ \A q \in DOMAIN t.plans : Taken(t, q)
  <2> DEFINE t == RetirePlan(c, p)
  <2>1. SameWork(c, t) /\ DOMAIN t.plans = DOMAIN c.plans
    BY RetirePlanIs DEF Retirable
  <2>2. t.events = c.events
    BY DEF RetirePlan, Sound, Fields
  <2> HIDE DEF t
  <2>3. Backed(t)
    BY <2>1, <2>2 DEF Backed, SameWork, Finished
  <2> QED
    BY <1>1, <1>3, <2>1, <2>3 DEF SameWork, t
<1>4. ASSUME NEW v \in DOMAIN c.events, c.events[v] = "archived", Written(RetireEvent(c, v))
      PROVE  \E t : Written(t) /\ Backed(t) /\ t.occs = c.occs /\ \A q \in DOMAIN t.plans : Taken(t, q)
  <2> DEFINE t == RetireEvent(c, v)
  <2>1. /\ t.plans = c.plans /\ t.occs = c.occs /\ t.migrated = c.migrated
        /\ t.events = [c.events EXCEPT ![v] = "retired"]
    BY DEF RetireEvent, Sound, Fields
  <2> HIDE DEF t
  <2>2. Backed(t)
    BY <1>4, <2>1 DEF Backed, Finished
  <2> QED
    BY <1>1, <1>4, <2>1, <2>2 DEF t
<1> QED
  BY <1>2, <1>3, <1>4 DEF Retire

(***************************************************************************)
(* Writes.                                                                 *)
(***************************************************************************)
(* What is said of a ledger is said of the one after the step.             *)
LEMMA TidyNext == ASSUME Tidy(mem'), Tidy(disk') PROVE Tidy(mem)' /\ Tidy(disk)'
BY DEF Tidy, Backed, Orderly, OneFlight, Originals, Original, OneEach, Shots, SamePlan,
       Unresolved, Finished, Interrupted

(* Every write.  The ledger written has its collection in flight where the *)
(* engine knows of it.                                                     *)
Known(t, next, r) == \A o \in Interrupted(t) : o = r \/ (next.at = "spawn" /\ o = next.occ)

(* It is enough to look at the ledger written.                             *)
LEMMA WriteTidy ==
  ASSUME RInv, NEW t, NEW next, Tidy(t),
         \/ /\ Saved(t, next) /\ Known(t, next, running')
            /\ result' # "none" => /\ running' = running /\ result' = result
                                   /\ t.occs[running].plan = mem.occs[running].plan
         \/ Frozen(t),
         next.at # "ingest", next.at = "scan" => \A p \in DOMAIN t.plans : Taken(t, p)
  PROVE  RInv'
<1>1. At("down").at = "down"
  BY DEF At
<1>2. CASE Frozen(t)
  <2>1. pc'.at = "down" /\ result' = "none" /\ Tidy(mem') /\ Tidy(disk')
    BY <1>1, <1>2 DEF Frozen, RInv
  <2> QED
    BY <2>1, TidyNext DEF RInv, InFlight, Answer, Scanned, Free
<1>3. CASE /\ Saved(t, next) /\ Known(t, next, running')
           /\ result' # "none" => /\ running' = running /\ result' = result
                                  /\ t.occs[running].plan = mem.occs[running].plan
  <2>1. mem' = t /\ disk' = t /\ pc' = next
    BY <1>3 DEF Saved
  <2>2. Tidy(mem)' /\ Tidy(disk)'
    BY <2>1, TidyNext
  <2>3. InFlight'
    BY <1>3, <2>1 DEF Known, InFlight, Interrupted
  <2>4. Answer'
    BY <1>3, <2>1 DEF RInv, Answer, Results
  <2>5. Scanned' /\ Free'
    BY <2>1 DEF Scanned, Free, Taken, Pending, OccsOf, Unresolved
  <2> QED
    BY <2>2, <2>3, <2>4, <2>5 DEF RInv
<1> QED
  BY <1>2, <1>3

(* A write that leaves the collector that runs alone.                      *)
LEMMA CommitTidy ==
  ASSUME RInv, NEW t, NEW next, Commit(t, next), Tidy(t), Known(t, next, running),
         result # "none" => t.occs[running].plan = mem.occs[running].plan,
         next.at \notin {"scan", "ingest"}
  PROVE  RInv'
BY WriteTidy DEF Commit

(* Outside Open and StartCollection the engine knows of what is in flight. *)
Calm == pc.at \notin {"down", "spawn"}

(* So a ledger with no more in flight is one the engine knows of.          *)
LEMMA CalmFlight ==
  ASSUME RInv, Calm, NEW t, Interrupted(t) \subseteq Interrupted(mem)
  PROVE  OneFlight(t) /\ \A next : Known(t, next, running)
BY DEF RInv, InFlight, Calm, OneFlight, Tidy, Known

(* The collection in flight is in the ledger.                              *)
LEMMA RunningIs ==
  Inv => /\ result # "none" => running \in DOMAIN mem.occs /\ mem.occs[running].status = "collecting"
         /\ running = 0 => result = "none"
BY DEF Inv, Running

(* Operations that close receipts.                                         *)
LEMMA WanesTidy ==
  ASSUME Inv, Inv', RInv, Calm, NEW t, NEW next, Commit(t, next),
         next.at \notin {"scan", "ingest"}, Backed(t), Wanes(mem, t)
  PROVE  RInv'
<1>1. Orderly(mem)
  BY DEF RInv, Tidy
<1>2. Orderly(t) /\ Interrupted(t) \subseteq Interrupted(mem)
  BY <1>1, WanesOrderly
<1>3. Tidy(t) /\ Known(t, next, running)
  BY <1>2, CalmFlight DEF Tidy
<1>4. CASE Frozen(t)
  BY <1>3, <1>4, WriteTidy
<1>5. CASE Saved(t, next) /\ UNCHANGED <<running, result>>
  <2>1. result # "none" => running \in DOMAIN t.occs
    BY <1>5 DEF Saved, Inv, Running
  <2>2. result # "none" => t.occs[running].plan = mem.occs[running].plan
    BY <2>1 DEF Wanes
  <2> QED
    BY <1>3, <1>5, <2>2, WriteTidy
<1> QED
  BY <1>4, <1>5 DEF Commit

(* A clean-up that is not written.                                         *)
LEMMA UnsavedTidy ==
  ASSUME Inv, Inv', RInv, Unsaved PROVE RInv'
<1>1. PICK c \in Cleanups(mem) : mem' = c
  BY DEF Unsaved
<1>2. /\ Sound(mem) /\ Tidy(mem) /\ Tidy(disk) /\ pc.at = "idle" /\ pc' = pc
      /\ disk' = disk /\ running' = running /\ result' = result
  BY DEF Inv, Ledgers, RInv, Unsaved, Idle
<1>3. Backed(c) /\ Wanes(mem, c)
  BY <1>2, CleanupsTidy DEF Tidy
<1>4. Orderly(c) /\ Interrupted(c) \subseteq Interrupted(mem)
  BY <1>2, <1>3, WanesOrderly DEF Tidy
<1>5. Tidy(c) /\ Known(c, At("idle"), running)
  BY <1>2, <1>3, <1>4, CalmFlight DEF Tidy, Calm
<1>6. Tidy(mem)' /\ Tidy(disk)'
  BY <1>1, <1>2, <1>5, TidyNext
<1>7. InFlight'
  <2>1. At("idle").at = "idle"
    BY DEF At
  <2> QED
    BY <1>1, <1>2, <1>5, <2>1 DEF Known, InFlight, Interrupted
<1>8. Answer'
  <2>1. result # "none" => c.occs[running].plan = mem.occs[running].plan
    BY <1>1, <1>2, <1>3 DEF Inv, Running, Wanes
  <2> QED
    BY <1>1, <1>2, <2>1 DEF RInv, Answer, Results
<1>9. Scanned' /\ Free'
  BY <1>2 DEF Scanned, Free
<1> QED
  BY <1>6, <1>7, <1>8, <1>9 DEF RInv

(* Steps that touch no ledger.                                             *)
LEMMA QuietTidy ==
  ASSUME Inv, RInv, UNCHANGED <<mem, disk, running>>,
         pc' = pc \/ (pc' = At("idle") /\ Calm),
         result' = result \/ result' \in Results(mem.occs[running].plan)
  PROVE  RInv'
<1>1. At("idle").at = "idle"
  BY DEF At
<1>2. Tidy(mem)' /\ Tidy(disk)'
  BY TidyNext DEF RInv
<1>3. InFlight'
  BY <1>1 DEF RInv, InFlight, Interrupted, Calm
<1>4. Answer'
  BY DEF RInv, Answer, Results
<1>5. Scanned' /\ Free'
  BY <1>1 DEF RInv, Scanned, Free, Taken, Pending, OccsOf, Unresolved
<1> QED
  BY <1>2, <1>3, <1>4, <1>5 DEF RInv

(* Failures, collectors, the clock and the Runtime.                        *)
LEMMA WorldTidy ==
  ASSUME Inv, RInv, Crash \/ Collect \/ Clock \/ (\E o \in Occ : NativeFinish(o))
                    \/ SkipMigration \/ EndTick \/ UNCHANGED vars
  PROVE  RInv'
<1>1. CASE Crash
  <2>1. mem' = disk /\ disk' = disk /\ pc'.at = "down" /\ result' = "none"
    BY <1>1 DEF Crash, At
  <2>2. Tidy(mem)' /\ Tidy(disk)'
    BY <2>1, TidyNext DEF RInv
  <2> QED
    BY <2>1, <2>2 DEF RInv, InFlight, Answer, Scanned, Free
<1>2. CASE Collect \/ Clock \/ (\E o \in Occ : NativeFinish(o)) \/ UNCHANGED vars
  BY <1>2, QuietTidy DEF Collect, Clock, NativeFinish, vars
<1>3. CASE SkipMigration \/ EndTick
  BY <1>3, QuietTidy DEF SkipMigration, EndTick, Calm
<1> QED
  BY <1>1, <1>2, <1>3

(***************************************************************************)
(* The actions, one by one.                                                *)
(***************************************************************************)
IdleAt == At("idle").at \notin {"scan", "ingest"}
LEMMA AtIdle == IdleAt
BY DEF IdleAt, At

(* A tool's operation that closes receipts.                                *)
LEMMA OperationTidy ==
  ASSUME Inv, Inv', RInv, Idle, NEW t, Operation(t), Backed(t), Wanes(mem, t) PROVE RInv'
BY WanesTidy, AtIdle DEF Operation, Idle, Calm, IdleAt

(* Ledgers that only define something more.                                *)
LEMMA DefineTidy ==
  ASSUME Inv, Inv', RInv, Idle, NEW s \in Cleanups(mem) \cup {mem},
         NEW t, Operation(t), t.occs = s.occs, Backed(s) => Backed(t)
  PROVE  RInv'
<1>1. Sound(mem) /\ Backed(mem) /\ Orderly(mem)
  BY DEF Inv, Ledgers, RInv, Tidy
<1>2. Backed(s) /\ Wanes(mem, s)
  BY <1>1, CleanupsTidy, SameOccsWanes
<1> QED
  BY <1>2, WanesSame, OperationTidy

(* A new event; native ones come with their arrangements.                  *)
LEMMA RegisterTidy == ASSUME Inv, Inv', RInv, NEW v \in Event, Register(v) PROVE RInv'
<1>1. PICK s \in Cleanups(mem) : v \notin DOMAIN s.events
                                 /\ Operation([s EXCEPT !.events = With(@, v, "live")])
  BY DEF Register
<1> DEFINE t == [s EXCEPT !.events = With(@, v, "live")]
<1>2. DOMAIN s = Fields
  BY CleanupsAre DEF Inv, Ledgers, Sound
<1>3. /\ t.plans = s.plans /\ t.occs = s.occs /\ t.migrated = s.migrated
      /\ t.events = With(s.events, v, "live")
  BY <1>2 DEF Fields
<1>4. Operation(t) /\ Idle
  BY <1>1 DEF Register
<1> HIDE DEF t
<1>5. \A p \in Imported : EventOf[p] # v
  BY Identities DEF Register
<1>6. Backed(s) => Backed(t)
  BY <1>1, <1>3, <1>5 DEF Backed, With, Finished
<1> QED
  BY <1>3, <1>4, <1>6, DefineTidy

(* A new plan finds its event live.                                        *)
LEMMA AddPlanBacked ==
  ASSUME NEW s, Backed(s), NEW p \in Plan, p \notin DOMAIN s.plans, NEW n, NEW t,
         t.plans = With(s.plans, p, NewPlan(p, n)), t.migrated = s.migrated,
         DOMAIN s.events \subseteq DOMAIN t.events,
         \A v \in DOMAIN s.events : t.events[v] = s.events[v],
         EventOf[p] \in DOMAIN t.events, t.events[EventOf[p]] = "live",
         ~s.migrated => \A q \in Imported : EventOf[q] \notin DOMAIN t.events
  PROVE  Backed(t)
<1>1. /\ DOMAIN t.plans = DOMAIN s.plans \cup {p}
      /\ \A q \in DOMAIN s.plans : t.plans[q] = s.plans[q]
  BY DEF With
<1> QED
  BY <1>1 DEF Backed, Finished

(* A new arrangement of a live event.                                      *)
LEMMA SaveTidy == ASSUME Inv, Inv', RInv, NEW p \in Plan, Save(p) PROVE RInv'
<1> DEFINE n == IF Kind[p] = "completion" THEN now ELSE now + Seconds[p]
           t(s) == [s EXCEPT !.plans = With(@, p, NewPlan(p, n))]
<1>1. PICK s \in Cleanups(mem) : /\ Operation(t(s)) /\ p \notin DOMAIN s.plans
                                 /\ EventOf[p] \in DOMAIN s.events /\ s.events[EventOf[p]] = "live"
  BY DEF Save
<1>2. DOMAIN s = Fields
  BY CleanupsAre DEF Inv, Ledgers, Sound
<1> HIDE DEF n
<1>3. /\ t(s).events = s.events /\ t(s).occs = s.occs /\ t(s).migrated = s.migrated
      /\ t(s).plans = With(s.plans, p, NewPlan(p, n))
  BY <1>2 DEF Fields
<1> HIDE DEF t
<1>4. Backed(s) => Backed(t(s))
  <2> SUFFICES ASSUME Backed(s) PROVE Backed(t(s))
    OBVIOUS
  <2>1. ~s.migrated => \A q \in Imported : EventOf[q] \notin DOMAIN t(s).events
    BY <1>3 DEF Backed
  <2> QED
    BY <1>1, <1>3, <2>1, AddPlanBacked
<1> QED
  BY <1>1, <1>3, <1>4, DefineTidy DEF Save

(* No other plan, to be imported or not, has the event of a native one.    *)
LEMMA SaveNativeTidy == ASSUME Inv, Inv', RInv, NEW p \in Plan, SaveNative(p) PROVE RInv'
<1> DEFINE t == [mem EXCEPT !.plans = With(@, p, NewPlan(p, now)),
                            !.events = With(@, EventOf[p], "live")]
<1>1. /\ Operation(t) /\ p \notin DOMAIN mem.plans /\ p \notin Imported /\ Kind[p] = "native"
      /\ EventOf[p] \notin DOMAIN mem.events /\ Idle
  BY DEF SaveNative
<1>2. DOMAIN mem = Fields
  BY DEF Inv, Ledgers, Sound
<1>3. /\ t.occs = mem.occs /\ t.migrated = mem.migrated
      /\ t.plans = With(mem.plans, p, NewPlan(p, now)) /\ t.events = With(mem.events, EventOf[p], "live")
  BY <1>2 DEF Fields
<1> HIDE DEF t
<1>4. /\ DOMAIN t.events = DOMAIN mem.events \cup {EventOf[p]} /\ t.events[EventOf[p]] = "live"
      /\ \A v \in DOMAIN mem.events : t.events[v] = mem.events[v]
  BY <1>1, <1>3 DEF With
<1>5. \A q \in Imported : EventOf[q] # EventOf[p]
  BY <1>1, Identities, OwnEvents
<1>6. Backed(mem) => Backed(t)
  <2> SUFFICES ASSUME Backed(mem) PROVE Backed(t)
    OBVIOUS
  <2>1. ~mem.migrated => \A q \in Imported : EventOf[q] \notin DOMAIN t.events
    BY <1>4, <1>5 DEF Backed
  <2> QED
    BY <1>1, <1>3, <1>4, <2>1, AddPlanBacked
<1> QED
  BY <1>1, <1>3, <1>6, DefineTidy

(* An event without unfinished arrangements is archived.                   *)
LEMMA ArchiveEventTidy == ASSUME Inv, Inv', RInv, NEW v \in Event, ArchiveEvent(v) PROVE RInv'
<1> DEFINE st == IF mem.events[v] = "retired" THEN "retired" ELSE "archived"
           t == [mem EXCEPT !.events[v] = st]
<1>1. /\ Operation(t) /\ Idle /\ v \in DOMAIN mem.events
      /\ \A p \in DOMAIN mem.plans : EventOf[p] = v => Finished(mem, p)
  BY DEF ArchiveEvent, Holding
<1>2. DOMAIN mem = Fields
  BY DEF Inv, Ledgers, Sound
<1>3. /\ t.plans = mem.plans /\ t.occs = mem.occs /\ t.migrated = mem.migrated
      /\ t.events = [mem.events EXCEPT ![v] = st]
  BY <1>2 DEF Fields
<1> HIDE DEF t, st
<1>4. Backed(mem) => Backed(t)
  BY <1>1, <1>3 DEF Backed, Finished
<1> QED
  BY <1>1, <1>3, <1>4, DefineTidy

(* Another interruption policy.                                            *)
LEMMA ConfigurePolicyTidy == ASSUME Inv, Inv', RInv, NEW y \in Policies, ConfigurePolicy(y) PROVE RInv'
<1> DEFINE t == [mem EXCEPT !.policy = y]
<1>1. Operation(t) /\ Idle
  BY DEF ConfigurePolicy
<1>2. t.plans = mem.plans /\ t.occs = mem.occs /\ t.migrated = mem.migrated /\ t.events = mem.events
  BY DEF Inv, Ledgers, Sound, Fields
<1> HIDE DEF t
<1>3. Backed(mem) => Backed(t)
  BY <1>2 DEF Backed, Finished
<1> QED
  BY <1>1, <1>2, <1>3, DefineTidy

(* Removal cancels what is pending, and leaves the collection in flight.   *)
LEMMA RemoveTidy == ASSUME Inv, Inv', RInv, NEW p \in Plan, Remove(p) PROVE RInv'
<1> DEFINE f == [o \in DOMAIN mem.occs |->
                  IF mem.occs[o].plan = p /\ mem.occs[o].status = "pending" THEN "cancelled"
                  ELSE mem.occs[o].status]
           u == Restatus(mem, f)
           t == SetPlan(u, p, "cancelled")
<1>1. Operation(t) /\ p \in DOMAIN mem.plans /\ Idle
  BY DEF Remove
<1>2. Sound(mem) /\ Backed(mem) /\ Orderly(mem)
  BY DEF Inv, Ledgers, RInv, Tidy
<1>3. /\ f \in [DOMAIN mem.occs -> OccStatus]
      /\ \A o \in DOMAIN mem.occs :
           f[o] = mem.occs[o].status \/ (mem.occs[o].status = "pending" /\ f[o] = "cancelled")
  <2>1. \A o \in DOMAIN mem.occs : mem.occs[o].status \in OccStatus
    BY <1>2, SoundRecords DEF OccRec
  <2> QED
    BY <2>1 DEF OccStatus, DoneStatus
<1> HIDE DEF f
<1>4. /\ Sound(u) /\ u.plans = mem.plans /\ u.migrated = mem.migrated /\ u.events = mem.events
      /\ Wanes(mem, u)
  <2>1. \A o \in DOMAIN mem.occs :
          \/ f[o] = mem.occs[o].status
          \/ Unresolved(mem, o) /\ f[o] \notin {"collecting", "waiting"} /\ mem.occs[o].status # "unknown"
    BY <1>3 DEF Unresolved, OpenStatus
  <2>2. u.migrated = mem.migrated
    BY <1>2 DEF Restatus, Sound, Fields
  <2> QED
    BY <1>2, <1>3, <2>1, <2>2, RestatusIs, RestatusWanes
<1> HIDE DEF u
<1>5. OnlyPlan(u, t, p)
  <2>1. "cancelled" \in PlanStatus /\ "cancelled" \in DoneStatus /\ p \in DOMAIN u.plans
    BY <1>1, <1>4 DEF PlanStatus, DoneStatus
  <2> QED
    BY <1>4, <2>1, SetPlanIs
<1> HIDE DEF t
<1>6. Backed(t)
  <2>1. Finishes(mem, u)
    BY <1>4, SameFinishes
  <2>2. Finishes(u, t)
    BY <1>1, <1>4, <1>5, OnlyPlanFinishes
  <2> QED
    BY <1>2, <2>1, <2>2, FinishesOn, FinishesBacked
<1>7. Wanes(mem, t)
  BY <1>4, <1>5, WanesSame DEF OnlyPlan
<1> QED
  BY <1>1, <1>6, <1>7, OperationTidy

(* What a wake's outcome does to its receipt.                              *)
LEMMA OutcomeTidy ==
  ASSUME Inv, Inv', RInv, Calm, NEW o \in DOMAIN mem.occs,
         mem.occs[o].status \in {"pending", "dispatching"},
         NEW st \in OccStatus \ {"collecting", "waiting"},
         NEW t, NEW next, Commit(t, next), next.at \notin {"scan", "ingest"},
         t.occs = SetOcc(mem, o, st).occs, Finishes(SetOcc(mem, o, st), t)
  PROVE  RInv'
<1> DEFINE u == SetOcc(mem, o, st)
<1>1. Sound(mem) /\ Backed(mem) /\ Orderly(mem)
  BY DEF Inv, Ledgers, RInv, Tidy
<1>2. Unresolved(mem, o) /\ ~Original(mem, o)
  BY DEF Unresolved, OpenStatus, Original
<1>3. Wanes(mem, u)
  BY <1>1, <1>2, SetOccWanes
<1>4. Finishes(mem, u)
  BY <1>1, SetOccIs, SetOccFor, SameFinishes
<1> HIDE DEF u
<1>5. Wanes(mem, t) /\ Finishes(mem, t)
  BY <1>3, <1>4, WanesSame, FinishesOn DEF u
<1> QED
  BY <1>1, <1>5, FinishesBacked, WanesTidy

(* A wake expires or is cancelled.                                         *)
LEMMA SettleTidy ==
  ASSUME Inv, Inv', RInv, pc.at = "scan", NEW o \in DOMAIN mem.occs, mem.occs[o].status = "pending",
         NEW st \in {"expired", "cancelled"}, SettlePending(o, st)
  PROVE  RInv'
<1>1. st \in OccStatus \ {"collecting", "waiting"}
  BY DEF OccStatus, DoneStatus
<1> QED
  BY <1>1, OutcomeTidy, AtIdle, FinishesSelf DEF SettlePending, IdleAt, Calm

(* A changed last wake.                                                    *)
LEMMA AttemptedFinishes ==
  ASSUME NEW s, Sound(s), NEW p \in DOMAIN s.plans, NEW w \in Nat, NEW t,
         t.plans = [s.plans EXCEPT ![p].lastWake = w], t.events = s.events, t.migrated = s.migrated
  PROVE  Finishes(s, t)
<1>1. s.plans[p] \in PlanRec
  BY SoundRecords
<1>2. [s.plans[p] EXCEPT !.lastWake = w].status = s.plans[p].status
  BY <1>1 DEF PlanRec
<1>3. DOMAIN t.plans = DOMAIN s.plans /\ \A q \in DOMAIN s.plans : t.plans[q].status = s.plans[q].status
  BY <1>2
<1> QED
  BY <1>3 DEF Finishes, Finished

(* An attempt.                                                             *)
LEMMA DispatchTidy == ASSUME Inv, Inv', RInv, NEW o \in DOMAIN mem.occs, Dispatch(o) PROVE RInv'
<1> DEFINE p == mem.occs[o].plan
           u == SetOcc(mem, o, "dispatching")
           t == [u EXCEPT !.plans[p].lastWake = now, !.attempts = @ \cup {<<o, now>>}]
           next == [At("submit") EXCEPT !.occ = o, !.prev = mem.plans[p].lastWake]
<1>1. /\ Sound(mem) /\ mem.occs[o].status = "pending" /\ pc.at = "scan" /\ now \in Nat
      /\ p \in DOMAIN mem.plans /\ "dispatching" \in OccStatus \ {"collecting", "waiting"}
  BY SoundRecords, NowNat DEF Inv, Ledgers, Dispatch, First, Actionable, OccStatus, OpenStatus
<1>2. Commit(t, next) /\ next.at = "submit"
  BY DEF Dispatch, At
<1> HIDE DEF p, next
<1>3. Sound(u) /\ u.plans = mem.plans
  BY <1>1, SetOccIs
<1> HIDE DEF u
<1>4. /\ t.occs = u.occs /\ t.events = u.events /\ t.migrated = u.migrated
      /\ t.plans = [u.plans EXCEPT ![p].lastWake = now]
  BY <1>3 DEF Sound, Fields
<1> HIDE DEF t
<1>5. Finishes(u, t)
  BY <1>1, <1>3, <1>4, AttemptedFinishes
<1> QED
  BY <1>1, <1>2, <1>4, <1>5, OutcomeTidy DEF Calm, u

(* The Runtime's answer to it.                                             *)
LEMMA SubmittingTidy == ASSUME Inv, Inv', RInv, Submitting PROVE RInv'
<1> DEFINE o == pc.occ
<1>1. /\ pc.at = "submit" /\ Calm /\ Sound(mem)
      /\ o \in DOMAIN mem.occs /\ mem.occs[o].status = "dispatching"
  BY DEF Submitting, SubmitDeferred, SubmitAccepted, SubmitRejected, SubmitUnknown, Submit,
         Inv, Ledgers, Submits, Calm
<1>2. ASSUME NEW answer \in {"accepted", "failed", "unknown_wake"}, NEW fate, Submit(answer, fate)
      PROVE  RInv'
  <2>1. answer \in OccStatus \ {"collecting", "waiting"}
    BY DEF OccStatus, OpenStatus, DoneStatus
  <2>2. Commit(SetOcc(mem, o, answer), At("idle"))
    BY <1>2 DEF Submit
  <2> QED
    BY <1>1, <2>1, <2>2, OutcomeTidy, AtIdle, FinishesSelf DEF IdleAt
<1>3. CASE SubmitDeferred
  <2> DEFINE p == mem.occs[o].plan
             u == SetOcc(mem, o, "pending")
             t == [u EXCEPT !.plans[p].lastWake = pc.prev, !.attempts = @ \ {<<o, now>>}]
  <2>1. Commit(t, At("idle"))
    BY <1>3 DEF SubmitDeferred
  <2>2. "pending" \in OccStatus \ {"collecting", "waiting"} /\ p \in DOMAIN mem.plans /\ pc.prev \in Nat
    BY <1>1, SoundRecords DEF OccStatus, OpenStatus, Inv, TypeOK
  <2> HIDE DEF o, p
  <2>3. Sound(u) /\ u.plans = mem.plans
    BY <1>1, <2>2, SetOccIs
  <2> HIDE DEF u
  <2>4. /\ t.occs = u.occs /\ t.events = u.events /\ t.migrated = u.migrated
        /\ t.plans = [u.plans EXCEPT ![p].lastWake = pc.prev]
    BY <2>3 DEF Sound, Fields
  <2> HIDE DEF t
  <2>5. Finishes(u, t)
    BY <2>2, <2>3, <2>4, AttemptedFinishes
  <2> QED
    BY <1>1, <2>1, <2>2, <2>4, <2>5, OutcomeTidy, AtIdle DEF IdleAt, u
<1> QED
  BY <1>2, <1>3 DEF Submitting, SubmitAccepted, SubmitRejected, SubmitUnknown

(* The end of an ingestion.                                                *)
LEMMA IngestedTidy == ASSUME Inv, Inv', RInv, Ingested PROVE RInv'
<1>1. Calm
  BY DEF Ingested, Calm
<1>2. CASE Commit(mem, At("idle"))
  <2>1. Backed(mem) /\ Wanes(mem, mem)
    BY SameOccsWanes DEF RInv, Tidy
  <2> QED
    BY <1>1, <1>2, <2>1, WanesTidy, AtIdle DEF IdleAt
<1>3. CASE pc' = At("idle") /\ UNCHANGED <<mem, disk, running, result, crashes>>
  BY <1>1, <1>3, QuietTidy
<1> QED
  BY <1>2, <1>3 DEF Ingested

(* The collector starts.                                                   *)
LEMMA SpawnTidy == ASSUME Inv, RInv, Spawn PROVE RInv'
<1>1. /\ mem' = mem /\ disk' = disk /\ running' = pc.occ /\ result' = result /\ pc'.at = "idle"
      /\ running = 0 /\ result = "none" /\ pc.at = "spawn" /\ Sound(mem)
  BY DEF Spawn, At, Inv, Spawning, Running, Ledgers
<1>2. Tidy(mem)' /\ Tidy(disk)'
  BY <1>1, TidyNext DEF RInv
<1>3. InFlight'
  <2>1. 0 \notin Interrupted(mem)
    BY <1>1, SoundRecords DEF Interrupted, Occ
  <2> QED
    BY <1>1, <2>1 DEF RInv, InFlight, Interrupted
<1> QED
  BY <1>1, <1>2, <1>3 DEF RInv, Answer, Scanned, Free

(* Nothing of the arrangement is open, and a one-shot one has collected    *)
(* nothing, since the clean-up before the scan would have finished it.     *)
LEMMA StartCollectionTidy ==
  ASSUME Inv, Inv', RInv, NEW p \in DOMAIN mem.plans, StartCollection(p) PROVE RInv'
<1> DEFINE u == AddOcc(mem, "collecting", p, 0, now + WakeLife)
           n == IF Kind[p] = "after" THEN u.plans[p].next ELSE now + Seconds[p]
           t == [u EXCEPT !.plans[p].next = n]
           next == [At("spawn") EXCEPT !.occ = mem.last + 1]
<1>1. /\ Commit(t, next) /\ running = 0 /\ mem.plans[p].status = "active" /\ ~Pending(mem, p)
      /\ pc.at = "scan" /\ mem.last + 2 <= MaxOcc
  BY DEF StartCollection, Earliest, DuePlans, Due
<1>2. /\ Sound(mem) /\ Tidy(mem) /\ now + WakeLife \in Nat /\ result = "none" /\ mem.last \in Nat
      /\ p \in Plan /\ mem.plans[p].next \in Nat /\ now \in Nat
  BY <1>1, NowNat, Timing, RunningIs, SoundRecords DEF Inv, Ledgers, RInv, Sound, LedgerOK, PlanRec
<1>3. Kind[p] = "after" => OccsOf(mem, p) = {}
  BY <1>1 DEF RInv, Scanned, Taken
<1>4. /\ Orderly(u) /\ Interrupted(u) = Interrupted(mem) \cup {u.last}
      /\ u.events = mem.events /\ u.migrated = mem.migrated /\ u.plans = mem.plans
  BY <1>1, <1>2, <1>3, CollectOrderly DEF Tidy
<1>5. u.last = mem.last + 1 /\ Sound(u)
  <2>1. "collecting" \in OccStatus /\ 0 \in 0..MaxOcc /\ mem.last < MaxOcc
    BY <1>1, <1>2, Timing DEF OccStatus, OpenStatus
  <2> QED
    BY <1>2, <2>1, AddOccIs
<1>6. next.at = "spawn" /\ next.occ = mem.last + 1
  BY DEF At
<1> HIDE DEF u, next
<1>7. n \in Nat
  BY <1>2, <1>4, Timing
<1> HIDE DEF n
<1>8. /\ t.occs = u.occs /\ t.events = u.events /\ t.migrated = u.migrated
      /\ DOMAIN t.plans = DOMAIN u.plans /\ \A q \in DOMAIN u.plans : t.plans[q].status = u.plans[q].status
  <2> DEFINE r == [u.plans[p] EXCEPT !.next = n]
  <2>1. /\ t.occs = u.occs /\ t.events = u.events /\ t.migrated = u.migrated
        /\ t.plans = [u.plans EXCEPT ![p] = r]
    BY <1>5 DEF Sound, Fields
  <2>2. r.status = u.plans[p].status
    BY <1>4, <1>5, SoundRecords DEF PlanRec
  <2> HIDE DEF t, r
  <2> QED
    BY <1>4, <2>1, <2>2
<1> HIDE DEF t
<1>9. Tidy(t)
  <2>1. Finishes(mem, t)
    BY <1>4, <1>8 DEF Finishes, Finished
  <2>2. Orderly(t) /\ Interrupted(t) = Interrupted(mem) \cup {u.last}
    BY <1>4, <1>8, SameOccsOrderly
  <2>3. Interrupted(mem) = {}
    BY <1>1, <1>2, SoundRecords DEF RInv, InFlight, Interrupted, Occ
  <2> QED
    BY <1>2, <2>1, <2>2, <2>3, FinishesBacked DEF Tidy, OneFlight
<1>10. Known(t, next, running)
  <2>1. Interrupted(t) = Interrupted(mem) \cup {u.last}
    BY <1>4, <1>8, SameOccsOrderly
  <2> QED
    BY <1>1, <1>5, <1>6, <2>1 DEF RInv, InFlight, Known
<1> QED
  BY <1>1, <1>2, <1>6, <1>9, <1>10, CommitTidy

(* The second part of a tick.                                              *)
LEMMA ScanningTidy == ASSUME Inv, Inv', RInv, Scanning PROVE RInv'
<1>1. ASSUME NEW o \in DOMAIN mem.occs, Expire(o) \/ CancelMoot(o) PROVE RInv'
  <2>1. mem.occs[o].status = "pending" /\ pc.at = "scan"
    BY <1>1 DEF Expire, CancelMoot, First, Actionable
  <2> QED
    BY <1>1, <2>1, SettleTidy DEF Expire, CancelMoot
<1> QED
  BY <1>1, DispatchTidy, StartCollectionTidy, WorldTidy DEF Scanning

(* An ingestion goes to native plans that have nothing open.               *)
LEMMA ReceiveNativeTidy ==
  ASSUME Inv, Inv', RInv, NEW t \in 1..MaxTime, ReceiveNative(t) PROVE RInv'
<1> DEFINE s == [mem EXCEPT !.watermark = t]
<1>1. s.plans = mem.plans /\ s.occs = mem.occs /\ s.events = mem.events /\ s.migrated = mem.migrated
  BY DEF Inv, Ledgers, Sound, Fields
<1>2. /\ mem' = s /\ disk' = disk /\ running' = running /\ result' = result /\ Calm
      /\ pc'.at = "ingest" /\ pc'.todo = {p \in DOMAIN mem.plans : Receptive(p)}
  BY DEF ReceiveNative, Idle, At, Calm
<1> HIDE DEF s
<1>3. Tidy(s) /\ Interrupted(s) = Interrupted(mem)
  BY <1>1, SameOccsOrderly, SameFinishes, FinishesBacked DEF RInv, Tidy, OneFlight
<1>4. Tidy(mem)' /\ Tidy(disk)'
  BY <1>2, <1>3, TidyNext DEF RInv
<1>5. InFlight'
  BY <1>1, <1>2 DEF RInv, InFlight, Interrupted, Calm
<1>6. Answer'
  BY <1>1, <1>2 DEF RInv, Answer, Results
<1>7. Free'
  BY <1>1, <1>2 DEF Free, Receptive, Pending, OccsOf, Unresolved
<1> QED
  BY <1>2, <1>4, <1>5, <1>6, <1>7 DEF RInv, Scanned

(* A native collection and its answer in one step.                         *)
LEMMA ObserveTidy ==
  ASSUME Inv, Inv', RInv, NEW p \in pc.todo, NEW r \in Results(p), Observe(p, r) PROVE RInv'
<1> DEFINE s == AddOcc(mem, "collecting", p, 0, now + Pendency[p])
           n == s.last
           t == FinishCollection(s, n, r)
<1>1. /\ mem' = t /\ mem.last < MaxOcc /\ pc.at = "ingest" /\ disk' = disk
      /\ running' = running /\ result' = result
      /\ pc'.at = "ingest" /\ pc'.todo = pc.todo \ {p}
  <2>1. pc' = [pc EXCEPT !.todo = @ \ {p}] /\ pc \in PCState
    BY DEF Observe, Inv, TypeOK, PCState
  <2>2. pc'.at = pc.at /\ pc'.todo = pc.todo \ {p}
    BY <2>1 DEF PCState
  <2> QED
    BY <2>2 DEF Observe
<1>2. /\ Sound(mem) /\ Tidy(mem) /\ Tidy(disk) /\ p \in DOMAIN mem.plans /\ p \in Plan
      /\ now + Pendency[p] \in Nat /\ Kind[p] = "native" /\ ~Pending(mem, p)
  <2>1. Sound(mem) /\ p \in DOMAIN mem.plans
    BY <1>1 DEF Inv, Ledgers, Ingests
  <2>2. p \in Plan
    BY <2>1, SoundRecords
  <2> QED
    BY <1>1, <2>1, <2>2, NowNat, Timing DEF RInv, Free
<1>3. /\ Orderly(s) /\ Interrupted(s) = Interrupted(mem) \cup {n}
      /\ s.events = mem.events /\ s.migrated = mem.migrated /\ s.plans = mem.plans
      /\ n \notin DOMAIN mem.occs /\ n \in DOMAIN s.occs /\ DOMAIN s.occs = DOMAIN mem.occs \cup {n}
      /\ s.occs[n].status = "collecting" /\ s.occs[n].plan = p
      /\ \A x \in DOMAIN mem.occs : s.occs[x] = mem.occs[x]
  BY <1>2, CollectOrderly DEF Tidy
<1>4. Sound(s)
  <2>1. "collecting" \in OccStatus /\ 0 \in 0..MaxOcc
    BY Timing DEF OccStatus, OpenStatus
  <2> QED
    BY <1>1, <1>2, <2>1, AddOccIs
<1> HIDE DEF s, n
<1>5. Answered(s, t, n)
  BY <1>3, <1>4, AnswerOrderly
<1> HIDE DEF t
<1>6. Interrupted(t) \subseteq Interrupted(mem)
  BY <1>3, <1>5 DEF Answered
<1>7. Tidy(t)
  <2>1. Backed(t)
    BY <1>2, <1>3, <1>5, SameFinishes, FinishesOn, FinishesBacked DEF Answered, Tidy
  <2> QED
    BY <1>2, <1>5, <1>6, <2>1 DEF Tidy, OneFlight, Answered
<1>8. Tidy(mem)' /\ Tidy(disk)'
  BY <1>1, <1>2, <1>7, TidyNext
<1>9. InFlight'
  <2>1. \A o \in Interrupted(t) : o = running
    BY <1>1, <1>6 DEF RInv, InFlight
  <2> QED
    BY <1>1, <2>1 DEF InFlight, Interrupted
<1>10. Answer'
  <2>1. result # "none" => t.occs[running].plan = mem.occs[running].plan
    BY <1>3, <1>5, RunningIs DEF Answered
  <2> QED
    BY <1>1, <2>1 DEF RInv, Answer, Results
<1>11. Free'
  <2>1. ASSUME NEW q \in pc.todo \ {p}, Pending(t, q) PROVE FALSE
    <3>1. Pending(s, q)
      BY <1>3, <1>5, <2>1 DEF Answered
    <3>2. Pending(mem, q)
      BY <1>3, <2>1, <3>1 DEF Pending, OccsOf, Unresolved
    <3> QED
      BY <1>1, <2>1, <3>2 DEF RInv, Free
  <2> QED
    BY <1>1, <2>1 DEF RInv, Free, Pending, OccsOf, Unresolved
<1> QED
  BY <1>1, <1>8, <1>9, <1>10, <1>11 DEF RInv, Scanned

(* An ingestion.                                                           *)
LEMMA IngestingTidy == ASSUME Inv, Inv', RInv, Ingesting PROVE RInv'
BY ObserveTidy, IngestedTidy DEF Ingesting

(* Fencing leaves nothing in flight, and what was in flight is unknown.    *)
LEMMA FencedTidy ==
  ASSUME NEW s, Sound(s), Orderly(s)
  PROVE  LET t == Fenced(s)
         IN  /\ Wanes(s, t) /\ Finishes(s, t) /\ Interrupted(t) = {} /\ DOMAIN t.occs = DOMAIN s.occs
             /\ \A o \in Interrupted(s) : t.occs[o].status = "unknown"
<1> DEFINE f == [o \in DOMAIN s.occs |-> CASE s.occs[o].status = "collecting"  -> "unknown"
                                           [] s.occs[o].status = "dispatching" -> "unknown_wake"
                                           [] OTHER -> s.occs[o].status]
           t == Restatus(s, f)
<1>1. Fenced(s) = t
  BY DEF Fenced
<1>2. \A o \in DOMAIN s.occs : s.occs[o].status \in OccStatus
  BY SoundRecords DEF OccRec
<1>3. /\ f \in [DOMAIN s.occs -> OccStatus]
      /\ \A o \in DOMAIN s.occs :
           /\ f[o] # "collecting" /\ (s.occs[o].status = "collecting" => f[o] = "unknown")
           /\ \/ f[o] = s.occs[o].status
              \/ /\ s.occs[o].status \in {"collecting", "dispatching"} /\ f[o] # "waiting"
  BY <1>2 DEF OccStatus, OpenStatus
<1> HIDE DEF f
<1>4. Wanes(s, t) /\ t.events = s.events
  <2>1. \A o \in DOMAIN s.occs :
          \/ f[o] = s.occs[o].status
          \/ Unresolved(s, o) /\ f[o] \notin {"collecting", "waiting"} /\ s.occs[o].status # "unknown"
    BY <1>3 DEF Unresolved, OpenStatus
  <2> QED
    BY <1>3, <2>1, RestatusWanes
<1>5. /\ t.plans = s.plans /\ DOMAIN t.occs = DOMAIN s.occs
      /\ \A o \in DOMAIN s.occs : t.occs[o].status = f[o]
  BY <1>3, RestatusIs
<1>6. t.migrated = s.migrated
  BY DEF Restatus, Sound, Fields
<1> HIDE DEF t
<1>7. Finishes(s, t)
  BY <1>4, <1>5, <1>6, SameFinishes
<1> QED
  BY <1>1, <1>3, <1>4, <1>5, <1>7 DEF Interrupted

(* Open: nothing is in flight any more.                                    *)
LEMMA OpeningTidy == ASSUME Inv, Inv', RInv, Opening PROVE RInv'
<1>1. ASSUME NEW s, Sound(s), Backed(s), Orderly(s), Interrupted(s) = {}, pc.at = "down", OpenWith(s)
      PROVE  RInv'
  <2>1. PICK c \in Cleanups(s) : Commit(c, At("migrate"))
    BY <1>1 DEF OpenWith
  <2>2. Backed(c) /\ Wanes(s, c)
    BY <1>1, CleanupsTidy
  <2>3. Orderly(c) /\ Interrupted(c) = {}
    BY <1>1, <2>2, WanesOrderly
  <2>4. Tidy(c) /\ Known(c, At("migrate"), running)
    BY <2>2, <2>3 DEF Tidy, OneFlight, Known
  <2>5. result = "none" /\ At("migrate").at = "migrate"
    BY <1>1, RunningIs DEF Inv, Running, At
  <2> QED
    BY <2>1, <2>4, <2>5, CommitTidy
<1>2. Sound(disk) /\ Backed(disk) /\ Orderly(disk)
  BY DEF Inv, Ledgers, RInv, Tidy
<1> DEFINE u == Fenced(disk)
<1>3. /\ Sound(u) /\ Backed(u) /\ Orderly(u) /\ Interrupted(u) = {} /\ Wanes(disk, u)
      /\ DOMAIN u.occs = DOMAIN disk.occs /\ u.plans = disk.plans /\ u.last = disk.last
      /\ \A o \in Interrupted(disk) : u.occs[o].status = "unknown"
  BY <1>2, FencedIs, FencedTidy, FinishesBacked, WanesOrderly
<1>4. CASE OpenQuiet
  <2>1. OpenWith(u) /\ pc.at = "down"
    BY <1>4 DEF OpenQuiet
  <2> HIDE DEF u
  <2> QED
    BY <1>1, <1>3, <2>1
<1>5. ASSUME NEW o \in InterruptedLive, OpenInterrupted(o) PROVE RInv'
  <2> DEFINE p == disk.occs[o].plan
             w == SetPlan(u, p, "suspended")
             s == Attention(w, o)
  <2>1. /\ OpenWith(s) /\ pc.at = "down" /\ disk.last < MaxOcc
        /\ o \in DOMAIN disk.occs /\ disk.occs[o].status = "collecting" /\ ~Finished(disk, p)
    BY <1>5 DEF OpenInterrupted, InterruptedLive, Interrupted
  <2>2. p \in DOMAIN u.plans /\ ~Finished(u, p) /\ "suspended" \in PlanStatus
    BY <1>2, <1>3, <2>1, SoundRecords DEF Finished, PlanStatus
  <2> HIDE DEF u, p
  <2>3. OnlyPlan(u, w, p) /\ Sound(w)
    BY <1>3, <2>2, SetPlanIs
  <2> HIDE DEF w
  <2>4. w.occs = u.occs /\ w.last = disk.last
    BY <1>3, <2>3 DEF OnlyPlan
  <2>5. Backed(w) /\ Orderly(w) /\ Interrupted(w) = {}
    BY <1>3, <2>2, <2>3, <2>4, OnlyPlanFinishes, FinishesBacked, SameOccsOrderly
  <2>6. Lone(w, o) /\ Original(w, o) /\ o \in DOMAIN w.occs
    <3>1. Lone(disk, o)
      BY <1>2, <2>1, CollectingLone
    <3>2. Lone(u, o)
      BY <1>3, <2>1, <3>1 DEF Lone, Wanes, SamePlan
    <3> QED
      BY <1>3, <2>1, <2>4, <3>2 DEF Lone, SamePlan, Unresolved, Original, Interrupted
  <2>7. Sound(s)
    BY <2>1, <2>3, <2>4, <2>6, AttentionIs, NowNat
  <2>8. Orderly(s) /\ Interrupted(s) = {} /\ Finishes(w, s)
    BY <2>3, <2>5, <2>6, AttentionOrderly, SameFinishes
  <2> HIDE DEF s
  <2> QED
    BY <1>1, <2>1, <2>5, <2>7, <2>8, FinishesBacked
<1> QED
  BY <1>4, <1>5 DEF Opening

(* The migration adds plans and events that were not there, and one        *)
(* activation to each at most.                                             *)
LEMMA MigrateTidy == ASSUME Inv, Inv', RInv, Migrate PROVE RInv'
<1> DEFINE P == [p \in DOMAIN mem.plans \cup Imported |->
                  IF p \in Imported THEN ImportedPlan(p) ELSE mem.plans[p]]
           E == [v \in DOMAIN mem.events \cup {EventOf[p] : p \in Imported} |->
                  IF v \in DOMAIN mem.events THEN mem.events[v] ELSE "live"]
           O == [o \in DOMAIN mem.occs \cup {ImportOcc[p] : p \in Kept} |->
                  IF o \in DOMAIN mem.occs THEN mem.occs[o]
                  ELSE ImportedOcc(CHOOSE p \in Kept : ImportOcc[p] = o)]
           t == [mem EXCEPT !.migrated = TRUE, !.plans = P, !.events = E, !.occs = O]
<1>1. /\ Sound(mem) /\ Tidy(mem) /\ ~mem.migrated /\ Calm /\ Commit(t, At("idle"))
      /\ DOMAIN mem.plans \cap Imported = {}
  BY DEF Migrate, Inv, Ledgers, Sound, RInv, Calm
<1>2. t.migrated = TRUE /\ t.plans = P /\ t.events = E /\ t.occs = O
  BY <1>1 DEF Sound, Fields
<1>3. /\ DOMAIN P = DOMAIN mem.plans \cup Imported
      /\ \A p \in DOMAIN mem.plans : P[p] = mem.plans[p]
  BY <1>1
<1>4. /\ DOMAIN E = DOMAIN mem.events \cup {EventOf[p] : p \in Imported}
      /\ \A v \in DOMAIN mem.events : E[v] = mem.events[v]
      /\ \A p \in Imported : E[EventOf[p]] = "live"
  BY <1>1 DEF Tidy, Backed
<1>5. \A o \in DOMAIN O \ DOMAIN mem.occs :
        /\ O[o].plan \in Imported /\ ImportOcc[O[o].plan] = o
        /\ O[o].for = 0 /\ O[o].status \in OccStatus \ {"collecting", "waiting"}
  <2> TAKE o \in DOMAIN O \ DOMAIN mem.occs
  <2> DEFINE p == CHOOSE p \in Kept : ImportOcc[p] = o
  <2>1. p \in Kept /\ ImportOcc[p] = o /\ O[o] = ImportedOcc(p)
    OBVIOUS
  <2> HIDE DEF p, O
  <2>2. p \in Imported /\ Legacy[p].saved \in {"pending", "unknown_wake", "accepted"}
    BY <2>1, Identities DEF Kept
  <2>3. /\ ImportedOcc(p).plan = p /\ ImportedOcc(p).for = 0
        /\ ImportedOcc(p).status \in {Legacy[p].saved, "cancelled"}
    BY <2>2 DEF ImportedOcc
  <2> QED
    BY <2>1, <2>2, <2>3 DEF OccStatus, OpenStatus, DoneStatus
<1>6. \A o \in DOMAIN mem.occs : o \in DOMAIN O /\ O[o] = mem.occs[o]
  OBVIOUS
<1> HIDE DEF P, E, O, t
<1>7. \A o \in DOMAIN mem.occs : t.occs[o].plan \notin Imported /\ t.occs[o] = mem.occs[o]
  BY <1>1, <1>2, <1>6 DEF Sound
<1>8. Backed(t)
  BY <1>1, <1>2, <1>3, <1>4 DEF Tidy, Backed, Finished
<1>9. \A x \in DOMAIN t.occs \ DOMAIN mem.occs : \A y \in DOMAIN t.occs :
        SamePlan(t, x, y) \/ SamePlan(t, y, x) => x = y
  BY <1>2, <1>5, <1>7 DEF SamePlan
<1>10. \A x, y \in DOMAIN mem.occs :
         /\ SamePlan(t, x, y) = SamePlan(mem, x, y) /\ Unresolved(t, x) = Unresolved(mem, x)
         /\ Original(t, x) = Original(mem, x)
  BY <1>7 DEF SamePlan, Unresolved, Original
<1>11. Originals(t)
  BY <1>1, <1>2, <1>5, <1>6, <1>10 DEF Tidy, Orderly, Originals
<1>12. OneEach(t)
  <2>1. \A x, y \in DOMAIN t.occs : SamePlan(t, x, y) =>
          x = y \/ (x \in DOMAIN mem.occs /\ y \in DOMAIN mem.occs /\ SamePlan(mem, x, y))
    BY <1>9, <1>10
  <2>2. \A x \in DOMAIN t.occs : t.occs[x].status = "collecting" => x \in DOMAIN mem.occs
    BY <1>2, <1>5
  <2> QED
    BY <1>1, <1>7, <1>10, <2>1, <2>2 DEF Tidy, Orderly, OneEach
<1>13. Shots(t)
  <2>1. \A x, y \in DOMAIN t.occs : SamePlan(t, x, y) =>
          x = y \/ (x \in DOMAIN mem.occs /\ y \in DOMAIN mem.occs /\ SamePlan(mem, x, y))
    BY <1>9, <1>10
  <2>2. \A x \in DOMAIN t.occs : t.occs[x].status = "waiting" => x \in DOMAIN mem.occs
    BY <1>2, <1>5
  <2> QED
    BY <1>1, <1>7, <2>1, <2>2 DEF Tidy, Orderly, Shots
<1>14. Interrupted(t) \subseteq Interrupted(mem)
  BY <1>2, <1>5, <1>7 DEF Interrupted
<1>15. Tidy(t) /\ Known(t, At("idle"), running)
  BY <1>1, <1>8, <1>11, <1>12, <1>13, <1>14, CalmFlight DEF Tidy, Orderly
<1>16. result # "none" => t.occs[running].plan = mem.occs[running].plan
  BY <1>7, RunningIs
<1> QED
  BY <1>1, <1>15, <1>16, CommitTidy, AtIdle DEF IdleAt

(* The first part of a tick.                                               *)
LEMMA TickBeginTidy == ASSUME Inv, Inv', RInv, TickBegin PROVE RInv'
<1> DEFINE d == Drained
<1>1. PICK seen \in SUBSET Readable(d) : \E c \in Cleanups(Reconciled(d, seen)) : Retire(c)
  BY DEF TickBegin
<1> DEFINE r == Reconciled(d, seen)
<1>2. PICK c \in Cleanups(r) : Retire(c)
  BY <1>1
<1>3. /\ Sound(mem) /\ Tidy(mem) /\ Calm /\ pc.at = "idle"
      /\ Sound(d)
  BY DrainedIs DEF TickBegin, Idle, Inv, Ledgers, RInv, Calm
<1>4. /\ Orderly(d) /\ Finishes(mem, d)
      /\ Interrupted(d) \subseteq Interrupted(mem) \ (IF result = "none" THEN {} ELSE {running})
      /\ \A o \in DOMAIN mem.occs : o \in DOMAIN d.occs /\ d.occs[o].plan = mem.occs[o].plan
  <2>1. CASE result = "none"
    BY <1>3, <2>1, FinishesSelf DEF Drained, Tidy
  <2>2. CASE result # "none"
    <3>1. running \in DOMAIN mem.occs /\ mem.occs[running].status = "collecting"
          /\ result \in Results(mem.occs[running].plan)
      BY <2>2, RunningIs DEF RInv, Answer
    <3>2. Answered(mem, FinishCollection(mem, running, result), running)
      BY <1>3, <3>1, AnswerOrderly DEF Tidy
    <3> QED
      BY <2>2, <3>2 DEF Drained, Answered
  <2> QED
    BY <2>1, <2>2
<1> HIDE DEF d
<1>5. Sound(r) /\ Wanes(d, r) /\ Finishes(d, r)
  <2> DEFINE f == [o \in DOMAIN d.occs |->
                    IF o \in seen THEN Receipt(o, d.occs[o].status) ELSE d.occs[o].status]
  <2>1. r = Restatus(d, f)
    BY DEF Reconciled
  <2>2. \A o : \A st \in OccStatus :
          /\ Receipt(o, st) \in OccStatus
          /\ \/ Receipt(o, st) = st
             \/ /\ st \in {"unknown_wake", "accepted"}
                /\ Receipt(o, st) \in {"accepted", "failed", "completed"}
    BY DEF Receipt, OccStatus, OpenStatus, DoneStatus
  <2>3. \A o \in DOMAIN d.occs : d.occs[o].status \in OccStatus
    BY <1>3, SoundRecords DEF OccRec
  <2>4. /\ f \in [DOMAIN d.occs -> OccStatus]
        /\ \A o \in DOMAIN d.occs :
             \/ f[o] = d.occs[o].status
             \/ Unresolved(d, o) /\ f[o] \notin {"collecting", "waiting"} /\ d.occs[o].status # "unknown"
    BY <2>2, <2>3 DEF Unresolved, OpenStatus
  <2> HIDE DEF f
  <2>5. Restatus(d, f).migrated = d.migrated
    BY <1>3 DEF Restatus, Sound, Fields
  <2>6. Wanes(d, r) /\ r.events = d.events /\ r.plans = d.plans
    BY <1>3, <1>4, <2>1, <2>4, RestatusWanes, RestatusIs
  <2> QED
    BY <1>3, <2>1, <2>5, <2>6, ReconciledIs, SameFinishes
<1> HIDE DEF r
<1>6. Backed(r) /\ Orderly(r) /\ Interrupted(r) \subseteq Interrupted(d)
  BY <1>3, <1>4, <1>5, FinishesOn, FinishesBacked, WanesOrderly DEF Tidy
<1>7. Sound(c) /\ Backed(c) /\ Wanes(r, c) /\ \A p \in DOMAIN c.plans : Taken(c, p)
  BY <1>2, <1>5, <1>6, CleanupsAre, CleanupsTidy
<1>8. PICK t : Written(t) /\ Backed(t) /\ t.occs = c.occs /\ \A p \in DOMAIN t.plans : Taken(t, p)
  BY <1>2, <1>7, RetireTidy
<1>9. Orderly(t) /\ Interrupted(t) \subseteq Interrupted(d) /\ Wanes(d, t)
  <2>1. Orderly(c) /\ Interrupted(c) \subseteq Interrupted(r)
    BY <1>6, <1>7, WanesOrderly
  <2>2. Wanes(d, t)
    BY <1>5, <1>7, <1>8, WanesOn, WanesSame
  <2> QED
    BY <1>6, <1>8, <2>1, <2>2, SameOccsOrderly
<1>10. Tidy(t)
  BY <1>3, <1>4, <1>8, <1>9 DEF Tidy, OneFlight
<1>11. At("scan").at = "scan"
  BY DEF At
<1>12. CASE t = mem /\ mem' = mem /\ pc' = At("scan") /\ UNCHANGED <<disk, crashes, running, result>>
  <2>1. Tidy(mem)' /\ Tidy(disk)'
    BY <1>12, TidyNext DEF RInv
  <2>2. InFlight'
    BY <1>3, <1>11, <1>12 DEF RInv, InFlight, Interrupted
  <2>3. Answer'
    BY <1>12 DEF RInv, Answer, Results
  <2>4. Scanned' /\ Free'
    BY <1>8, <1>11, <1>12 DEF Scanned, Free, Taken, Pending, OccsOf, Unresolved
  <2> QED
    BY <2>1, <2>2, <2>3, <2>4 DEF RInv
<1>13. CASE /\ Saved(t, At("scan"))
            /\ running' = (IF result = "none" THEN running ELSE 0) /\ result' = "none"
  <2>1. Known(t, At("scan"), running')
    BY <1>3, <1>4, <1>9, <1>13 DEF RInv, InFlight, Known
  <2> QED
    BY <1>8, <1>10, <1>11, <1>13, <2>1, WriteTidy
<1>14. CASE Frozen(t)
  BY <1>8, <1>10, <1>11, <1>14, WriteTidy
<1> QED
  BY <1>8, <1>12, <1>13, <1>14 DEF Written

(* In the empty ledger there is nothing to refer to.                       *)
LEMMA InitTidy == Init => RInv
<1> SUFFICES ASSUME Init PROVE RInv
  OBVIOUS
<1>1. /\ EmptyLedger.plans = <<>> /\ EmptyLedger.events = <<>> /\ EmptyLedger.occs = <<>>
      /\ DOMAIN <<>> = {}
  BY DEF EmptyLedger
<1>2. Tidy(EmptyLedger)
  <2>1. Interrupted(EmptyLedger) = {}
    BY <1>1 DEF Interrupted
  <2> QED
    BY <1>1, <2>1 DEF Tidy, Backed, Orderly, Originals, OneEach, Shots, OneFlight
<1>3. mem = EmptyLedger /\ disk = EmptyLedger /\ pc.at = "down" /\ result = "none"
  BY DEF Init, At
<1> QED
  BY <1>2, <1>3 DEF RInv, InFlight, Answer, Scanned, Free

(* Every step.                                                             *)
LEMMA NextTidy == ASSUME Inv, Inv', RInv, [Next]_vars PROVE RInv'
<1>1. CASE Engine
  BY <1>1, MigrateTidy, WorldTidy, TickBeginTidy, ScanningTidy, SubmittingTidy, SpawnTidy,
     IngestingTidy DEF Engine, Starting
<1>2. CASE Environment
  BY <1>2, OpeningTidy, WorldTidy, UnsavedTidy, RegisterTidy, ArchiveEventTidy, SaveTidy,
     SaveNativeTidy, RemoveTidy, ConfigurePolicyTidy, ReceiveNativeTidy DEF Environment
<1>3. CASE UNCHANGED vars
  BY <1>3, WorldTidy
<1> QED
  BY <1>1, <1>2, <1>3 DEF Next

(***************************************************************************)
(* The theorems.                                                           *)
(***************************************************************************)
(* Ledgers in memory and on disk are tidy, in every state.                 *)
THEOREM AlwaysTidy == Spec => [](Inv /\ RInv)
<1>1. Inv /\ RInv /\ [Next]_vars => Inv' /\ RInv'
  BY NextGood, NextTidy DEF Good
<1> QED
  BY <1>1, InitGood, InitTidy, PTL DEF Spec

(* A set whose members are the same has at most one.                       *)
LEMMA AtMostOne == ASSUME NEW S, \A x, y \in S : x = y PROVE Cardinality(S) <= 1
<1>1. CASE S = {}
  BY <1>1, FS_EmptySet
<1>2. CASE S # {}
  <2>1. PICK x \in S : S = {x}
    BY <1>2
  <2> QED
    BY <2>1, FS_Singleton
<1> QED
  BY <1>1, <1>2

(* Open (validate, and Engine.Open's recovery) finds every file the engine *)
(* may have left consistent, torn operations included: collectors,         *)
(* arrangements and originals are there, and one collection at most was in *)
(* flight.                                                                 *)
THEOREM OpensAgain == Spec => []Reopenable
<1>1. Inv /\ RInv => Reopenable
  <2> SUFFICES ASSUME Inv, RInv PROVE Reopenable
    OBVIOUS
  <2>1. Sound(disk) /\ Backed(disk) /\ Orderly(disk) /\ OneFlight(disk)
    BY DEF Inv, Ledgers, RInv, Tidy
  <2>2. Valid(disk)
    BY <2>1, SoundRecords DEF Backed, PlanRec, Valid
  <2>3. Cardinality(Interrupted(disk)) <= 1
    BY <2>1, AtMostOne DEF OneFlight
  <2> QED
    BY <2>1, <2>2, <2>3 DEF Backed, Orderly, Originals, Reopenable
<1> QED
  BY <1>1, AlwaysTidy, PTL

(* An "after" arrangement gets one occurrence (nextDueLocked), whatever    *)
(* becomes of it: the clean-up before every scan finishes an arrangement   *)
(* whose occurrence has settled.                                           *)
THEOREM CollectsOnce == Spec => []OneShotOnce
<1>1. RInv => OneShotOnce
  <2> SUFFICES ASSUME RInv, NEW p \in DOMAIN mem.plans, Kind[p] = "after"
               PROVE  Cardinality({o \in OccsOf(mem, p) : mem.occs[o].for = 0}) <= 1
    BY DEF OneShotOnce
  <2>1. Shots(mem)
    BY DEF RInv, Tidy, Orderly
  <2>2. \A x, y \in {o \in OccsOf(mem, p) : mem.occs[o].for = 0} : x = y
    BY <2>1 DEF Shots, OccsOf, SamePlan
  <2> QED
    BY <2>2, AtMostOne
<1> QED
  BY <1>1, AlwaysTidy, PTL

(* planPending keeps collections of an arrangement apart, and a            *)
(* maintenance wake is queued once for its original, also when the failure *)
(* is found after a restart.                                               *)
THEOREM OneReceipt == Spec => []OneOpenReceipt
<1>1. RInv => OneOpenReceipt
  <2> SUFFICES ASSUME RInv PROVE OneOpenReceipt
    OBVIOUS
  <2>1. Originals(mem) /\ OneEach(mem)
    BY DEF RInv, Tidy, Orderly
  <2>2. ASSUME NEW p \in DOMAIN mem.plans
        PROVE  LET open == {o \in OccsOf(mem, p) : Unresolved(mem, o)}
               IN  /\ Cardinality({o \in open : mem.occs[o].for = 0}) <= 1
                   /\ Cardinality({o \in open : mem.occs[o].for # 0}) <= 1
    <3> DEFINE open == {o \in OccsOf(mem, p) : Unresolved(mem, o)}
    <3>1. \A x, y \in open : (mem.occs[x].for = 0 <=> mem.occs[y].for = 0) => x = y
      BY <2>1 DEF OneEach, OccsOf, SamePlan
    <3> HIDE DEF open
    <3>2. /\ \A x, y \in {o \in open : mem.occs[o].for = 0} : x = y
          /\ \A x, y \in {o \in open : mem.occs[o].for # 0} : x = y
      BY <3>1
    <3>3. /\ Cardinality({o \in open : mem.occs[o].for = 0}) <= 1
          /\ Cardinality({o \in open : mem.occs[o].for # 0}) <= 1
      BY <3>2, AtMostOne
    <3> QED
      BY <3>3 DEF open
  <2> QED
    BY <2>1, <2>2 DEF OneOpenReceipt, Originals
<1> QED
  BY <1>1, AlwaysTidy, PTL
=============================================================================
