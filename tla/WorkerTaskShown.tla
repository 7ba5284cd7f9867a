-------------------------- MODULE WorkerTaskShown --------------------------
(***************************************************************************)
(* Proofs about what a Worker's task shows: that a terminal status is the  *)
(* end of its own turn, with or without other clients of the thread; and,  *)
(* without them, that a stop on record as accepted interrupted its turn.   *)
(***************************************************************************)
EXTENDS WorkerTaskProofs

(***************************************************************************)
(* What the operators on records do to the run, its status and what the    *)
(* receipts remember.                                                      *)
(***************************************************************************)
(* The receipts of s remember the same runs as those of r.                 *)
Alike(r, s) == \A q \in Request : s.requests[q].run = r.requests[q].run /\ s.requests[q].status = r.requests[q].status

(* The record t with another run, status, activity and superseded set.     *)
Reshaped(t, n, st, a, su) ==
  [thread |-> t.thread, run |-> n, status |-> st, pending |-> t.pending, superseded |-> su,
   activity |-> a, requests |-> t.requests, stops |-> t.stops]

Activity == {"", "active", "idle"}

LEMMA FieldsSet ==
  ASSUME NEW t \in Record, NEW n \in Run, NEW st \in Status, NEW a \in Activity, NEW su \in SUBSET Turn,
         NEW s, s = Reshaped(t, n, st, a, su)
  PROVE  /\ s \in Record /\ s.run = n /\ s.status = st /\ s.superseded = su /\ s.requests = t.requests /\ s.stops = t.stops
         /\ s.pending = t.pending /\ s.thread = t.thread
BY DEF Record, Reshaped, Activity

LEMMA SupersedeShape ==
  ASSUME NEW t \in Record, NEW k \in Run
  PROVE  /\ Supersede(t, k) \in Record /\ Supersede(t, k).run = t.run /\ Supersede(t, k).status = t.status
         /\ Supersede(t, k).requests = t.requests /\ Supersede(t, k).stops = t.stops /\ Supersede(t, k).pending = t.pending
         /\ Supersede(t, k).thread = t.thread
         /\ Supersede(t, k).superseded = IF k = 0 THEN t.superseded ELSE t.superseded \cup {k}
<1>1. CASE k = 0
  BY <1>1 DEF Supersede
<1>2. CASE k # 0
  <2>1. k \in Turn
    BY <1>2, Constants
  <2> DEFINE s == [t EXCEPT !.superseded = t.superseded \cup {k}]
  <2>2. Supersede(t, k) = s
    BY <1>2 DEF Supersede
  <2>3. /\ s \in Record /\ s.run = t.run /\ s.status = t.status /\ s.requests = t.requests /\ s.stops = t.stops
        /\ s.pending = t.pending /\ s.thread = t.thread /\ s.superseded = t.superseded \cup {k}
    BY <2>1 DEF Record
  <2> HIDE DEF s
  <2> QED
    BY <1>2, <2>2, <2>3
<1> QED
  BY <1>1, <1>2

LEMMA AcknowledgeShape ==
  ASSUME NEW t \in Record, NEW inputs \in SUBSET Request
  PROVE  LET s == Acknowledge(t, inputs) IN
         /\ s \in Record /\ s.run = t.run /\ s.status = t.status /\ s.superseded = t.superseded /\ s.stops = t.stops
         /\ Alike(t, s)
         /\ \A q \in Request : IF q \in inputs /\ t.requests[q].outcome # "none" THEN s.requests[q].outcome = "accepted"
                               ELSE s.requests[q] = t.requests[q]
<1> DEFINE reqs == [q \in Request |-> IF q \in inputs /\ t.requests[q].outcome # "none"
                            THEN [t.requests[q] EXCEPT !.outcome = "accepted", !.phase = "settled"]
                            ELSE t.requests[q]]
           p == IF t.pending \in inputs THEN None ELSE t.pending
           u == [t EXCEPT !.requests = reqs]
<1>1. Acknowledge(t, inputs) \in Record
  BY AcknowledgeLearns DEF Learns
<1>2. Acknowledge(t, inputs) = [u EXCEPT !.pending = p]
  BY Zenon DEF Acknowledge
<1>3. ASSUME NEW x \in Receipt
      PROVE  LET y == [x EXCEPT !.outcome = "accepted", !.phase = "settled"] IN
             y.outcome = "accepted" /\ y.run = x.run /\ y.status = x.status
  <2> DEFINE z == [x EXCEPT !.outcome = "accepted"]
  <2>1. z = [outcome |-> "accepted", phase |-> x.phase, status |-> x.status, run |-> x.run]
    BY DEF Receipt
  <2>2. [x EXCEPT !.outcome = "accepted", !.phase = "settled"] = [z EXCEPT !.phase = "settled"]
    BY Zenon
  <2> HIDE DEF z
  <2> QED
    BY <2>1, <2>2
<1>4. \A q \in Request : t.requests[q] \in Receipt
  BY DEF Record
<1>5. ASSUME NEW q \in Request
      PROVE  /\ IF q \in inputs /\ t.requests[q].outcome # "none" THEN reqs[q].outcome = "accepted" ELSE reqs[q] = t.requests[q]
             /\ reqs[q].run = t.requests[q].run /\ reqs[q].status = t.requests[q].status
  BY <1>3, <1>4
<1> HIDE DEF reqs, p
<1>6. u = [thread |-> t.thread, run |-> t.run, status |-> t.status, pending |-> t.pending, superseded |-> t.superseded,
           activity |-> t.activity, requests |-> reqs, stops |-> t.stops]
  BY Fields
<1> HIDE DEF u
<1>7. LET s == [u EXCEPT !.pending = p] IN
      s.run = t.run /\ s.status = t.status /\ s.superseded = t.superseded /\ s.stops = t.stops /\ s.requests = reqs
  BY <1>6
<1> QED
  BY <1>1, <1>2, <1>5, <1>7 DEF Alike

LEMMA UnresolvedShape ==
  ASSUME NEW t \in Record, NEW k \in Run, NEW status
  PROVE  LET s == Unresolved(t, k, status) IN
         /\ s \in Record /\ s.run = (IF t.run = 0 THEN k ELSE t.run) /\ s.status = "unknown"
         /\ s.superseded = t.superseded /\ s.requests = t.requests /\ s.stops = t.stops
<1> DEFINE a == IF status = "inProgress" THEN "active" ELSE t.activity
           n == IF t.run = 0 THEN k ELSE t.run
           u == [t EXCEPT !.activity = a]
           v == [u EXCEPT !.run = n]
<1>1. Unresolved(t, k, status) = [v EXCEPT !.status = "unknown"]
  <2>1. u.run = t.run
    BY Fields
  <2> QED
    BY Zenon, <2>1 DEF Unresolved
<1>2. n \in Run /\ a \in Activity /\ "unknown" \in Status /\ t.superseded \in SUBSET Turn
  BY DEF Record, Status, Activity
<1>0. n = IF t.run = 0 THEN k ELSE t.run
  OBVIOUS
<1> HIDE DEF a, n
<1>3. u = [thread |-> t.thread, run |-> t.run, status |-> t.status, pending |-> t.pending, superseded |-> t.superseded,
           activity |-> a, requests |-> t.requests, stops |-> t.stops]
  BY Fields
<1> HIDE DEF u
<1>4. v = [thread |-> t.thread, run |-> n, status |-> t.status, pending |-> t.pending, superseded |-> t.superseded,
           activity |-> a, requests |-> t.requests, stops |-> t.stops]
  BY <1>3
<1> HIDE DEF v
<1>5. Unresolved(t, k, status) = Reshaped(t, n, "unknown", a, t.superseded)
  BY <1>1, <1>4 DEF Reshaped
<1> QED
  BY <1>0, <1>2, <1>5, FieldsSet

LEMMA ProjectShape ==
  ASSUME NEW t \in Record, NEW k, NEW status \in {"none"} \cup TurnStatus, NEW terminals
  PROVE  LET s == Project(t, k, status, terminals) IN
         /\ s \in Record /\ s.run = t.run /\ s.superseded = t.superseded /\ s.requests = t.requests /\ s.stops = t.stops
         /\ \/ status \in Final /\ s.status = status
            \/ status \notin Final /\ k \notin terminals /\ s.status = "working"
            \/ status \notin Final /\ k \in terminals /\ s.status = t.status
<1>0. t.superseded \in SUBSET Turn /\ t.run \in Run /\ "working" \in Status /\ (status \in Final => status \in Status)
      /\ "active" \in Activity /\ "idle" \in Activity
  BY DEF Record, Status, Activity
<1>1. ASSUME NEW a \in {"active", "idle"}, NEW st \in Status
      PROVE  [t EXCEPT !.activity = a, !.status = st] = Reshaped(t, t.run, st, a, t.superseded)
  <2> DEFINE u == [t EXCEPT !.activity = a]
  <2>1. u = [thread |-> t.thread, run |-> t.run, status |-> t.status, pending |-> t.pending, superseded |-> t.superseded,
             activity |-> a, requests |-> t.requests, stops |-> t.stops]
    BY Fields
  <2>2. [t EXCEPT !.activity = a, !.status = st] = [u EXCEPT !.status = st]
    BY Zenon
  <2> HIDE DEF u
  <2> QED
    BY <2>1, <2>2 DEF Reshaped
<1>2. CASE status \in Final
  <2>1. Project(t, k, status, terminals) = Reshaped(t, t.run, status, "idle", t.superseded)
    BY <1>0, <1>1, <1>2 DEF Project
  <2> QED
    BY <1>0, <1>2, <2>1, FieldsSet
<1>3. CASE status \notin Final /\ k \notin terminals
  <2>1. Project(t, k, status, terminals) = Reshaped(t, t.run, "working", "active", t.superseded)
    BY <1>0, <1>1, <1>3 DEF Project
  <2> QED
    BY <1>0, <1>3, <2>1, FieldsSet
<1>4. CASE status \notin Final /\ k \in terminals
  BY <1>4 DEF Project
<1> QED
  BY <1>2, <1>3, <1>4

(* The five ways in which a turn is projected on a record.                 *)
ObservedAs(t, s, k, status, history) ==
  \/ k \in t.superseded /\ s.run = t.run /\ s.status = t.status /\ s.superseded = t.superseded
  \/ /\ k \notin t.superseded /\ s.run = (IF t.run = 0 THEN k ELSE t.run)
     /\ s.status = "unknown" /\ s.superseded = t.superseded
  \/ /\ k \notin t.superseded /\ t.run = k /\ s.run = k /\ s.superseded = t.superseded
     /\ (status \in Final /\ s.status = status) \/ s.status \in {"working", t.status}
  \/ /\ k \notin t.superseded /\ t.run # k /\ k \in live.terminals
     /\ s.run = t.run /\ s.status = t.status /\ s.superseded = t.superseded
  \/ /\ k \notin t.superseded /\ t.run # k /\ k \notin live.terminals /\ s.run = k
     /\ (status \in Final /\ s.status = status) \/ s.status = "working"
     /\ s.superseded = IF ~history /\ status = "inProgress" /\ t.run # 0 THEN t.superseded \cup {t.run} ELSE t.superseded

Acked(t, s, inputs) == \A q \in Request :
  IF q \in inputs /\ t.requests[q].outcome # "none" THEN s.requests[q].outcome = "accepted" ELSE s.requests[q] = t.requests[q]

LEMMA ObserveShape ==
  ASSUME NEW t \in Record, NEW k \in Turn, NEW status \in {"none"} \cup TurnStatus, NEW inputs \in SUBSET Request, NEW history
  PROVE  LET s == Observe(t, k, status, inputs, history) IN
         s \in Record /\ s.stops = t.stops /\ Alike(t, s) /\ Acked(t, s, inputs) /\ ObservedAs(t, s, k, status, history)
<1> DEFINE a == Acknowledge(t, inputs)
           next == IF ~history /\ status = "inProgress" THEN Supersede(a, a.run) ELSE a
           r == [next EXCEPT !.run = k]
<1>1. /\ a \in Record /\ a.run = t.run /\ a.status = t.status /\ a.superseded = t.superseded /\ a.stops = t.stops
      /\ Alike(t, a) /\ Acked(t, a, inputs)
  BY AcknowledgeShape DEF Acked
<1>2. Observe(t, k, status, inputs, history) =
        CASE k \in a.superseded -> a
          [] k \notin a.superseded /\ (a.pending # None \/ HasUnknown(a)) -> Unresolved(a, k, status)
          [] k \notin a.superseded /\ ~(a.pending # None \/ HasUnknown(a)) ->
               IF a.run = k THEN Project(a, k, status, live.terminals)
               ELSE IF k \in live.terminals THEN a
               ELSE Project(r, k, status, live.terminals)
  BY DEF Observe
<1>3. a.run \in Run /\ k \in Run
  BY <1>1, Constants DEF Record
<1> HIDE DEF a
<1>4. /\ next \in Record /\ next.requests = a.requests /\ next.stops = a.stops
      /\ next.superseded = IF ~history /\ status = "inProgress" /\ a.run # 0 THEN a.superseded \cup {a.run} ELSE a.superseded
  BY <1>1, <1>3, SupersedeShape
<1> HIDE DEF next
<1>5. r \in Record /\ r.run = k /\ r.requests = a.requests /\ r.stops = a.stops /\ r.superseded = next.superseded
  BY <1>3, <1>4 DEF Record
<1> HIDE DEF r
<1> DEFINE s == Observe(t, k, status, inputs, history)
<1>6. \A x : x.requests = a.requests => Alike(t, x) /\ Acked(t, x, inputs)
  BY <1>1 DEF Alike, Acked
<1>7. CASE k \in a.superseded
  <2>1. s = a
    BY <1>2, <1>7
  <2> HIDE DEF s
  <2>2. ObservedAs(t, s, k, status, history)
    BY <1>1, <1>7, <2>1 DEF ObservedAs
  <2> QED
    BY <1>1, <2>1, <2>2 DEF s
<1>8. CASE k \notin a.superseded /\ (a.pending # None \/ HasUnknown(a))
  <2>1. s = Unresolved(a, k, status)
    BY <1>2, <1>8
  <2> HIDE DEF s
  <2>2. /\ s \in Record /\ s.run = (IF a.run = 0 THEN k ELSE a.run) /\ s.status = "unknown"
        /\ s.superseded = a.superseded /\ s.requests = a.requests /\ s.stops = a.stops
    BY <1>1, <1>3, <2>1, UnresolvedShape
  <2>3. ObservedAs(t, s, k, status, history)
    BY <1>1, <1>8, <2>2 DEF ObservedAs
  <2> QED
    BY <1>1, <1>6, <2>2, <2>3 DEF s
<1>9. CASE k \notin a.superseded /\ ~(a.pending # None \/ HasUnknown(a)) /\ a.run = k
  <2>1. s = Project(a, k, status, live.terminals)
    BY <1>2, <1>9
  <2> HIDE DEF s
  <2>2. /\ s \in Record /\ s.run = a.run /\ s.superseded = a.superseded /\ s.requests = a.requests /\ s.stops = a.stops
        /\ (status \in Final /\ s.status = status) \/ s.status \in {"working", a.status}
    BY <1>1, <2>1, ProjectShape
  <2>3. ObservedAs(t, s, k, status, history)
    BY <1>1, <1>9, <2>2 DEF ObservedAs
  <2> QED
    BY <1>1, <1>6, <2>2, <2>3 DEF s
<1>10. CASE k \notin a.superseded /\ ~(a.pending # None \/ HasUnknown(a)) /\ a.run # k /\ k \in live.terminals
  <2>1. s = a
    BY <1>2, <1>10
  <2> HIDE DEF s
  <2>2. ObservedAs(t, s, k, status, history)
    BY <1>1, <1>10, <2>1 DEF ObservedAs
  <2> QED
    BY <1>1, <2>1, <2>2 DEF s
<1>11. CASE k \notin a.superseded /\ ~(a.pending # None \/ HasUnknown(a)) /\ a.run # k /\ k \notin live.terminals
  <2>1. s = Project(r, k, status, live.terminals)
    BY <1>2, <1>11
  <2> HIDE DEF s
  <2>2. /\ s \in Record /\ s.run = k /\ s.superseded = next.superseded /\ s.requests = a.requests /\ s.stops = a.stops
        /\ (status \in Final /\ s.status = status) \/ s.status = "working"
    BY <1>5, <1>11, <2>1, ProjectShape
  <2>3. ObservedAs(t, s, k, status, history)
    BY <1>1, <1>4, <1>11, <2>2 DEF ObservedAs
  <2> QED
    BY <1>1, <1>6, <2>2, <2>3 DEF s
<1> QED
  BY <1>7, <1>8, <1>9, <1>10, <1>11

(* A read adds that a run it replaces is superseded.                       *)
LEMMA ObserveLatestShape ==
  ASSUME NEW t \in Record, NEW z \in Snapshot, z.run # 0
  PROVE  LET s == Observe(t, z.run, z.status, z.inputs, TRUE)
             u == ObserveLatest(t, z) IN
         /\ z.run \in Turn /\ z.status \in {"none"} \cup TurnStatus /\ z.inputs \in SUBSET Request
         /\ s \in Record /\ s.stops = t.stops /\ Alike(t, s) /\ Acked(t, s, z.inputs)
         /\ ObservedAs(t, s, z.run, z.status, TRUE)
         /\ u \in Record /\ u.run = s.run /\ u.status = s.status /\ u.requests = s.requests /\ u.stops = s.stops
         /\ u.superseded = IF s.run # t.run /\ t.run # 0 THEN s.superseded \cup {t.run} ELSE s.superseded
<1> DEFINE s == Observe(t, z.run, z.status, z.inputs, TRUE)
<1>1. z.run \in Turn /\ z.status \in {"none"} \cup TurnStatus /\ z.inputs \in SUBSET Request /\ t.run \in Run
  BY Constants DEF Snapshot, Record
<1>2. s \in Record /\ s.stops = t.stops /\ Alike(t, s) /\ Acked(t, s, z.inputs) /\ ObservedAs(t, s, z.run, z.status, TRUE)
  BY <1>1, ObserveShape
<1>3. ObserveLatest(t, z) = IF s.run # t.run THEN Supersede(s, t.run) ELSE s
  BY DEF ObserveLatest
<1> HIDE DEF s
<1>4. /\ Supersede(s, t.run) \in Record /\ Supersede(s, t.run).run = s.run /\ Supersede(s, t.run).status = s.status
      /\ Supersede(s, t.run).requests = s.requests /\ Supersede(s, t.run).stops = s.stops
      /\ Supersede(s, t.run).superseded = IF t.run = 0 THEN s.superseded ELSE s.superseded \cup {t.run}
  BY <1>1, <1>2, SupersedeShape
<1>5. /\ ObserveLatest(t, z) \in Record /\ ObserveLatest(t, z).run = s.run /\ ObserveLatest(t, z).status = s.status
      /\ ObserveLatest(t, z).requests = s.requests /\ ObserveLatest(t, z).stops = s.stops
      /\ ObserveLatest(t, z).superseded = IF s.run # t.run /\ t.run # 0 THEN s.superseded \cup {t.run} ELSE s.superseded
  BY <1>2, <1>3, <1>4
<1> QED
  BY <1>1, <1>2, <1>5 DEF s

LEMMA QuietShape ==
  ASSUME NEW t \in Record, NEW z \in Snapshot
  PROVE  LET s == Quiet(t, z) IN
         /\ s \in Record /\ s.run = t.run /\ s.superseded = t.superseded /\ s.requests = t.requests /\ s.stops = t.stops
         /\ s.status \in {t.status, "unknown"}
<1>0. t.superseded \in SUBSET Turn /\ t.run \in Run /\ t.status \in Status /\ "unknown" \in Status /\ "idle" \in Activity
  BY DEF Record, Status, Activity
<1>1. CASE z.status = "inProgress"
  <2>1. Quiet(t, z) = [t EXCEPT !.activity = "active"]
    BY <1>1 DEF Quiet
  <2> QED
    BY <2>1 DEF Record
<1>2. CASE z.status # "inProgress"
  <2> DEFINE st == IF t.status = "working" THEN "unknown" ELSE t.status
             v == [t EXCEPT !.activity = "idle"]
  <2>1. v = [thread |-> t.thread, run |-> t.run, status |-> t.status, pending |-> t.pending, superseded |-> t.superseded,
             activity |-> "idle", requests |-> t.requests, stops |-> t.stops]
    BY Fields
  <2>2. Quiet(t, z) = [v EXCEPT !.status = st]
    <3>1. v.status = t.status
      BY <2>1
    <3> QED
      BY Zenon, <1>2, <3>1 DEF Quiet
  <2>3. st \in Status /\ st \in {t.status, "unknown"}
    BY <1>0
  <2> HIDE DEF st, v
  <2>4. Quiet(t, z) = Reshaped(t, t.run, st, "idle", t.superseded)
    BY <2>1, <2>2 DEF Reshaped
  <2> QED
    BY <1>0, <2>3, <2>4, FieldsSet
<1> QED
  BY <1>1, <1>2

(* One receipt is replaced.                                                *)
Replaces(t, s, q, x) ==
  /\ s \in Record /\ s.thread = t.thread /\ s.run = t.run /\ s.status = t.status /\ s.superseded = t.superseded /\ s.stops = t.stops
  /\ s.requests[q] = x /\ \A y \in Request \ {q} : s.requests[y] = t.requests[y]

LEMMA RequestsSet ==
  ASSUME NEW t \in Record, NEW q \in Request, NEW x \in Receipt
  PROVE  Replaces(t, [t EXCEPT !.requests = [t.requests EXCEPT ![q] = x]], q, x)
<1> DEFINE reqs == [t.requests EXCEPT ![q] = x]
<1>1. reqs \in [Request -> Receipt] /\ reqs[q] = x /\ \A y \in Request \ {q} : reqs[y] = t.requests[y]
  BY DEF Record
<1> HIDE DEF reqs
<1>2. LET s == [t EXCEPT !.requests = reqs] IN
      /\ s \in Record /\ s.thread = t.thread /\ s.run = t.run /\ s.status = t.status /\ s.superseded = t.superseded
      /\ s.stops = t.stops /\ s.requests = reqs
  BY <1>1 DEF Record
<1> QED
  BY <1>1, <1>2 DEF Replaces, reqs

LEMMA SettledShape ==
  ASSUME NEW t \in Record, NEW q \in Request, NEW o \in Answers
  PROVE  LET x == [outcome |-> o, phase |-> "settled", status |-> "unknown", run |-> 0] IN
         Replaces(t, Settled(t, q, o), q, x)
<1> DEFINE x == [outcome |-> o, phase |-> "settled", status |-> "unknown", run |-> 0]
           s == [t EXCEPT !.requests = [t.requests EXCEPT ![q] = x]]
<1>1. [NoReceipt EXCEPT !.outcome = o, !.phase = "settled"] = x /\ x \in Receipt
  BY ReceiptMade DEF Answers, Outcome
<1>2. Settled(t, q, o) = [s EXCEPT !.pending = None]
  BY <1>1, Zenon DEF Settled
<1> HIDE DEF x
<1>3. Replaces(t, s, q, x)
  BY <1>1, RequestsSet
<1> HIDE DEF s
<1>4. Replaces(t, [s EXCEPT !.pending = None], q, x)
  <2>1. s \in Record
    BY <1>3 DEF Replaces
  <2>2. LET u == [s EXCEPT !.pending = None] IN
        /\ u \in Record /\ u.thread = s.thread /\ u.run = s.run /\ u.status = s.status /\ u.superseded = s.superseded
        /\ u.stops = s.stops /\ u.requests = s.requests
    BY <2>1 DEF Record
  <2> QED
    BY <1>3, <2>2 DEF Replaces
<1> QED
  BY <1>2, <1>4 DEF x

Restored(t, n, st, su) == [t EXCEPT !.run = n, !.status = st, !.superseded = su]

LEMMA ThreeShape ==
  ASSUME NEW t \in Record, NEW n \in Run, NEW st \in Status, NEW su \in SUBSET Turn
  PROVE  LET s == Restored(t, n, st, su) IN
         /\ s \in Record /\ s.thread = t.thread /\ s.run = n /\ s.status = st /\ s.superseded = su /\ s.stops = t.stops
         /\ s.requests = t.requests
<1> DEFINE u == [t EXCEPT !.run = n]
           v == [u EXCEPT !.status = st]
           w == [v EXCEPT !.superseded = su]
<1>1. Restored(t, n, st, su) = w
  BY Zenon DEF Restored
<1>2. u = [thread |-> t.thread, run |-> n, status |-> t.status, pending |-> t.pending, superseded |-> t.superseded,
           activity |-> t.activity, requests |-> t.requests, stops |-> t.stops]
  BY Fields
<1> HIDE DEF u
<1>3. v = [thread |-> t.thread, run |-> n, status |-> st, pending |-> t.pending, superseded |-> t.superseded,
           activity |-> t.activity, requests |-> t.requests, stops |-> t.stops]
  BY <1>2
<1> HIDE DEF v
<1>4. w = Reshaped(t, n, st, t.activity, su)
  BY <1>3 DEF Reshaped
<1> HIDE DEF w
<1>5. t.activity \in Activity
  BY DEF Record, Activity
<1> QED
  BY <1>1, <1>4, <1>5, FieldsSet

(* A definite refusal, of a request in memory or of a prepared one.        *)
LEMMA RefusedShape ==
  ASSUME task \in Record, NEW q \in Request
  PROVE  LET s == Refused(q)
             r == task.requests[q] IN
         /\ s \in Record /\ s.thread = task.thread /\ s.stops = task.stops
         /\ s.requests[q].outcome \in Answers /\ s.requests[q].run = 0 /\ s.requests[q].status = "unknown"
         /\ r.outcome # "accepted" => s.requests[q].outcome = "rejected"
         /\ \A y \in Request \ {q} : s.requests[y] = task.requests[y]
         /\ \/ task.run \notin {0, r.run} /\ s.run = task.run /\ s.status = task.status /\ s.superseded = task.superseded
            \/ /\ task.run \in {0, r.run} /\ s.run = r.run
               /\ s.status = r.status \/ (s.status = "failed" /\ r.run = 0)
               /\ s.superseded = IF r.status \in Final THEN task.superseded \ {r.run} ELSE task.superseded
<1> DEFINE r == task.requests[q]
           o == IF r.outcome = "accepted" THEN "accepted" ELSE "rejected"
           t == Settled(task, q, o)
           x == [outcome |-> o, phase |-> "settled", status |-> "unknown", run |-> 0]
           st == IF r.status = "unknown" /\ r.run = 0 THEN "failed" ELSE r.status
           su == IF r.status \in Final THEN t.superseded \ {r.run} ELSE t.superseded
           u == Restored(t, r.run, st, su)
<1>1. o \in Answers /\ (r.outcome # "accepted" => o = "rejected")
  BY DEF Answers
<1>2. Refused(q) = IF t.run \notin {0, r.run} THEN t ELSE u
  BY Zenon DEF Refused, Restored
<1>3. r \in Receipt
  BY DEF Record
<1>4. r.run \in Run /\ st \in Status /\ (st = r.status \/ (st = "failed" /\ r.run = 0))
  BY <1>3 DEF Receipt, Status, Final
<1> HIDE DEF o
<1>5. Replaces(task, t, q, x)
  BY <1>1, SettledShape
<1>6. x.outcome = o /\ x.run = 0 /\ x.status = "unknown"
  OBVIOUS
<1> HIDE DEF t, x
<1>7. t \in Record /\ su \in SUBSET Turn
  BY <1>5 DEF Record, Replaces
<1>8. su = IF r.status \in Final THEN task.superseded \ {r.run} ELSE task.superseded
  BY <1>5 DEF Replaces
<1> HIDE DEF su, st
<1>9. /\ u \in Record /\ u.thread = t.thread /\ u.run = r.run /\ u.status = st /\ u.superseded = su /\ u.stops = t.stops
      /\ u.requests = t.requests
  BY <1>4, <1>7, ThreeShape
<1> HIDE DEF u
<1>10. CASE t.run \notin {0, r.run}
  BY <1>1, <1>2, <1>5, <1>6, <1>10 DEF Replaces
<1>11. CASE t.run \in {0, r.run}
  BY <1>1, <1>2, <1>4, <1>5, <1>6, <1>8, <1>9, <1>11 DEF Replaces
<1> QED
  BY <1>10, <1>11

LEMMA PreparedBackShape ==
  ASSUME NEW t \in Record
  PROVE  LET s == SettlePrepared(t)
             q == t.pending IN
         \/ s = t
         \/ /\ q \in Request /\ s \in Record /\ s.thread = t.thread /\ s.stops = t.stops
            /\ t.requests[q].phase = "prepared" /\ t.requests[q].outcome = "unknown"
            /\ s.requests[q].outcome = "rejected" /\ s.requests[q].run = 0 /\ s.requests[q].status = "unknown"
            /\ \A y \in Request \ {q} : s.requests[y] = t.requests[y]
            /\ s.run = t.requests[q].run /\ s.status = t.requests[q].status /\ s.superseded = t.superseded \ {t.requests[q].run}
<1> DEFINE q == t.pending
           r == t.requests[q]
           s == Settled(t, q, "rejected")
           x == [outcome |-> "rejected", phase |-> "settled", status |-> "unknown", run |-> 0]
           su == s.superseded \ {r.run}
           u == Restored(s, r.run, r.status, su)
<1>1. CASE q = None \/ r.phase # "prepared" \/ r.outcome # "unknown"
  BY <1>1 DEF SettlePrepared
<1>2. CASE ~(q = None \/ r.phase # "prepared" \/ r.outcome # "unknown")
  <2>1. q \in Request /\ r.phase = "prepared" /\ r.outcome = "unknown"
    BY <1>2 DEF Record
  <2>2. SettlePrepared(t) = u
    BY <1>2, Zenon DEF SettlePrepared, Restored
  <2>3. r \in Receipt
    BY <2>1 DEF Record
  <2>4. r.run \in Run /\ r.status \in Status
    BY <2>3 DEF Receipt
  <2>5. Replaces(t, s, q, x)
    BY <2>1, SettledShape DEF Answers
  <2>6. x.outcome = "rejected" /\ x.run = 0 /\ x.status = "unknown"
    OBVIOUS
  <2> HIDE DEF s, x
  <2>7. s \in Record /\ su \in SUBSET Turn /\ su = t.superseded \ {r.run}
    BY <2>5 DEF Record, Replaces
  <2> HIDE DEF su
  <2>8. /\ u \in Record /\ u.thread = s.thread /\ u.run = r.run /\ u.status = r.status /\ u.superseded = su /\ u.stops = s.stops
        /\ u.requests = s.requests
    BY <2>4, <2>7, ThreeShape
  <2> HIDE DEF u
  <2> QED
    BY <2>1, <2>2, <2>5, <2>6, <2>7, <2>8 DEF Replaces
<1> QED
  BY <1>1, <1>2

LEMMA PreparedShape ==
  ASSUME Types, NEW q \in Request, NEW steer \in BOOLEAN
  PROVE  LET s == Prepared(q, steer) IN
         /\ s \in Record /\ s.thread = task.thread /\ s.stops = task.stops /\ s.status = "unknown"
         /\ s.requests[q] = [outcome |-> "unknown", phase |-> "prepared", status |-> task.status, run |-> task.run]
         /\ \A y \in Request \ {q} : s.requests[y] = task.requests[y]
         /\ s.run = IF steer THEN task.run ELSE 0
         /\ s.superseded = IF steer \/ task.run = 0 THEN task.superseded ELSE task.superseded \cup {task.run}
<1> DEFINE x == [outcome |-> "unknown", phase |-> "prepared", status |-> task.status, run |-> task.run]
           over == Supersede(task, task.run)
           base == IF steer THEN task ELSE [over EXCEPT !.run = 0]
           reqs == [base.requests EXCEPT ![q] = x]
           s == [base EXCEPT !.requests = reqs]
           a == [s EXCEPT !.pending = q]
           u == [a EXCEPT !.activity = ""]
           v == [u EXCEPT !.status = "unknown"]
<1>1. task \in Record /\ task.run \in Run /\ task.status \in Status /\ 0 \in Run
  BY Constants DEF Types, Record
<1>2. Prepared(q, steer) = v
  BY Zenon DEF Prepared
<1>3. x \in Receipt
  BY <1>1 DEF Receipt, Outcome
<1>4. /\ over \in Record /\ over.requests = task.requests /\ over.stops = task.stops /\ over.thread = task.thread
      /\ over.superseded = IF task.run = 0 THEN task.superseded ELSE task.superseded \cup {task.run}
  BY <1>1, SupersedeShape
<1> HIDE DEF over
<1>5. LET z == [over EXCEPT !.run = 0] IN
      /\ z \in Record /\ z.requests = over.requests /\ z.stops = over.stops /\ z.thread = over.thread /\ z.run = 0
      /\ z.superseded = over.superseded
  BY <1>1, <1>4 DEF Record
<1>6. /\ base \in Record /\ base.requests = task.requests /\ base.stops = task.stops /\ base.thread = task.thread
      /\ base.run = (IF steer THEN task.run ELSE 0)
      /\ base.superseded = IF steer \/ task.run = 0 THEN task.superseded ELSE task.superseded \cup {task.run}
  BY <1>1, <1>4, <1>5
<1> HIDE DEF base, x
<1>7. Replaces(base, s, q, x)
  BY <1>3, <1>6, RequestsSet
<1> HIDE DEF s
<1>8. s \in Record
  BY <1>7 DEF Replaces
<1>9. /\ a \in Record /\ a.requests = s.requests /\ a.stops = s.stops /\ a.thread = s.thread /\ a.run = s.run
      /\ a.superseded = s.superseded
  BY <1>8 DEF Record
<1> HIDE DEF a
<1>10. /\ u \in Record /\ u.requests = a.requests /\ u.stops = a.stops /\ u.thread = a.thread /\ u.run = a.run
       /\ u.superseded = a.superseded
  BY <1>9 DEF Record
<1> HIDE DEF u
<1>11. /\ v \in Record /\ v.requests = u.requests /\ v.stops = u.stops /\ v.thread = u.thread /\ v.run = u.run
       /\ v.superseded = u.superseded /\ v.status = "unknown"
  BY <1>10 DEF Record, Status
<1> HIDE DEF v
<1> QED
  BY <1>2, <1>6, <1>7, <1>9, <1>10, <1>11 DEF Replaces, x

(***************************************************************************)
(* Copies of an end.                                                       *)
(***************************************************************************)
LEMMA Length == ASSUME Thread PROVE Len(turns) \in Nat /\ (turns # <<>> => Len(turns) > 0) /\ \A k \in Run : k \in Nat
BY Constants DEF Thread, Run

LEMMA WasNone == ASSUME Thread, NEW st PROVE Was(0, st)
BY Length DEF Was

LEMMA WasLess ==
  ASSUME NEW k, NEW st, NEW s2, Was(k, st), s2 = st \/ s2 \notin Final
  PROVE  Was(k, s2)
BY DEF Was

LEMMA WasAlike ==
  ASSUME NEW r, NEW s, Alike(r, s), Faithful(r), Was(s.run, s.status)
  PROVE  Faithful(s)
BY DEF Alike, Faithful

LEMMA Working == "unknown" \notin Final /\ "working" \notin Final /\ "inProgress" \notin Final /\ "none" \notin Final
BY DEF Final

(* A turn that is projected as it is leaves the record faithful.           *)
LEMMA ObserveFaithful ==
  ASSUME Thread, NEW t \in Record, Faithful(t), NEW k \in Turn, NEW status \in {"none"} \cup TurnStatus, Was(k, status),
         NEW inputs \in SUBSET Request, NEW history
  PROVE  Faithful(Observe(t, k, status, inputs, history)) /\ Observe(t, k, status, inputs, history) \in Record
<1> DEFINE s == Observe(t, k, status, inputs, history)
<1>1. s \in Record /\ Alike(t, s) /\ ObservedAs(t, s, k, status, history)
  BY ObserveShape
<1> HIDE DEF s
<1>2. Was(t.run, t.status)
  BY DEF Faithful
<1>3. Was(s.run, s.status)
  <2>1. CASE s.run = t.run /\ s.status = t.status
    BY <1>2, <2>1
  <2>2. CASE s.run \in {k, t.run} /\ s.status \in {"unknown", "working"}
    BY <1>2, <2>2, WasLess, Working
  <2>3. CASE s.run = k /\ s.status = status
    BY <2>3
  <2>4. CASE s.run = k /\ t.run = k /\ s.status \in {"working", t.status}
    BY <1>2, <2>4, WasLess, Working
  <2> QED
    BY <1>1, <2>1, <2>2, <2>3, <2>4 DEF ObservedAs
<1>4. Faithful(s)
  BY <1>1, <1>3, WasAlike
<1> QED
  BY <1>1, <1>4 DEF s

LEMMA LatestFaithful ==
  ASSUME Thread, NEW t \in Record, Faithful(t), NEW z \in Snapshot, Was(z.run, z.status)
  PROVE  Faithful(ObserveLatest(t, z)) /\ ObserveLatest(t, z) \in Record
<1>1. CASE z.run = 0
  BY <1>1 DEF ObserveLatest
<1>2. CASE z.run # 0
  <2> DEFINE s == Observe(t, z.run, z.status, z.inputs, TRUE)
             u == ObserveLatest(t, z)
  <2>1. /\ z.run \in Turn /\ z.status \in {"none"} \cup TurnStatus /\ z.inputs \in SUBSET Request
        /\ s \in Record /\ Alike(t, s)
        /\ u \in Record /\ u.run = s.run /\ u.status = s.status /\ u.requests = s.requests
    BY <1>2, ObserveLatestShape
  <2>2. Faithful(s)
    BY <2>1, ObserveFaithful
  <2> HIDE DEF s, u
  <2>3. Faithful(u)
    BY <2>1, <2>2 DEF Faithful
  <2> QED
    BY <2>1, <2>3 DEF u
<1> QED
  BY <1>1, <1>2

LEMMA QuietFaithful ==
  ASSUME NEW t \in Record, Faithful(t), NEW z \in Snapshot
  PROVE  Faithful(Quiet(t, z)) /\ Quiet(t, z) \in Record
<1> DEFINE s == Quiet(t, z)
<1>1. s \in Record /\ s.run = t.run /\ s.requests = t.requests /\ s.status \in {t.status, "unknown"}
  BY QuietShape
<1> HIDE DEF s
<1>2. Faithful(s)
  BY <1>1, WasLess, Working DEF Faithful
<1> QED
  BY <1>1, <1>2 DEF s

LEMMA ReadFaithful ==
  ASSUME Thread, NEW t \in Record, Faithful(t), NEW z \in Snapshot, Was(z.run, z.status)
  PROVE  Faithful(Quiet(ObserveLatest(t, z), z))
<1>1. Faithful(ObserveLatest(t, z)) /\ ObserveLatest(t, z) \in Record
  BY LatestFaithful
<1> QED
  BY <1>1, QuietFaithful

(* One receipt is settled; the run is as before, or is restored.           *)
LEMMA ReplacedFaithful ==
  ASSUME Thread, NEW t, NEW s, NEW q \in Request, Faithful(t), s.requests[q].run = 0,
         \A y \in Request \ {q} : s.requests[y] = t.requests[y], Was(s.run, s.status)
  PROVE  Faithful(s)
<1>1. Was(s.requests[q].run, s.requests[q].status)
  BY WasNone
<1>2. \A y \in Request \ {q} : Was(s.requests[y].run, s.requests[y].status)
  BY DEF Faithful
<1> QED
  BY <1>1, <1>2 DEF Faithful

LEMMA AcceptedFaithful ==
  ASSUME Types, Shows, NEW q \in Request, NEW k \in Turn, k <= Len(turns)
  PROVE  Faithful(Accepted(q, k))
<1> DEFINE t == Settled(task, q, "accepted")
           begun == Observe(t, k, "inProgress", {}, FALSE)
           again == Observe(begun, k, live.ended[k], {}, FALSE)
<1>1. Faithful(task) /\ task \in Record /\ Thread /\ live \in LiveType
  BY DEF Types, Shows
<1>2. "accepted" \in Answers /\ "inProgress" \in {"none"} \cup TurnStatus /\ {} \in SUBSET Request /\ Was(k, "inProgress")
  BY Working DEF Answers, TurnStatus, Was
<1>3. Accepted(q, k) = IF t.run \notin {0, k} \cup t.superseded THEN t
                       ELSE IF live.ended[k] \in Final /\ begun.run = k /\ begun.status \notin Final THEN again ELSE begun
  BY DEF Accepted
<1>4. Replaces(task, t, q, [outcome |-> "accepted", phase |-> "settled", status |-> "unknown", run |-> 0])
  BY <1>1, <1>2, SettledShape
<1> HIDE DEF t
<1>5. t \in Record /\ Faithful(t)
  <2>1. /\ t \in Record /\ t.run = task.run /\ t.status = task.status /\ t.requests[q].run = 0
        /\ \A y \in Request \ {q} : t.requests[y] = task.requests[y]
    BY <1>4 DEF Replaces
  <2>2. Was(t.run, t.status)
    BY <1>1, <2>1 DEF Faithful
  <2> QED
    BY <1>1, <2>1, <2>2, ReplacedFaithful
<1>6. begun \in Record /\ Faithful(begun)
  BY <1>1, <1>2, <1>5, ObserveFaithful
<1> HIDE DEF begun
<1>7. live.ended[k] \in Final => Faithful(again)
  <2>1. ASSUME live.ended[k] \in Final PROVE Was(k, live.ended[k])
    BY <2>1, Working DEF Shows, Witnessed
  <2>2. live.ended[k] \in Final => live.ended[k] \in {"none"} \cup TurnStatus
    BY DEF TurnStatus
  <2> QED
    BY <1>1, <1>2, <1>6, <2>1, <2>2, ObserveFaithful
<1> HIDE DEF again
<1> QED
  BY <1>3, <1>5, <1>6, <1>7

LEMMA RefusedFaithful ==
  ASSUME Types, Shows, NEW q \in Request
  PROVE  Faithful(Refused(q))
<1> DEFINE s == Refused(q)
           r == task.requests[q]
<1>1. Faithful(task) /\ task \in Record /\ Thread
  BY DEF Types, Shows
<1>2. /\ s.requests[q].run = 0 /\ \A y \in Request \ {q} : s.requests[y] = task.requests[y]
      /\ \/ s.run = task.run /\ s.status = task.status
         \/ s.run = r.run /\ (s.status = r.status \/ (s.status = "failed" /\ r.run = 0))
  BY <1>1, RefusedShape
<1>3. Was(task.run, task.status) /\ Was(r.run, r.status)
  BY <1>1 DEF Faithful
<1> HIDE DEF s, r
<1>4. Was(s.run, s.status)
  BY <1>1, <1>2, <1>3, WasNone
<1>5. Faithful(s)
  BY <1>1, <1>2, <1>4, ReplacedFaithful
<1> QED
  BY <1>5 DEF s

LEMMA PreparedBackFaithful ==
  ASSUME Thread, NEW t \in Record, Faithful(t)
  PROVE  Faithful(SettlePrepared(t))
<1> DEFINE s == SettlePrepared(t)
           q == t.pending
<1>1. \/ s = t
      \/ /\ q \in Request /\ s.requests[q].run = 0 /\ \A y \in Request \ {q} : s.requests[y] = t.requests[y]
         /\ s.run = t.requests[q].run /\ s.status = t.requests[q].status
  BY PreparedBackShape
<1> HIDE DEF s, q
<1>2. Faithful(s)
  <2>1. CASE s = t
    BY <2>1
  <2>2. CASE /\ q \in Request /\ s.requests[q].run = 0 /\ \A y \in Request \ {q} : s.requests[y] = t.requests[y]
             /\ s.run = t.requests[q].run /\ s.status = t.requests[q].status
    <3>1. Was(s.run, s.status)
      BY <2>2 DEF Faithful
    <3> QED
      BY <2>2, <3>1, ReplacedFaithful
  <2> QED
    BY <1>1, <2>1, <2>2
<1> QED
  BY <1>2 DEF s

LEMMA PreparedFaithful ==
  ASSUME Types, Shows, NEW q \in Request, NEW steer \in BOOLEAN
  PROVE  Faithful(Prepared(q, steer))
<1> DEFINE s == Prepared(q, steer)
           x == [outcome |-> "unknown", phase |-> "prepared", status |-> task.status, run |-> task.run]
<1>1. Faithful(task) /\ Thread
  BY DEF Types, Shows
<1>2. /\ s.status = "unknown" /\ s.requests[q] = x /\ s.run \in {0, task.run}
      /\ \A y \in Request \ {q} : s.requests[y] = task.requests[y]
  BY PreparedShape
<1>3. x.run = task.run /\ x.status = task.status
  OBVIOUS
<1> HIDE DEF s, x
<1>4. Was(s.run, s.status)
  BY <1>1, <1>2, WasNone, WasLess, Working DEF Faithful
<1>5. Was(s.requests[q].run, s.requests[q].status)
  BY <1>1, <1>2, <1>3 DEF Faithful
<1>6. Faithful(s)
  BY <1>1, <1>2, <1>4, <1>5 DEF Faithful
<1> QED
  BY <1>6 DEF s

LEMMA FileShape ==
  ASSUME NEW t \in Record
  PROVE  LET s == File(t) IN
         /\ s \in Record /\ s.thread = t.thread /\ s.run = t.run /\ s.status = t.status /\ s.superseded = t.superseded
         /\ s.requests = t.requests /\ s.stops = t.stops /\ s.pending = t.pending
BY DEF File, Record

LEMMA ActivityShape ==
  ASSUME NEW t \in Record, NEW a \in {"", "active", "idle"}
  PROVE  LET s == [t EXCEPT !.activity = a] IN
         /\ s \in Record /\ s.thread = t.thread /\ s.run = t.run /\ s.status = t.status /\ s.superseded = t.superseded
         /\ s.requests = t.requests /\ s.stops = t.stops /\ s.pending = t.pending
BY DEF Record

LEMMA SameFaithful ==
  ASSUME NEW t, NEW s, Faithful(t), s.requests = t.requests, s.run = t.run, s.status \in {t.status, "unknown", "working"}
  PROVE  Faithful(s)
BY WasLess, Working DEF Faithful

(***************************************************************************)
(* Steps that leave the thread alone.                                      *)
(***************************************************************************)
LiveTrue(l) ==
  /\ \A k \in Turn : l.ended[k] # "none" => Was(k, l.ended[k])
  /\ l.run \in Turn => l.run <= Len(turns)
Saw(z) == Was(z.run, z.status)
OkTrue(c) == c.kind = "send" /\ c.phase = "settle" /\ c.answer = "ok" => c.run \in Carries(c.request)

LEMMA ShowsFacts ==
  ASSUME Types, Inv, Shows
  PROVE  /\ Faithful(task) /\ Faithful(disk) /\ LiveTrue(live) /\ Saw(call.snapshot) /\ Saw(reader.snapshot) /\ OkTrue(call)
         /\ Saw(NoSnapshot) /\ Saw(Latest) /\ Saw(NoCall.snapshot) /\ Saw(Idle.snapshot) /\ OkTrue(NoCall)
         /\ NoCall.kind = "none" /\ NoCall.phase = "none" /\ Thread /\ task \in Record /\ disk \in Record
<1>1. Thread /\ task \in Record /\ disk \in Record
  BY DEF Types
<1>2. NoCall.kind = "none" /\ NoCall.phase = "none" /\ NoCall.snapshot = NoSnapshot /\ Idle.snapshot = NoSnapshot
      /\ NoSnapshot.run = 0
  BY DEF NoCall, Idle, NoSnapshot
<1>3. Saw(NoSnapshot)
  BY <1>1, <1>2, WasNone DEF Saw
<1>4. Saw(Latest)
  <2>1. CASE turns = <<>>
    <3>1. Latest.run = 0
      BY <2>1 DEF Latest
    <3> QED
      BY <1>1, <3>1, WasNone DEF Saw
  <2>2. CASE turns # <<>>
    <3>1. Latest.run = Len(turns) /\ Latest.status = turns[Len(turns)].status
      BY <2>2 DEF Latest, Last
    <3> QED
      BY <1>1, <3>1, Length DEF Saw, Was
  <2> QED
    BY <2>1, <2>2
<1> QED
  BY <1>1, <1>2, <1>3, <1>4 DEF Shows, Witnessed, LiveTrue, Saw, OkTrue

LEMMA EventsSeen ==
  ASSUME Types, Shows, NEW e, e \in {events, Tail(events), <<>>}
  PROVE  \A i \in 1..Len(e) : Was(e[i].turn, e[i].status)
<1>1. events \in Seq(EventType) /\ Len(events) \in Nat /\ \A i \in 1..Len(events) : Was(events[i].turn, events[i].status)
  BY DEF Types, Shows, Witnessed
<1>2. CASE e = events
  BY <1>1, <1>2
<1>3. CASE e = <<>>
  BY <1>3
<1>4. CASE e = Tail(events) /\ events # <<>>
  <2>1. Len(e) = Len(events) - 1 /\ \A i \in 1..Len(e) : e[i] = events[i + 1]
    BY <1>1, <1>4
  <2>2. \A i \in 1..Len(e) : i + 1 \in 1..Len(events)
    BY <1>1, <2>1
  <2> QED
    BY <1>1, <2>1, <2>2
<1>5. CASE e = Tail(events) /\ events = <<>>
  <2>1. Tail(events) = <<>>
    BY <1>5
  <2> QED
    BY <1>5, <2>1
<1> QED
  BY <1>2, <1>3, <1>4, <1>5

LEMMA Seen ==
  ASSUME Types, Inv, Shows, UNCHANGED turns, Faithful(task'), NEW t \in Record, Faithful(t), Stored(t),
         Made(task) => Made(task'), Made(task') => Made(disk'),
         call'.kind = "send" => Made(task'), call'.phase = "create" => ~task'.thread /\ turns = <<>>,
         events' \in {events, Tail(events), <<>>}, LiveTrue(live'), OkTrue(call'), Saw(call'.snapshot), Saw(reader'.snapshot)
  PROVE  Shows'
<1>1. Faithful(task)'
  BY DEF Faithful, Was
<1>2. Faithful(disk)'
  <2>1. Faithful(disk) /\ Faithful(File(t))
    <3>1. File(t).requests = t.requests /\ File(t).run = t.run /\ File(t).status = t.status
      BY FileShape
    <3> QED
      BY <3>1, SameFaithful DEF Shows
  <2>2. Faithful(disk')
    BY <2>1 DEF Stored
  <2> QED
    BY <2>2 DEF Faithful, Was
<1>3. Witnessed'
  <2>1. \A i \in 1..Len(events') : Was(events'[i].turn, events'[i].status)
    BY EventsSeen
  <2>2. \A k \in Turn : live'.ended[k] # "none" => Was(k, live'.ended[k])
    BY DEF LiveTrue
  <2>3. live'.run \in Turn => live'.run <= Len(turns)
    BY DEF LiveTrue
  <2>4. Was(call'.snapshot.run, call'.snapshot.status) /\ Was(reader'.snapshot.run, reader'.snapshot.status)
    BY DEF Saw
  <2>5. call'.kind = "send" /\ call'.phase = "settle" /\ call'.answer = "ok" => call'.run \in Carries(call'.request)
    BY DEF OkTrue
  <2> QED
    BY <2>1, <2>2, <2>3, <2>4, <2>5 DEF Witnessed, Was, Carries
<1>4. Born'
  BY DEF Shows, Born, Made
<1> QED
  BY <1>1, <1>2, <1>3, <1>4 DEF Shows

(* Only the session's view, the call or the reader changes.                *)
LEMMA Looked ==
  ASSUME Types, Inv, Shows, UNCHANGED <<task, disk, turns>>, call'.phase = "create" => call.phase = "create", call'.kind = "send" => call.kind = "send" \/ task.thread,
         events' \in {events, Tail(events), <<>>}, LiveTrue(live'), OkTrue(call'), Saw(call'.snapshot), Saw(reader'.snapshot)
  PROVE  Shows'
<1>1. Faithful(task') /\ task \in Record /\ Faithful(task) /\ Stored(task)
  BY ShowsFacts DEF Stored
<1>2. (Made(task) => Made(task')) /\ (Made(task') => Made(disk'))
  BY DEF Shows, Born
<1>3. (call'.phase = "create" => ~task'.thread /\ turns = <<>>) /\ (call'.kind = "send" => Made(task'))
  BY DEF Shows, Born, Made
<1> QED
  BY <1>1, <1>2, <1>3, Seen

LEMMA LearnsMade == ASSUME NEW r, NEW s, NEW I, Learns(r, s, I) PROVE Made(r) <=> Made(s)
<1>1. s.thread = r.thread
  BY DEF Learns
<1>2. s.requests[Start].outcome = "none" <=> r.requests[Start].outcome = "none"
  BY Constants DEF Learns
<1> QED
  BY <1>1, <1>2 DEF Made

LEMMA MadeFile == ASSUME NEW t \in Record PROVE Made(File(t)) <=> Made(t)
BY FileShape DEF Made

(* A copy of the task that is as much of a task is written.                *)
LEMMA Rewritten ==
  ASSUME Types, Inv, Shows, UNCHANGED turns, Faithful(task'), NEW t \in Record, Faithful(t), Stored(t),
         Made(task') <=> Made(task), Made(t) <=> Made(task),
         call'.phase = "create" => call.phase = "create" /\ task'.thread = task.thread,
         call'.kind = "send" => call.kind = "send" \/ task.thread,
         events' \in {events, Tail(events), <<>>}, LiveTrue(live'), OkTrue(call'), Saw(call'.snapshot), Saw(reader'.snapshot)
  PROVE  Shows'
<1>1. Made(task') => Made(disk')
  BY MadeFile DEF Stored, Shows, Born
<1>2. call'.phase = "create" => ~task'.thread /\ turns = <<>>
  BY DEF Shows, Born
<1>3. call'.kind = "send" => Made(task')
  <2>1. task.thread => Made(task)
    BY DEF Made
  <2> QED
    BY <2>1 DEF Shows, Born
<1> QED
  BY <1>1, <1>2, <1>3, Seen

(* What an end that was seen adds to what the session knows.               *)
LEMMA EndedTrue ==
  ASSUME live \in LiveType, LiveTrue(live), NEW z \in Snapshot, Saw(z)
  PROVE  /\ \A k \in Turn : EndedIn(z)[k] # "none" => Was(k, EndedIn(z)[k])
         /\ z.run <= Len(turns)
<1>1. z.run # 0 => z.run \in Turn
  BY Constants DEF Snapshot
<1>2. live.ended \in [Turn -> {"none"} \cup Final]
  BY DEF LiveType
<1>3. CASE z.run = 0 \/ z.status \notin Final
  <2>1. EndedIn(z) = live.ended
    BY <1>3 DEF EndedIn, Ended
  <2> QED
    BY <2>1 DEF LiveTrue, Saw, Was
<1>4. CASE z.run # 0 /\ z.status \in Final
  <2>1. EndedIn(z) = [live.ended EXCEPT ![z.run] = z.status]
    BY <1>4 DEF EndedIn, Ended
  <2> QED
    BY <1>1, <1>2, <2>1 DEF LiveTrue, Saw, Was
<1> QED
  BY <1>3, <1>4

LEMMA LiveSet ==
  ASSUME live \in LiveType, LiveTrue(live), NEW l, l.ended = live.ended,
         l.run = live.run \/ l.run \notin Turn \/ l.run <= Len(turns)
  PROVE  LiveTrue(l)
BY DEF LiveTrue

LEMMA RecoverShows == ASSUME Types, Inv, Shows, Recover PROVE Shows'
<1>1. live'.ended = live.ended /\ live'.run = live.run
  BY Kept DEF Recover, LiveType
<1>2. reader'.snapshot = Idle.snapshot
  BY Kept DEF Recover, ReaderType
<1>3. LiveTrue(live')
  BY <1>1, ShowsFacts, LiveSet, Kept
<1> QED
  BY <1>2, <1>3, ShowsFacts, Looked DEF Recover

LEMMA RetryShows == ASSUME Types, Inv, Shows, RetryObservations PROVE Shows'
<1>1. live'.ended = live.ended /\ live'.run = live.run
  BY Kept DEF RetryObservations, LiveType
<1>2. LiveTrue(live')
  BY <1>1, ShowsFacts, LiveSet, Kept
<1> QED
  BY <1>2, ShowsFacts, Looked DEF RetryObservations

LEMMA RecoverAnsweredShows == ASSUME Types, Inv, Shows, RecoverAnswered PROVE Shows'
<1>1. reader'.snapshot = Latest
  BY Kept, LatestAnswer DEF RecoverAnswered, ReaderType
<1> QED
  BY <1>1, ShowsFacts, Looked DEF RecoverAnswered

LEMMA RecoverDroppedShows == ASSUME Types, Inv, Shows, RecoverDropped PROVE Shows'
<1>1. live'.ended = live.ended /\ live'.run = live.run
  BY Kept DEF RecoverDropped, LiveType
<1>2. LiveTrue(live')
  BY <1>1, ShowsFacts, LiveSet, Kept
<1> QED
  BY <1>2, ShowsFacts, Looked DEF RecoverDropped

LEMMA WatchAnsweredShows == ASSUME Types, Inv, Shows, WatchAnswered PROVE Shows'
<1>1. reader'.snapshot \in {NoSnapshot, Latest}
  BY Kept DEF WatchAnswered, ReaderType
<1> QED
  BY <1>1, ShowsFacts, Looked DEF WatchAnswered

LEMMA WatchAgainShows == ASSUME Types, Inv, Shows, WatchAgain PROVE Shows'
<1>1. live'.ended = live.ended /\ live'.run = live.run
  BY Kept DEF WatchAgain, LiveType
<1>2. reader'.snapshot = Idle.snapshot
  BY Kept DEF WatchAgain, ReaderType
<1>3. LiveTrue(live')
  BY <1>1, ShowsFacts, LiveSet, Kept
<1> QED
  BY <1>2, <1>3, ShowsFacts, Looked DEF WatchAgain

LEMMA RetireShows == ASSUME Types, Inv, Shows, Retire PROVE Shows'
<1>1. live'.ended = live.ended /\ live'.run = live.run
  BY Kept DEF Retire, LiveType
<1>2. LiveTrue(live')
  BY <1>1, ShowsFacts, LiveSet, Kept
<1> QED
  BY <1>2, ShowsFacts, Looked DEF Retire

(* The task learns of requests at most, and is written.                    *)
LEMMA Learned ==
  ASSUME Types, Inv, Shows, NEW I, Learns(task, task', I), Faithful(task'), Stored(task'), UNCHANGED turns,
         call'.phase = "create" => call.phase = "create", call'.kind = "send" => call.kind = "send" \/ task.thread,
         events' \in {events, Tail(events), <<>>}, LiveTrue(live'), OkTrue(call'), Saw(call'.snapshot), Saw(reader'.snapshot)
  PROVE  Shows'
<1>1. task' \in Record /\ task'.thread = task.thread
  BY DEF Learns
<1>2. Made(task') <=> Made(task)
  BY LearnsMade
<1> QED
  BY <1>1, <1>2, Rewritten

LEMMA RecoverFailedShows == ASSUME Types, Inv, Shows, RecoverFailed PROVE Shows'
<1>1. live'.ended = live.ended /\ live'.run = live.run
  BY Kept DEF RecoverFailed, LiveType
<1>2. LiveTrue(live')
  BY <1>1, ShowsFacts, LiveSet, Kept
<1>3. Learns(task, task', {}) /\ Stored(task')
  BY Kept, ActivitySet, StoredBy DEF RecoverFailed
<1>4. Faithful(task')
  <2>1. task'.requests = task.requests /\ task'.run = task.run /\ task'.status = task.status
    BY Kept, ActivityShape DEF RecoverFailed
  <2> QED
    BY <2>1, ShowsFacts, SameFaithful
<1> QED
  BY <1>2, <1>3, <1>4, ShowsFacts, Learned DEF RecoverFailed

LEMMA StatusShape ==
  ASSUME NEW t \in Record, NEW st \in Status
  PROVE  LET s == [t EXCEPT !.status = st] IN
         /\ s \in Record /\ s.thread = t.thread /\ s.run = t.run /\ s.status = st /\ s.superseded = t.superseded
         /\ s.requests = t.requests /\ s.stops = t.stops /\ s.pending = t.pending
BY DEF Record

LEMMA WatchFailedShows == ASSUME Types, Inv, Shows, WatchFailed PROVE Shows'
<1>1. live'.ended = live.ended /\ live'.run = live.run
  BY Kept DEF WatchFailed, LiveType
<1>2. LiveTrue(live')
  BY <1>1, ShowsFacts, LiveSet, Kept
<1>3. Learns(task, task', {}) /\ Stored(task')
  BY Kept, StatusSet, StoredBy DEF WatchFailed, Status
<1>4. Faithful(task')
  <2>1. "unknown" \in Status
    BY DEF Status
  <2>2. task'.requests = task.requests /\ task'.run = task.run /\ task'.status = "unknown"
    BY <2>1, Kept, StatusShape DEF WatchFailed
  <2> QED
    BY <2>2, ShowsFacts, SameFaithful
<1> QED
  BY <1>2, <1>3, <1>4, ShowsFacts, Learned DEF WatchFailed

LEMMA RecoverDoneShows == ASSUME Types, Inv, Shows, RecoverDone PROVE Shows'
<1> DEFINE z == reader.snapshot
<1>1. z \in Snapshot /\ Saw(z) /\ live \in LiveType /\ LiveTrue(live) /\ task \in Record /\ Thread /\ Faithful(task)
  BY Kept, ShowsFacts
<1>2. Learns(task, task', z.inputs) /\ Stored(task') /\ task' = Quiet(ObserveLatest(task, z), z)
  BY Kept, ReadLearns, StoredBy DEF RecoverDone
<1>3. Faithful(task')
  BY <1>1, <1>2, ReadFaithful DEF Saw
<1>4. live'.ended = EndedIn(z) /\ live'.run \in {Absent, z.run, 0, live.run}
  <2> DEFINE u == [live EXCEPT !.ended = EndedIn(z)]
  <2>1. EndedIn(z) \in [Turn -> {"none"} \cup Final]
    BY <1>1, EndedType
  <2>2. PICK n \in {Absent, z.run, 0, live.run} : \E te, w :
          live' = [live EXCEPT !.ended = EndedIn(z), !.terminals = te, !.failed = FALSE, !.watching = w, !.run = n]
    <3> DEFINE t == Quiet(ObserveLatest(task, z), z)
               active == z.status = "inProgress"
               n == IF ~active THEN Absent ELSE IF z.run \notin t.superseded THEN z.run ELSE IF live.run = Absent THEN 0 ELSE live.run
               w == live.subscribed \/ active
    <3>1. n \in {Absent, z.run, 0, live.run}
      OBVIOUS
    <3>2. live' = [live EXCEPT !.ended = EndedIn(z), !.terminals = Terminals(z), !.failed = FALSE, !.watching = w, !.run = n]
      BY Zenon DEF RecoverDone
    <3> HIDE DEF n, w
    <3> QED
      BY <3>1, <3>2
  <2> HIDE DEF z
  <2> QED
    BY <1>1, <2>2 DEF LiveType
<1>5. LiveTrue(live')
  <2>1. z.run <= Len(turns) /\ \A k \in Turn : EndedIn(z)[k] # "none" => Was(k, EndedIn(z)[k])
    BY <1>1, EndedTrue
  <2>2. Absent \notin Turn /\ 0 \notin Turn
    BY Constants
  <2> QED
    BY <1>1, <1>4, <2>1, <2>2 DEF LiveTrue
<1>6. reader'.snapshot = Idle.snapshot
  <2>1. [Idle EXCEPT !.phase = "resuming"].snapshot = Idle.snapshot
    BY Kept DEF ReaderType
  <2> QED
    BY <2>1 DEF RecoverDone
<1> QED
  BY <1>2, <1>3, <1>5, <1>6, ShowsFacts, Learned DEF RecoverDone

LEMMA WatchDoneShows == ASSUME Types, Inv, Shows, WatchDone PROVE Shows'
<1> DEFINE z == reader.snapshot
           seen == ObserveLatest(task, z)
<1>1. z \in Snapshot /\ Saw(z) /\ live \in LiveType /\ LiveTrue(live) /\ task \in Record /\ Thread /\ Faithful(task)
  BY Kept, ShowsFacts
<1>2. seen \in Record /\ Faithful(seen) /\ Learns(task, seen, z.inputs)
  BY <1>1, LatestFaithful, ObserveLatestLearns DEF Saw
<1>3. task' \in {seen, [seen EXCEPT !.status = "unknown"]} /\ Stored(task')
  BY StoredBy DEF WatchDone
<1> HIDE DEF seen
<1>4. Faithful(task') /\ Learns(task, task', z.inputs)
  <2>1. "unknown" \in Status
    BY DEF Status
  <2> DEFINE u == [seen EXCEPT !.status = "unknown"]
  <2>2. u.requests = seen.requests /\ u.run = seen.run /\ u.status = "unknown"
    BY <1>2, <2>1, StatusShape
  <2>3. Learns(seen, u, z.inputs)
    BY <1>2, <2>1, StatusSet
  <2> HIDE DEF u
  <2>4. Faithful(u) /\ Learns(task, u, z.inputs)
    BY <1>2, <2>2, <2>3, SameFaithful, LearnsTwice
  <2> QED
    BY <1>2, <1>3, <2>4 DEF u
<1>5. live'.ended = EndedIn(z) /\ live'.run \in {Absent, z.run, 0}
  <2>1. EndedIn(z) \in [Turn -> {"none"} \cup Final]
    BY <1>1, EndedType
  <2>2. PICK n \in {Absent, z.run, 0} : \E te :
          live' = [live EXCEPT !.ended = EndedIn(z), !.terminals = te, !.subscribed = TRUE, !.failed = FALSE, !.run = n]
    <3> DEFINE active == z.status = "inProgress"
               s1 == ObserveLatest(task, z)
               t == IF ~active /\ s1.status = "working" THEN [s1 EXCEPT !.status = "unknown"] ELSE s1
               n == IF ~active THEN Absent ELSE IF z.run \notin live.terminals \cup t.superseded THEN z.run ELSE 0
    <3>1. n \in {Absent, z.run, 0}
      OBVIOUS
    <3>2. live' = [live EXCEPT !.ended = EndedIn(z), !.terminals = Terminals(z), !.subscribed = TRUE, !.failed = FALSE, !.run = n]
      BY Zenon DEF WatchDone
    <3> HIDE DEF n
    <3> QED
      BY <3>1, <3>2
  <2> HIDE DEF z
  <2> QED
    BY <1>1, <2>2 DEF LiveType
<1>6. LiveTrue(live')
  <2>1. z.run <= Len(turns) /\ \A k \in Turn : EndedIn(z)[k] # "none" => Was(k, EndedIn(z)[k])
    BY <1>1, EndedTrue
  <2>2. Absent \notin Turn /\ 0 \notin Turn
    BY Constants
  <2> QED
    BY <1>5, <2>1, <2>2 DEF LiveTrue
<1> QED
  BY <1>3, <1>4, <1>6, ShowsFacts, Learned DEF WatchDone

LEMMA ReadWorkShows == ASSUME Types, Inv, Shows, ReadWork PROVE Shows'
<1>1. call'.kind = "read" /\ call'.phase = "reading" /\ call'.snapshot = NoCall.snapshot
  BY DEF ReadWork, NoCall
<1>2. OkTrue(call') /\ LiveTrue(live')
  BY <1>1, ShowsFacts DEF OkTrue, ReadWork
<1> QED
  BY <1>1, <1>2, ShowsFacts, Looked DEF ReadWork

LEMMA ReadAnsweredShows == ASSUME Types, Inv, Shows, ReadAnswered PROVE Shows'
<1>1. call.kind = "read"
  BY DEF Types, Phases, ReadAnswered
<1>2. call'.kind = "read" /\ call'.phase = "read" /\ call'.snapshot = Latest
  BY <1>1, Kept, LatestAnswer DEF ReadAnswered, CallType
<1>3. OkTrue(call') /\ LiveTrue(live')
  BY <1>2, ShowsFacts DEF OkTrue, ReadAnswered
<1> QED
  BY <1>2, <1>3, ShowsFacts, Looked DEF ReadAnswered

LEMMA ReadFailedShows == ASSUME Types, Inv, Shows, ReadFailed PROVE Shows'
<1>1. Learns(task, task', {})
  BY Kept, ActivitySet DEF ReadFailed
<1>2. Faithful(task')
  <2>1. task'.requests = task.requests /\ task'.run = task.run /\ task'.status = task.status
    BY Kept, ActivityShape DEF ReadFailed
  <2> QED
    BY <2>1, ShowsFacts, SameFaithful
<1>3. call' = NoCall /\ UNCHANGED <<disk, live, reader, turns, events>>
  BY DEF ReadFailed
<1>4. Stored(task')
  BY <1>3 DEF Stored
<1> QED
  BY <1>1, <1>2, <1>3, <1>4, ShowsFacts, Learned

LEMMA ReadDoneShows == ASSUME Types, Inv, Shows, ReadDone PROVE Shows'
<1> DEFINE z == call.snapshot
<1>1. z \in Snapshot /\ Saw(z) /\ live \in LiveType /\ LiveTrue(live) /\ task \in Record /\ Thread /\ Faithful(task)
  BY Kept, ShowsFacts
<1>2. call' = NoCall /\ UNCHANGED <<reader, turns, events>>
  BY DEF ReadDone
<1>3. CASE ~Current(call)
  <2>1. Learns(task, task', {}) /\ Stored(task') /\ Faithful(task') /\ live' = live
    BY <1>1, <1>3, Kept DEF ReadDone, Stored
  <2> QED
    BY <1>1, <1>2, <2>1, ShowsFacts, Learned
<1>4. CASE Current(call)
  <2>1. Learns(task, task', z.inputs) /\ Stored(task') /\ task' = Quiet(ObserveLatest(task, z), z)
    BY <1>4, Kept, ReadLearns, StoredBy DEF ReadDone
  <2>2. Faithful(task')
    BY <1>1, <2>1, ReadFaithful DEF Saw
  <2>3. live'.ended = EndedIn(z) /\ live'.run \in {live.run, Absent}
    <3>1. EndedIn(z) \in [Turn -> {"none"} \cup Final]
      BY <1>1, EndedType
    <3>2. live' = [live EXCEPT !.ended = EndedIn(z), !.failed = FALSE,
                               !.run = IF z.status = "inProgress" THEN live.run ELSE Absent]
      BY <1>4 DEF ReadDone
    <3> HIDE DEF z
    <3> QED
      BY <1>1, <3>2 DEF LiveType
  <2>4. LiveTrue(live')
    <3>1. \A k \in Turn : EndedIn(z)[k] # "none" => Was(k, EndedIn(z)[k])
      BY <1>1, EndedTrue
    <3>2. Absent \notin Turn
      BY Constants
    <3> QED
      BY <1>1, <2>3, <3>1, <3>2 DEF LiveTrue
  <2> QED
    BY <1>2, <2>1, <2>2, <2>4, ShowsFacts, Learned
<1> QED
  BY <1>3, <1>4

LEMMA StopShape ==
  ASSUME NEW t \in Record, NEW k \in Run, NEW o \in Outcome
  PROVE  LET s == [t EXCEPT !.stops[k] = o] IN
         /\ s \in Record /\ s.thread = t.thread /\ s.run = t.run /\ s.status = t.status /\ s.superseded = t.superseded
         /\ s.requests = t.requests /\ s.pending = t.pending
         /\ s.stops[k] = o /\ \A j \in Run \ {k} : s.stops[j] = t.stops[j]
<1> DEFINE f == [t.stops EXCEPT ![k] = o]
<1>1. [t EXCEPT !.stops[k] = o] = [t EXCEPT !.stops = f]
  BY Zenon
<1>2. t.stops \in [Run -> Outcome \cup {"none"}]
  BY DEF Record
<1>3. f \in [Run -> Outcome \cup {"none"}] /\ f[k] = o /\ \A j \in Run \ {k} : f[j] = t.stops[j]
  BY <1>2
<1> HIDE DEF f
<1>4. LET s == [t EXCEPT !.stops = f] IN
      /\ s \in Record /\ s.thread = t.thread /\ s.run = t.run /\ s.status = t.status /\ s.superseded = t.superseded
      /\ s.requests = t.requests /\ s.pending = t.pending /\ s.stops = f
  BY <1>3 DEF Record
<1> QED
  BY <1>1, <1>3, <1>4

(* A stop is written; nothing else changes.                                *)
LEMMA StopSeen ==
  ASSUME Types, Inv, Shows, NEW k \in Run, NEW o \in Outcome, UNCHANGED <<live, reader, turns, events>>,
         LET t == [task EXCEPT !.stops[k] = o] IN (Saved(t) /\ task' = t) \/ (Lost(t) /\ task' = task),
         call'.kind # "send", call'.phase # "create", OkTrue(call'), Saw(call'.snapshot)
  PROVE  Shows'
<1> DEFINE t == [task EXCEPT !.stops[k] = o]
<1>1. t \in Record /\ t.thread = task.thread /\ t.requests = task.requests /\ t.run = task.run /\ t.status = task.status
  BY Kept, StopShape
<1>2. Stored(t) /\ task' \in {task, t}
  BY StoredBy
<1> HIDE DEF t
<1>3. Faithful(t) /\ Faithful(task') /\ (Made(t) <=> Made(task)) /\ (Made(task') <=> Made(task))
  BY <1>1, <1>2, ShowsFacts, SameFaithful DEF Made
<1> QED
  BY <1>1, <1>2, <1>3, ShowsFacts, Rewritten

LEMMA StopWorkShows == ASSUME Types, Inv, Shows, StopWork PROVE Shows'
<1> DEFINE c == [NoCall EXCEPT !.kind = "stop", !.phase = "waiting", !.run = live.run, !.key = task.run]
<1>1. c.kind = "stop" /\ c.phase = "waiting" /\ c.snapshot = NoCall.snapshot
  BY DEF NoCall
<1>2. call' \in {c, NoCall}
  BY DEF StopWork
<1> HIDE DEF c
<1>3. call'.kind # "send" /\ call'.phase # "create" /\ OkTrue(call') /\ Saw(call'.snapshot)
  BY <1>1, <1>2, ShowsFacts DEF OkTrue
<1>4. LET t == [task EXCEPT !.stops[task.run] = "unknown"] IN (Saved(t) /\ task' = t) \/ (Lost(t) /\ task' = task)
  BY DEF StopWork
<1>5. task.run \in Run /\ "unknown" \in Outcome /\ UNCHANGED <<live, reader, turns, events>>
  BY Kept DEF Outcome, StopWork
<1> QED
  BY <1>3, <1>4, <1>5, StopSeen

LEMMA StopDoneShows == ASSUME Types, Inv, Shows, StopDone PROVE Shows'
<1>1. PICK o \in Outcome :
        LET t == [task EXCEPT !.stops[call.key] = o] IN (Saved(t) /\ task' = t) \/ (Lost(t) /\ task' = task)
  <2> DEFINE o == CASE call.answer = "ok" -> "accepted" [] call.answer = "rejected" -> "rejected"
                    [] call.answer = "lost" -> "unknown"
  <2>1. call.answer \in {"ok", "rejected", "lost"}
    BY Kept DEF StopDone, CallType, Phases
  <2>2. o \in Outcome
    BY <2>1 DEF Outcome
  <2> HIDE DEF o
  <2> QED
    BY <2>2 DEF StopDone, o
<1>2. call.key \in Run
  BY Kept DEF CallType
<1> QED
  BY <1>1, <1>2, ShowsFacts, StopSeen DEF StopDone

LEMMA HandleShows == ASSUME Types, Inv, Shows, Handle PROVE Shows'
<1> DEFINE k == Head(events).turn
           status == Head(events).status
<1>1. /\ events # <<>> /\ events \in Seq(EventType) /\ Len(events) \in Nat /\ Len(events) > 0
      /\ Head(events) = events[1] /\ events[1] \in EventType
  BY DEF Types, Handle
<1>2. k \in Turn /\ status \in TurnStatus /\ k \in 1..Len(turns) /\ Was(k, status)
  <2>1. k \in Turn /\ status \in TurnStatus
    BY <1>1 DEF EventType
  <2>2. k <= Len(turns)
    BY <1>1 DEF Types
  <2>3. Len(turns) \in Nat
    BY DEF Types, Thread
  <2>4. Was(k, status)
    BY <1>1 DEF Shows, Witnessed
  <2> QED
    BY <2>1, <2>2, <2>3, <2>4 DEF Turn
<1>3. turns[k].inputs \in SUBSET Request /\ Known(turns[k].inputs)
  <2>1. turns[k] \in TurnType
    BY <1>2 DEF Types, Thread
  <2> QED
    BY <1>2, <2>1 DEF TurnType, Known, Carries
<1> HIDE DEF k, status
<1>4. PICK inputs \in {{}, turns[k].inputs} :
        LET t == Observe(task, k, status, inputs, FALSE) IN
        /\ task' = t
        /\ IF t = task THEN UNCHANGED <<disk, faults>> ELSE SaveAnyway(t)
        /\ live' = [live EXCEPT
             !.ended = Ended(k, status),
             !.run = IF status = "inProgress" /\ k \notin live.terminals \cup t.superseded THEN k
                     ELSE IF status \in Final /\ live.run \in {0, k} THEN Absent ELSE live.run,
             !.terminals = IF status \in Final THEN live.terminals \cup {k} ELSE live.terminals]
  BY DEF Handle, k, status
<1>5. inputs \in SUBSET Request /\ Known(inputs)
  BY <1>3, Kept
<1>6. Learns(task, task', inputs) /\ Stored(task') /\ Faithful(task')
  <2>1. status \in {"none"} \cup TurnStatus /\ task \in Record /\ Faithful(task) /\ Thread
    BY <1>2, ShowsFacts
  <2>2. Learns(task, task', inputs) /\ Stored(task')
    BY <1>2, <1>4, <1>5, <2>1, ObserveLearns, StoredBy
  <2>3. Faithful(task')
    BY <1>2, <1>4, <1>5, <2>1, ObserveFaithful
  <2> QED
    BY <2>2, <2>3
<1>7. live'.ended = Ended(k, status) /\ live'.run \in {k, Absent, live.run}
  <2>1. PICK n \in {k, Absent, live.run} : \E te :
          live' = [live EXCEPT !.ended = Ended(k, status), !.run = n, !.terminals = te]
    <3> DEFINE t == Observe(task, k, status, inputs, FALSE)
               n == IF status = "inProgress" /\ k \notin live.terminals \cup t.superseded THEN k
                    ELSE IF status \in Final /\ live.run \in {0, k} THEN Absent ELSE live.run
               te == IF status \in Final THEN live.terminals \cup {k} ELSE live.terminals
    <3>1. n \in {k, Absent, live.run}
      OBVIOUS
    <3>2. live' = [live EXCEPT !.ended = Ended(k, status), !.run = n, !.terminals = te]
      BY <1>4
    <3> HIDE DEF n, te
    <3> QED
      BY <3>1, <3>2
  <2> QED
    BY <2>1, Kept DEF LiveType
<1>8. LiveTrue(live')
  <2>1. Absent \notin Turn /\ LiveTrue(live) /\ live.ended \in [Turn -> {"none"} \cup Final]
    BY Constants, ShowsFacts, Kept DEF LiveType
  <2>2. \A j \in Turn : Ended(k, status)[j] # "none" => Was(j, Ended(k, status)[j])
    BY <1>2, <2>1 DEF Ended, LiveTrue
  <2>3. k <= Len(turns)
    BY <1>2 DEF Was
  <2> QED
    BY <1>7, <2>1, <2>2, <2>3 DEF LiveTrue
<1>9. OkTrue(call') /\ Saw(call'.snapshot) /\ (call'.phase = "create" => call.phase = "create")
      /\ (call'.kind = "send" => call.kind = "send")
  <2>1. CASE call' = call
    BY <2>1, ShowsFacts
  <2>2. CASE call' = [NoCall EXCEPT !.kind = "read", !.phase = "fenced"]
    <3>1. call'.kind = "read" /\ call'.phase = "fenced" /\ call'.snapshot = NoCall.snapshot
      BY <2>2 DEF NoCall
    <3> QED
      BY <3>1, ShowsFacts DEF OkTrue
  <2> QED
    BY <2>1, <2>2 DEF Handle
<1>10. Saw(reader'.snapshot)
  <2>1. CASE reader' = [Idle EXCEPT !.phase = "fenced"]
    <3>1. reader'.snapshot = Idle.snapshot
      BY <2>1 DEF Idle
    <3> QED
      BY <3>1, ShowsFacts
  <2>2. CASE reader' = [reader EXCEPT !.stale = TRUE, !.snapshot = NoSnapshot]
    <3> DEFINE u == [reader EXCEPT !.stale = TRUE]
    <3>1. u \in ReaderType
      BY Kept DEF ReaderType
    <3>2. reader' = [u EXCEPT !.snapshot = NoSnapshot]
      BY <2>2, Zenon
    <3> HIDE DEF u
    <3>3. reader'.snapshot = NoSnapshot
      BY <3>1, <3>2 DEF ReaderType
    <3> QED
      BY <3>3, ShowsFacts
  <2>3. CASE reader' = reader
    BY <2>3, ShowsFacts
  <2> QED
    BY <2>1, <2>2, <2>3 DEF Handle
<1>11. events' = Tail(events) /\ UNCHANGED turns
  BY DEF Handle
<1> QED
  BY <1>6, <1>8, <1>9, <1>10, <1>11, Learned

(***************************************************************************)
(* Starts and sends.                                                       *)
(***************************************************************************)
LEMMA AnswerLostShows == ASSUME Types, Inv, Shows, AnswerLost PROVE Shows'
<1>1. call' = Settling("lost") /\ UNCHANGED <<task, disk, live, reader, turns, events>>
  BY DEF AnswerLost
<1>2. call'.kind = call.kind /\ call'.phase = "settle" /\ call'.answer = "lost" /\ call'.snapshot = call.snapshot
  BY <1>1, Kept, SettlingFields
<1>3. OkTrue(call')
  BY <1>2 DEF OkTrue
<1> QED
  BY <1>1, <1>2, <1>3, ShowsFacts, Looked

LEMMA SendWorkShows == ASSUME Types, Inv, Shows, NEW q \in Sends, SendWork(q) PROVE Shows'
<1>1. task.thread /\ UNCHANGED <<task, disk, live, reader, turns, events>>
  BY DEF SendWork
<1>2. call'.kind = "send" /\ call'.phase = "prepare" /\ call'.snapshot = NoCall.snapshot
  BY DEF SendWork, NoCall
<1>3. OkTrue(call')
  BY <1>2 DEF OkTrue
<1> QED
  BY <1>1, <1>2, <1>3, ShowsFacts, Looked

LEMMA ResumeShows == ASSUME Types, Inv, Shows, Resume PROVE Shows'
<1> DEFINE d == [call EXCEPT !.phase = "dispatch"]
<1>1. call.kind = "send" /\ call.phase = "resume" /\ UNCHANGED <<task, reader, turns, wire, events>>
  BY DEF Resume, Types, Phases
<1>2. call' \in {d, Settling("rejected")} /\ Stored(task)
  BY StoredBy DEF Resume
<1>3. d.kind = "send" /\ d.phase = "dispatch" /\ d.snapshot = call.snapshot
  BY <1>1, Kept, Phased
<1>4. Settling("rejected").kind = "send" /\ Settling("rejected").phase = "settle" /\ Settling("rejected").answer = "rejected"
      /\ Settling("rejected").snapshot = call.snapshot
  BY <1>1, Kept, SettlingFields
<1> HIDE DEF d
<1>5. call'.kind = "send" /\ call'.phase # "create" /\ call'.snapshot = call.snapshot /\ OkTrue(call')
  BY <1>2, <1>3, <1>4 DEF OkTrue
<1>6. live'.ended = live.ended /\ live'.run = live.run
  BY Kept DEF Resume, LiveType
<1>7. LiveTrue(live') /\ Faithful(task')
  BY <1>1, <1>6, ShowsFacts, LiveSet, Kept
<1> QED
  BY <1>1, <1>2, <1>5, <1>7, ShowsFacts, Rewritten

LEMMA DispatchingShape ==
  ASSUME NEW p \in Record, NEW q \in Request
  PROVE  LET t == [p EXCEPT !.requests[q].phase = "dispatching"] IN
         /\ t \in Record /\ t.thread = p.thread /\ t.run = p.run /\ t.status = p.status /\ t.superseded = p.superseded
         /\ t.stops = p.stops /\ Alike(p, t) /\ (\A y \in Request : t.requests[y].outcome = p.requests[y].outcome)
         /\ t.requests[q].phase = "dispatching" /\ \A y \in Request \ {q} : t.requests[y] = p.requests[y]
<1> DEFINE x == [p.requests[q] EXCEPT !.phase = "dispatching"]
           t == [p EXCEPT !.requests = [p.requests EXCEPT ![q] = x]]
<1>1. [p EXCEPT !.requests[q].phase = "dispatching"] = t
  BY Zenon
<1>2. p.requests[q] \in Receipt
  BY DEF Record
<1>3. x \in Receipt /\ x.run = p.requests[q].run /\ x.status = p.requests[q].status /\ x.outcome = p.requests[q].outcome
      /\ x.phase = "dispatching"
  BY <1>2 DEF Receipt
<1> HIDE DEF x
<1>4. Replaces(p, t, q, x)
  BY <1>3, RequestsSet
<1> HIDE DEF t
<1>5. Alike(p, t) /\ \A y \in Request : t.requests[y].outcome = p.requests[y].outcome
  BY <1>3, <1>4 DEF Replaces, Alike
<1> QED
  BY <1>1, <1>3, <1>4, <1>5 DEF Replaces

LEMMA DispatchShows == ASSUME Types, Inv, Shows, Dispatch PROVE Shows'
<1> DEFINE q == call.request
           t == [task EXCEPT !.requests[q].phase = "dispatching"]
           w == [call EXCEPT !.phase = "waiting"]
<1>1. call.kind = "send" /\ call.phase = "dispatch" /\ task' = t /\ UNCHANGED <<live, reader, turns, events>>
  BY DEF Dispatch, Types, Phases
<1>2. q \in Request /\ task.thread
  BY <1>1, Sending
<1>3. t \in Record /\ t.thread = task.thread /\ t.run = task.run /\ t.status = task.status /\ Alike(task, t)
  BY <1>2, Kept, DispatchingShape
<1>4. Stored(t) /\ call' \in {w, Settling("rejected")}
  BY StoredBy DEF Dispatch
<1>5. w.kind = "send" /\ w.phase = "waiting" /\ w.snapshot = call.snapshot
  BY <1>1, Kept DEF CallType
<1>6. Settling("rejected").kind = "send" /\ Settling("rejected").phase = "settle" /\ Settling("rejected").answer = "rejected"
      /\ Settling("rejected").snapshot = call.snapshot
  BY <1>1, Kept, SettlingFields
<1> HIDE DEF t, w
<1>7. call'.kind = "send" /\ call'.phase # "create" /\ call'.snapshot = call.snapshot /\ OkTrue(call')
  BY <1>4, <1>5, <1>6 DEF OkTrue
<1>8. Faithful(t)
  <2>1. Was(t.run, t.status)
    BY <1>3, ShowsFacts DEF Faithful
  <2> QED
    BY <1>3, <2>1, ShowsFacts, WasAlike
<1>9. Made(t) /\ Made(task)
  BY <1>2, <1>3 DEF Made
<1> QED
  BY <1>1, <1>2, <1>3, <1>4, <1>7, <1>8, <1>9, ShowsFacts, Rewritten

LEMMA BackShape ==
  ASSUME NEW t \in Record, NEW q \in Request
  PROVE  LET s == [t EXCEPT !.activity = "", !.requests[q] = NoReceipt] IN
         Replaces(t, s, q, NoReceipt) /\ NoReceipt.run = 0 /\ NoReceipt.outcome = "none"
<1> DEFINE e == [t EXCEPT !.activity = ""]
           s == [e EXCEPT !.requests = [e.requests EXCEPT ![q] = NoReceipt]]
<1>1. [t EXCEPT !.activity = "", !.requests[q] = NoReceipt] = s
  BY Zenon
<1>2. /\ e \in Record /\ e.thread = t.thread /\ e.run = t.run /\ e.status = t.status /\ e.superseded = t.superseded
      /\ e.requests = t.requests /\ e.stops = t.stops
  BY ActivityShape
<1> HIDE DEF e
<1>3. NoReceipt \in Receipt
  BY ReceiptMade DEF Outcome
<1>4. Replaces(e, s, q, NoReceipt)
  BY <1>2, <1>3, RequestsSet
<1> HIDE DEF s
<1>5. Replaces(t, s, q, NoReceipt)
  BY <1>2, <1>4 DEF Replaces
<1>6. NoReceipt.run = 0 /\ NoReceipt.outcome = "none"
  BY DEF NoReceipt
<1> QED
  BY <1>1, <1>5, <1>6

LEMMA PrepareShows == ASSUME Types, Inv, Shows, Prepare PROVE Shows'
<1> DEFINE q == call.request
           steer == task.status = "working"
           t == Prepared(q, steer)
           back == [task EXCEPT !.activity = "", !.requests[q] = NoReceipt]
           d == [call EXCEPT !.steer = steer, !.run = IF steer THEN live.run ELSE 0,
                             !.phase = IF steer \/ q = Start THEN "dispatch" ELSE "resume"]
<1>1. call.kind = "send" /\ call.phase = "prepare" /\ UNCHANGED <<live, reader, turns, wire, events>>
  BY DEF Prepare, Types, Phases
<1>2. q \in Request /\ task.thread
  BY <1>1, Sending
<1>3. \/ call' = NoCall /\ task' = task /\ disk' = disk
      \/ Saved(t) /\ task' = t /\ call' = d
      \/ Lost(t) /\ call' = NoCall /\ task' = back
  BY DEF Prepare
<1>4. t \in Record /\ t.thread = task.thread /\ Faithful(t)
  BY <1>2, PreparedShape, PreparedFaithful
<1>5. back \in Record /\ back.thread = task.thread /\ Faithful(back)
  <2>1. Replaces(task, back, q, NoReceipt) /\ NoReceipt.run = 0
    BY <1>2, Kept, BackShape
  <2> HIDE DEF back
  <2>2. Was(back.run, back.status)
    BY <2>1, ShowsFacts DEF Replaces, Faithful
  <2>3. Faithful(back)
    BY <1>2, <2>1, <2>2, ShowsFacts, ReplacedFaithful DEF Replaces
  <2> QED
    BY <2>1, <2>3 DEF Replaces
<1>6. d.kind = "send" /\ d.phase \in {"dispatch", "resume"} /\ d.snapshot = call.snapshot
  <2> DEFINE n == IF steer THEN live.run ELSE 0
             ph == IF steer \/ q = Start THEN "dispatch" ELSE "resume"
  <2>1. ph \in {"dispatch", "resume"} /\ d = [call EXCEPT !.steer = steer, !.run = n, !.phase = ph]
    OBVIOUS
  <2> HIDE DEF n, ph, d, steer, q
  <2> QED
    BY <1>1, <2>1, Kept DEF CallType
<1> HIDE DEF t, back, d
<1>7. Made(task) /\ Made(t) /\ Made(back)
  BY <1>2, <1>4, <1>5 DEF Made
<1>8. task' \in {task, t, back} /\ Faithful(task') /\ (Made(task') <=> Made(task)) /\ task'.thread = task.thread
  BY <1>3, <1>4, <1>5, <1>7, ShowsFacts
<1>9. call'.phase # "create" /\ Saw(call'.snapshot) /\ OkTrue(call')
  BY <1>3, <1>6, ShowsFacts DEF OkTrue
<1>10. Stored(t)
  BY <1>3, StoredBy
<1> QED
  BY <1>1, <1>2, <1>4, <1>7, <1>8, <1>9, <1>10, ShowsFacts, Rewritten

LEMMA SettleShows == ASSUME Types, Inv, Shows, Settle PROVE Shows'
<1> DEFINE q == call.request
           k == call.run
<1>1. /\ call.kind = "send" /\ call.phase = "settle" /\ call' = NoCall /\ UNCHANGED <<turns, wire, events>>
      /\ call.answer \in {"ok", "rejected", "lost"} /\ Stored(task')
  <2>1. call.answer \in {"ok", "rejected", "lost"}
    BY Kept DEF Settle, CallType, Phases
  <2> QED
    BY <2>1, StoredBy DEF Settle
<1>2. q \in Request /\ (call.answer = "ok" => k \in Turn /\ k \in Carries(q) /\ k <= Len(turns))
  <2>1. q \in Request /\ (call.answer = "ok" => k \in Turn)
    BY <1>1, Sending
  <2>2. call.answer = "ok" => k \in Carries(q)
    BY <1>1 DEF Shows, Witnessed
  <2>3. k \in Carries(q) => k <= Len(turns)
    BY Length DEF Carries, Types
  <2> QED
    BY <2>1, <2>2, <2>3
<1>3. Made(task)
  BY <1>1 DEF Shows, Born
<1>4. task' \in Record /\ task'.thread = task.thread /\ Faithful(task') /\ Made(task')
  <2>1. CASE call.answer = "ok"
    <3>1. task' = Accepted(q, k)
      BY <2>1 DEF Settle
    <3>2. Faithful(Accepted(q, k))
      BY <1>2, <2>1, AcceptedFaithful
    <3>3. Resolves(task, Accepted(q, k), q, "accepted")
      BY <1>2, <2>1, Kept, AcceptedResolves
    <3> HIDE DEF q, k
    <3>4. task' \in Record /\ task'.thread = task.thread /\ task'.requests[q].outcome = "accepted"
          /\ \A x \in Request \ {q} : task'.requests[x] = task.requests[x]
      BY <3>1, <3>3 DEF Resolves
    <3>5. Made(task')
      BY <1>3, <3>4, Constants DEF Made
    <3> QED
      BY <3>1, <3>2, <3>4, <3>5
  <2>2. CASE call.answer = "rejected"
    <3>1. task' = Refused(q)
      BY <2>2 DEF Settle
    <3>2. Faithful(Refused(q))
      BY <1>2, RefusedFaithful
    <3>3. /\ Refused(q) \in Record /\ Refused(q).thread = task.thread /\ Refused(q).requests[q].outcome \in Answers
          /\ \A x \in Request \ {q} : Refused(q).requests[x] = task.requests[x]
      BY <1>2, Kept, RefusedShape
    <3> HIDE DEF q
    <3>4. Made(task')
      BY <1>3, <3>1, <3>3, Constants DEF Made, Answers
    <3> QED
      BY <3>1, <3>2, <3>3, <3>4
  <2>3. CASE call.answer = "lost"
    BY <1>3, <2>3, ShowsFacts DEF Settle
  <2> QED
    BY <1>1, <2>1, <2>2, <2>3
<1>5. LiveTrue(live')
  <2>1. PICK n, w : live' = [live EXCEPT !.run = n, !.watching = w] /\ (n = live.run \/ (call.answer = "ok" /\ n = k))
    <3> DEFINE t == CASE call.answer = "ok" -> Accepted(call.request, call.run)
                      [] call.answer = "rejected" -> Refused(call.request)
                      [] call.answer = "lost" -> task
               begun == call.answer = "ok" /\ task.run \in {0, k} \cup task.superseded
                        /\ k \notin live.terminals /\ t.status \notin Final
               n == IF begun THEN k ELSE live.run
               w == live.watching \/ call.answer # "ok"
    <3>1. n = live.run \/ (call.answer = "ok" /\ n = k)
      OBVIOUS
    <3>2. live' = [live EXCEPT !.run = n, !.watching = w]
      BY DEF Settle
    <3> HIDE DEF n, w
    <3> QED
      BY <3>1, <3>2
  <2>2. live'.ended = live.ended /\ live'.run = n
    BY <2>1, Kept DEF LiveType
  <2> QED
    BY <1>2, <2>1, <2>2, Kept, ShowsFacts, LiveSet
<1>6. Saw(reader'.snapshot)
  <2>1. CASE reader' = reader
    BY <2>1, ShowsFacts
  <2>2. CASE reader' = [Idle EXCEPT !.phase = "reading", !.request = task'.pending, !.run = task'.run]
    <3>1. reader'.snapshot = Idle.snapshot
      BY <2>2 DEF Idle
    <3> QED
      BY <3>1, ShowsFacts
  <2> QED
    BY <2>1, <2>2 DEF Settle
<1> QED
  BY <1>1, <1>3, <1>4, <1>5, <1>6, ShowsFacts, Rewritten

LEMMA StartWorkShows == ASSUME Types, Inv, Shows, StartWork PROVE Shows'
<1> DEFINE x == [outcome |-> "unknown", phase |-> "creating", status |-> "unknown", run |-> 0]
           t == [NoTask EXCEPT !.requests[Start] = x]
           c == [NoCall EXCEPT !.kind = "send", !.phase = "create", !.request = Start]
<1>1. [NoReceipt EXCEPT !.outcome = "unknown", !.phase = "creating"] = x /\ x \in Receipt /\ NoReceipt \in Receipt
  BY ReceiptMade DEF Outcome
<1>2. /\ (Saved(t) /\ task' = t /\ call' = c) \/ (Lost(t) /\ task' = task /\ call' = call)
      /\ call = NoCall /\ UNCHANGED <<live, reader, turns, events>>
  BY <1>1 DEF StartWork
<1>3. x.outcome = "unknown" /\ x.run = 0 /\ NoReceipt.run = 0
  BY DEF NoReceipt
<1> HIDE DEF x
<1>4. /\ t \in Record /\ t.thread = FALSE /\ t.run = 0 /\ t.requests[Start] = x
      /\ \A q \in Request \ {Start} : t.requests[q] = NoReceipt
  <2>1. NoTask.run = 0
    BY DEF NoTask
  <2> QED
    BY <1>1, <2>1, NoTaskType, Constants DEF Record
<1> HIDE DEF t
<1>5. Faithful(t) /\ Made(t)
  <2>1. \A q \in Request : t.requests[q].run = 0
    BY <1>3, <1>4
  <2>2. Faithful(t)
    BY <1>4, <2>1, ShowsFacts, WasNone DEF Faithful
  <2> QED
    BY <1>3, <1>4, <2>2 DEF Made
<1>6. ~Made(task) /\ turns = <<>>
  <2>1. ~Made(task)
    BY DEF StartWork, Exists, Made
  <2> QED
    BY <2>1 DEF Shows, Born
<1>7. c.kind = "send" /\ c.phase = "create" /\ c.snapshot = NoCall.snapshot
  BY DEF NoCall
<1> HIDE DEF c
<1>8. Saw(call'.snapshot) /\ OkTrue(call') /\ LiveTrue(live') /\ Saw(reader'.snapshot) /\ events' = events
  BY <1>2, <1>7, ShowsFacts DEF OkTrue
<1>9. CASE Saved(t) /\ task' = t /\ call' = c
  <2>1. Made(disk') /\ Stored(t)
    BY <1>4, <1>5, <1>9, MadeFile DEF Saved, Stored
  <2> QED
    BY <1>2, <1>4, <1>5, <1>6, <1>7, <1>8, <1>9, <2>1, Seen
<1>10. CASE Lost(t) /\ task' = task /\ call' = call
  <2>1. Stored(t) /\ Faithful(task') /\ ~Made(task')
    BY <1>6, <1>10, StoredBy, ShowsFacts
  <2>2. call'.kind # "send" /\ call'.phase # "create"
    BY <1>2, <1>10, ShowsFacts
  <2> QED
    BY <1>2, <1>4, <1>5, <1>6, <1>8, <2>1, <2>2, Seen
<1> QED
  BY <1>2, <1>9, <1>10

LEMMA ThreadShape ==
  ASSUME NEW t \in Record
  PROVE  LET s == [t EXCEPT !.thread = TRUE] IN
         /\ s \in Record /\ s.thread = TRUE /\ s.run = t.run /\ s.status = t.status /\ s.superseded = t.superseded
         /\ s.requests = t.requests /\ s.stops = t.stops /\ s.pending = t.pending
BY DEF Record

LEMMA ThreadStartedShows == ASSUME Types, Inv, Shows, ThreadStarted PROVE Shows'
<1> DEFINE t == [task EXCEPT !.thread = TRUE]
           c == [call EXCEPT !.phase = "prepare"]
<1>1. call.kind = "send" /\ call.phase = "create" /\ task' = t /\ Stored(t) /\ call' \in {c, NoCall}
      /\ UNCHANGED <<reader, turns, wire, events>>
  BY StoredBy DEF ThreadStarted, Types, Phases
<1>2. t \in Record /\ t.thread = TRUE /\ t.run = task.run /\ t.status = task.status /\ t.requests = task.requests
  BY Kept, ThreadShape
<1> HIDE DEF t
<1>3. Faithful(t) /\ Made(t) /\ Made(task)
  BY <1>1, <1>2, ShowsFacts, SameFaithful DEF Made, Shows, Born
<1>4. c.kind = "send" /\ c.phase = "prepare" /\ c.snapshot = call.snapshot
  BY <1>1, Kept, Phased
<1> HIDE DEF c
<1>5. call'.phase # "create" /\ Saw(call'.snapshot) /\ OkTrue(call')
  BY <1>1, <1>4, ShowsFacts DEF OkTrue
<1>6. live'.ended = live.ended /\ live'.run = live.run
  BY Kept DEF ThreadStarted, LiveType
<1>7. LiveTrue(live')
  BY <1>6, ShowsFacts, LiveSet, Kept
<1> QED
  BY <1>1, <1>2, <1>3, <1>5, <1>7, ShowsFacts, Rewritten

(* A refusal to create the thread.                                         *)
LEMMA NotStartedShape ==
  ASSUME NEW p \in Record
  PROVE  LET t == [p EXCEPT !.status = "failed", !.requests[Start].outcome = "rejected", !.requests[Start].phase = "settled"] IN
         /\ t \in Record /\ t.thread = p.thread /\ t.run = p.run /\ t.superseded = p.superseded /\ t.stops = p.stops
         /\ t.requests[Start].outcome = "rejected" /\ \A q \in Request \ {Start} : t.requests[q] = p.requests[q]
         /\ Alike(p, t) /\ t.status = "failed"
<1> DEFINE u == [p EXCEPT !.status = "failed"]
           x == [p.requests[Start] EXCEPT !.outcome = "rejected"]
           y == [x EXCEPT !.phase = "settled"]
           v == [u EXCEPT !.requests = [u.requests EXCEPT ![Start] = x]]
           w == [v EXCEPT !.requests = [v.requests EXCEPT ![Start] = y]]
<1>1. /\ u \in Record /\ u.thread = p.thread /\ u.run = p.run /\ u.superseded = p.superseded
      /\ u.requests = p.requests /\ u.stops = p.stops /\ u.status = "failed"
  BY StatusShape DEF Status, Final
<1>2. p.requests[Start] \in Receipt /\ Start \in Request
  BY Constants DEF Record
<1>3. x \in Receipt /\ x.run = p.requests[Start].run /\ x.status = p.requests[Start].status /\ x.outcome = "rejected"
  BY <1>2 DEF Receipt, Outcome
<1>4. y \in Receipt /\ y.run = p.requests[Start].run /\ y.status = p.requests[Start].status /\ y.outcome = "rejected"
  <2> HIDE DEF x
  <2> QED
    BY <1>3 DEF Receipt
<1>5. Replaces(u, v, Start, x)
  <2> HIDE DEF u, x
  <2> QED
    BY <1>1, <1>2, <1>3, RequestsSet
<1>6. Replaces(v, w, Start, y)
  <2> HIDE DEF v, y
  <2>1. v \in Record
    BY <1>5 DEF Replaces
  <2> QED
    BY <1>2, <1>4, <2>1, RequestsSet
<1>7. [p EXCEPT !.status = "failed", !.requests[Start].outcome = "rejected", !.requests[Start].phase = "settled"] = w
  <2> DEFINE v0 == [u EXCEPT !.requests[Start].outcome = "rejected"]
             w0 == [v0 EXCEPT !.requests[Start].phase = "settled"]
  <2>1. [p EXCEPT !.status = "failed", !.requests[Start].outcome = "rejected", !.requests[Start].phase = "settled"] = w0
    BY Zenon
  <2>2. v0 = [u EXCEPT !.requests = [u.requests EXCEPT ![Start] = [u.requests[Start] EXCEPT !.outcome = "rejected"]]]
    BY Zenon
  <2>3. v0 = v
    BY <1>1, <2>2
  <2>4. w0 = [v0 EXCEPT !.requests = [v0.requests EXCEPT ![Start] = [v0.requests[Start] EXCEPT !.phase = "settled"]]]
    BY Zenon
  <2> HIDE DEF v0, w0, v
  <2>5. v.requests[Start] = x
    BY <1>5 DEF Replaces
  <2>6. w0 = w
    BY <2>3, <2>4, <2>5
  <2> QED
    BY <2>1, <2>6
<1> HIDE DEF u, v, w, x, y
<1>8. /\ w \in Record /\ w.thread = p.thread /\ w.run = p.run /\ w.superseded = p.superseded /\ w.stops = p.stops
      /\ w.status = "failed" /\ w.requests[Start] = y /\ \A q \in Request \ {Start} : w.requests[q] = p.requests[q]
  BY <1>1, <1>5, <1>6 DEF Replaces
<1>9. Alike(p, w)
  BY <1>4, <1>8 DEF Alike
<1> QED
  BY <1>4, <1>7, <1>8, <1>9

LEMMA ThreadNotStartedShows == ASSUME Types, Inv, Shows, ThreadNotStarted PROVE Shows'
<1> DEFINE t == [task EXCEPT !.status = "failed", !.requests[Start].outcome = "rejected", !.requests[Start].phase = "settled"]
<1>1. call.kind = "send" /\ call.phase = "create" /\ call' = NoCall /\ UNCHANGED <<live, reader, turns, events>>
      /\ task' \in {task, t} /\ Stored(task')
  BY StoredBy DEF ThreadNotStarted, Types, Phases
<1>2. t \in Record /\ t.thread = task.thread /\ t.run = task.run /\ Alike(task, t) /\ t.requests[Start].outcome = "rejected"
  BY Kept, NotStartedShape
<1> HIDE DEF t
<1>3. Made(task) /\ turns = <<>>
  BY <1>1 DEF Shows, Born
<1>4. task.run = 0
  <2>1. task.run <= Len(turns)
    BY ShowsFacts DEF Faithful, Was
  <2> QED
    BY <1>3, <2>1, Kept, ShowsFacts, Length
<1>5. Faithful(t) /\ Made(t)
  BY <1>2, <1>4, ShowsFacts, WasNone, WasAlike DEF Made
<1>6. Faithful(task') /\ task' \in Record /\ Made(task')
  BY <1>1, <1>2, <1>3, <1>5, ShowsFacts
<1> QED
  BY <1>1, <1>3, <1>6, ShowsFacts, Rewritten

(***************************************************************************)
(* Restarts and reconnections.                                             *)
(***************************************************************************)
LEMMA Forgotten ==
  ASSUME Types, Inv, Shows, Forget
  PROVE  UNCHANGED turns /\ events' = <<>> /\ LiveTrue(live') /\ Saw(reader'.snapshot)
<1>1. UNCHANGED turns /\ events' = <<>> /\ live' = NewLive /\ reader' = Idle
  BY DEF Forget
<1>2. LiveTrue(NewLive)
  BY Constants DEF LiveTrue, NewLive
<1> QED
  BY <1>1, <1>2, ShowsFacts

LEMMA RestartShows == ASSUME Types, Inv, Shows, Types', Restart PROVE Shows'
<1> DEFINE t == SettlePrepared(disk)
           q == disk.pending
<1>1. task' = t /\ call' = NoCall /\ disk' = disk /\ UNCHANGED turns /\ events' = <<>> /\ LiveTrue(live') /\ Saw(reader'.snapshot)
  BY Forgotten DEF Restart
<1>2. disk \in Record /\ Faithful(disk) /\ Thread
  BY ShowsFacts
<1>3. Faithful(t) /\ (Made(t) <=> Made(disk))
  <2>1. Faithful(t)
    BY <1>2, PreparedBackFaithful
  <2>2. \/ t = disk
        \/ /\ q \in Request /\ t.thread = disk.thread /\ disk.requests[q].outcome = "unknown" /\ t.requests[q].outcome = "rejected"
           /\ \A y \in Request \ {q} : t.requests[y] = disk.requests[y]
    BY <1>2, PreparedBackShape
  <2> HIDE DEF t, q
  <2>3. Made(t) <=> Made(disk)
    BY <2>2, Constants DEF Made
  <2> QED
    BY <2>1, <2>3
<1> HIDE DEF t
<1>4. (Made(task) => Made(task')) /\ (Made(task') => Made(disk')) /\ Faithful(task') /\ Stored(disk)
  BY <1>1, <1>3 DEF Shows, Born, Stored
<1> QED
  BY <1>1, <1>2, <1>4, ShowsFacts, Seen

LEMMA ReconnectShows == ASSUME Types, Inv, Shows, Reconnect PROVE Shows'
<1> DEFINE t == [task EXCEPT !.activity = ""]
<1>1. /\ task' = t /\ disk' = disk /\ UNCHANGED turns /\ events' = <<>> /\ LiveTrue(live') /\ Saw(reader'.snapshot)
      /\ call' = CASE call.kind = "read" -> NoCall
                   [] call.phase = "waiting" -> Settling("lost")
                   [] call.phase \in {"resume", "dispatch"} -> Settling("rejected")
                   [] OTHER -> call
  BY Forgotten DEF Reconnect
<1>2. t \in Record /\ t.thread = task.thread /\ t.run = task.run /\ t.status = task.status /\ t.requests = task.requests
  BY Kept, ActivityShape
<1> HIDE DEF t
<1>3. Faithful(t) /\ (Made(t) <=> Made(task))
  BY <1>2, ShowsFacts, SameFaithful DEF Made
<1>4. \/ call' = NoCall
      \/ call' = call
      \/ call' = Settling("lost")
      \/ call' = Settling("rejected")
  BY <1>1
<1>5. /\ OkTrue(call') /\ Saw(call'.snapshot) /\ (call'.kind = "send" => call.kind = "send")
      /\ call'.phase = "create" => call.phase = "create"
  <2>1. \A a \in {"lost", "rejected"} : /\ Settling(a).kind = call.kind /\ Settling(a).phase = "settle" /\ Settling(a).answer = a
                                        /\ Settling(a).snapshot = call.snapshot
    BY Kept, SettlingFields
  <2> QED
    BY <1>4, <2>1, ShowsFacts DEF OkTrue
<1>6. Stored(t)
  BY <1>1 DEF Stored
<1> QED
  BY <1>1, <1>2, <1>3, <1>5, <1>6, Rewritten

(***************************************************************************)
(* The native thread moves on: ends stay what they were.                   *)
(***************************************************************************)
Will(k, status) == k <= Len(turns') /\ (k # 0 /\ status \in Final => turns'[k].status = status)
Grown == /\ Len(turns) <= Len(turns')
         /\ \A k \in 1..Len(turns) : turns[k].status \in Final => turns'[k].status = turns[k].status

LEMMA WasStays ==
  ASSUME Thread, Thread', Grown, NEW k \in Run, NEW st, Was(k, st)
  PROVE  Will(k, st)
<1>1. Len(turns) \in Nat /\ Len(turns') \in Nat /\ k \in Nat
  BY Length DEF Thread
<1>2. k # 0 => k \in 1..Len(turns)
  BY <1>1 DEF Was
<1> QED
  BY <1>1, <1>2 DEF Was, Will, Grown

LEMMA NativeShows ==
  ASSUME Types, Inv, Shows, Types', Grown, Made(task), UNCHANGED <<task, disk, live, reader>>,
         \A q \in Request : Carries(q) \subseteq Carries(q)',
         \A i \in 1..Len(events') : Will(events'[i].turn, events'[i].status),
         call'.snapshot = call.snapshot, call'.phase # "create",
         call' = call \/ OkTrue(call)'
  PROVE  Shows'
<1>1. Thread /\ Thread' /\ task \in Record /\ disk \in Record /\ live \in LiveType /\ call \in CallType /\ reader \in ReaderType
  BY DEF Types
<1>2. \A k \in Run : \A st : Was(k, st) => Will(k, st)
  BY <1>1, WasStays
<1>3. Faithful(task)'
  <2>1. Will(task.run, task.status)
    BY <1>1, <1>2 DEF Shows, Faithful, Record
  <2>2. \A q \in Request : Will(task.requests[q].run, task.requests[q].status)
    BY <1>1, <1>2 DEF Shows, Faithful, Record, Receipt
  <2> QED
    BY <2>1, <2>2 DEF Faithful, Was, Will
<1>4. Faithful(disk)'
  <2>1. Will(disk.run, disk.status)
    BY <1>1, <1>2 DEF Shows, Faithful, Record
  <2>2. \A q \in Request : Will(disk.requests[q].run, disk.requests[q].status)
    BY <1>1, <1>2 DEF Shows, Faithful, Record, Receipt
  <2> QED
    BY <2>1, <2>2 DEF Faithful, Was, Will
<1>5. Witnessed'
  <2>1. \A k \in Turn : live.ended[k] # "none" => Will(k, live.ended[k])
    BY <1>2, Constants DEF Shows, Witnessed
  <2>2. live.run \in Turn => live.run <= Len(turns')
    <3>1. Len(turns) \in Nat /\ Len(turns') \in Nat /\ \A k \in Turn : k \in Nat
      BY <1>1, Length, Constants DEF Thread, Turn
    <3> QED
      BY <3>1 DEF Shows, Witnessed, Grown
  <2>3. Will(call.snapshot.run, call.snapshot.status) /\ Will(reader.snapshot.run, reader.snapshot.status)
    BY <1>1, <1>2 DEF Shows, Witnessed, CallType, ReaderType, Snapshot
  <2>4. (call.kind = "send" /\ call.phase = "settle" /\ call.answer = "ok" => call.run \in Carries(call.request))'
    <3>1. CASE call' = call
      <4> SUFFICES ASSUME call.kind = "send", call.phase = "settle", call.answer = "ok"
                   PROVE  (call.run \in Carries(call.request))'
        BY <3>1
      <4>1. call.request \in Request /\ call.run \in Carries(call.request)
        BY Sending DEF Shows, Witnessed
      <4> DEFINE q == call.request
      <4>2. q \in Request /\ q = call.request
        BY <4>1
      <4> HIDE DEF q
      <4>3. Carries(q) \subseteq {k \in 1..Len(turns') : q \in turns'[k].inputs}
        BY <4>2 DEF Carries
      <4>4. call.run \in {k \in 1..Len(turns') : q \in turns'[k].inputs}
        BY <4>1, <4>2, <4>3
      <4> QED
        BY <3>1, <4>2, <4>4 DEF Carries
    <3>2. CASE OkTrue(call)'
      BY <3>2 DEF OkTrue
    <3> QED
      BY <3>1, <3>2
  <2> QED
    BY <2>1, <2>2, <2>3, <2>4 DEF Witnessed, Was, Will
<1>6. Born'
  BY DEF Shows, Born, Made
<1> QED
  BY <1>3, <1>4, <1>5, <1>6 DEF Shows

LEMMA NotifySeen ==
  ASSUME Types, Types', Shows, Grown, NEW k \in Turn, NEW st \in TurnStatus, Notify(k, st), k <= Len(turns'),
         st \in Final => turns'[k].status = st
  PROVE  \A i \in 1..Len(events') : Will(events'[i].turn, events'[i].status)
<1>1. events \in Seq(EventType) /\ Len(events) \in Nat /\ Thread /\ Thread'
  BY DEF Types
<1>2. \A i \in 1..Len(events) : Will(events[i].turn, events[i].status)
  <2> TAKE i \in 1..Len(events)
  <2>1. Was(events[i].turn, events[i].status)
    BY DEF Shows, Witnessed
  <2>2. events[i] \in EventType
    BY <1>1
  <2>3. events[i].turn \in Run
    BY <2>2, Constants DEF EventType
  <2> QED
    BY <1>1, <2>1, <2>3, WasStays
<1>3. CASE events' = events
  BY <1>2, <1>3
<1>4. CASE events' = Append(events, [turn |-> k, status |-> st])
  <2>1. [turn |-> k, status |-> st] \in EventType
    BY DEF EventType
  <2>2. Len(events') = Len(events) + 1 /\ \A i \in 1..Len(events) : events'[i] = events[i]
    BY <1>1, <1>4, <2>1
  <2>3. events'[Len(events) + 1] = [turn |-> k, status |-> st]
    BY <1>1, <1>4, <2>1
  <2>4. Will(events'[Len(events) + 1].turn, events'[Len(events) + 1].status)
    BY <2>3 DEF Will
  <2>5. \A i \in 1..Len(events') : i \in 1..Len(events) \/ i = Len(events) + 1
    BY <1>1, <2>2
  <2> QED
    BY <1>2, <2>2, <2>4, <2>5
<1> QED
  BY <1>3, <1>4 DEF Notify

LEMMA BegunGrown ==
  ASSUME Types, NEW inputs \in SUBSET Request, Begin(inputs)
  PROVE  /\ Grown /\ Len(turns') = Len(turns) + 1 /\ Len(turns) \in Nat /\ turns'[Len(turns) + 1].status = "inProgress"
         /\ \A k \in 1..Len(turns) : turns'[k] = turns[k]
<1> DEFINE r == [status |-> "inProgress", inputs |-> inputs]
           n == Len(turns)
<1>1. turns \in Seq(TurnType) /\ n \in Nat /\ turns' = Append(turns, r)
  BY DEF Types, Thread, Begin
<1>2. r \in TurnType /\ r.status = "inProgress"
  BY DEF TurnType, TurnStatus
<1> HIDE DEF r
<1>3. Len(turns') = n + 1 /\ turns'[n + 1] = r /\ \A k \in 1..n : turns'[k] = turns[k]
  BY <1>1, <1>2
<1> QED
  BY <1>1, <1>2, <1>3 DEF Grown

LEMMA EndedGrown ==
  ASSUME Types, NEW how \in Final, EndTurn(how)
  PROVE  /\ Grown /\ Len(turns') = Len(turns) /\ Len(turns) \in Turn /\ Len(turns) \in 1..Len(turns)
         /\ turns[Len(turns)].status = "inProgress" /\ turns'[Len(turns)].status = how
         /\ \A k \in 1..Len(turns) : k # Len(turns) => turns'[k] = turns[k]
<1> DEFINE n == Len(turns)
<1>1. turns' = [turns EXCEPT ![n].status = how] /\ Busy
  BY DEF EndTurn
<1>2. n \in Turn /\ n \in Nat /\ turns \in Seq(TurnType)
  BY <1>1, LatestFacts DEF Types, Thread
<1>3. n \in 1..n
  BY <1>2 DEF Turn
<1>4. turns[n].status = "inProgress"
  BY <1>1 DEF Busy, Last
<1>5. turns[n] \in TurnType
  BY <1>2, <1>3
<1>6. Len(turns') = n /\ turns'[n].status = how /\ \A k \in 1..n : k # n => turns'[k] = turns[k]
  BY <1>1, <1>2, <1>3, <1>5 DEF TurnType
<1>7. Grown
  BY <1>2, <1>4, <1>6, Working DEF Grown
<1> QED
  BY <1>2, <1>3, <1>4, <1>6, <1>7

(* A task with a request on the wire or with a turn was made.              *)
LEMMA WireMade ==
  ASSUME Types, Inv, Shows, NEW m \in wire
  PROVE  Made(task) /\ call.phase # "create"
<1> DEFINE q == m.request
<1>1. q \in Request /\ Sent(q)
  BY DEF Types, MessageType, Sent
<1>2. task.requests[q].outcome \in {"unknown", "accepted"}
  BY <1>1 DEF Inv, Honest
<1>3. q # Start => task.thread
  BY <1>1, <1>2 DEF Inv, Honest
<1>4. Made(task)
  BY <1>2, <1>3 DEF Made
<1>5. call.phase # "create"
  <2> SUFFICES ASSUME call.phase = "create" PROVE FALSE
    OBVIOUS
  <2>1. call.kind = "send"
    BY DEF Types, Phases
  <2>2. Unsent(call.request) /\ call.request = Start /\ ~task.thread
    BY <2>1 DEF Inv, Calling, Shows, Born
  <2> QED
    BY <1>1, <1>3, <2>2 DEF Unsent
<1> QED
  BY <1>4, <1>5

LEMMA TurnsMade ==
  ASSUME Shows, turns # <<>>
  PROVE  Made(task) /\ call.phase # "create"
BY DEF Shows, Born

LEMMA AnswerFields ==
  ASSUME Types, Inv, NEW m \in wire, NEW a \in {"ok", "rejected"}, NEW k \in Run, Answer(m, a, k)
  PROVE  \/ call' = call
         \/ /\ call.kind = "send" /\ call'.kind = "send" /\ call'.phase = "settle" /\ call'.answer = a
            /\ call'.request = m.request /\ call'.snapshot = call.snapshot /\ (a = "ok" => call'.run = k)
<1>1. CASE call.kind = "send" /\ call.phase = "waiting" /\ call.request = m.request
  <2> DEFINE c == Settling(a)
             n == IF a = "ok" THEN k ELSE c.run
             d == [c EXCEPT !.run = n]
  <2>1. /\ c \in CallType /\ c.kind = call.kind /\ c.request = call.request
        /\ c.phase = "settle" /\ c.answer = a /\ c.snapshot = call.snapshot /\ c.run \in Run
    BY Kept, SettlingFields DEF CallType
  <2>2. call' = d
    BY <1>1 DEF Answer
  <2> HIDE DEF c
  <2>3. d.kind = "send" /\ d.request = call.request /\ d.phase = "settle" /\ d.answer = a /\ d.snapshot = call.snapshot /\ d.run = n
    BY <1>1, <2>1 DEF CallType
  <2>4. a = "ok" => n = k
    OBVIOUS
  <2> HIDE DEF d, n
  <2> QED
    BY <1>1, <2>2, <2>3, <2>4
<1>2. CASE ~(call.kind = "send" /\ call.phase = "waiting" /\ call.request = m.request)
  BY <1>2 DEF Answer
<1> QED
  BY <1>1, <1>2

LEMMA AnsweredTrue ==
  ASSUME Types, Inv, NEW m \in wire, NEW k \in Run, Answer(m, "ok", k), call.phase # "create", k \in Carries(m.request)'
  PROVE  call'.snapshot = call.snapshot /\ call'.phase # "create" /\ (call' = call \/ OkTrue(call)')
<1>1. CASE call' = call
  BY <1>1
<1>2. CASE /\ call.kind = "send" /\ call'.kind = "send" /\ call'.phase = "settle" /\ call'.answer = "ok"
           /\ call'.request = m.request /\ call'.snapshot = call.snapshot /\ call'.run = k
  <2> DEFINE q == call'.request
  <2>1. call'.run \in Carries(m.request)' /\ q = m.request
    BY <1>2
  <2>2. OkTrue(call)'
    BY <1>2, <2>1 DEF OkTrue, Carries
  <2> QED
    BY <1>2, <2>2
<1> QED
  BY <1>1, <1>2, AnswerFields

LEMMA NativeStartsShows == ASSUME Types, Inv, Shows, Types', NEW m, NativeStarts(m) PROVE Shows'
<1> DEFINE n == Len(turns) + 1
<1>1. m \in wire /\ Begin({m.request}) /\ Answer(m, "ok", n) /\ UNCHANGED <<task, disk, live, reader>>
  BY DEF NativeStarts
<1>2. m.request \in Request
  BY <1>1 DEF Types, MessageType
<1>3. /\ n \in Turn
      /\ \A q \in Request : Carries(q)' = IF q \in {m.request} THEN Carries(q) \cup {n} ELSE Carries(q)
  BY <1>1, <1>2, Begun
<1>4. Grown /\ Len(turns') = n /\ turns'[n].status = "inProgress" /\ n <= Len(turns')
  BY <1>1, <1>2, BegunGrown
<1>5. Notify(n, "inProgress") /\ "inProgress" \in TurnStatus
  BY <1>1 DEF Begin, TurnStatus
<1> HIDE DEF n
<1>6. Made(task) /\ call.phase # "create" /\ n \in Run
  BY <1>1, <1>3, WireMade, Constants
<1>7. n \in Carries(m.request)'
  BY <1>2, <1>3
<1>8. call'.snapshot = call.snapshot /\ call'.phase # "create" /\ (call' = call \/ OkTrue(call)')
  BY <1>1, <1>6, <1>7, AnsweredTrue
<1>9. \A i \in 1..Len(events') : Will(events'[i].turn, events'[i].status)
  BY <1>3, <1>4, <1>5, Working, NotifySeen
<1> QED
  BY <1>1, <1>3, <1>4, <1>6, <1>8, <1>9, NativeShows

LEMMA ContinueShows == ASSUME Types, Inv, Shows, Types', Continue PROVE Shows'
<1> DEFINE n == Len(turns) + 1
<1>1. Begin({}) /\ task.thread /\ UNCHANGED <<task, disk, live, reader, call>> /\ {} \in SUBSET Request
  BY DEF Continue
<1>2. n \in Turn /\ \A q \in Request : Carries(q)' = Carries(q)
  BY <1>1, Begun
<1>3. Grown /\ Len(turns') = n /\ turns'[n].status = "inProgress" /\ n <= Len(turns')
  BY <1>1, BegunGrown
<1>4. Notify(n, "inProgress") /\ "inProgress" \in TurnStatus
  BY <1>1 DEF Begin, TurnStatus
<1> HIDE DEF n
<1>5. Made(task) /\ call.phase # "create"
  BY <1>1 DEF Made, Shows, Born
<1>6. \A i \in 1..Len(events') : Will(events'[i].turn, events'[i].status)
  BY <1>2, <1>3, <1>4, Working, NotifySeen
<1> QED
  BY <1>1, <1>2, <1>3, <1>5, <1>6, NativeShows

LEMMA EndTurnShows ==
  ASSUME Types, Inv, Shows, Types', NEW how \in Final, EndTurn(how), UNCHANGED <<task, disk, live, reader>>,
         call'.snapshot = call.snapshot, call' = call \/ call'.kind = "stop", call'.phase # "create"
  PROVE  Shows'
<1> DEFINE n == Len(turns)
<1>1. n \in Turn /\ n \in 1..Len(turns) /\ Grown /\ Len(turns') = n /\ turns'[n].status = how
  BY EndedGrown
<1>2. \A q \in Request : Carries(q)' = Carries(q)
  BY TurnEnded
<1>3. Notify(n, how) /\ how \in TurnStatus /\ turns # <<>>
  BY DEF EndTurn, TurnStatus, Busy
<1>4. Made(task) /\ n <= Len(turns')
  BY <1>1, <1>3, TurnsMade, Length DEF Types
<1> HIDE DEF n
<1>5. \A i \in 1..Len(events') : Will(events'[i].turn, events'[i].status)
  BY <1>1, <1>3, <1>4, NotifySeen
<1>6. call' = call \/ OkTrue(call)'
  BY DEF OkTrue
<1> QED
  BY <1>1, <1>2, <1>4, <1>5, <1>6, NativeShows

LEMMA TurnEndsShows == ASSUME Types, Inv, Shows, Types', TurnEnds PROVE Shows'
<1>1. PICK how \in Final : EndTurn(how)
  BY ConstantsOK DEF TurnEnds, Final
<1>2. call.phase # "create"
  BY <1>1, TurnsMade DEF EndTurn, Busy
<1> QED
  BY <1>1, <1>2, EndTurnShows DEF TurnEnds

LEMMA InterruptShows == ASSUME Types, Inv, Shows, Types', Interrupt PROVE Shows'
<1>1. PICK a \in {"ok", "rejected", "lost"} : call' = Settling(a)
  BY DEF Interrupt
<1>2. call'.snapshot = call.snapshot /\ call'.kind = "stop" /\ call'.phase = "settle"
  BY <1>1, Kept, SettlingFields DEF Interrupt
<1>3. CASE EndTurn("interrupted")
  BY <1>2, <1>3, EndTurnShows DEF Final, Interrupt
<1>4. CASE UNCHANGED <<turns, events>>
  <2>1. UNCHANGED <<task, disk, turns, live, reader, events>>
    BY <1>4 DEF Interrupt
  <2>2. LiveTrue(live') /\ Saw(call'.snapshot) /\ Saw(reader'.snapshot)
    BY <1>2, <2>1, ShowsFacts
  <2>3. OkTrue(call')
    BY <1>2 DEF OkTrue
  <2> QED
    BY <1>2, <2>1, <2>2, <2>3, Looked
<1> QED
  BY <1>3, <1>4 DEF Interrupt

LEMMA NativeRefusesShows == ASSUME Types, Inv, Shows, NEW m, NativeRefuses(m) PROVE Shows'
<1>1. m \in wire /\ Answer(m, "rejected", 0) /\ UNCHANGED <<task, disk, live, reader, turns, events>> /\ 0 \in Run
  BY Constants DEF NativeRefuses
<1>2. \/ call' = call
      \/ /\ call.kind = "send" /\ call'.kind = "send" /\ call'.phase = "settle" /\ call'.answer = "rejected"
         /\ call'.snapshot = call.snapshot
  BY <1>1, AnswerFields
<1>3. LiveTrue(live') /\ Saw(call'.snapshot) /\ Saw(reader'.snapshot) /\ OkTrue(call')
  BY <1>1, <1>2, ShowsFacts DEF OkTrue
<1> QED
  BY <1>1, <1>2, <1>3, Looked

LEMMA NativeSteersShows == ASSUME Types, Inv, Shows, Types', NEW m, NativeSteers(m) PROVE Shows'
<1> DEFINE n == m.run
<1>1. /\ m \in wire /\ Busy /\ Len(turns) = n /\ Answer(m, "ok", n) /\ UNCHANGED <<task, disk, live, reader>>
      /\ turns' = [turns EXCEPT ![n].inputs = @ \cup {m.request}] /\ events' = events /\ turns # <<>>
  BY DEF NativeSteers, Busy
<1>2. m.request \in Request
  BY <1>1 DEF Types, MessageType
<1> HIDE DEF n
<1>3. n \in Turn /\ n \in Nat /\ n \in 1..Len(turns) /\ turns \in Seq(TurnType) /\ n \in Run
  <2>1. n \in Turn /\ n \in Nat
    BY <1>1, LatestFacts DEF Types
  <2> QED
    BY <1>1, <2>1, Constants DEF Types, Thread, Turn
<1>4. \A k \in 1..n : turns[k] \in TurnType
  BY <1>1, <1>3
<1>5. Len(turns') = n
  BY <1>1, <1>3
<1>6. /\ \A k \in 1..n : turns'[k].status = turns[k].status /\ turns[k].inputs \subseteq turns'[k].inputs
      /\ turns'[n].inputs = turns[n].inputs \cup {m.request}
  BY <1>1, <1>3, <1>4 DEF TurnType
<1>7. Grown
  BY <1>1, <1>3, <1>5, <1>6 DEF Grown
<1>8. \A q \in Request : Carries(q) \subseteq Carries(q)'
  BY <1>1, <1>5, <1>6 DEF Carries
<1>9. n \in Carries(m.request)'
  BY <1>1, <1>3, <1>5, <1>6 DEF Carries
<1>10. Made(task) /\ call.phase # "create"
  BY <1>1, TurnsMade
<1>11. call'.snapshot = call.snapshot /\ call'.phase # "create" /\ (call' = call \/ OkTrue(call)')
  BY <1>1, <1>3, <1>9, <1>10, AnsweredTrue
<1>12. \A i \in 1..Len(events') : Will(events'[i].turn, events'[i].status)
  <2> SUFFICES ASSUME NEW i \in 1..Len(events) PROVE Will(events[i].turn, events[i].status)
    BY <1>1
  <2>1. Was(events[i].turn, events[i].status)
    BY DEF Shows, Witnessed
  <2>2. events[i] \in EventType /\ Thread /\ Thread'
    BY DEF Types
  <2>3. events[i].turn \in Run
    BY <2>2, Constants DEF EventType
  <2> QED
    BY <1>7, <2>1, <2>2, <2>3, WasStays
<1> QED
  BY <1>1, <1>7, <1>8, <1>10, <1>11, <1>12, NativeShows

(***************************************************************************)
(* The invariant and the theorem.                                          *)
(***************************************************************************)
LEMMA InitShows == Init => Shows
<1> SUFFICES ASSUME Init PROVE Shows
  OBVIOUS
<1>1. task = NoTask /\ disk = NoTask /\ live = NewLive /\ call = NoCall /\ reader = Idle /\ turns = <<>> /\ events = <<>>
  BY DEF Init
<1>2. Len(turns) = 0 /\ Len(events) = 0
  BY <1>1
<1>3. Faithful(NoTask)
  BY <1>2, Constants DEF Faithful, Was, NoTask, NoReceipt
<1>4. Witnessed
  BY <1>1, <1>2, Constants DEF Witnessed, Was, NewLive, NoCall, Idle, NoSnapshot
<1>5. Born
  BY <1>1 DEF Born, NoCall
<1> QED
  BY <1>1, <1>3, <1>4, <1>5 DEF Shows

LEMMA Unchanging == ASSUME Types, Inv, Shows, UNCHANGED vars PROVE Shows'
<1>1. UNCHANGED <<task, disk, live, call, reader, turns, events>>
  BY DEF vars
<1>2. LiveTrue(live') /\ Saw(call'.snapshot) /\ Saw(reader'.snapshot) /\ OkTrue(call')
  BY <1>1, ShowsFacts
<1> QED
  BY <1>1, <1>2, Looked

LEMMA ShowsStep ==
  ASSUME Types, Inv, Shows, Types', [Next]_vars
  PROVE  Shows'
<1>1. CASE StartWork
  BY <1>1, StartWorkShows
<1>2. CASE \E q \in Sends : SendWork(q)
  BY <1>2, SendWorkShows
<1>3. CASE ReadWork \/ StopWork
  BY <1>3, ReadWorkShows, StopWorkShows
<1>4. CASE Progress
  BY <1>4, ThreadStartedShows, ThreadNotStartedShows, PrepareShows, ResumeShows, DispatchShows, AnswerLostShows,
     SettleShows, ReadAnsweredShows, ReadFailedShows, ReadDoneShows, InterruptShows, StopDoneShows DEF Progress
<1>5. CASE Recovery
  BY <1>5, RecoverShows, RecoverAnsweredShows, RecoverDroppedShows, RecoverFailedShows, RecoverDoneShows,
     WatchAnsweredShows, WatchFailedShows, WatchAgainShows, WatchDoneShows DEF Recovery
<1>6. CASE RetryObservations \/ Retire \/ Handle
  BY <1>6, RetryShows, RetireShows, HandleShows
<1>7. CASE Native
  BY <1>7, NativeStartsShows, NativeSteersShows, NativeRefusesShows, ContinueShows, TurnEndsShows DEF Native
<1>8. CASE Restart \/ Reconnect
  BY <1>8, RestartShows, ReconnectShows
<1>9. CASE UNCHANGED vars
  BY <1>9, Unchanging
<1> QED
  BY <1>1, <1>2, <1>3, <1>4, <1>5, <1>6, <1>7, <1>8, <1>9 DEF Next

LEMMA Showing == Spec => [](Types /\ Inv /\ Shows)
<1>1. Init => Types /\ Inv /\ Shows
  BY Initially, InitShows
<1>2. Types /\ Inv /\ Shows /\ [Next]_vars => (Types /\ Inv /\ Shows)'
  BY Stepwise, ShowsStep
<1> QED
  BY <1>1, <1>2, PTL DEF Spec

(* Whenever the task is shown as completed, failed or interrupted at a     *)
(* turn, that turn of the native thread ended that way: no lost answer,    *)
(* failed save, stale read, late notification, restart or other client     *)
(* makes tasks.go show an end that did not happen.                         *)
THEOREM Terminal == Spec => []TerminalTrue
<1>1. Shows => TerminalTrue
  <2> SUFFICES ASSUME Shows, Shown(task).status \in Final, task.run # 0
               PROVE  turns[task.run].status = Shown(task).status
    BY DEF TerminalTrue
  <2>1. Shown(task).status = task.status
    BY Working DEF Shown
  <2>2. Was(task.run, task.status)
    BY DEF Shows, Faithful
  <2> QED
    BY <2>1, <2>2 DEF Was
<1> QED
  BY <1>1, Showing, PTL

(***************************************************************************)
(* Owns: the record and the last turn.                                     *)
(***************************************************************************)
(* Placed, except for what is asked of the turn k.                         *)
Almost(t, k) ==
  /\ t.run \in {0, Len(turns)}
  /\ \A j \in 1..Len(turns) : /\ j < Len(turns) => j \in t.superseded
                              /\ j # k => Past(t, j) \/ \E q \in turns[j].inputs : Open(t, q)
  /\ (\E m \in wire : ~m.steer) => Clear(t)

(* The turn k is found on record, or becomes the task's last turn.         *)
Moves(t, s, k) ==
  /\ s.superseded = t.superseded
  /\ \/ s.run = t.run /\ Past(t, k)
     \/ t.run = 0 /\ s.run = k /\ k = Len(turns) /\ k \notin t.superseded

Advances(t, s) ==
  /\ \A k \in 1..Len(turns) : Past(t, k) => Past(s, k)
  /\ Clear(t) => Clear(s)
  /\ \A q \in Request : Open(s, q) => Open(t, q)

Marks(l, t) == \A k \in l.terminals : k <= Len(turns) /\ Past(t, k)
Reads(z) == \A q \in z.inputs : z.run \in Carries(q)
Begins(c, t) ==
  /\ c.phase = "prepare" => \A p \in Request : Open(t, p) => p = c.request
  /\ c.phase \in {"resume", "dispatch"} /\ ~c.steer => Clear(t)
Stops(c) == c.kind = "stop" =>
  /\ c.run <= Len(turns)
  /\ c.phase = "waiting" /\ c.run = Len(turns) => c.key \in {0, Len(turns)}
  /\ c.phase = "settle" /\ c.answer = "ok" /\ c.key # 0 => c.key <= Len(turns) /\ turns[c.key].status = "interrupted"

LEMMA PlacedAlmost == ASSUME NEW t, NEW k, Placed(t) PROVE Almost(t, k)
BY DEF Placed, Almost

LEMMA AlmostPlaced == ASSUME NEW t, NEW k, Almost(t, k), Past(t, k) PROVE Placed(t)
BY DEF Placed, Almost

LEMMA AdvancesSame ==
  ASSUME NEW t, NEW s, s.run = t.run, s.superseded = t.superseded, \A q \in Request : Open(s, q) => Open(t, q)
  PROVE  Advances(t, s)
BY DEF Advances, Past, Clear

LEMMA AdvancesTwice ==
  ASSUME NEW r, NEW s, NEW t, Advances(r, s), Advances(s, t)
  PROVE  Advances(r, t)
BY DEF Advances

LEMMA MarksStay ==
  ASSUME NEW l, NEW t, NEW s, l.terminals \subseteq Turn, Thread, Marks(l, t), Advances(t, s)
  PROVE  Marks(l, s)
<1> SUFFICES ASSUME NEW k \in l.terminals PROVE k <= Len(turns) /\ Past(s, k)
  BY DEF Marks
<1>1. k \in 1..Len(turns)
  BY Length DEF Marks, Turn
<1> QED
  BY <1>1 DEF Marks, Advances

LEMMA BeginsStay ==
  ASSUME NEW c, NEW t, NEW s, Begins(c, t), Advances(t, s)
  PROVE  Begins(c, s)
BY DEF Begins, Advances

(* A copy that differs in nothing but its thread, activity or status.      *)
LEMMA SameMine ==
  ASSUME NEW t, NEW s, Mine(t), s.run = t.run, s.superseded = t.superseded, s.requests = t.requests, s.stops = t.stops,
         s.status = "working" => t.status = "working"
  PROVE  Mine(s) /\ Advances(t, s)
<1>1. Placed(s)
  BY DEF Mine, Placed, Past, Clear, Open
<1>2. Resumable(s)
  BY DEF Mine, Resumable, Remembered, Clear, Open
<1>3. Stopped(s)
  BY DEF Mine, Stopped
<1>4. Advances(t, s)
  BY DEF Advances, Past, Clear, Open
<1> QED
  BY <1>1, <1>2, <1>3, <1>4 DEF Mine

LEMMA MineStays ==
  ASSUME NEW t, Mine(t), UNCHANGED turns, (\E m \in wire' : ~m.steer) => Clear(t)
  PROVE  (task' = t => Mine(task)') /\ (disk' = t => Mine(disk)')
<1>1. ASSUME task' = t PROVE Mine(task)'
  <2>1. Placed(task)'
    BY <1>1 DEF Mine, Placed, Past, Clear, Open
  <2>2. Resumable(task)'
    BY <1>1 DEF Mine, Resumable, Remembered, Clear, Open, Carries
  <2>3. Stopped(task)'
    BY <1>1 DEF Mine, Stopped
  <2> QED
    BY <2>1, <2>2, <2>3 DEF Mine
<1>2. ASSUME disk' = t PROVE Mine(disk)'
  <2>1. Placed(disk)'
    BY <1>2 DEF Mine, Placed, Past, Clear, Open
  <2>2. Resumable(disk)'
    BY <1>2 DEF Mine, Resumable, Remembered, Clear, Open, Carries
  <2>3. Stopped(disk)'
    BY <1>2 DEF Mine, Stopped
  <2> QED
    BY <2>1, <2>2, <2>3 DEF Mine
<1> QED
  BY <1>1, <1>2

LEMMA OwnsFacts ==
  ASSUME Types, Inv, Shows, Owns
  PROVE  /\ Mine(task) /\ Mine(disk) /\ Begins(call, task) /\ Marks(live, task) /\ Stops(call)
         /\ Reads(call.snapshot) /\ Reads(reader.snapshot) /\ Reads(NoSnapshot) /\ Reads(NoCall.snapshot)
         /\ Reads(Idle.snapshot) /\ Reads(Latest) /\ NoCall.kind = "none" /\ NoCall.phase = "none" /\ Stops(NoCall)
         /\ (\A t : Begins(NoCall, t)) /\ Advances(task, task)
         /\ live.terminals \subseteq Turn /\ task \in Record /\ disk \in Record /\ Thread
<1>1. /\ Mine(task) /\ Mine(disk) /\ Begins(call, task) /\ Marks(live, task) /\ Stops(call)
      /\ Reads(call.snapshot) /\ Reads(reader.snapshot)
  BY DEF Owns, Starting, Noted, Stopping, Looking, Begins, Marks, Stops, Reads
<1>2. NoCall.kind = "none" /\ NoCall.phase = "none" /\ NoCall.snapshot = NoSnapshot /\ Idle.snapshot = NoSnapshot
      /\ NoSnapshot.inputs = {}
  BY DEF NoCall, Idle, NoSnapshot
<1>3. Stops(NoCall) /\ (\A t : Begins(NoCall, t)) /\ Reads(NoSnapshot)
  BY <1>2 DEF Stops, Begins, Reads
<1>4. live.terminals \subseteq Turn /\ task \in Record /\ disk \in Record /\ Thread
  BY DEF Types, LiveType
<1>5. Reads(Latest)
  <2>1. CASE turns = <<>>
    <3>1. Latest.inputs = {}
      BY <2>1 DEF Latest
    <3> QED
      BY <3>1 DEF Reads
  <2>2. CASE turns # <<>>
    <3>1. Latest.run = Len(turns) /\ Latest.inputs = turns[Len(turns)].inputs
      BY <2>2 DEF Latest, Last
    <3>2. Len(turns) \in 1..Len(turns)
      BY <1>4, <2>2, Length
    <3> QED
      BY <3>1, <3>2 DEF Reads, Carries
  <2> QED
    BY <2>1, <2>2
<1>6. Advances(task, task)
  BY DEF Advances
<1> QED
  BY <1>1, <1>2, <1>3, <1>4, <1>5, <1>6

(* The native thread is left alone.                                        *)
LEMMA Carried ==
  ASSUME Types, Inv, Shows, Owns, UNCHANGED turns, Mine(task'), Mine(disk'),
         (\E m \in wire' : ~m.steer) => Clear(task') /\ Clear(disk'),
         Begins(call', task'), Marks(live', task'), Stops(call'), Reads(call'.snapshot), Reads(reader'.snapshot)
  PROVE  Owns'
<1>1. Mine(task)' /\ Mine(disk)'
  BY MineStays
<1>2. Starting'
  BY DEF Begins, Starting, Open, Clear
<1>3. Noted'
  BY DEF Marks, Noted, Past
<1>4. Stopping'
  BY DEF Stops, Stopping
<1>5. Looking'
  BY DEF Reads, Looking, Carries
<1> QED
  BY <1>1, <1>2, <1>3, <1>4, <1>5 DEF Owns

LEMMA FileMine == ASSUME NEW t \in Record, Mine(t) PROVE Mine(File(t)) /\ (Clear(t) => Clear(File(t)))
<1>1. Mine(File(t)) /\ Advances(t, File(t))
  BY FileShape, SameMine
<1> QED
  BY <1>1 DEF Advances

LEMMA Continued ==
  ASSUME Types, Inv, Shows, Owns, UNCHANGED turns, wire' \subseteq wire, Mine(task'), NEW t \in Record, Mine(t), Stored(t),
         Begins(call', task'), Marks(live', task'), Stops(call'), Reads(call'.snapshot), Reads(reader'.snapshot)
  PROVE  Owns'
<1>1. Mine(disk')
  BY FileMine DEF Stored, Owns
<1>2. (\E m \in wire' : ~m.steer) => Clear(task') /\ Clear(disk')
  BY <1>1 DEF Mine, Placed
<1> QED
  BY <1>1, <1>2, Carried

(* The record only advances.                                               *)
LEMMA Advanced ==
  ASSUME Types, Inv, Shows, Owns, UNCHANGED turns, wire' \subseteq wire, Mine(task'), Advances(task, task'),
         NEW t \in Record, Mine(t), Stored(t), call' = call \/ call'.phase \notin {"prepare", "resume", "dispatch"},
         live'.terminals \subseteq live.terminals \/ Marks(live', task'),
         Stops(call'), Reads(call'.snapshot), Reads(reader'.snapshot)
  PROVE  Owns'
<1>1. Begins(call', task')
  <2>1. CASE call' = call
    BY <2>1, OwnsFacts, BeginsStay
  <2>2. CASE call'.phase \notin {"prepare", "resume", "dispatch"}
    BY <2>2 DEF Begins
  <2> QED
    BY <2>1, <2>2
<1>2. Marks(live', task')
  <2>1. Marks(live, task')
    BY OwnsFacts, MarksStay
  <2> QED
    BY <2>1 DEF Marks
<1> QED
  BY <1>1, <1>2, Continued

LEMMA Overlooked ==
  ASSUME Types, Inv, Shows, Owns, UNCHANGED <<task, disk, turns>>, wire' \subseteq wire,
         call' = call \/ call'.phase \notin {"prepare", "resume", "dispatch"}, live'.terminals \subseteq live.terminals,
         Stops(call'), Reads(call'.snapshot), Reads(reader'.snapshot)
  PROVE  Owns'
<1>1. Mine(task') /\ Advances(task, task') /\ task \in Record /\ Mine(task) /\ Stored(task)
  BY OwnsFacts DEF Stored
<1> QED
  BY <1>1, Advanced

(***************************************************************************)
(* What a turn that is observed does.                                      *)
(***************************************************************************)
LEMMA MovesMine ==
  ASSUME Types, Inv, NEW t \in Record, NEW s \in Record, NEW k \in 1..Len(turns), k \in Turn,
         Almost(t, k), Resumable(t), Stopped(t), Moves(t, s, k), Alike(t, s), s.stops = t.stops,
         NEW inputs \in SUBSET Request, inputs \subseteq turns[k].inputs, Acked(t, s, inputs),
         s.status = "working" => s.run # 0
  PROVE  Mine(s) /\ Advances(t, s) /\ Past(s, k)
<1>1. Len(turns) \in Nat /\ 0 \notin Turn /\ k # 0
  BY Length, Constants DEF Types
<1>2. \A q \in Request : s.requests[q] = t.requests[q] \/ (q \in inputs /\ s.requests[q].outcome = "accepted")
  BY DEF Acked
<1>3. \A q \in Request : Open(s, q) => Open(t, q) /\ s.requests[q] = t.requests[q]
  BY <1>2 DEF Open
<1>4. \A q \in inputs : k \in Carries(q)
  BY DEF Carries
<1>5. \A j \in 1..Len(turns) : j # k => \A q \in turns[j].inputs : q \notin inputs
  <2> SUFFICES ASSUME NEW j \in 1..Len(turns), j # k, NEW q \in turns[j].inputs, q \in inputs PROVE FALSE
    OBVIOUS
  <2>1. j \in Carries(q) /\ k \in Carries(q) /\ q \in Request
    BY <1>4 DEF Carries
  <2> QED
    BY <2>1 DEF Inv, Wired
<1>6. \A j \in 1..Len(turns) : Past(t, j) => Past(s, j)
  BY <1>1 DEF Moves, Past
<1>7. Past(s, k)
  BY DEF Moves, Past
<1>8. Clear(t) => Clear(s)
  BY DEF Clear, Moves
<1>9. s.run \in {0, Len(turns)}
  BY DEF Moves, Almost
<1>10. ASSUME NEW j \in 1..Len(turns)
       PROVE  /\ j < Len(turns) => j \in s.superseded
              /\ Past(s, j) \/ \E q \in turns[j].inputs : Open(s, q)
  <2>1. j < Len(turns) => j \in s.superseded
    BY DEF Moves, Almost
  <2>2. CASE j = k
    BY <1>7, <2>1, <2>2
  <2>3. CASE j # k
    <3>1. Past(t, j) \/ \E q \in turns[j].inputs : Open(t, q)
      BY <2>3 DEF Almost
    <3>2. turns[j].inputs \subseteq Request
      <4>1. turns[j] \in TurnType
        BY DEF Types, Thread
      <4> QED
        BY <4>1 DEF TurnType
    <3>3. ASSUME NEW q \in turns[j].inputs, Open(t, q) PROVE Open(s, q)
      <4>1. s.requests[q] = t.requests[q]
        BY <1>2, <1>5, <2>3, <3>2
      <4> QED
        BY <3>3, <4>1 DEF Open
    <3> QED
      BY <1>6, <2>1, <3>1, <3>3
  <2> QED
    BY <2>2, <2>3
<1>11. Placed(s)
  BY <1>8, <1>9, <1>10 DEF Placed, Almost
<1>12. ASSUME NEW q \in Request PROVE Remembered(s, q)
  <2>1. s.requests[q].run = t.requests[q].run /\ s.requests[q].status = t.requests[q].status
    BY DEF Alike
  <2>2. Remembered(t, q)
    BY DEF Resumable
  <2>3. Carries(q) = {} => s.requests[q] = t.requests[q]
    BY <1>2, <1>4
  <2>4. t.run # 0 => s.run = t.run
    BY DEF Moves
  <2>5. Open(s, q) /\ s.requests[q].phase = "prepared" => Clear(s) \/ (s.run # 0 /\ s.run = s.requests[q].run)
    BY <1>3, <1>8, <2>2, <2>4 DEF Remembered
  <2>6. Carries(q) = {} /\ s.requests[q].run # 0 => Open(s, q) /\ s.requests[q].run = Len(turns)
    BY <2>2, <2>3 DEF Remembered, Open
  <2> QED
    BY <2>1, <2>2, <2>5, <2>6 DEF Remembered
<1>13. Resumable(s)
  BY <1>3, <1>12 DEF Resumable
<1>14. Stopped(s)
  BY DEF Stopped
<1> QED
  BY <1>3, <1>6, <1>7, <1>8, <1>11, <1>13, <1>14 DEF Mine, Advances

LEMMA ObserveMoves ==
  ASSUME Types, NEW t \in Record, NEW s, NEW k \in 1..Len(turns), k \in Turn, NEW status, NEW history,
         Almost(t, k), Resumable(t), Marks(live, t), ObservedAs(t, s, k, status, history)
  PROVE  Moves(t, s, k) /\ (s.status = "working" => s.run # 0)
<1>1. Len(turns) \in Nat /\ 0 \notin Turn /\ k # 0 /\ k \in Nat
  BY Length, Constants DEF Types
<1>2. k \notin t.superseded => k = Len(turns)
  <2>1. ~(k < Len(turns)) => k = Len(turns)
    BY <1>1
  <2> QED
    BY <2>1 DEF Almost
<1>3. t.status = "working" => t.run # 0
  BY DEF Resumable
<1>4. t.run \in {0, Len(turns)}
  BY DEF Almost
<1>5. CASE k \in t.superseded /\ s.run = t.run /\ s.status = t.status /\ s.superseded = t.superseded
  BY <1>3, <1>5 DEF Moves, Past
<1>6. CASE /\ k \notin t.superseded /\ s.run = (IF t.run = 0 THEN k ELSE t.run)
           /\ s.status = "unknown" /\ s.superseded = t.superseded
  BY <1>2, <1>4, <1>6 DEF Moves, Past
<1>7. CASE k \notin t.superseded /\ t.run = k /\ s.run = k /\ s.superseded = t.superseded
  BY <1>1, <1>7 DEF Moves, Past
<1>8. CASE k \notin t.superseded /\ t.run # k /\ k \in live.terminals
  BY <1>8 DEF Marks, Past
<1>9. CASE /\ k \notin t.superseded /\ t.run # k /\ k \notin live.terminals /\ s.run = k
           /\ s.superseded = IF ~history /\ status = "inProgress" /\ t.run # 0 THEN t.superseded \cup {t.run} ELSE t.superseded
  BY <1>1, <1>2, <1>4, <1>9 DEF Moves
<1> QED
  BY <1>5, <1>6, <1>7, <1>8, <1>9 DEF ObservedAs

LEMMA ObserveMine ==
  ASSUME Types, Inv, NEW t \in Record, NEW k \in 1..Len(turns), k \in Turn, Almost(t, k), Resumable(t), Stopped(t), Marks(live, t),
         NEW status \in {"none"} \cup TurnStatus, NEW history, NEW inputs \in SUBSET Request, inputs \subseteq turns[k].inputs
  PROVE  LET s == Observe(t, k, status, inputs, history) IN
         s \in Record /\ Mine(s) /\ Advances(t, s) /\ Past(s, k) /\ Marks(live, s)
<1> DEFINE s == Observe(t, k, status, inputs, history)
<1>1. s \in Record /\ s.stops = t.stops /\ Alike(t, s) /\ Acked(t, s, inputs) /\ ObservedAs(t, s, k, status, history)
  BY ObserveShape
<1> HIDE DEF s
<1>2. Moves(t, s, k) /\ (s.status = "working" => s.run # 0)
  BY <1>1, ObserveMoves
<1>3. Mine(s) /\ Advances(t, s) /\ Past(s, k)
  BY <1>1, <1>2, MovesMine
<1>4. live.terminals \subseteq Turn /\ Thread
  BY DEF Types, LiveType
<1>5. Marks(live, s)
  BY <1>3, <1>4, MarksStay
<1> QED
  BY <1>1, <1>3, <1>5 DEF s

LEMMA LatestMine ==
  ASSUME Types, Inv, Shows, Owns, NEW z \in Snapshot, Saw(z), Reads(z)
  PROVE  LET s == ObserveLatest(task, z) IN
         s \in Record /\ Mine(s) /\ Advances(task, s) /\ (z.run # 0 => z.run <= Len(turns) /\ Past(s, z.run))
<1> DEFINE s == ObserveLatest(task, z)
           o == Observe(task, z.run, z.status, z.inputs, TRUE)
<1>1. CASE z.run = 0
  <2>1. s = task
    BY <1>1 DEF ObserveLatest
  <2> HIDE DEF s
  <2> QED
    BY <1>1, <2>1, OwnsFacts DEF s
<1>2. CASE z.run # 0
  <2>1. /\ z.run \in Turn /\ z.status \in {"none"} \cup TurnStatus /\ z.inputs \in SUBSET Request
        /\ o \in Record /\ o.stops = task.stops /\ Alike(task, o) /\ Acked(task, o, z.inputs)
        /\ ObservedAs(task, o, z.run, z.status, TRUE)
        /\ s \in Record /\ s.run = o.run /\ s.status = o.status /\ s.requests = o.requests /\ s.stops = o.stops
        /\ s.superseded = IF o.run # task.run /\ task.run # 0 THEN o.superseded \cup {task.run} ELSE o.superseded
    BY <1>2, OwnsFacts, ObserveLatestShape
  <2> HIDE DEF s, o
  <2>2. z.run \in 1..Len(turns)
    <3>1. z.run <= Len(turns) /\ Len(turns) \in Nat /\ z.run \in Nat /\ z.run # 0
      BY <1>2, <2>1, OwnsFacts, Length, Constants DEF Saw, Was
    <3> QED
      BY <3>1
  <2>3. Almost(task, z.run) /\ Resumable(task) /\ Stopped(task) /\ Marks(live, task)
    BY OwnsFacts, PlacedAlmost DEF Mine
  <2>4. Moves(task, o, z.run) /\ (o.status = "working" => o.run # 0)
    BY <2>1, <2>2, <2>3, OwnsFacts, ObserveMoves
  <2>5. o.run # task.run => task.run = 0
    BY <2>4 DEF Moves
  <2>6. Moves(task, s, z.run) /\ (s.status = "working" => s.run # 0) /\ s.stops = task.stops
    BY <2>1, <2>4, <2>5 DEF Moves, Past
  <2>7. Alike(task, s) /\ Acked(task, s, z.inputs)
    BY <2>1 DEF Alike, Acked
  <2>8. z.inputs \subseteq turns[z.run].inputs
    BY DEF Reads, Carries
  <2>9. Mine(s) /\ Advances(task, s) /\ Past(s, z.run)
    BY <2>1, <2>2, <2>3, <2>6, <2>7, <2>8, OwnsFacts, MovesMine
  <2> QED
    BY <2>1, <2>2, <2>9 DEF s
<1> QED
  BY <1>1, <1>2

LEMMA QuietMine ==
  ASSUME Types, Inv, Shows, Owns, NEW z \in Snapshot, Saw(z), Reads(z)
  PROVE  LET s == Quiet(ObserveLatest(task, z), z) IN
         s \in Record /\ Mine(s) /\ Advances(task, s) /\ (z.run # 0 => z.run <= Len(turns) /\ Past(s, z.run))
<1> DEFINE u == ObserveLatest(task, z)
           s == Quiet(u, z)
<1>1. u \in Record /\ Mine(u) /\ Advances(task, u) /\ (z.run # 0 => z.run <= Len(turns) /\ Past(u, z.run))
  BY LatestMine
<1> HIDE DEF u
<1>2. /\ s \in Record /\ s.run = u.run /\ s.superseded = u.superseded /\ s.requests = u.requests /\ s.stops = u.stops
      /\ s.status \in {u.status, "unknown"}
  BY <1>1, QuietShape
<1> HIDE DEF s
<1>3. Mine(s) /\ Advances(u, s)
  BY <1>1, <1>2, SameMine
<1>4. Advances(task, s)
  BY <1>1, <1>3, AdvancesTwice
<1>5. z.run # 0 => z.run <= Len(turns) /\ Past(s, z.run)
  BY <1>1, <1>2 DEF Past
<1> QED
  BY <1>2, <1>3, <1>4, <1>5 DEF s, u

LEMMA MarksRead ==
  ASSUME Types, Inv, Shows, Owns, NEW z \in Snapshot, NEW t, Advances(task, t), z.run # 0 => z.run <= Len(turns) /\ Past(t, z.run),
         NEW l, l.terminals = Terminals(z)
  PROVE  Marks(l, t)
<1>1. Marks(live, t)
  BY OwnsFacts, MarksStay
<1>2. z.status \in Final => z.run # 0
  BY Working DEF Snapshot
<1> QED
  BY <1>1, <1>2 DEF Terminals, Marks

(***************************************************************************)
(* Steps that leave the record alone, reads and failures.                  *)
(***************************************************************************)
LEMMA RecoverOwns == ASSUME Types, Inv, Shows, Owns, Recover PROVE Owns'
<1>1. live'.terminals = live.terminals
  BY Kept DEF Recover, LiveType
<1>2. reader'.snapshot = Idle.snapshot
  BY DEF Recover, Idle
<1> QED
  BY <1>1, <1>2, OwnsFacts, Overlooked DEF Recover

LEMMA RetryOwns == ASSUME Types, Inv, Shows, Owns, RetryObservations PROVE Owns'
<1>1. live'.terminals = live.terminals
  BY Kept DEF RetryObservations, LiveType
<1> QED
  BY <1>1, OwnsFacts, Overlooked DEF RetryObservations

LEMMA RetireOwns == ASSUME Types, Inv, Shows, Owns, Retire PROVE Owns'
<1>1. live'.terminals = live.terminals
  BY Kept DEF Retire, LiveType
<1> QED
  BY <1>1, OwnsFacts, Overlooked DEF Retire

LEMMA RecoverAnsweredOwns == ASSUME Types, Inv, Shows, Owns, RecoverAnswered PROVE Owns'
<1>1. reader'.snapshot = Latest
  BY Kept DEF RecoverAnswered, ReaderType
<1> QED
  BY <1>1, OwnsFacts, Overlooked DEF RecoverAnswered

LEMMA RecoverDroppedOwns == ASSUME Types, Inv, Shows, Owns, RecoverDropped PROVE Owns'
<1>1. live'.terminals = live.terminals
  BY Kept DEF RecoverDropped, LiveType
<1> QED
  BY <1>1, OwnsFacts, Overlooked DEF RecoverDropped

LEMMA WatchAnsweredOwns == ASSUME Types, Inv, Shows, Owns, WatchAnswered PROVE Owns'
<1>1. reader'.snapshot \in {NoSnapshot, Latest}
  BY Kept DEF WatchAnswered, ReaderType
<1> QED
  BY <1>1, OwnsFacts, Overlooked DEF WatchAnswered

LEMMA WatchAgainOwns == ASSUME Types, Inv, Shows, Owns, WatchAgain PROVE Owns'
<1>1. live'.terminals = live.terminals
  BY Kept DEF WatchAgain, LiveType
<1>2. reader'.snapshot = Idle.snapshot
  BY DEF WatchAgain, Idle
<1> QED
  BY <1>1, <1>2, OwnsFacts, Overlooked DEF WatchAgain

LEMMA AnswerLostOwns == ASSUME Types, Inv, Shows, Owns, AnswerLost PROVE Owns'
<1>1. /\ call'.kind = call.kind /\ call'.phase = "settle" /\ call'.answer = "lost" /\ call'.snapshot = call.snapshot
      /\ call'.run = call.run
  BY Kept, SettlingFields DEF AnswerLost
<1>2. Stops(call')
  BY <1>1, OwnsFacts DEF Stops
<1> QED
  BY <1>1, <1>2, OwnsFacts, Overlooked DEF AnswerLost

LEMMA ReadWorkOwns == ASSUME Types, Inv, Shows, Owns, ReadWork PROVE Owns'
<1>1. call'.kind = "read" /\ call'.phase = "reading" /\ call'.snapshot = NoCall.snapshot
  BY DEF ReadWork, NoCall
<1>2. Stops(call')
  BY <1>1 DEF Stops
<1> QED
  BY <1>1, <1>2, OwnsFacts, Overlooked DEF ReadWork

LEMMA ReadAnsweredOwns == ASSUME Types, Inv, Shows, Owns, ReadAnswered PROVE Owns'
<1>1. call'.kind = "read" /\ call'.phase = "read" /\ call'.snapshot = Latest
  BY Kept DEF ReadAnswered, CallType, Phases
<1>2. Stops(call')
  BY <1>1 DEF Stops
<1> QED
  BY <1>1, <1>2, OwnsFacts, Overlooked DEF ReadAnswered

LEMMA ReadFailedOwns == ASSUME Types, Inv, Shows, Owns, ReadFailed PROVE Owns'
<1>1. call' = NoCall /\ UNCHANGED <<disk, live, reader, turns, wire>> /\ task' \in {task, [task EXCEPT !.activity = ""]}
  BY DEF ReadFailed
<1>2. Mine(task') /\ Advances(task, task')
  <2> DEFINE t == [task EXCEPT !.activity = ""]
  <2>1. t.run = task.run /\ t.superseded = task.superseded /\ t.requests = task.requests /\ t.stops = task.stops /\ t.status = task.status
    BY OwnsFacts, ActivityShape
  <2> HIDE DEF t
  <2>2. Mine(t) /\ Advances(task, t)
    BY <2>1, OwnsFacts, SameMine
  <2> QED
    BY <1>1, <2>2, OwnsFacts DEF t
<1>3. Stored(task)
  BY <1>1 DEF Stored
<1> QED
  BY <1>1, <1>2, <1>3, OwnsFacts, Advanced

(* A copy that differs in activity or status is written.                   *)
LEMMA Touched ==
  ASSUME Types, Inv, Shows, Owns, UNCHANGED <<turns, wire, call>>, Stored(task'), task' \in Record,
         task'.run = task.run, task'.superseded = task.superseded, task'.requests = task.requests, task'.stops = task.stops,
         task'.status = "working" => task.status = "working", live'.terminals = live.terminals, Reads(reader'.snapshot)
  PROVE  Owns'
<1>1. Mine(task') /\ Advances(task, task')
  BY OwnsFacts, SameMine
<1> QED
  BY <1>1, OwnsFacts, Advanced

LEMMA RecoverFailedOwns == ASSUME Types, Inv, Shows, Owns, RecoverFailed PROVE Owns'
<1>1. live'.terminals = live.terminals
  BY Kept DEF RecoverFailed, LiveType
<1>2. /\ task' \in Record /\ task'.run = task.run /\ task'.superseded = task.superseded /\ task'.requests = task.requests
      /\ task'.stops = task.stops /\ task'.status = task.status
  BY OwnsFacts, ActivityShape DEF RecoverFailed
<1>3. Stored(task') /\ Reads(reader'.snapshot)
  BY StoredBy, OwnsFacts DEF RecoverFailed
<1> QED
  BY <1>1, <1>2, <1>3, Touched DEF RecoverFailed

LEMMA WatchFailedOwns == ASSUME Types, Inv, Shows, Owns, WatchFailed PROVE Owns'
<1>1. live'.terminals = live.terminals
  BY Kept DEF WatchFailed, LiveType
<1>2. /\ task' \in Record /\ task'.run = task.run /\ task'.superseded = task.superseded /\ task'.requests = task.requests
      /\ task'.stops = task.stops /\ task'.status = "unknown"
  <2>1. "unknown" \in Status
    BY DEF Status
  <2> QED
    BY <2>1, OwnsFacts, StatusShape DEF WatchFailed
<1>3. Stored(task') /\ Reads(reader'.snapshot)
  BY StoredBy, OwnsFacts DEF WatchFailed
<1> QED
  BY <1>1, <1>2, <1>3, Touched DEF WatchFailed

LEMMA RecoverDoneOwns == ASSUME Types, Inv, Shows, Owns, RecoverDone PROVE Owns'
<1> DEFINE z == reader.snapshot
<1>1. z \in Snapshot /\ Saw(z) /\ Reads(z) /\ live \in LiveType
  BY Kept, ShowsFacts, OwnsFacts
<1>2. Stored(task') /\ task' = Quiet(ObserveLatest(task, z), z) /\ UNCHANGED <<call, turns, wire>>
  BY StoredBy DEF RecoverDone
<1>3. task' \in Record /\ Mine(task') /\ Advances(task, task') /\ (z.run # 0 => z.run <= Len(turns) /\ Past(task', z.run))
  BY <1>1, <1>2, QuietMine
<1>4. live'.terminals = Terminals(z)
  <2>1. PICK n, w :
          live' = [live EXCEPT !.ended = EndedIn(z), !.terminals = Terminals(z), !.failed = FALSE, !.watching = w, !.run = n]
    <3> DEFINE t == Quiet(ObserveLatest(task, z), z)
               active == z.status = "inProgress"
               n == IF ~active THEN Absent ELSE IF z.run \notin t.superseded THEN z.run ELSE IF live.run = Absent THEN 0 ELSE live.run
               w == live.subscribed \/ active
    <3>1. live' = [live EXCEPT !.ended = EndedIn(z), !.terminals = Terminals(z), !.failed = FALSE, !.watching = w, !.run = n]
      BY Zenon DEF RecoverDone
    <3> HIDE DEF n, w
    <3> QED
      BY <3>1
  <2> HIDE DEF z
  <2> QED
    BY <1>1, <2>1 DEF LiveType
<1>5. Marks(live', task')
  BY <1>1, <1>3, <1>4, MarksRead
<1>6. Reads(reader'.snapshot)
  <2>1. [Idle EXCEPT !.phase = "resuming"].snapshot = Idle.snapshot
    BY Kept DEF ReaderType
  <2> QED
    BY <2>1, OwnsFacts DEF RecoverDone
<1> QED
  BY <1>2, <1>3, <1>5, <1>6, OwnsFacts, Advanced

LEMMA WatchDoneOwns == ASSUME Types, Inv, Shows, Owns, WatchDone PROVE Owns'
<1> DEFINE z == reader.snapshot
           seen == ObserveLatest(task, z)
           u == [seen EXCEPT !.status = "unknown"]
<1>1. z \in Snapshot /\ Saw(z) /\ Reads(z) /\ live \in LiveType
  BY Kept, ShowsFacts, OwnsFacts
<1>2. seen \in Record /\ Mine(seen) /\ Advances(task, seen) /\ (z.run # 0 => z.run <= Len(turns) /\ Past(seen, z.run))
  BY <1>1, LatestMine
<1>3. task' \in {seen, u} /\ Stored(task') /\ UNCHANGED <<call, turns, wire>>
  BY StoredBy DEF WatchDone
<1> HIDE DEF seen
<1>4. "unknown" \in Status
  BY DEF Status
<1>5. /\ u \in Record /\ u.run = seen.run /\ u.superseded = seen.superseded /\ u.requests = seen.requests /\ u.stops = seen.stops
      /\ u.status = "unknown"
  BY <1>2, <1>4, StatusShape
<1> HIDE DEF u
<1>6. Mine(u) /\ Advances(task, u) /\ (z.run # 0 => Past(u, z.run))
  <2>1. Mine(u) /\ Advances(seen, u)
    BY <1>2, <1>5, SameMine
  <2> QED
    BY <1>2, <1>5, <2>1, AdvancesTwice DEF Past
<1>7. task' \in Record /\ Mine(task') /\ Advances(task, task') /\ (z.run # 0 => z.run <= Len(turns) /\ Past(task', z.run))
  BY <1>2, <1>3, <1>5, <1>6
<1>8. live'.terminals = Terminals(z)
  <2>1. PICK n :
          live' = [live EXCEPT !.ended = EndedIn(z), !.terminals = Terminals(z), !.subscribed = TRUE, !.failed = FALSE, !.run = n]
    <3> DEFINE active == z.status = "inProgress"
               s1 == ObserveLatest(task, z)
               t == IF ~active /\ s1.status = "working" THEN [s1 EXCEPT !.status = "unknown"] ELSE s1
               n == IF ~active THEN Absent ELSE IF z.run \notin live.terminals \cup t.superseded THEN z.run ELSE 0
    <3>1. live' = [live EXCEPT !.ended = EndedIn(z), !.terminals = Terminals(z), !.subscribed = TRUE, !.failed = FALSE, !.run = n]
      BY Zenon DEF WatchDone
    <3> HIDE DEF n
    <3> QED
      BY <3>1
  <2> HIDE DEF z
  <2> QED
    BY <1>1, <2>1 DEF LiveType
<1>9. Marks(live', task')
  BY <1>1, <1>7, <1>8, MarksRead
<1>10. Reads(reader'.snapshot)
  BY OwnsFacts DEF WatchDone
<1> QED
  BY <1>3, <1>7, <1>9, <1>10, OwnsFacts, Advanced

LEMMA ReadDoneOwns == ASSUME Types, Inv, Shows, Owns, ReadDone PROVE Owns'
<1> DEFINE z == call.snapshot
<1>1. z \in Snapshot /\ Saw(z) /\ Reads(z) /\ live \in LiveType
  BY Kept, ShowsFacts, OwnsFacts
<1>2. call' = NoCall /\ UNCHANGED <<reader, turns, wire>>
  BY DEF ReadDone
<1>3. CASE ~Current(call)
  BY <1>2, <1>3, OwnsFacts, Overlooked DEF ReadDone
<1>4. CASE Current(call)
  <2>1. Stored(task') /\ task' = Quiet(ObserveLatest(task, z), z)
    BY <1>4, StoredBy DEF ReadDone
  <2>2. task' \in Record /\ Mine(task') /\ Advances(task, task')
    BY <1>1, <2>1, QuietMine
  <2>3. live'.terminals = live.terminals
    <3>1. live' = [live EXCEPT !.ended = EndedIn(z), !.failed = FALSE,
                               !.run = IF z.status = "inProgress" THEN live.run ELSE Absent]
      BY <1>4 DEF ReadDone
    <3> HIDE DEF z
    <3> QED
      BY <1>1, <3>1 DEF LiveType
  <2> QED
    BY <1>2, <2>1, <2>2, <2>3, OwnsFacts, Advanced
<1> QED
  BY <1>3, <1>4

(***************************************************************************)
(* Stops and notifications.                                                *)
(***************************************************************************)
LEMMA StopMine ==
  ASSUME Types, Inv, Shows, Owns, NEW k \in Run, NEW o \in Outcome,
         o = "accepted" /\ k # 0 => k <= Len(turns) /\ turns[k].status = "interrupted"
  PROVE  LET t == [task EXCEPT !.stops[k] = o] IN t \in Record /\ Mine(t) /\ Advances(task, t)
<1> DEFINE t == [task EXCEPT !.stops[k] = o]
<1>1. /\ t \in Record /\ t.run = task.run /\ t.status = task.status /\ t.superseded = task.superseded
      /\ t.requests = task.requests /\ t.stops[k] = o /\ \A j \in Run \ {k} : t.stops[j] = task.stops[j]
  BY OwnsFacts, StopShape
<1> HIDE DEF t
<1>2. Placed(t)
  BY <1>1, OwnsFacts DEF Mine, Placed, Past, Clear, Open
<1>3. Resumable(t)
  BY <1>1, OwnsFacts DEF Mine, Resumable, Remembered, Clear, Open
<1>4. Stopped(t)
  <2> SUFFICES ASSUME NEW j \in Turn, t.stops[j] = "accepted" PROVE j <= Len(turns) /\ turns[j].status = "interrupted"
    BY DEF Stopped
  <2>1. CASE j = k
    BY <1>1, <2>1, Constants
  <2>2. CASE j # k
    BY <1>1, <2>2, OwnsFacts, Constants DEF Mine, Stopped
  <2> QED
    BY <2>1, <2>2
<1>5. Advances(task, t)
  BY <1>1, AdvancesSame DEF Open
<1> QED
  BY <1>1, <1>2, <1>3, <1>4, <1>5 DEF Mine, t

LEMMA StopWorkOwns == ASSUME Types, Inv, Shows, Owns, StopWork PROVE Owns'
<1> DEFINE c == [NoCall EXCEPT !.kind = "stop", !.phase = "waiting", !.run = live.run, !.key = task.run]
           t == [task EXCEPT !.stops[task.run] = "unknown"]
<1>1. call' \in {c, NoCall} /\ live.run \in Turn /\ UNCHANGED <<live, reader, turns, wire>> /\ task' \in {task, t} /\ Stored(t)
  BY StoredBy DEF StopWork
<1>2. t \in Record /\ Mine(t) /\ Advances(task, t)
  <2>1. task.run \in Run /\ "unknown" \in Outcome
    BY Kept DEF Outcome
  <2> QED
    BY <2>1, StopMine
<1> HIDE DEF t
<1>3. c.kind = "stop" /\ c.phase = "waiting" /\ c.snapshot = NoCall.snapshot /\ c.run = live.run /\ c.key = task.run
  BY DEF NoCall
<1> HIDE DEF c
<1>4. Stops(c)
  <2>1. live.run <= Len(turns)
    BY <1>1 DEF Shows, Witnessed
  <2>2. task.run \in {0, Len(turns)}
    BY OwnsFacts DEF Mine, Placed
  <2> QED
    BY <1>3, <2>1, <2>2 DEF Stops
<1>5. Stops(call') /\ Reads(call'.snapshot) /\ call'.phase \notin {"prepare", "resume", "dispatch"}
  BY <1>1, <1>3, <1>4, OwnsFacts
<1>6. Mine(task') /\ Advances(task, task')
  BY <1>1, <1>2, OwnsFacts
<1> QED
  BY <1>1, <1>2, <1>5, <1>6, OwnsFacts, Advanced

LEMMA StopDoneOwns == ASSUME Types, Inv, Shows, Owns, StopDone PROVE Owns'
<1>1. PICK o \in Outcome :
        /\ LET t == [task EXCEPT !.stops[call.key] = o] IN (Saved(t) /\ task' = t) \/ (Lost(t) /\ task' = task)
        /\ o = "accepted" => call.answer = "ok"
  <2> DEFINE o == CASE call.answer = "ok" -> "accepted" [] call.answer = "rejected" -> "rejected"
                    [] call.answer = "lost" -> "unknown"
  <2>1. call.answer \in {"ok", "rejected", "lost"}
    BY Kept DEF StopDone, CallType, Phases
  <2>2. o \in Outcome /\ (o = "accepted" => call.answer = "ok")
    BY <2>1 DEF Outcome
  <2> HIDE DEF o
  <2> QED
    BY <2>2 DEF StopDone, o
<1>2. call.key \in Run /\ call.kind = "stop" /\ call.phase = "settle" /\ call' = NoCall /\ UNCHANGED <<live, reader, turns, wire>>
  BY Kept DEF CallType, StopDone
<1>3. o = "accepted" /\ call.key # 0 => call.key <= Len(turns) /\ turns[call.key].status = "interrupted"
  BY <1>1, <1>2, OwnsFacts DEF Stops
<1> DEFINE t == [task EXCEPT !.stops[call.key] = o]
<1>4. t \in Record /\ Mine(t) /\ Advances(task, t)
  BY <1>2, <1>3, StopMine
<1>5. Stored(t) /\ task' \in {task, t}
  BY <1>1, StoredBy
<1> HIDE DEF t
<1>6. Mine(task') /\ Advances(task, task')
  BY <1>4, <1>5, OwnsFacts
<1> QED
  BY <1>2, <1>4, <1>5, <1>6, OwnsFacts, Advanced

LEMMA HandleOwns == ASSUME Types, Inv, Shows, Owns, Handle PROVE Owns'
<1> DEFINE k == Head(events).turn
           status == Head(events).status
<1>1. /\ events # <<>> /\ events \in Seq(EventType) /\ Len(events) \in Nat /\ Len(events) > 0
      /\ Head(events) = events[1] /\ events[1] \in EventType
  BY DEF Types, Handle
<1>2. k \in Turn /\ status \in {"none"} \cup TurnStatus /\ k \in 1..Len(turns) /\ k <= Len(turns)
  <2>1. k \in Turn /\ status \in TurnStatus
    BY <1>1 DEF EventType
  <2>2. k <= Len(turns)
    BY <1>1 DEF Types
  <2>3. Len(turns) \in Nat
    BY DEF Types, Thread
  <2> QED
    BY <2>1, <2>2, <2>3 DEF Turn
<1>3. turns[k].inputs \in SUBSET Request
  <2>1. turns[k] \in TurnType
    BY <1>2 DEF Types, Thread
  <2> QED
    BY <2>1 DEF TurnType
<1> HIDE DEF k, status
<1>4. PICK inputs \in {{}, turns[k].inputs} :
        LET t == Observe(task, k, status, inputs, FALSE) IN
        /\ task' = t
        /\ IF t = task THEN UNCHANGED <<disk, faults>> ELSE SaveAnyway(t)
        /\ live' = [live EXCEPT
             !.ended = Ended(k, status),
             !.run = IF status = "inProgress" /\ k \notin live.terminals \cup t.superseded THEN k
                     ELSE IF status \in Final /\ live.run \in {0, k} THEN Absent ELSE live.run,
             !.terminals = IF status \in Final THEN live.terminals \cup {k} ELSE live.terminals]
  BY DEF Handle, k, status
<1>5. inputs \in SUBSET Request /\ inputs \subseteq turns[k].inputs
  BY <1>3
<1>6. task' \in Record /\ Mine(task') /\ Advances(task, task') /\ Past(task', k) /\ Marks(live, task')
  <2>1. Almost(task, k) /\ Resumable(task) /\ Stopped(task) /\ Marks(live, task) /\ task \in Record
    BY OwnsFacts, PlacedAlmost DEF Mine
  <2> QED
    BY <1>2, <1>4, <1>5, <2>1, ObserveMine
<1>7. Stored(task')
  BY <1>4, StoredBy
<1>8. live'.terminals \subseteq live.terminals \cup {k}
  <2>1. PICK n, te : te \subseteq live.terminals \cup {k} /\ live' = [live EXCEPT !.ended = Ended(k, status), !.run = n, !.terminals = te]
    <3> DEFINE t == Observe(task, k, status, inputs, FALSE)
               n == IF status = "inProgress" /\ k \notin live.terminals \cup t.superseded THEN k
                    ELSE IF status \in Final /\ live.run \in {0, k} THEN Absent ELSE live.run
               te == IF status \in Final THEN live.terminals \cup {k} ELSE live.terminals
    <3>1. te \subseteq live.terminals \cup {k}
      OBVIOUS
    <3>2. live' = [live EXCEPT !.ended = Ended(k, status), !.run = n, !.terminals = te]
      BY <1>4
    <3> HIDE DEF n, te
    <3> QED
      BY <3>1, <3>2
  <2>2. live'.terminals = te
    BY <2>1, Kept DEF LiveType
  <2> QED
    BY <2>1, <2>2
<1>9. Marks(live', task')
  BY <1>2, <1>6, <1>8 DEF Marks
<1>10. (call' = call \/ call'.phase \notin {"prepare", "resume", "dispatch"}) /\ Stops(call') /\ Reads(call'.snapshot)
  <2>1. CASE call' = call
    BY <2>1, OwnsFacts
  <2>2. CASE call' = [NoCall EXCEPT !.kind = "read", !.phase = "fenced"]
    <3>1. call'.kind = "read" /\ call'.phase = "fenced" /\ call'.snapshot = NoCall.snapshot
      BY <2>2 DEF NoCall
    <3> QED
      BY <3>1, OwnsFacts DEF Stops
  <2> QED
    BY <2>1, <2>2 DEF Handle
<1>11. Reads(reader'.snapshot)
  <2>1. CASE reader' = [Idle EXCEPT !.phase = "fenced"]
    <3>1. reader'.snapshot = Idle.snapshot
      BY <2>1 DEF Idle
    <3> QED
      BY <3>1, OwnsFacts
  <2>2. CASE reader' = [reader EXCEPT !.stale = TRUE, !.snapshot = NoSnapshot]
    <3> DEFINE u == [reader EXCEPT !.stale = TRUE]
    <3>1. u \in ReaderType
      BY Kept DEF ReaderType
    <3>2. reader' = [u EXCEPT !.snapshot = NoSnapshot]
      BY <2>2, Zenon
    <3> HIDE DEF u
    <3>3. reader'.snapshot = NoSnapshot
      BY <3>1, <3>2 DEF ReaderType
    <3> QED
      BY <3>3, OwnsFacts
  <2>3. CASE reader' = reader
    BY <2>3, OwnsFacts
  <2> QED
    BY <2>1, <2>2, <2>3 DEF Handle
<1>12. UNCHANGED <<turns, wire>>
  BY DEF Handle
<1> QED
  BY <1>6, <1>7, <1>9, <1>10, <1>11, <1>12, Advanced

(***************************************************************************)
(* A receipt is closed, or what it remembers is restored.                  *)
(***************************************************************************)
LEMMA WireOpen ==
  ASSUME Types, Inv, NEW m \in wire, NEW t, Honest(t)
  PROVE  m.request \in Request /\ Sent(m.request) /\ Open(t, m.request) /\ t.requests[m.request].phase # "prepared"
<1>1. m.request \in Request /\ Sent(m.request) /\ Carries(m.request) = {}
  BY DEF Types, MessageType, Sent, Inv, Wired
<1> QED
  BY <1>1 DEF Honest, Open

LEMMA NoneSent ==
  ASSUME Types, Inv, NEW t, Honest(t), NEW q \in Request, Unsent(q), \A p \in Request : Open(t, p) => p = q
  PROVE  wire = {}
BY WireOpen DEF Unsent

(* Closes(t, s, q): s is t with a receipt of q that remembers nothing.     *)
Closes(t, s, q) ==
  /\ s \in Record /\ s.stops = t.stops
  /\ s.requests[q].outcome # "unknown" /\ s.requests[q].run = 0 /\ s.requests[q].status = "unknown"
  /\ \A y \in Request \ {q} : s.requests[y] = t.requests[y]

LEMMA ClosedAlmost ==
  ASSUME Types, Inv, NEW t \in Record, Mine(t), NEW q \in Request, NEW s, Closes(t, s, q),
         s.run = t.run, s.superseded = t.superseded, s.status = "working" => t.status = "working",
         NEW k, \A j \in Carries(q) : j = k
  PROVE  s \in Record /\ Almost(s, k) /\ Resumable(s) /\ Stopped(s) /\ Advances(t, s)
<1>1. \A p \in Request : Open(s, p) => p # q /\ Open(t, p)
  BY DEF Closes, Open
<1>2. Advances(t, s)
  BY <1>1, AdvancesSame
<1>3. ASSUME NEW j \in 1..Len(turns)
      PROVE  /\ j < Len(turns) => j \in s.superseded
             /\ j # k => Past(s, j) \/ \E p \in turns[j].inputs : Open(s, p)
  <2>1. j < Len(turns) => j \in s.superseded
    BY DEF Mine, Placed
  <2>2. ASSUME j # k PROVE Past(s, j) \/ \E p \in turns[j].inputs : Open(s, p)
    <3>1. Past(t, j) \/ \E p \in turns[j].inputs : Open(t, p)
      BY DEF Mine, Placed
    <3>2. turns[j] \in TurnType
      BY DEF Types, Thread
    <3>3. turns[j].inputs \subseteq Request
      BY <3>2 DEF TurnType
    <3>4. q \notin turns[j].inputs
      BY <2>2 DEF Carries
    <3>5. \A p \in turns[j].inputs : Open(t, p) => Open(s, p)
      BY <3>3, <3>4 DEF Closes, Open
    <3> QED
      BY <3>1, <3>5 DEF Past
  <2> QED
    BY <2>1, <2>2
<1>4. Almost(s, k)
  BY <1>3 DEF Almost, Mine, Placed, Clear
<1>5. ASSUME NEW p \in Request PROVE Remembered(s, p)
  <2>1. CASE p = q
    BY <2>1 DEF Closes, Remembered, Open
  <2>2. CASE p # q
    <3>1. s.requests[p] = t.requests[p] /\ Remembered(t, p)
      BY <2>2 DEF Closes, Mine, Resumable
    <3> QED
      BY <3>1 DEF Remembered, Open, Clear
  <2> QED
    BY <2>1, <2>2
<1>6. Resumable(s)
  BY <1>1, <1>5 DEF Resumable, Mine
<1>7. Stopped(s)
  BY DEF Closes, Mine, Stopped
<1> QED
  BY <1>2, <1>4, <1>6, <1>7 DEF Closes

LEMMA ClosedMine ==
  ASSUME Types, Inv, NEW t \in Record, Mine(t), NEW q \in Request, NEW s, Closes(t, s, q), Carries(q) = {},
         s.run = t.run, s.superseded = t.superseded, s.status = "working" => t.status = "working"
  PROVE  s \in Record /\ Mine(s) /\ Advances(t, s)
<1>1. s \in Record /\ Almost(s, 0) /\ Resumable(s) /\ Stopped(s) /\ Advances(t, s)
  BY ClosedAlmost
<1>2. \A j \in 1..Len(turns) : j # 0
  BY Length DEF Types
<1>3. Placed(s)
  BY <1>1, <1>2 DEF Almost, Placed
<1> QED
  BY <1>1, <1>3 DEF Mine

(* The only open request is closed, and the task is where it was before.   *)
LEMMA RestoredMine ==
  ASSUME Types, Inv, NEW t \in Record, Mine(t), NEW q \in Request, NEW s, Closes(t, s, q), Carries(q) = {}, wire = {}, Open(t, q),
         t.requests[q].run # 0 \/ Clear(t), s.run = t.requests[q].run, s.status = "working" => s.run # 0,
         t.superseded \ {s.run} \subseteq s.superseded
  PROVE  s \in Record /\ Mine(s) /\ \A j \in 1..Len(turns) : Past(s, j)
<1> DEFINE n == s.run
<1>1. \A p \in Request : Open(t, p) => p = q
  BY DEF Mine, Resumable
<1>2. \A p \in Request : ~Open(s, p)
  BY <1>1 DEF Closes, Open
<1>3. n # 0 => n = Len(turns)
  BY DEF Mine, Resumable, Remembered
<1>4. \A j \in 1..Len(turns) : j # 0 /\ (j < Len(turns) \/ j = Len(turns)) /\ ~(Len(turns) < Len(turns))
  BY Length DEF Types
<1>5. ASSUME NEW j \in 1..Len(turns) PROVE Past(s, j) /\ (j < Len(turns) => j \in s.superseded)
  <2>1. CASE n = 0
    <3>1. j \in t.superseded /\ j # n
      BY <1>4, <2>1 DEF Clear
    <3> QED
      BY <3>1 DEF Past
  <2>2. CASE n # 0
    <3>1. j < Len(turns) => j \in t.superseded
      BY DEF Mine, Placed
    <3> QED
      BY <1>3, <1>4, <2>2, <3>1 DEF Past
  <2> QED
    BY <2>1, <2>2
<1>6. Placed(s)
  BY <1>3, <1>5 DEF Placed
<1>7. ASSUME NEW p \in Request PROVE Remembered(s, p)
  <2>1. CASE p = q
    BY <2>1 DEF Closes, Remembered, Open
  <2>2. CASE p # q
    <3>1. s.requests[p] = t.requests[p] /\ Remembered(t, p) /\ ~Open(t, p)
      BY <1>1, <2>2 DEF Closes, Mine, Resumable
    <3> QED
      BY <3>1 DEF Remembered, Open
  <2> QED
    BY <2>1, <2>2
<1>8. Resumable(s)
  BY <1>2, <1>7 DEF Resumable
<1>9. Stopped(s)
  BY DEF Closes, Mine, Stopped
<1> QED
  BY <1>5, <1>6, <1>8, <1>9 DEF Mine, Closes

LEMMA AcceptedMine ==
  ASSUME Types, Inv, Shows, Owns, NEW q \in Request, NEW k \in Turn, k \in Carries(q)
  PROVE  Accepted(q, k) \in Record /\ Mine(Accepted(q, k)) /\ Advances(task, Accepted(q, k))
<1> DEFINE t == Settled(task, q, "accepted")
           begun == Observe(t, k, "inProgress", {}, FALSE)
           again == Observe(begun, k, live.ended[k], {}, FALSE)
<1>1. "accepted" \in Answers /\ "inProgress" \in {"none"} \cup TurnStatus /\ {} \in SUBSET Request /\ k \in 1..Len(turns)
  BY DEF Answers, TurnStatus, Carries
<1>2. Accepted(q, k) = IF t.run \notin {0, k} \cup t.superseded THEN t
                       ELSE IF live.ended[k] \in Final /\ begun.run = k /\ begun.status \notin Final THEN again ELSE begun
  BY DEF Accepted
<1>3. Replaces(task, t, q, [outcome |-> "accepted", phase |-> "settled", status |-> "unknown", run |-> 0])
  BY <1>1, OwnsFacts, SettledShape
<1> HIDE DEF t
<1>4. Closes(task, t, q) /\ t.run = task.run /\ t.superseded = task.superseded /\ t.status = task.status
  BY <1>3 DEF Replaces, Closes
<1>5. t \in Record /\ Almost(t, k) /\ Resumable(t) /\ Stopped(t) /\ Advances(task, t)
  <2>1. \A j \in Carries(q) : j = k
    BY DEF Inv, Wired
  <2> QED
    BY <1>4, <2>1, OwnsFacts, ClosedAlmost
<1>6. Marks(live, t)
  BY <1>5, OwnsFacts, MarksStay
<1>7. t.run \notin {0, k} \cup t.superseded => Mine(t)
  <2>1. ASSUME t.run \notin {0, k} \cup t.superseded PROVE Past(t, k)
    <3>1. t.run = Len(turns) /\ k # Len(turns)
      BY <1>5, <2>1 DEF Almost
    <3>2. k < Len(turns)
      BY <1>1, <3>1, OwnsFacts, Length
    <3> QED
      BY <1>1, <1>5, <3>2 DEF Almost, Past
  <2> QED
    BY <1>5, <2>1, AlmostPlaced DEF Mine
<1>8. begun \in Record /\ Mine(begun) /\ Advances(t, begun) /\ Marks(live, begun)
  BY <1>1, <1>5, <1>6, ObserveMine
<1> HIDE DEF begun
<1>9. live.ended[k] \in Final => again \in Record /\ Mine(again) /\ Advances(begun, again)
  <2>1. live.ended[k] \in Final => live.ended[k] \in {"none"} \cup TurnStatus
    BY DEF TurnStatus
  <2>2. Almost(begun, k) /\ Resumable(begun) /\ Stopped(begun)
    BY <1>8, PlacedAlmost DEF Mine
  <2> QED
    BY <1>1, <1>8, <2>1, <2>2, ObserveMine
<1> HIDE DEF again
<1>10. Advances(task, begun)
  BY <1>5, <1>8, AdvancesTwice
<1>11. live.ended[k] \in Final => Advances(task, again)
  BY <1>9, <1>10, AdvancesTwice
<1> QED
  BY <1>2, <1>5, <1>7, <1>8, <1>9, <1>10, <1>11

LEMMA RefusedMine ==
  ASSUME Types, Inv, Shows, Owns, NEW q \in Request, Unsent(q)
  PROVE  Refused(q) \in Record /\ Mine(Refused(q)) /\ Marks(live, Refused(q))
<1> DEFINE s == Refused(q)
           r == task.requests[q]
<1>1. /\ s \in Record /\ s.stops = task.stops
      /\ s.requests[q].outcome \in Answers /\ s.requests[q].run = 0 /\ s.requests[q].status = "unknown"
      /\ \A y \in Request \ {q} : s.requests[y] = task.requests[y]
      /\ \/ task.run \notin {0, r.run} /\ s.run = task.run /\ s.status = task.status /\ s.superseded = task.superseded
         \/ /\ task.run \in {0, r.run} /\ s.run = r.run
            /\ s.status = r.status \/ (s.status = "failed" /\ r.run = 0)
            /\ s.superseded = IF r.status \in Final THEN task.superseded \ {r.run} ELSE task.superseded
  BY OwnsFacts, RefusedShape
<1> HIDE DEF s
<1>2. Closes(task, s, q) /\ Carries(q) = {}
  BY <1>1 DEF Closes, Answers, Unsent
<1>3. /\ r.run # 0 => Open(task, q) /\ r.run = Len(turns)
      /\ r.status = "working" => r.run # 0
  BY <1>2, OwnsFacts DEF Mine, Resumable, Remembered
<1>4. task.superseded \subseteq Turn /\ 0 \notin Turn
  BY OwnsFacts, Constants DEF Record
<1>5. CASE s.run = task.run /\ s.superseded = task.superseded /\ (s.status = "working" => task.status = "working")
  <2>1. s \in Record /\ Mine(s) /\ Advances(task, s)
    BY <1>2, <1>5, OwnsFacts, ClosedMine
  <2>2. Marks(live, s)
    BY <2>1, OwnsFacts, MarksStay
  <2> QED
    BY <2>1, <2>2 DEF s
<1>6. CASE s.run = r.run /\ r.run # 0 /\ task.superseded \ {r.run} \subseteq s.superseded
  <2>1. \A p \in Request : Open(task, p) => p = q
    BY <1>3, <1>6, OwnsFacts DEF Mine, Resumable
  <2>2. wire = {}
    BY <2>1, NoneSent DEF Inv
  <2>3. s \in Record /\ Mine(s) /\ \A j \in 1..Len(turns) : Past(s, j)
    BY <1>2, <1>3, <1>6, <2>2, OwnsFacts, RestoredMine
  <2>4. Marks(live, s)
    <3>1. \A k \in live.terminals : k <= Len(turns) => k \in 1..Len(turns)
      BY OwnsFacts, Length DEF Turn
    <3> QED
      BY <2>3, <3>1, OwnsFacts DEF Marks
  <2> QED
    BY <2>3, <2>4 DEF s
<1> QED
  BY <1>1, <1>3, <1>4, <1>5, <1>6

LEMMA PreparedBackMine ==
  ASSUME Types, Inv, Shows, Owns
  PROVE  Mine(SettlePrepared(disk))
<1> DEFINE s == SettlePrepared(disk)
           q == disk.pending
           r == disk.requests[q]
<1>1. \/ s = disk
      \/ /\ q \in Request /\ s \in Record /\ s.stops = disk.stops
         /\ r.phase = "prepared" /\ r.outcome = "unknown"
         /\ s.requests[q].outcome = "rejected" /\ s.requests[q].run = 0 /\ s.requests[q].status = "unknown"
         /\ \A y \in Request \ {q} : s.requests[y] = disk.requests[y]
         /\ s.run = r.run /\ s.status = r.status /\ s.superseded = disk.superseded \ {r.run}
  BY OwnsFacts, PreparedBackShape
<1> HIDE DEF s, q
<1>2. CASE s = disk
  BY <1>2, OwnsFacts DEF s
<1>3. CASE s # disk
  <2>1. q \in Request /\ Closes(disk, s, q) /\ Open(disk, q) /\ r.phase = "prepared" /\ s.run = r.run /\ s.status = r.status
        /\ s.superseded = disk.superseded \ {r.run}
    BY <1>1, <1>3 DEF Closes, Open
  <2>2. Unsent(q)
    BY <2>1 DEF Inv, Honest, Unsent
  <2>3. \A p \in Request : Open(disk, p) => p = q
    BY <2>1, OwnsFacts DEF Mine, Resumable
  <2>4. wire = {}
    BY <2>1, <2>2, <2>3, NoneSent DEF Inv
  <2>5. Carries(q) = {} /\ (r.run # 0 \/ Clear(disk)) /\ (r.status = "working" => r.run # 0)
    BY <2>1, <2>2, OwnsFacts DEF Mine, Resumable, Remembered, Unsent
  <2>6. Mine(s)
    BY <2>1, <2>4, <2>5, OwnsFacts, RestoredMine
  <2> QED
    BY <2>6 DEF s
<1> QED
  BY <1>2, <1>3

(***************************************************************************)
(* Starts and sends.                                                       *)
(***************************************************************************)
LEMMA NothingMade ==
  ASSUME Types, Inv, Shows, ~Made(task)
  PROVE  turns = <<>> /\ wire = {}
BY WireMade DEF Shows, Born

LEMMA NoTurns ==
  ASSUME Types, turns = <<>>
  PROVE  /\ Len(turns) = 0 /\ \A k \in 1..Len(turns) : FALSE
         /\ \A k \in Turn : ~(k <= Len(turns))
         /\ \A q : Carries(q) = {}
<1>1. Len(turns) = 0
  OBVIOUS
<1>2. \A k \in 1..Len(turns) : FALSE
  BY <1>1
<1> QED
  BY <1>1, <1>2 DEF Turn, Carries

LEMMA StartWorkOwns == ASSUME Types, Inv, Shows, Owns, StartWork PROVE Owns'
<1> DEFINE x == [outcome |-> "unknown", phase |-> "creating", status |-> "unknown", run |-> 0]
           t == [NoTask EXCEPT !.requests[Start] = x]
           c == [NoCall EXCEPT !.kind = "send", !.phase = "create", !.request = Start]
<1>1. [NoReceipt EXCEPT !.outcome = "unknown", !.phase = "creating"] = x /\ x \in Receipt /\ NoReceipt \in Receipt
  BY ReceiptMade DEF Outcome
<1>2. /\ (Saved(t) /\ task' = t /\ call' = c) \/ (Lost(t) /\ task' = task /\ call' = call)
      /\ call = NoCall /\ UNCHANGED <<live, reader, turns, wire>>
  BY <1>1 DEF StartWork
<1>3. /\ x.phase = "creating" /\ x.run = 0 /\ x.status = "unknown"
      /\ NoReceipt.run = 0 /\ NoReceipt.outcome = "none" /\ NoReceipt.status = "unknown"
  BY DEF NoReceipt
<1> HIDE DEF x
<1>4. /\ t \in Record /\ t.run = 0 /\ t.status = "unknown" /\ t.requests[Start] = x
      /\ \A q \in Request \ {Start} : t.requests[q] = NoReceipt
      /\ \A k \in Turn : t.stops[k] = "none"
  <2>1. NoTask.run = 0 /\ NoTask.status = "unknown" /\ \A k \in Turn : NoTask.stops[k] = "none"
    BY Constants DEF NoTask
  <2> QED
    BY <1>1, <2>1, NoTaskType, Constants DEF Record
<1> HIDE DEF t
<1>5. turns = <<>> /\ wire = {}
  <2>1. ~Made(task)
    BY DEF StartWork, Exists, Made
  <2> QED
    BY <2>1, NothingMade
<1>6. Mine(t)
  <2>1. Placed(t)
    BY <1>4, <1>5, NoTurns DEF Placed
  <2>2. ASSUME NEW q \in Request PROVE Remembered(t, q) /\ (Open(t, q) => q = Start)
    BY <1>3, <1>4 DEF Remembered, Open
  <2>3. Resumable(t)
    BY <1>4, <2>2 DEF Resumable
  <2>4. Stopped(t)
    BY <1>4 DEF Stopped
  <2> QED
    BY <2>1, <2>3, <2>4 DEF Mine
<1>7. c.kind = "send" /\ c.phase = "create" /\ c.snapshot = NoCall.snapshot
  BY DEF NoCall
<1> HIDE DEF c
<1>8. Stored(t) /\ Mine(task') /\ Begins(call', task') /\ Stops(call') /\ Reads(call'.snapshot) /\ Reads(reader'.snapshot)
  BY <1>2, <1>6, <1>7, StoredBy, OwnsFacts DEF Begins, Stops
<1>9. Marks(live', task')
  BY <1>2, <1>5, NoTurns, OwnsFacts DEF Marks
<1> QED
  BY <1>2, <1>4, <1>6, <1>8, <1>9, Continued

LEMMA ThreadStartedOwns == ASSUME Types, Inv, Shows, Owns, ThreadStarted PROVE Owns'
<1> DEFINE t == [task EXCEPT !.thread = TRUE]
           c == [call EXCEPT !.phase = "prepare"]
<1>1. call.kind = "send" /\ call.phase = "create" /\ task' = t /\ Stored(t) /\ call' \in {c, NoCall}
      /\ UNCHANGED <<reader, turns, wire>>
  BY StoredBy DEF ThreadStarted, Types, Phases
<1>2. /\ t \in Record /\ t.run = task.run /\ t.status = task.status /\ t.requests = task.requests
      /\ t.superseded = task.superseded /\ t.stops = task.stops
  BY Kept, ThreadShape
<1> HIDE DEF t
<1>3. Mine(t) /\ Advances(task, t)
  BY <1>2, OwnsFacts, SameMine
<1>4. c.kind = "send" /\ c.phase = "prepare" /\ c.snapshot = call.snapshot /\ c.request = call.request
  BY <1>1, Kept, Phased
<1> HIDE DEF c
<1>5. \A p \in Request : Open(t, p) => p = call.request
  <2>1. ~task.thread /\ call.request = Start
    BY <1>1, Sending DEF Shows, Born
  <2> QED
    BY <1>2, <2>1 DEF Open, Inv, Honest
<1>6. Begins(call', task') /\ Stops(call') /\ Reads(call'.snapshot)
  BY <1>1, <1>4, <1>5, OwnsFacts DEF Begins, Stops
<1>7. live'.terminals = live.terminals
  BY Kept DEF ThreadStarted, LiveType
<1>8. Marks(live', task')
  <2>1. Marks(live, t)
    BY <1>3, OwnsFacts, MarksStay
  <2> QED
    BY <1>1, <1>7, <2>1 DEF Marks
<1> QED
  BY <1>1, <1>2, <1>3, <1>6, <1>8, OwnsFacts, Continued

LEMMA ThreadNotStartedOwns == ASSUME Types, Inv, Shows, Owns, ThreadNotStarted PROVE Owns'
<1> DEFINE t == [task EXCEPT !.status = "failed", !.requests[Start].outcome = "rejected", !.requests[Start].phase = "settled"]
<1>1. call.kind = "send" /\ call.phase = "create" /\ call' = NoCall /\ UNCHANGED <<live, reader, turns, wire>>
      /\ task' \in {task, t} /\ Stored(task')
  BY StoredBy DEF ThreadNotStarted, Types, Phases
<1>2. /\ t \in Record /\ t.run = task.run /\ t.superseded = task.superseded /\ t.stops = task.stops
      /\ t.requests[Start].outcome = "rejected" /\ \A q \in Request \ {Start} : t.requests[q] = task.requests[q]
      /\ Alike(task, t) /\ t.status = "failed"
  BY Kept, NotStartedShape
<1> HIDE DEF t
<1>3. turns = <<>> /\ Unsent(Start) /\ Start \in Request
  BY <1>1, Sending, Constants DEF Shows, Born
<1>4. \A q \in Request : Open(t, q) => q # Start /\ Open(task, q)
  BY <1>2 DEF Open
<1>5. Advances(task, t)
  BY <1>2, <1>4, AdvancesSame
<1>6. Placed(t)
  <2>1. (\E m \in wire : ~m.steer) => Clear(t)
    BY <1>2, OwnsFacts DEF Mine, Placed, Clear
  <2>2. t.run \in {0, Len(turns)}
    BY <1>2, OwnsFacts DEF Mine, Placed
  <2> QED
    BY <1>3, <2>1, <2>2, NoTurns DEF Placed
<1>7. ASSUME NEW q \in Request PROVE Remembered(t, q)
  <2>1. Remembered(task, q) /\ t.requests[q].run = task.requests[q].run /\ t.requests[q].status = task.requests[q].status
    BY <1>2, OwnsFacts DEF Mine, Resumable, Alike
  <2>2. task.requests[q].run = 0
    <3>1. task.requests[q].run <= Len(turns) /\ task.requests[q] \in Receipt
      BY ShowsFacts DEF Faithful, Was, Record
    <3>2. task.requests[q].run \in Run
      BY <3>1 DEF Receipt
    <3> QED
      BY <1>3, <3>1, <3>2, NoTurns, Constants
  <2>3. task.run = 0 /\ Clear(t)
    <3>1. task.run = 0
      BY <1>3, NoTurns, OwnsFacts DEF Mine, Placed
    <3> QED
      BY <1>2, <1>3, <3>1, NoTurns DEF Clear
  <2> QED
    BY <2>1, <2>2, <2>3 DEF Remembered
<1>8. Resumable(t)
  <2>1. \A p, q \in Request : Open(t, p) /\ Open(t, q) => p = q
    BY <1>4, OwnsFacts DEF Mine, Resumable
  <2> QED
    BY <1>2, <1>7, <2>1 DEF Resumable
<1>9. Mine(t)
  <2>1. Stopped(t)
    BY <1>2, OwnsFacts DEF Mine, Stopped
  <2> QED
    BY <1>6, <1>8, <2>1 DEF Mine
<1>10. task' \in Record /\ Mine(task') /\ Advances(task, task')
  BY <1>1, <1>2, <1>5, <1>9, OwnsFacts
<1> QED
  BY <1>1, <1>10, OwnsFacts, Advanced

LEMMA SendWorkOwns == ASSUME Types, Inv, Shows, Owns, NEW q \in Sends, SendWork(q) PROVE Owns'
<1>1. UNCHANGED <<task, disk, live, reader, turns, wire>>
  BY DEF SendWork
<1>2. call'.kind = "send" /\ call'.phase = "prepare" /\ call'.snapshot = NoCall.snapshot
  BY DEF SendWork, NoCall
<1>3. \A p \in Request : ~Open(task, p)
  BY DEF SendWork, Shown, HasUnknown, Open
<1>4. Begins(call', task') /\ Stops(call') /\ Reads(call'.snapshot)
  BY <1>1, <1>2, <1>3, OwnsFacts DEF Begins, Stops
<1>5. Stored(task) /\ Marks(live', task') /\ Reads(reader'.snapshot) /\ Mine(task')
  BY <1>1, OwnsFacts DEF Stored
<1> QED
  BY <1>1, <1>4, <1>5, OwnsFacts, Continued

LEMMA ResumeOwns == ASSUME Types, Inv, Shows, Owns, Resume PROVE Owns'
<1> DEFINE d == [call EXCEPT !.phase = "dispatch"]
<1>1. call.kind = "send" /\ call.phase = "resume" /\ UNCHANGED <<task, reader, turns, wire>>
  BY DEF Resume, Types, Phases
<1>2. call' \in {d, Settling("rejected")} /\ Stored(task)
  BY StoredBy DEF Resume
<1>3. d.kind = "send" /\ d.phase = "dispatch" /\ d.snapshot = call.snapshot /\ d.steer = call.steer
  BY <1>1, Kept, Phased
<1>4. Settling("rejected").kind = "send" /\ Settling("rejected").phase = "settle" /\ Settling("rejected").snapshot = call.snapshot
  BY <1>1, Kept, SettlingFields
<1> HIDE DEF d
<1>5. Begins(call', task') /\ Stops(call') /\ Reads(call'.snapshot)
  BY <1>1, <1>2, <1>3, <1>4, OwnsFacts DEF Begins, Stops
<1>6. live'.terminals = live.terminals
  BY Kept DEF Resume, LiveType
<1>7. Marks(live', task') /\ Mine(task') /\ Reads(reader'.snapshot)
  BY <1>1, <1>6, OwnsFacts DEF Marks
<1> QED
  BY <1>1, <1>2, <1>5, <1>7, OwnsFacts, Continued

LEMMA AllPast ==
  ASSUME Types, Inv, Owns, NEW q \in Request, Unsent(q), \A p \in Request : Open(task, p) => p = q
  PROVE  wire = {} /\ Carries(q) = {} /\ \A j \in 1..Len(turns) : Past(task, j)
<1>1. wire = {}
  BY NoneSent DEF Inv
<1>2. ASSUME NEW j \in 1..Len(turns) PROVE Past(task, j)
  <2>1. turns[j] \in TurnType
    BY DEF Types, Thread
  <2>2. turns[j].inputs \subseteq Request /\ q \notin turns[j].inputs
    BY <2>1 DEF TurnType, Unsent, Carries
  <2>3. Past(task, j) \/ \E p \in turns[j].inputs : Open(task, p)
    BY DEF Owns, Mine, Placed
  <2> QED
    BY <2>2, <2>3
<1> QED
  BY <1>1, <1>2 DEF Unsent

LEMMA PreparedMine ==
  ASSUME Types, Inv, Shows, Owns, NEW q \in Request, Unsent(q), \A p \in Request : Open(task, p) => p = q,
         NEW steer \in BOOLEAN, steer => task.status = "working"
  PROVE  LET t == Prepared(q, steer) IN
         t \in Record /\ Mine(t) /\ (~steer => Clear(t)) /\ \A j \in 1..Len(turns) : Past(t, j)
<1> DEFINE t == Prepared(q, steer)
           x == [outcome |-> "unknown", phase |-> "prepared", status |-> task.status, run |-> task.run]
<1>1. /\ t \in Record /\ t.stops = task.stops /\ t.status = "unknown" /\ t.requests[q] = x
      /\ \A y \in Request \ {q} : t.requests[y] = task.requests[y]
      /\ t.run = IF steer THEN task.run ELSE 0
      /\ t.superseded = IF steer \/ task.run = 0 THEN task.superseded ELSE task.superseded \cup {task.run}
  BY PreparedShape
<1>2. x.outcome = "unknown" /\ x.phase = "prepared" /\ x.status = task.status /\ x.run = task.run
  OBVIOUS
<1> HIDE DEF t, x
<1>3. wire = {} /\ Carries(q) = {} /\ \A j \in 1..Len(turns) : Past(task, j)
  BY AllPast
<1>4. task.run \in {0, Len(turns)} /\ (task.status = "working" => task.run # 0)
  BY OwnsFacts DEF Mine, Placed, Resumable
<1>5. \A j \in 1..Len(turns) : j # 0
  BY Length DEF Types
<1>6. \A j \in 1..Len(turns) : Past(t, j)
  BY <1>1, <1>3, <1>5 DEF Past
<1>7. ~steer => Clear(t)
  BY <1>1, <1>6, <1>5 DEF Past, Clear
<1>8. Placed(t)
  <2>1. \A j \in 1..Len(turns) : j < Len(turns) => j \in t.superseded
    BY <1>1, OwnsFacts DEF Mine, Placed
  <2> QED
    BY <1>1, <1>3, <1>4, <1>6, <2>1 DEF Placed
<1>9. \A p \in Request : Open(t, p) => p = q
  BY <1>1 DEF Open
<1>10. ASSUME NEW p \in Request PROVE Remembered(t, p)
  <2>1. CASE p = q
    <3>1. Open(t, q)
      BY <1>1, <1>2 DEF Open
    <3>2. Clear(t) \/ (t.run # 0 /\ t.run = x.run)
      BY <1>1, <1>2, <1>4, <1>7
    <3> QED
      BY <1>1, <1>2, <1>4, <2>1, <3>1, <3>2 DEF Remembered
  <2>2. CASE p # q
    <3>1. t.requests[p] = task.requests[p] /\ Remembered(task, p) /\ ~Open(task, p) /\ ~Open(t, p)
      BY <1>1, <1>9, <2>2, OwnsFacts DEF Mine, Resumable
    <3> QED
      BY <3>1 DEF Remembered
  <2> QED
    BY <2>1, <2>2
<1>11. Resumable(t)
  BY <1>1, <1>9, <1>10 DEF Resumable
<1>12. Stopped(t)
  BY <1>1, OwnsFacts DEF Mine, Stopped
<1> QED
  BY <1>1, <1>6, <1>7, <1>8, <1>11, <1>12 DEF Mine, t

LEMMA PrepareOwns == ASSUME Types, Inv, Shows, Owns, Prepare PROVE Owns'
<1> DEFINE q == call.request
           steer == task.status = "working"
           t == Prepared(q, steer)
           back == [task EXCEPT !.activity = "", !.requests[q] = NoReceipt]
           d == [call EXCEPT !.steer = steer, !.run = IF steer THEN live.run ELSE 0,
                             !.phase = IF steer \/ q = Start THEN "dispatch" ELSE "resume"]
<1>1. call.kind = "send" /\ call.phase = "prepare" /\ UNCHANGED <<live, reader, turns, wire>>
  BY DEF Prepare, Types, Phases
<1>2. q \in Request /\ Unsent(q) /\ (\A p \in Request : Open(task, p) => p = q)
  BY <1>1, Sending, OwnsFacts DEF Begins
<1>3. \/ call' = NoCall /\ task' = task /\ disk' = disk
      \/ Saved(t) /\ task' = t /\ call' = d
      \/ Lost(t) /\ call' = NoCall /\ task' = back
  BY DEF Prepare
<1>4. t \in Record /\ Mine(t) /\ (~steer => Clear(t)) /\ \A j \in 1..Len(turns) : Past(t, j)
  <2>1. steer \in BOOLEAN
    OBVIOUS
  <2> QED
    BY <1>2, <2>1, PreparedMine
<1>5. Marks(live, t)
  <2>1. \A k \in live.terminals : k <= Len(turns) => k \in 1..Len(turns)
    BY OwnsFacts, Length DEF Turn
  <2> QED
    BY <1>4, <2>1, OwnsFacts DEF Marks
<1>6. Mine(back) /\ Marks(live, back)
  <2>1. Replaces(task, back, q, NoReceipt) /\ NoReceipt.run = 0 /\ NoReceipt.outcome = "none" /\ NoReceipt.status = "unknown"
    BY <1>2, Kept, BackShape DEF NoReceipt
  <2> HIDE DEF back
  <2>2. Closes(task, back, q) /\ back.run = task.run /\ back.superseded = task.superseded /\ back.status = task.status
    BY <2>1 DEF Replaces, Closes
  <2>3. Mine(back) /\ Advances(task, back)
    BY <1>2, <2>2, OwnsFacts, ClosedMine DEF Unsent
  <2> QED
    BY <2>3, OwnsFacts, MarksStay
<1>7. d.kind = "send" /\ d.phase \in {"dispatch", "resume"} /\ d.snapshot = call.snapshot /\ d.steer = steer
  <2> DEFINE n == IF steer THEN live.run ELSE 0
             ph == IF steer \/ q = Start THEN "dispatch" ELSE "resume"
  <2>1. ph \in {"dispatch", "resume"} /\ d = [call EXCEPT !.steer = steer, !.run = n, !.phase = ph]
    OBVIOUS
  <2>2. steer \in BOOLEAN
    OBVIOUS
  <2> HIDE DEF n, ph, d, steer, q
  <2> QED
    BY <1>1, <2>1, <2>2, Kept DEF CallType
<1> HIDE DEF t, back, d, steer, q
<1>8. Reads(reader'.snapshot) /\ \A z : Marks(live, z) => Marks(live', z)
  BY <1>1, OwnsFacts
<1>9. CASE call' = NoCall /\ task' = task /\ disk' = disk
  BY <1>1, <1>8, <1>9, OwnsFacts, Overlooked
<1>10. CASE Saved(t) /\ task' = t /\ call' = d
  <2>1. Begins(call', task') /\ Stops(call') /\ Reads(call'.snapshot) /\ Stored(t)
    BY <1>4, <1>7, <1>10, StoredBy, OwnsFacts DEF Begins, Stops
  <2> QED
    BY <1>1, <1>4, <1>5, <1>8, <1>10, <2>1, Continued
<1>11. CASE Lost(t) /\ call' = NoCall /\ task' = back
  <2>1. Begins(call', task') /\ Stops(call') /\ Reads(call'.snapshot) /\ Stored(t)
    BY <1>11, StoredBy, OwnsFacts
  <2> QED
    BY <1>1, <1>4, <1>6, <1>8, <1>11, <2>1, Continued
<1> QED
  BY <1>3, <1>9, <1>10, <1>11

LEMMA DispatchingMine ==
  ASSUME Types, NEW p \in Record, Mine(p), NEW q \in Request
  PROVE  LET t == [p EXCEPT !.requests[q].phase = "dispatching"] IN t \in Record /\ Mine(t) /\ Advances(p, t)
<1> DEFINE t == [p EXCEPT !.requests[q].phase = "dispatching"]
<1>1. /\ t \in Record /\ t.run = p.run /\ t.status = p.status /\ t.superseded = p.superseded
      /\ t.stops = p.stops /\ Alike(p, t) /\ (\A y \in Request : t.requests[y].outcome = p.requests[y].outcome)
      /\ t.requests[q].phase = "dispatching" /\ \A y \in Request \ {q} : t.requests[y] = p.requests[y]
  BY DispatchingShape
<1> HIDE DEF t
<1>2. \A y \in Request : Open(t, y) <=> Open(p, y)
  BY <1>1 DEF Open
<1>3. (Clear(t) <=> Clear(p)) /\ (\A k : Past(t, k) <=> Past(p, k))
  BY <1>1 DEF Clear, Past
<1>4. ASSUME NEW y \in Request PROVE Remembered(t, y)
  <2>1. Remembered(p, y) /\ t.requests[y].run = p.requests[y].run /\ t.requests[y].status = p.requests[y].status
        /\ (t.requests[y].phase = "prepared" => p.requests[y].phase = "prepared")
    BY <1>1 DEF Mine, Resumable, Alike
  <2> QED
    BY <1>1, <1>2, <1>3, <2>1 DEF Remembered
<1>5. Resumable(t)
  BY <1>1, <1>2, <1>4 DEF Mine, Resumable
<1>6. Stopped(t)
  BY <1>1 DEF Mine, Stopped
<1>7. Advances(p, t)
  BY <1>1, <1>2, AdvancesSame
<1>8. Placed(t)
  <2>1. t.run \in {0, Len(turns)} /\ ((\E m \in wire : ~m.steer) => Clear(t))
    BY <1>1, <1>3 DEF Mine, Placed
  <2>2. ASSUME NEW k \in 1..Len(turns)
        PROVE  /\ k < Len(turns) => k \in t.superseded
               /\ Past(t, k) \/ \E y \in turns[k].inputs : Open(t, y)
    <3>1. turns[k] \in TurnType
      BY DEF Types, Thread
    <3>2. turns[k].inputs \subseteq Request
      BY <3>1 DEF TurnType
    <3> QED
      BY <1>1, <1>2, <1>3, <3>2 DEF Mine, Placed
  <2> QED
    BY <2>1, <2>2 DEF Placed
<1> QED
  BY <1>1, <1>5, <1>6, <1>7, <1>8 DEF Mine, t

LEMMA DispatchOwns == ASSUME Types, Inv, Shows, Owns, Dispatch PROVE Owns'
<1> DEFINE q == call.request
           t == [task EXCEPT !.requests[q].phase = "dispatching"]
           w == [call EXCEPT !.phase = "waiting"]
           m == [request |-> q, steer |-> call.steer, run |-> call.run]
<1>1. /\ call.kind = "send" /\ call.phase = "dispatch" /\ task' = t /\ UNCHANGED <<live, reader, turns>>
      /\ \/ Saved(t) /\ call' = w /\ wire' = wire \cup {m}
         \/ Lost(t) /\ call' = Settling("rejected") /\ wire' = wire
  BY DEF Dispatch, Types, Phases
<1>2. q \in Request
  BY <1>1, Sending
<1>3. t \in Record /\ Mine(t) /\ Advances(task, t)
  BY <1>2, OwnsFacts, DispatchingMine
<1>4. w.kind = "send" /\ w.phase = "waiting" /\ w.snapshot = call.snapshot
  BY <1>1, Kept DEF CallType
<1>5. Settling("rejected").kind = "send" /\ Settling("rejected").phase = "settle" /\ Settling("rejected").snapshot = call.snapshot
  BY <1>1, Kept, SettlingFields
<1>6. m.steer = call.steer
  OBVIOUS
<1> HIDE DEF t, w, m, q
<1>7. /\ call'.phase \notin {"prepare", "resume", "dispatch"} /\ Stops(call') /\ Reads(call'.snapshot) /\ Stored(t)
      /\ Reads(reader'.snapshot)
  BY <1>1, <1>4, <1>5, StoredBy, OwnsFacts DEF Stops
<1>8. CASE Saved(t) /\ wire' = wire \cup {m}
  <2>1. disk' = File(t) /\ Mine(disk') /\ (Clear(t) => Clear(disk'))
    BY <1>3, <1>8, FileMine DEF Saved
  <2>2. (\E n \in wire' : ~n.steer) => Clear(t)
    <3>1. ~m.steer => Clear(task)
      BY <1>1, <1>6, OwnsFacts DEF Begins
    <3>2. (\E n \in wire : ~n.steer) => Clear(task)
      BY OwnsFacts DEF Mine, Placed
    <3>3. Clear(task) => Clear(t)
      BY <1>3 DEF Advances
    <3> QED
      BY <1>8, <3>1, <3>2, <3>3
  <2>3. Begins(call', task')
    BY <1>7 DEF Begins
  <2>4. Marks(live', task')
    BY <1>1, <1>3, OwnsFacts, MarksStay
  <2> QED
    BY <1>1, <1>3, <1>7, <2>1, <2>2, <2>3, <2>4, Carried
<1>9. CASE wire' = wire
  BY <1>1, <1>3, <1>7, <1>9, OwnsFacts, Advanced
<1> QED
  BY <1>1, <1>8, <1>9

LEMMA SettleOwns == ASSUME Types, Inv, Shows, Owns, Settle PROVE Owns'
<1> DEFINE q == call.request
           k == call.run
<1>1. /\ call.kind = "send" /\ call.phase = "settle" /\ call' = NoCall /\ UNCHANGED <<turns, wire>>
      /\ call.answer \in {"ok", "rejected", "lost"} /\ Stored(task')
  <2>1. call.answer \in {"ok", "rejected", "lost"}
    BY Kept DEF Settle, CallType, Phases
  <2> QED
    BY <2>1, StoredBy DEF Settle
<1>2. q \in Request /\ (call.answer = "ok" => k \in Turn /\ k \in Carries(q)) /\ (call.answer = "rejected" => Unsent(q))
  <2>1. q \in Request /\ (call.answer = "ok" => k \in Turn) /\ (call.answer = "rejected" => Unsent(q))
    BY <1>1, Sending
  <2>2. call.answer = "ok" => k \in Carries(q)
    BY <1>1 DEF Shows, Witnessed
  <2> QED
    BY <2>1, <2>2
<1>3. task' \in Record /\ Mine(task') /\ Marks(live, task')
  <2>1. CASE call.answer = "ok"
    <3>1. task' = Accepted(q, k)
      BY <2>1 DEF Settle
    <3>2. Accepted(q, k) \in Record /\ Mine(Accepted(q, k)) /\ Advances(task, Accepted(q, k))
      BY <1>2, <2>1, AcceptedMine
    <3> HIDE DEF q, k
    <3>3. Marks(live, Accepted(q, k))
      BY <3>2, OwnsFacts, MarksStay
    <3> QED
      BY <3>1, <3>2, <3>3
  <2>2. CASE call.answer = "rejected"
    <3>1. task' = Refused(q)
      BY <2>2 DEF Settle
    <3> QED
      BY <1>2, <2>2, <3>1, RefusedMine
  <2>3. CASE call.answer = "lost"
    BY <2>3, OwnsFacts DEF Settle
  <2> QED
    BY <1>1, <2>1, <2>2, <2>3
<1>4. live'.terminals = live.terminals
  <2>1. PICK n, w : live' = [live EXCEPT !.run = n, !.watching = w]
    BY DEF Settle
  <2> QED
    BY <2>1, Kept DEF LiveType
<1>5. Reads(reader'.snapshot)
  <2>1. CASE reader' = reader
    BY <2>1, OwnsFacts
  <2>2. CASE reader' = [Idle EXCEPT !.phase = "reading", !.request = task'.pending, !.run = task'.run]
    <3>1. reader'.snapshot = Idle.snapshot
      BY <2>2 DEF Idle
    <3> QED
      BY <3>1, OwnsFacts
  <2> QED
    BY <2>1, <2>2 DEF Settle
<1>6. Marks(live', task')
  BY <1>3, <1>4 DEF Marks
<1> QED
  BY <1>1, <1>3, <1>5, <1>6, OwnsFacts, Continued

(***************************************************************************)
(* Restarts and reconnections.                                             *)
(***************************************************************************)
LEMMA ForgottenOwn ==
  ASSUME Types, Inv, Shows, Owns, Forget
  PROVE  UNCHANGED turns /\ wire' \subseteq wire /\ live'.terminals = {} /\ Reads(reader'.snapshot)
<1>1. UNCHANGED turns /\ wire' \in SUBSET wire /\ live' = NewLive /\ reader' = Idle
  BY DEF Forget
<1> QED
  BY <1>1, OwnsFacts DEF NewLive

LEMMA RestartOwns == ASSUME Types, Inv, Shows, Owns, Restart PROVE Owns'
<1> DEFINE t == SettlePrepared(disk)
<1>1. /\ task' = t /\ call' = NoCall /\ disk' = disk
      /\ UNCHANGED turns /\ wire' \subseteq wire /\ live'.terminals = {} /\ Reads(reader'.snapshot)
  BY ForgottenOwn DEF Restart
<1>2. Mine(t)
  BY PreparedBackMine
<1> HIDE DEF t
<1>3. Marks(live', task') /\ Stored(disk)
  BY <1>1 DEF Marks, Stored
<1> QED
  BY <1>1, <1>2, <1>3, OwnsFacts, Continued

LEMMA SettlingKey ==
  ASSUME call \in CallType, NEW a \in {"ok", "rejected", "lost"}
  PROVE  Settling(a).key = call.key
<1> DEFINE u == [call EXCEPT !.phase = "settle"]
<1>1. Settling(a) = [u EXCEPT !.answer = a]
  BY Zenon DEF Settling
<1>2. u \in CallType /\ u.key = call.key
  BY DEF CallType
<1> HIDE DEF u
<1> QED
  BY <1>1, <1>2 DEF CallType

LEMMA ReconnectOwns == ASSUME Types, Inv, Shows, Owns, Reconnect PROVE Owns'
<1> DEFINE t == [task EXCEPT !.activity = ""]
<1>1. /\ task' = t /\ disk' = disk
      /\ UNCHANGED turns /\ wire' \subseteq wire /\ live'.terminals = {} /\ Reads(reader'.snapshot)
      /\ call' = CASE call.kind = "read" -> NoCall
                   [] call.phase = "waiting" -> Settling("lost")
                   [] call.phase \in {"resume", "dispatch"} -> Settling("rejected")
                   [] OTHER -> call
  BY ForgottenOwn DEF Reconnect
<1>2. /\ t \in Record /\ t.run = task.run /\ t.status = task.status /\ t.requests = task.requests
      /\ t.superseded = task.superseded /\ t.stops = task.stops
  BY Kept, ActivityShape
<1> HIDE DEF t
<1>3. Mine(t) /\ Advances(task, t)
  BY <1>2, OwnsFacts, SameMine
<1>4. call' \in {NoCall, call, Settling("lost"), Settling("rejected")}
  BY <1>1
<1>5. /\ call' = call \/ call'.phase \notin {"prepare", "resume", "dispatch"}
      /\ Stops(call') /\ Reads(call'.snapshot)
  <2>1. \A a \in {"lost", "rejected"} : /\ Settling(a).kind = call.kind /\ Settling(a).phase = "settle" /\ Settling(a).answer = a
                                        /\ Settling(a).snapshot = call.snapshot /\ Settling(a).run = call.run
    BY Kept, SettlingFields
  <2>2. \A a \in {"lost", "rejected"} : Stops(Settling(a))
    BY <2>1, OwnsFacts DEF Stops
  <2> QED
    BY <1>4, <2>1, <2>2, OwnsFacts
<1>6. live'.terminals \subseteq live.terminals /\ Stored(t)
  BY <1>1 DEF Stored
<1> QED
  BY <1>1, <1>2, <1>3, <1>5, <1>6, Advanced

(***************************************************************************)
(* The native thread moves on.                                             *)
(***************************************************************************)
ClearNext(t) == t.run = 0 /\ \A k \in 1..Len(turns') : k \in t.superseded
CarriesNext(q) == {k \in 1..Len(turns') : q \in turns'[k].inputs}
PlacedNext(t) ==
  /\ t.run \in {0, Len(turns')}
  /\ \A k \in 1..Len(turns') : /\ k < Len(turns') => k \in t.superseded
                               /\ Past(t, k) \/ \E q \in turns'[k].inputs : Open(t, q)
  /\ (\E m \in wire' : ~m.steer) => ClearNext(t)
RememberedNext(t, q) ==
  LET r == t.requests[q] IN
  /\ CarriesNext(q) = {} /\ r.run # 0 => Open(t, q) /\ r.run = Len(turns')
  /\ Open(t, q) /\ r.phase = "prepared" => ClearNext(t) \/ (t.run # 0 /\ t.run = r.run)
  /\ r.status = "working" => r.run # 0
ResumableNext(t) ==
  /\ \A p, q \in Request : Open(t, p) /\ Open(t, q) => p = q
  /\ \A q \in Request : RememberedNext(t, q)
  /\ t.status = "working" => t.run # 0
StoppedNext(t) == \A k \in Turn : t.stops[k] = "accepted" => k <= Len(turns') /\ turns'[k].status = "interrupted"
MineNext(t) == PlacedNext(t) /\ ResumableNext(t) /\ StoppedNext(t)
StopsNext(c) == c.kind = "stop" =>
  /\ c.run <= Len(turns')
  /\ c.phase = "waiting" /\ c.run = Len(turns') => c.key \in {0, Len(turns')}
  /\ c.phase = "settle" /\ c.answer = "ok" /\ c.key # 0 => c.key <= Len(turns') /\ turns'[c.key].status = "interrupted"

LEMMA OwnsNext ==
  ASSUME Types, Types', Inv, Owns, Grown, UNCHANGED <<task, disk, live, reader>>, MineNext(task), MineNext(disk),
         call'.phase = "prepare" => \A p \in Request : Open(task, p) => p = call'.request,
         call'.phase \in {"resume", "dispatch"} /\ ~call'.steer => ClearNext(task),
         StopsNext(call'), call'.snapshot = call.snapshot, \A q \in Request : Carries(q) \subseteq Carries(q)'
  PROVE  Owns'
<1>1. Placed(task)' /\ Placed(disk)'
  BY DEF MineNext, PlacedNext, Placed, Past, Open, Clear, ClearNext
<1>2. Resumable(task)' /\ Resumable(disk)'
  BY DEF MineNext, ResumableNext, RememberedNext, Resumable, Remembered, Open, Clear, ClearNext, Carries, CarriesNext
<1>3. Stopped(task)' /\ Stopped(disk)'
  BY DEF MineNext, StoppedNext, Stopped
<1>4. Mine(task)' /\ Mine(disk)'
  BY <1>1, <1>2, <1>3 DEF Mine
<1>5. Starting'
  BY DEF Starting, Open, Clear, ClearNext
<1>6. Noted'
  <2> SUFFICES ASSUME NEW k \in live.terminals PROVE k <= Len(turns') /\ Past(task, k)
    BY DEF Noted, Past
  <2>1. k \in Turn /\ k <= Len(turns) /\ Past(task, k)
    BY DEF Owns, Noted, Types, LiveType
  <2>2. Len(turns) \in Nat /\ Len(turns') \in Nat /\ k \in Nat
    BY <2>1 DEF Types, Thread, Turn
  <2> QED
    BY <2>1, <2>2 DEF Grown
<1>7. Stopping'
  BY DEF StopsNext, Stopping
<1>8. Looking'
  <2>1. \A s \in {call.snapshot, reader.snapshot} : s.inputs \subseteq Request
    BY DEF Types, CallType, ReaderType, Snapshot
  <2>2. \A q \in Request : Carries(q) \subseteq CarriesNext(q)
    BY DEF Carries, CarriesNext
  <2>3. \A s \in {call.snapshot, reader.snapshot} : \A q \in s.inputs : s.run \in CarriesNext(q)
    BY <2>1, <2>2 DEF Owns, Looking
  <2> QED
    BY <2>3 DEF Looking, Carries, CarriesNext
<1> QED
  BY <1>4, <1>5, <1>6, <1>7, <1>8 DEF Owns

LEMMA GrownMine ==
  ASSUME Types, Grown, Len(turns') = Len(turns), wire' \subseteq wire,
         \A k \in 1..Len(turns) : turns[k].inputs \subseteq turns'[k].inputs, NEW t, Mine(t)
  PROVE  MineNext(t) /\ (Clear(t) => ClearNext(t))
<1>1. Clear(t) <=> ClearNext(t)
  BY DEF Clear, ClearNext
<1>2. PlacedNext(t)
  BY <1>1 DEF Mine, Placed, PlacedNext
<1>3. ASSUME NEW q \in Request PROVE RememberedNext(t, q)
  <2>1. CarriesNext(q) = {} => Carries(q) = {}
    BY DEF Carries, CarriesNext
  <2> QED
    BY <1>1, <2>1 DEF Mine, Resumable, Remembered, RememberedNext
<1>4. ResumableNext(t)
  BY <1>3 DEF Mine, Resumable, ResumableNext
<1>5. StoppedNext(t)
  <2> SUFFICES ASSUME NEW k \in Turn, t.stops[k] = "accepted" PROVE k <= Len(turns') /\ turns'[k].status = "interrupted"
    BY DEF StoppedNext
  <2>1. k <= Len(turns) /\ turns[k].status = "interrupted"
    BY DEF Mine, Stopped
  <2>2. k \in 1..Len(turns)
    BY <2>1, Length DEF Types, Turn
  <2> QED
    BY <2>1, <2>2 DEF Grown, Final
<1> QED
  BY <1>1, <1>2, <1>4, <1>5 DEF MineNext

LEMMA GrownStops ==
  ASSUME Types, Grown, Len(turns') = Len(turns), Stops(call)
  PROVE  StopsNext(call)
<1> SUFFICES ASSUME call.kind = "stop", call.phase = "settle", call.answer = "ok", call.key # 0
             PROVE  turns'[call.key].status = "interrupted"
  BY DEF Stops, StopsNext
<1>1. call.key <= Len(turns) /\ turns[call.key].status = "interrupted" /\ call.key \in Run
  BY DEF Stops, Types, CallType
<1>2. call.key \in 1..Len(turns)
  BY <1>1, Length, Constants DEF Types, Turn
<1> QED
  BY <1>1, <1>2 DEF Grown, Final

LEMMA BegunMine ==
  ASSUME Types, Inv, NEW m \in wire, ~m.steer, NEW t, Mine(t), Honest(t), wire' = wire \ {m}, Grown,
         Len(turns') = Len(turns) + 1, \A k \in 1..Len(turns) : turns'[k] = turns[k],
         m.request \in turns'[Len(turns')].inputs
  PROVE  MineNext(t) /\ Open(t, m.request) /\ \A p \in Request : Open(t, p) => p = m.request
<1> DEFINE q == m.request
           N == Len(turns)
<1>1. q \in Request /\ Open(t, q) /\ t.requests[q].phase # "prepared"
  BY WireOpen
<1>2. \A p \in Request : Open(t, p) => p = q
  BY <1>1 DEF Mine, Resumable
<1>3. wire' = {}
  <2>1. \A n \in wire : n.request = q
    BY <1>2, WireOpen
  <2>2. \A n \in wire : n = m
    BY <2>1 DEF Inv, Wired
  <2> QED
    BY <2>2
<1>4. Clear(t)
  BY DEF Mine, Placed
<1>5. N \in Nat /\ \A k \in 1..Len(turns') : k \in 1..N \/ k = Len(turns')
  BY Length DEF Types
<1>6. PlacedNext(t)
  <2>1. t.run = 0 /\ \A k \in 1..N : k \in t.superseded
    BY <1>4 DEF Clear
  <2>2. ASSUME NEW k \in 1..Len(turns')
        PROVE  /\ k < Len(turns') => k \in t.superseded
               /\ Past(t, k) \/ \E p \in turns'[k].inputs : Open(t, p)
    <3>1. CASE k \in 1..N
      BY <2>1, <3>1 DEF Past
    <3>2. CASE k = Len(turns')
      <4>1. ~(k < Len(turns'))
        BY <1>5, <3>2
      <4> QED
        BY <1>1, <3>2, <4>1
    <3> QED
      BY <1>5, <3>1, <3>2
  <2> QED
    BY <1>3, <2>1, <2>2 DEF PlacedNext
<1>7. ASSUME NEW p \in Request PROVE RememberedNext(t, p)
  <2>1. Remembered(t, p)
    BY DEF Mine, Resumable
  <2>2. Len(turns') \in 1..Len(turns')
    BY <1>5
  <2>3. CarriesNext(q) # {}
    BY <2>2 DEF CarriesNext
  <2>4. CarriesNext(p) = {} => Carries(p) = {}
    BY <1>5 DEF Carries, CarriesNext
  <2>5. p # q => ~Open(t, p)
    BY <1>2
  <2> QED
    BY <1>1, <2>1, <2>3, <2>4, <2>5 DEF Remembered, RememberedNext
<1>8. ResumableNext(t)
  BY <1>7 DEF Mine, Resumable, ResumableNext
<1>9. StoppedNext(t)
  <2> SUFFICES ASSUME NEW k \in Turn, t.stops[k] = "accepted" PROVE k <= Len(turns') /\ turns'[k].status = "interrupted"
    BY DEF StoppedNext
  <2>1. k <= N /\ turns[k].status = "interrupted" /\ k \in Nat /\ k >= 1
    BY DEF Mine, Stopped, Turn
  <2> QED
    BY <1>5, <2>1
<1> QED
  BY <1>1, <1>2, <1>6, <1>8, <1>9 DEF MineNext

LEMMA NativeStartsOwns == ASSUME Types, Inv, Owns, Types', NEW m, NativeStarts(m) PROVE Owns'
<1> DEFINE n == Len(turns) + 1
<1>1. /\ m \in wire /\ ~m.steer /\ Begin({m.request}) /\ Answer(m, "ok", n) /\ UNCHANGED <<task, disk, live, reader>>
      /\ wire' = wire \ {m}
  BY DEF NativeStarts
<1>2. m.request \in Request /\ Sent(m.request)
  BY <1>1 DEF Types, MessageType, Sent
<1>3. n \in Turn /\ \A q \in Request : Carries(q)' = IF q \in {m.request} THEN Carries(q) \cup {n} ELSE Carries(q)
  BY <1>1, <1>2, Begun
<1>4. Grown /\ Len(turns') = n /\ Len(turns) \in Nat /\ \A k \in 1..Len(turns) : turns'[k] = turns[k]
  BY <1>1, <1>2, BegunGrown
<1>5. n \in Run
  BY <1>3, Constants
<1>6. m.request \in turns'[Len(turns')].inputs
  <2>1. n \in Carries(m.request)'
    BY <1>2, <1>3
  <2> QED
    BY <1>4, <2>1 DEF Carries
<1>7. \/ call' = call
      \/ call'.kind = "send" /\ call'.phase = "settle" /\ call'.snapshot = call.snapshot
  <2> HIDE DEF n
  <2> QED
    BY <1>1, <1>5, AnswerFields
<1>8. Mine(task) /\ Mine(disk) /\ Honest(task) /\ Honest(disk) /\ Stops(call)
  BY DEF Owns, Inv, Stopping, Stops
<1>9. MineNext(task) /\ MineNext(disk) /\ \A p \in Request : Open(task, p) => p = m.request
  BY <1>1, <1>4, <1>6, <1>8, BegunMine
<1>10. call'.phase \notin {"prepare", "resume", "dispatch"}
  <2> SUFFICES ASSUME call.phase \in {"prepare", "resume", "dispatch"} PROVE FALSE
    BY <1>7
  <2>1. call.kind = "send"
    BY DEF Types, Phases
  <2>2. call.request \in Request /\ Unsent(call.request)
        /\ (call.phase \in {"resume", "dispatch"} => task.requests[call.request].outcome = "unknown")
    BY <2>1, Sending
  <2>3. Open(task, m.request)
    BY <1>1, <1>8, WireOpen
  <2>4. m.request = call.request
    <3>1. CASE call.phase = "prepare"
      BY <1>2, <2>3, <3>1 DEF Owns, Starting
    <3>2. CASE call.phase \in {"resume", "dispatch"}
      BY <1>9, <2>2, <3>2 DEF Open
    <3> QED
      BY <3>1, <3>2
  <2> QED
    BY <1>2, <2>2, <2>4 DEF Unsent
<1>11. StopsNext(call')
  <2>1. StopsNext(call)
    <3> SUFFICES ASSUME call.kind = "stop" PROVE StopsNext(call)
      BY DEF StopsNext
    <3>1. /\ call.run <= Len(turns) /\ call.run \in Nat /\ call.key \in Nat
          /\ call.phase = "settle" /\ call.answer = "ok" /\ call.key # 0 =>
               call.key <= Len(turns) /\ turns[call.key].status = "interrupted"
      BY <1>8 DEF Stops, Types, CallType, Run
    <3>2. call.run <= Len(turns') /\ call.run # Len(turns')
      BY <1>4, <3>1
    <3>3. call.key # 0 /\ call.key <= Len(turns) => call.key <= Len(turns') /\ turns'[call.key] = turns[call.key]
      BY <1>4, <3>1
    <3> QED
      BY <3>1, <3>2, <3>3 DEF StopsNext
  <2> QED
    BY <1>7, <2>1 DEF StopsNext
<1>12. \A q \in Request : Carries(q) \subseteq Carries(q)'
  BY <1>3
<1>13. call'.snapshot = call.snapshot
  BY <1>7
<1> HIDE DEF n
<1> QED
  BY <1>1, <1>4, <1>9, <1>10, <1>11, <1>12, <1>13, OwnsNext

LEMMA NativeSteersOwns == ASSUME Types, Inv, Owns, Types', NEW m, NativeSteers(m) PROVE Owns'
<1> DEFINE n == m.run
<1>1. /\ m \in wire /\ Busy /\ Len(turns) = n /\ Answer(m, "ok", n) /\ UNCHANGED <<task, disk, live, reader>>
      /\ turns' = [turns EXCEPT ![n].inputs = @ \cup {m.request}] /\ turns # <<>> /\ wire' = wire \ {m}
  BY DEF NativeSteers, Busy
<1> HIDE DEF n
<1>2. n \in Turn /\ n \in Nat /\ n \in 1..Len(turns) /\ turns \in Seq(TurnType) /\ n \in Run
  <2>1. n \in Turn /\ n \in Nat
    BY <1>1, LatestFacts DEF Types
  <2> QED
    BY <1>1, <2>1, Constants DEF Types, Thread, Turn
<1>3. \A k \in 1..n : turns[k] \in TurnType
  BY <1>1, <1>2
<1>4. Len(turns') = Len(turns)
  BY <1>1, <1>2
<1>5. \A k \in 1..Len(turns) : turns'[k].status = turns[k].status /\ turns[k].inputs \subseteq turns'[k].inputs
  BY <1>1, <1>2, <1>3 DEF TurnType
<1>6. Grown
  BY <1>1, <1>2, <1>4, <1>5 DEF Grown
<1>7. \A q \in Request : Carries(q) \subseteq Carries(q)'
  BY <1>4, <1>5 DEF Carries
<1>8. Mine(task) /\ Mine(disk) /\ Stops(call)
  BY DEF Owns, Stopping, Stops
<1>9. MineNext(task) /\ MineNext(disk) /\ (Clear(task) => ClearNext(task))
  BY <1>1, <1>4, <1>5, <1>6, <1>8, GrownMine
<1>10. \/ call' = call
       \/ call'.kind = "send" /\ call'.phase = "settle" /\ call'.snapshot = call.snapshot
  BY <1>1, <1>2, AnswerFields
<1>11. StopsNext(call')
  <2>1. StopsNext(call)
    BY <1>4, <1>6, <1>8, GrownStops
  <2> QED
    BY <1>10, <2>1 DEF StopsNext
<1>12. /\ call'.phase = "prepare" => \A p \in Request : Open(task, p) => p = call'.request
       /\ call'.phase \in {"resume", "dispatch"} /\ ~call'.steer => ClearNext(task)
       /\ call'.snapshot = call.snapshot
  BY <1>9, <1>10 DEF Owns, Starting
<1> QED
  BY <1>1, <1>6, <1>7, <1>9, <1>11, <1>12, OwnsNext

LEMMA EndTurnOwns ==
  ASSUME Types, Inv, Owns, Types', NEW how \in Final, EndTurn(how), UNCHANGED <<task, disk, live, reader, wire>>,
         call'.snapshot = call.snapshot, call' = call \/ call'.phase \notin {"prepare", "resume", "dispatch"}, StopsNext(call')
  PROVE  Owns'
<1>1. Grown /\ Len(turns') = Len(turns)
  BY EndedGrown
<1>2. \A q \in Request : Carries(q)' = Carries(q)
  BY TurnEnded
<1>3. \A k \in 1..Len(turns) : turns[k].inputs \subseteq turns'[k].inputs
  <2> TAKE k \in 1..Len(turns)
  <2>1. turns[k] \in TurnType
    BY DEF Types, Thread
  <2>2. turns[k].inputs \subseteq Request
    BY <2>1 DEF TurnType
  <2>3. \A q \in Request : k \in Carries(q) => q \in turns'[k].inputs
    BY <1>2 DEF Carries
  <2> QED
    BY <2>2, <2>3 DEF Carries
<1>4. Mine(task) /\ Mine(disk)
  BY DEF Owns
<1>5. MineNext(task) /\ MineNext(disk) /\ (Clear(task) => ClearNext(task))
  BY <1>1, <1>3, <1>4, GrownMine
<1>6. /\ call'.phase = "prepare" => \A p \in Request : Open(task, p) => p = call'.request
      /\ call'.phase \in {"resume", "dispatch"} /\ ~call'.steer => ClearNext(task)
  BY <1>5 DEF Owns, Starting
<1> QED
  BY <1>1, <1>2, <1>5, <1>6, OwnsNext

LEMMA TurnEndsOwns == ASSUME Types, Inv, Owns, Types', TurnEnds PROVE Owns'
<1>1. PICK how \in Final : EndTurn(how)
  BY ConstantsOK DEF TurnEnds, Final
<1>2. UNCHANGED <<task, disk, live, call, reader, wire>>
  BY DEF TurnEnds
<1>3. Grown /\ Len(turns') = Len(turns) /\ Stops(call)
  BY <1>1, EndedGrown DEF Owns, Stopping, Stops
<1>4. StopsNext(call')
  BY <1>2, <1>3, GrownStops
<1> QED
  BY <1>1, <1>2, <1>4, EndTurnOwns

LEMMA InterruptOwns == ASSUME Types, Inv, Shows, Owns, Types', Interrupt PROVE Owns'
<1>1. /\ call.kind = "stop" /\ call.phase = "waiting" /\ UNCHANGED <<task, disk, live, reader, wire>>
      /\ \/ EndTurn("interrupted") /\ Len(turns) = call.run /\ \E a \in {"ok", "lost"} : call' = Settling(a)
         \/ call' = Settling("rejected") /\ UNCHANGED turns
  BY DEF Interrupt
<1>2. PICK a \in {"ok", "rejected", "lost"} : call' = Settling(a)
  BY <1>1
<1>3. /\ call'.snapshot = call.snapshot /\ call'.kind = "stop" /\ call'.phase = "settle" /\ call'.answer = a
      /\ call'.run = call.run /\ call'.key = call.key
  BY <1>1, <1>2, Kept, SettlingFields, SettlingKey
<1>4. CASE EndTurn("interrupted") /\ Len(turns) = call.run
  <2>1. "interrupted" \in Final
    BY DEF Final
  <2>2. Len(turns') = Len(turns) /\ turns'[Len(turns)].status = "interrupted" /\ Len(turns) \in Nat
    BY <1>4, <2>1, EndedGrown, Length DEF Types
  <2>3. call.key \in {0, Len(turns)}
    BY <1>1, <1>4 DEF Owns, Stopping
  <2>4. StopsNext(call')
    BY <1>3, <1>4, <2>2, <2>3 DEF StopsNext
  <2> QED
    BY <1>1, <1>3, <1>4, <2>1, <2>4, EndTurnOwns
<1>5. CASE call' = Settling("rejected") /\ UNCHANGED turns
  <2>1. call'.answer = "rejected"
    BY <1>5, Kept, SettlingFields
  <2>2. Stops(call')
    BY <1>1, <1>3, <2>1, OwnsFacts DEF Stops
  <2> QED
    BY <1>1, <1>3, <1>5, <2>2, OwnsFacts, Overlooked
<1> QED
  BY <1>1, <1>4, <1>5

LEMMA NativeRefusesOwns == ASSUME Types, Inv, Shows, Owns, NEW m, NativeRefuses(m) PROVE Owns'
<1>1. m \in wire /\ Answer(m, "rejected", 0) /\ UNCHANGED <<task, disk, live, reader, turns>> /\ 0 \in Run /\ wire' \subseteq wire
  BY Constants DEF NativeRefuses
<1>2. \/ call' = call
      \/ call'.kind = "send" /\ call'.phase = "settle" /\ call'.snapshot = call.snapshot
  BY <1>1, AnswerFields
<1>3. (call' = call \/ call'.phase \notin {"prepare", "resume", "dispatch"}) /\ Stops(call') /\ Reads(call'.snapshot)
  BY <1>2, OwnsFacts DEF Stops
<1> QED
  BY <1>1, <1>3, OwnsFacts, Overlooked

(***************************************************************************)
(* The invariant and the theorem.                                          *)
(***************************************************************************)
LEMMA InitOwns == Init => Owns
<1> SUFFICES ASSUME Init PROVE Owns
  OBVIOUS
<1>1. task = NoTask /\ disk = NoTask /\ live = NewLive /\ call = NoCall /\ reader = Idle /\ turns = <<>> /\ wire = {}
  BY DEF Init
<1>2. Len(turns) = 0 /\ \A k \in 1..Len(turns) : FALSE
  BY <1>1
<1>3. /\ NoTask.run = 0 /\ NoTask.status = "unknown" /\ \A k \in Turn : NoTask.stops[k] = "none"
      /\ \A q \in Request : NoTask.requests[q] = NoReceipt
      /\ NoReceipt.run = 0 /\ NoReceipt.status = "unknown" /\ NoReceipt.outcome = "none"
  BY Constants DEF NoTask, NoReceipt
<1>4. Placed(NoTask)
  BY <1>1, <1>2, <1>3 DEF Placed
<1>5. Resumable(NoTask)
  BY <1>3 DEF Resumable, Remembered, Open
<1>6. Stopped(NoTask)
  BY <1>3 DEF Stopped
<1>7. Starting /\ Stopping
  BY <1>1 DEF Starting, Stopping, NoCall
<1>8. Noted
  BY <1>1 DEF Noted, NewLive
<1>9. Looking
  BY <1>1 DEF Looking, NoCall, Idle, NoSnapshot
<1> QED
  BY <1>1, <1>4, <1>5, <1>6, <1>7, <1>8, <1>9 DEF Owns, Mine

LEMMA UnchangingOwns == ASSUME Types, Inv, Shows, Owns, UNCHANGED vars PROVE Owns'
<1>1. UNCHANGED <<task, disk, live, call, reader, turns, wire>>
  BY DEF vars
<1> QED
  BY <1>1, OwnsFacts, Overlooked

LEMMA OwnsStep ==
  ASSUME ~Shared, Types, Inv, Shows, Owns, Types', [Next]_vars
  PROVE  Owns'
<1>1. CASE StartWork
  BY <1>1, StartWorkOwns
<1>2. CASE \E q \in Sends : SendWork(q)
  BY <1>2, SendWorkOwns
<1>3. CASE ReadWork \/ StopWork
  BY <1>3, ReadWorkOwns, StopWorkOwns
<1>4. CASE Progress
  BY <1>4, ThreadStartedOwns, ThreadNotStartedOwns, PrepareOwns, ResumeOwns, DispatchOwns, AnswerLostOwns,
     SettleOwns, ReadAnsweredOwns, ReadFailedOwns, ReadDoneOwns, InterruptOwns, StopDoneOwns DEF Progress
<1>5. CASE Recovery
  BY <1>5, RecoverOwns, RecoverAnsweredOwns, RecoverDroppedOwns, RecoverFailedOwns, RecoverDoneOwns,
     WatchAnsweredOwns, WatchFailedOwns, WatchAgainOwns, WatchDoneOwns DEF Recovery
<1>6. CASE RetryObservations \/ Retire \/ Handle
  BY <1>6, RetryOwns, RetireOwns, HandleOwns
<1>7. CASE Native
  <2>1. ~Continue
    BY DEF Continue
  <2> QED
    BY <1>7, <2>1, NativeStartsOwns, NativeSteersOwns, NativeRefusesOwns, TurnEndsOwns DEF Native
<1>8. CASE Restart \/ Reconnect
  BY <1>8, RestartOwns, ReconnectOwns
<1>9. CASE UNCHANGED vars
  BY <1>9, UnchangingOwns
<1> QED
  BY <1>1, <1>2, <1>3, <1>4, <1>5, <1>6, <1>7, <1>8, <1>9 DEF Next

LEMMA Owning == ASSUME ~Shared PROVE Spec => []Owns
<1>1. Init => Owns
  BY InitOwns
<1>2. (Types /\ Inv /\ Shows) /\ (Types /\ Inv /\ Shows)' /\ Owns /\ [Next]_vars => Owns'
  BY OwnsStep
<1> QED
  BY <1>1, <1>2, Showing, PTL DEF Spec

(* A stop that is on record as accepted for an execution interrupted that  *)
(* very turn: without other clients of the thread no stop of tasks.go ends *)
(* a later turn than the one it was asked for, whatever is lost, fails to  *)
(* be saved or arrives late.                                               *)
THEOREM OneStop == ASSUME ~Shared PROVE Spec => []StopsItsTurn
<1>1. Owns => StopsItsTurn
  BY DEF Owns, Mine, Stopped, StopsItsTurn
<1> QED
  BY <1>1, Owning, PTL
=============================================================================
