-------------------------- MODULE WorkerTaskProofs --------------------------
(***************************************************************************)
(* Proofs about WorkerTask, for every set of requests, with or without     *)
(* other clients of the thread, and for every bound.                       *)
(***************************************************************************)
EXTENDS WorkerTask, FiniteSetTheorems, TLAPS

(***************************************************************************)
(* Types of what TypeOK leaves open.                                       *)
(***************************************************************************)
TurnStatus == {"inProgress"} \cup Final
Snapshot == {s \in [run : Run, status : {"none"} \cup TurnStatus, inputs : SUBSET Request] :
               s.run = 0 => s.status = "none"}
LiveType == [run : Run \cup {Absent}, terminals : SUBSET Turn, ended : [Turn -> {"none"} \cup Final],
             watching : BOOLEAN, subscribed : BOOLEAN, failed : BOOLEAN]
CallType == [kind : {"none", "send", "read", "stop"},
             phase : {"none", "create", "prepare", "resume", "dispatch", "waiting", "settle", "reading", "read", "fenced"},
             request : Request \cup {None}, steer : BOOLEAN, run : Run, key : Run,
             answer : {"none", "ok", "rejected", "lost"}, snapshot : Snapshot]
ReaderType == [phase : {"none", "reading", "read", "resuming", "resumed", "fenced"}, request : Request \cup {None},
               run : Run, stale : BOOLEAN, snapshot : Snapshot]
TurnType == [status : TurnStatus, inputs : SUBSET Request]
EventType == [turn : Turn, status : TurnStatus]
MessageType == [request : Request, steer : BOOLEAN, run : Run]

Thread ==
  /\ turns \in Seq(TurnType) /\ Len(turns) <= MaxTurns
  /\ \A k \in 1..Len(turns) : turns[k].status = "inProgress" => k = Len(turns)
Phases(c) ==
  /\ c.phase \in {"create", "prepare", "resume", "dispatch"} => c.kind = "send"
  /\ c.phase \in {"reading", "read", "fenced"} => c.kind = "read"
  /\ c.phase = "settle" => c.answer # "none"
Types ==
  /\ task \in Record /\ disk \in Record /\ live \in LiveType /\ call \in CallType /\ reader \in ReaderType
  /\ Thread /\ wire \subseteq MessageType
  /\ events \in Seq(EventType) /\ \A i \in 1..Len(events) : events[i].turn <= Len(turns)
  /\ Phases(call)

LEMMA Constants ==
  /\ None \notin Request /\ Start \in Request /\ 0 \in Run /\ Turn \subseteq Run /\ 0 \notin Turn
  /\ \A k \in Run : k # 0 => k \in Turn
  /\ MaxTurns \in Nat /\ Absent \notin Run
BY ConstantsOK DEF Request, Run, Turn, Absent

(***************************************************************************)
(* What a step of the record does to its requests.                         *)
(***************************************************************************)
(* The requests in I are learnt to be accepted; nothing else changes.      *)
Learns(r, s, I) ==
  /\ s \in Record /\ s.thread = r.thread /\ s.pending \in {r.pending, None}
  /\ \A q \in Request :
       \/ s.requests[q] = r.requests[q]
       \/ /\ q \in I /\ r.requests[q].outcome # "none" /\ s.pending # q
          /\ s.requests[q].outcome = "accepted" /\ s.requests[q].phase = "settled"

LEMMA LearnsSame ==
  ASSUME NEW r \in Record, NEW s \in Record, NEW I, s.thread = r.thread, s.pending = r.pending, s.requests = r.requests
  PROVE  Learns(r, s, I)
BY DEF Learns

LEMMA LearnsTwice ==
  ASSUME NEW r, NEW s, NEW t, NEW I, Learns(r, s, I), Learns(s, t, I)
  PROVE  Learns(r, t, I)
<1>1. t.pending \in {r.pending, None} /\ t.thread = r.thread /\ t \in Record
  BY DEF Learns
<1>2. ASSUME NEW q \in Request
      PROVE  \/ t.requests[q] = r.requests[q]
             \/ /\ q \in I /\ r.requests[q].outcome # "none" /\ t.pending # q
                /\ t.requests[q].outcome = "accepted" /\ t.requests[q].phase = "settled"
  <2>1. CASE s.requests[q] = r.requests[q]
    BY <2>1 DEF Learns
  <2>2. CASE /\ q \in I /\ r.requests[q].outcome # "none" /\ s.pending # q
             /\ s.requests[q].outcome = "accepted" /\ s.requests[q].phase = "settled"
    BY <2>2, Constants DEF Learns
  <2> QED
    BY <2>1, <2>2 DEF Learns
<1> QED
  BY <1>1, <1>2 DEF Learns

(* A copy that learns only what turns carry stays honest.                  *)
LEMMA LearnsHonest ==
  ASSUME NEW r, NEW s, NEW I, Learns(r, s, I), Honest(r), \A q \in I : q \in Request => Carries(q) # {}
  PROVE  Honest(s)
<1> SUFFICES ASSUME NEW q \in Request
             PROVE  LET x == s.requests[q] IN
                    /\ Sent(q) \/ Carries(q) # {} => x.outcome \in {"unknown", "accepted"} /\ x.phase \in {"dispatching", "settled"}
                    /\ x.outcome = "accepted" => Carries(q) # {}
                    /\ s.pending = q => x.outcome = "unknown"
                    /\ ~s.thread /\ q # Start => x.outcome = "none"
  BY DEF Honest
<1>1. CASE s.requests[q] = r.requests[q]
  BY <1>1, Constants DEF Learns, Honest
<1>2. CASE /\ q \in I /\ r.requests[q].outcome # "none" /\ s.pending # q
           /\ s.requests[q].outcome = "accepted" /\ s.requests[q].phase = "settled"
  BY <1>2 DEF Learns, Honest
<1> QED
  BY <1>1, <1>2 DEF Learns

LEMMA Fields ==
  ASSUME NEW t \in Record
  PROVE  t = [thread |-> t.thread, run |-> t.run, status |-> t.status, pending |-> t.pending, superseded |-> t.superseded,
              activity |-> t.activity, requests |-> t.requests, stops |-> t.stops]
BY DEF Record

LEMMA SupersedeLearns ==
  ASSUME NEW t \in Record, NEW k \in Run, NEW I
  PROVE  Learns(t, Supersede(t, k), I) /\ Supersede(t, k).run = t.run /\ Supersede(t, k).status = t.status
<1> DEFINE s == [t EXCEPT !.superseded = @ \cup {k}]
<1>1. CASE k = 0
  BY <1>1, LearnsSame DEF Supersede
<1>2. CASE k # 0
  <2>1. k \in Turn
    BY <1>2, Constants
  <2>2. s \in Record /\ s.thread = t.thread /\ s.pending = t.pending /\ s.requests = t.requests
        /\ s.run = t.run /\ s.status = t.status
    BY <2>1 DEF Record
  <2>3. Supersede(t, k) = s
    BY <1>2 DEF Supersede
  <2> QED
    BY <2>2, <2>3, LearnsSame
<1> QED
  BY <1>1, <1>2

LEMMA AcknowledgeLearns ==
  ASSUME NEW t \in Record, NEW inputs \in SUBSET Request
  PROVE  Learns(t, Acknowledge(t, inputs), inputs)
<1> DEFINE reqs == [q \in Request |-> IF q \in inputs /\ t.requests[q].outcome # "none"
                            THEN [t.requests[q] EXCEPT !.outcome = "accepted", !.phase = "settled"]
                            ELSE t.requests[q]]
           p == IF t.pending \in inputs THEN None ELSE t.pending
           s == [thread |-> t.thread, run |-> t.run, status |-> t.status, pending |-> p, superseded |-> t.superseded,
                 activity |-> t.activity, requests |-> reqs, stops |-> t.stops]
<1>1. ASSUME NEW x \in Receipt
      PROVE  [x EXCEPT !.outcome = "accepted", !.phase = "settled"]
             = [outcome |-> "accepted", phase |-> "settled", status |-> x.status, run |-> x.run]
  <2> DEFINE y == [x EXCEPT !.outcome = "accepted"]
  <2>1. y = [outcome |-> "accepted", phase |-> x.phase, status |-> x.status, run |-> x.run]
    BY DEF Receipt
  <2>2. [x EXCEPT !.outcome = "accepted", !.phase = "settled"] = [y EXCEPT !.phase = "settled"]
    BY Zenon
  <2> HIDE DEF y
  <2> QED
    BY <2>1, <2>2
<1>2. \A q \in Request : t.requests[q] \in Receipt
  BY DEF Record
<1>3. \A q \in Request : reqs[q] = IF q \in inputs /\ t.requests[q].outcome # "none"
        THEN [outcome |-> "accepted", phase |-> "settled", status |-> t.requests[q].status, run |-> t.requests[q].run]
        ELSE t.requests[q]
  BY <1>1, <1>2
<1>4. Acknowledge(t, inputs) = s
  <2> DEFINE u == [t EXCEPT !.requests = reqs]
  <2>1. Acknowledge(t, inputs) = [u EXCEPT !.pending = p]
    BY Zenon DEF Acknowledge
  <2> HIDE DEF reqs, p
  <2>2. u = [thread |-> t.thread, run |-> t.run, status |-> t.status, pending |-> t.pending, superseded |-> t.superseded,
             activity |-> t.activity, requests |-> reqs, stops |-> t.stops]
    BY Fields
  <2> HIDE DEF u
  <2> QED
    BY <2>1, <2>2
<1>5. reqs \in [Request -> Receipt]
  <2>1. \A q \in Request : reqs[q] \in Receipt
    BY <1>2, <1>3 DEF Receipt, Outcome
  <2> QED
    BY <2>1
<1> HIDE DEF reqs
<1>6. p \in Request \cup {None}
  BY DEF Record
<1>7. s \in Record
  BY <1>5, <1>6 DEF Record
<1>8. ASSUME NEW q \in Request
      PROVE  \/ reqs[q] = t.requests[q]
             \/ /\ q \in inputs /\ t.requests[q].outcome # "none" /\ p # q
                /\ reqs[q].outcome = "accepted" /\ reqs[q].phase = "settled"
  <2>1. CASE q \in inputs /\ t.requests[q].outcome # "none"
    <3>1. p # q
      BY <2>1, Constants
    <3>2. reqs[q] = [outcome |-> "accepted", phase |-> "settled", status |-> t.requests[q].status, run |-> t.requests[q].run]
      BY <1>3, <2>1
    <3> QED
      BY <2>1, <3>1, <3>2
  <2>2. CASE ~(q \in inputs /\ t.requests[q].outcome # "none")
    BY <1>3, <2>2
  <2> QED
    BY <2>1, <2>2
<1> QED
  BY <1>4, <1>7, <1>8 DEF Learns

LEMMA ProjectLearns ==
  ASSUME NEW t \in Record, NEW k, NEW status \in {"none"} \cup TurnStatus, NEW terminals, NEW I
  PROVE  Learns(t, Project(t, k, status, terminals), I)
<1>1. CASE status \in Final
  <2> DEFINE s == [t EXCEPT !.activity = "idle", !.status = status]
  <2>1. s \in Record /\ s.thread = t.thread /\ s.pending = t.pending /\ s.requests = t.requests
    BY <1>1 DEF Record, Status
  <2> QED
    BY <1>1, <2>1, LearnsSame DEF Project
<1>2. CASE status \notin Final
  <2> DEFINE s == [t EXCEPT !.activity = "active", !.status = "working"]
  <2>1. s \in Record /\ s.thread = t.thread /\ s.pending = t.pending /\ s.requests = t.requests
    BY DEF Record, Status
  <2>2. Learns(t, t, I)
    BY LearnsSame
  <2> QED
    BY <1>2, <2>1, <2>2, LearnsSame DEF Project
<1> QED
  BY <1>1, <1>2

LEMMA RunSet ==
  ASSUME NEW t \in Record, NEW k \in Run, NEW I
  PROVE  Learns(t, [t EXCEPT !.run = k], I)
<1>1. LET s == [t EXCEPT !.run = k] IN s \in Record /\ s.thread = t.thread /\ s.pending = t.pending /\ s.requests = t.requests
  BY DEF Record
<1> QED
  BY <1>1, LearnsSame

LEMMA UnresolvedLearns ==
  ASSUME NEW t \in Record, NEW k \in Run, NEW status, NEW I
  PROVE  Learns(t, Unresolved(t, k, status), I)
<1> DEFINE a == IF status = "inProgress" THEN "active" ELSE t.activity
           n == IF t.run = 0 THEN k ELSE t.run
           s == [thread |-> t.thread, run |-> n, status |-> "unknown", pending |-> t.pending, superseded |-> t.superseded,
                 activity |-> a, requests |-> t.requests, stops |-> t.stops]
<1>1. Unresolved(t, k, status) = s
  <2> DEFINE u == [t EXCEPT !.activity = a]
             v == [u EXCEPT !.run = n]
  <2>1. Unresolved(t, k, status) = [v EXCEPT !.status = "unknown"]
    <3>1. u.run = t.run
      BY Fields
    <3> QED
      BY Zenon, <3>1 DEF Unresolved
  <2> HIDE DEF a, n
  <2>2. u = [thread |-> t.thread, run |-> t.run, status |-> t.status, pending |-> t.pending, superseded |-> t.superseded,
             activity |-> a, requests |-> t.requests, stops |-> t.stops]
    BY Fields
  <2> HIDE DEF u
  <2>3. v = [thread |-> t.thread, run |-> n, status |-> t.status, pending |-> t.pending, superseded |-> t.superseded,
             activity |-> a, requests |-> t.requests, stops |-> t.stops]
    BY <2>2
  <2> HIDE DEF v
  <2> QED
    BY <2>1, <2>3
<1>2. n \in Run /\ a \in {"", "active", "idle"}
  BY DEF Record
<1> HIDE DEF a, n
<1>3. s \in Record
  BY <1>2 DEF Record, Status
<1> QED
  BY <1>1, <1>3, LearnsSame

LEMMA ObserveLearns ==
  ASSUME NEW t \in Record, NEW k \in Turn, NEW status \in {"none"} \cup TurnStatus, NEW inputs \in SUBSET Request, NEW history
  PROVE  Learns(t, Observe(t, k, status, inputs, history), inputs)
<1> DEFINE a == Acknowledge(t, inputs)
           next == IF ~history /\ status = "inProgress" THEN Supersede(a, a.run) ELSE a
<1>1. Learns(t, a, inputs) /\ a \in Record /\ k \in Run
  BY AcknowledgeLearns, Constants DEF Learns
<1>2. Observe(t, k, status, inputs, history) =
        CASE k \in a.superseded -> a
          [] k \notin a.superseded /\ (a.pending # None \/ HasUnknown(a)) -> Unresolved(a, k, status)
          [] k \notin a.superseded /\ ~(a.pending # None \/ HasUnknown(a)) ->
               IF a.run = k THEN Project(a, k, status, live.terminals)
               ELSE IF k \in live.terminals THEN a
               ELSE Project([next EXCEPT !.run = k], k, status, live.terminals)
  BY DEF Observe
<1> HIDE DEF a
<1>3. Learns(a, next, inputs) /\ next \in Record
  <2>1. a.run \in Run
    BY <1>1 DEF Record
  <2>2. Learns(a, Supersede(a, a.run), inputs) /\ Learns(a, a, inputs)
    BY <1>1, <2>1, SupersedeLearns, LearnsSame
  <2>3. Learns(a, next, inputs)
    BY <2>2
  <2> QED
    BY <2>3 DEF Learns
<1> HIDE DEF next
<1>4. Learns(next, [next EXCEPT !.run = k], inputs) /\ [next EXCEPT !.run = k] \in Record
  BY <1>1, <1>3, RunSet DEF Learns
<1> DEFINE r == [next EXCEPT !.run = k]
<1>5. Learns(r, Project(r, k, status, live.terminals), inputs) /\ Learns(a, Project(a, k, status, live.terminals), inputs)
  BY <1>1, <1>4, ProjectLearns
<1>6. Learns(a, Unresolved(a, k, status), inputs) /\ Learns(a, a, inputs)
  BY <1>1, UnresolvedLearns, LearnsSame
<1>7. Learns(a, Project(r, k, status, live.terminals), inputs)
  <2>1. Learns(next, r, inputs)
    BY <1>4
  <2> HIDE DEF r
  <2>2. Learns(next, Project(r, k, status, live.terminals), inputs)
    BY <1>5, <2>1, LearnsTwice
  <2> QED
    BY <1>3, <2>2, LearnsTwice
<1>8. Learns(a, Observe(t, k, status, inputs, history), inputs)
  BY <1>2, <1>5, <1>6, <1>7
<1> QED
  BY <1>1, <1>8, LearnsTwice

LEMMA ObserveLatestLearns ==
  ASSUME NEW t \in Record, NEW s \in Snapshot
  PROVE  Learns(t, ObserveLatest(t, s), s.inputs)
<1>1. CASE s.run = 0
  BY <1>1, LearnsSame DEF ObserveLatest
<1>2. CASE s.run # 0
  <2> DEFINE seen == Observe(t, s.run, s.status, s.inputs, TRUE)
  <2>1. s.run \in Turn /\ s.status \in {"none"} \cup TurnStatus /\ s.inputs \in SUBSET Request
    BY <1>2, Constants DEF Snapshot
  <2>2. Learns(t, seen, s.inputs) /\ seen \in Record /\ t.run \in Run
    <3>1. Learns(t, seen, s.inputs)
      BY <2>1, ObserveLearns
    <3>2. t.run \in Run
      BY DEF Record
    <3> QED
      BY <3>1, <3>2 DEF Learns
  <2>3. ObserveLatest(t, s) = IF seen.run # t.run THEN Supersede(seen, t.run) ELSE seen
    BY <1>2 DEF ObserveLatest
  <2> HIDE DEF seen
  <2>4. Learns(seen, Supersede(seen, t.run), s.inputs)
    BY <2>2, SupersedeLearns
  <2> QED
    BY <2>2, <2>3, <2>4, LearnsTwice
<1> QED
  BY <1>1, <1>2

LEMMA QuietLearns ==
  ASSUME NEW t \in Record, NEW s \in Snapshot, NEW I
  PROVE  Learns(t, Quiet(t, s), I)
<1>1. CASE s.status = "inProgress"
  <2>1. LET u == [t EXCEPT !.activity = "active"] IN u \in Record /\ u.thread = t.thread /\ u.pending = t.pending /\ u.requests = t.requests
    BY DEF Record
  <2> QED
    BY <1>1, <2>1, LearnsSame DEF Quiet
<1>2. CASE s.status # "inProgress"
  <2> DEFINE st == IF t.status = "working" THEN "unknown" ELSE t.status
             v == [t EXCEPT !.activity = "idle"]
             u == [v EXCEPT !.status = st]
  <2>1. v = [thread |-> t.thread, run |-> t.run, status |-> t.status, pending |-> t.pending, superseded |-> t.superseded,
             activity |-> "idle", requests |-> t.requests, stops |-> t.stops]
    BY Fields
  <2>2. Quiet(t, s) = u
    <3>1. v.status = t.status
      BY <2>1
    <3> QED
      BY Zenon, <1>2, <3>1 DEF Quiet
  <2>3. st \in Status
    BY DEF Record, Status
  <2> HIDE DEF st, v
  <2>4. u = [thread |-> t.thread, run |-> t.run, status |-> st, pending |-> t.pending, superseded |-> t.superseded,
             activity |-> "idle", requests |-> t.requests, stops |-> t.stops]
    BY <2>1
  <2> HIDE DEF u
  <2>5. u \in Record /\ u.thread = t.thread /\ u.pending = t.pending /\ u.requests = t.requests
    BY <2>3, <2>4 DEF Record
  <2> QED
    BY <2>2, <2>5, LearnsSame
<1> QED
  BY <1>1, <1>2

(***************************************************************************)
(* What the calls write.                                                   *)
(***************************************************************************)
Answers == {"accepted", "rejected"}

(* A request gets its receipt, and nothing is pending.                     *)
Resolves(r, s, q, o) ==
  /\ s \in Record /\ s.thread = r.thread /\ s.pending = None
  /\ s.requests[q].outcome = o /\ s.requests[q].phase = "settled"
  /\ \A p \in Request \ {q} : s.requests[p] = r.requests[p]

LEMMA ResolvesLearns ==
  ASSUME NEW r, NEW s, NEW t, NEW q \in Request, NEW o, Resolves(r, s, q, o), Learns(s, t, {})
  PROVE  Resolves(r, t, q, o)
<1>1. \A p \in Request : t.requests[p] = s.requests[p]
  BY DEF Learns
<1> QED
  BY <1>1 DEF Resolves, Learns

LEMMA ResolvesHonest ==
  ASSUME NEW r, NEW s, NEW q \in Request, NEW o \in Answers, Resolves(r, s, q, o), Honest(r),
         o = "accepted" => Carries(q) # {}, o = "rejected" => Unsent(q), r.thread \/ q = Start
  PROVE  Honest(s)
<1> SUFFICES ASSUME NEW p \in Request
             PROVE  LET x == s.requests[p] IN
                    /\ Sent(p) \/ Carries(p) # {} => x.outcome \in {"unknown", "accepted"} /\ x.phase \in {"dispatching", "settled"}
                    /\ x.outcome = "accepted" => Carries(p) # {}
                    /\ s.pending = p => x.outcome = "unknown"
                    /\ ~s.thread /\ p # Start => x.outcome = "none"
  BY DEF Honest
<1>1. s.pending # p
  BY Constants DEF Resolves
<1>2. CASE p = q
  BY <1>1, <1>2 DEF Resolves, Unsent, Answers
<1>3. CASE p # q
  BY <1>1, <1>3 DEF Resolves, Honest
<1> QED
  BY <1>2, <1>3

RequestIs(t, s, q, x, p) == s = [t EXCEPT !.requests[q] = x, !.pending = p]

LEMMA RequestSet ==
  ASSUME NEW t \in Record, NEW q \in Request, NEW x \in Receipt, NEW p \in Request \cup {None},
         NEW s, RequestIs(t, s, q, x, p)
  PROVE  /\ s \in Record /\ s.thread = t.thread /\ s.pending = p /\ s.run = t.run /\ s.superseded = t.superseded
         /\ s.requests[q] = x /\ \A y \in Request \ {q} : s.requests[y] = t.requests[y]
<1> DEFINE reqs == [t.requests EXCEPT ![q] = x]
           u == [t EXCEPT !.requests = reqs]
           v == [thread |-> t.thread, run |-> t.run, status |-> t.status, pending |-> p, superseded |-> t.superseded,
                 activity |-> t.activity, requests |-> reqs, stops |-> t.stops]
<1>1. [t EXCEPT !.requests[q] = x, !.pending = p] = [u EXCEPT !.pending = p]
  BY Zenon
<1>2. reqs \in [Request -> Receipt] /\ reqs[q] = x /\ \A y \in Request \ {q} : reqs[y] = t.requests[y]
  BY DEF Record
<1> HIDE DEF reqs
<1>3. u = [thread |-> t.thread, run |-> t.run, status |-> t.status, pending |-> t.pending, superseded |-> t.superseded,
           activity |-> t.activity, requests |-> reqs, stops |-> t.stops]
  BY Fields
<1> HIDE DEF u
<1>4. [u EXCEPT !.pending = p] = v
  BY <1>3
<1>5. v \in Record
  BY <1>2 DEF Record
<1>6. s = v
  BY <1>1, <1>4, Zenon DEF RequestIs
<1>7. s \in Record /\ s.thread = t.thread /\ s.pending = p /\ s.run = t.run /\ s.superseded = t.superseded /\ s.requests = reqs
  <2>1. v.thread = t.thread /\ v.pending = p /\ v.run = t.run /\ v.superseded = t.superseded /\ v.requests = reqs
    OBVIOUS
  <2> HIDE DEF v
  <2> QED
    BY <1>5, <1>6, <2>1
<1> HIDE DEF v
<1> QED
  BY <1>2, <1>7

LEMMA ReceiptMade ==
  ASSUME NEW o \in Outcome \cup {"none"}, NEW ph \in {"none", "creating", "prepared", "dispatching", "settled"}
  PROVE  /\ [NoReceipt EXCEPT !.outcome = o, !.phase = ph] = [outcome |-> o, phase |-> ph, status |-> "unknown", run |-> 0]
         /\ [outcome |-> o, phase |-> ph, status |-> "unknown", run |-> 0] \in Receipt
         /\ NoReceipt \in Receipt
<1> DEFINE y == [NoReceipt EXCEPT !.outcome = o]
<1>1. y = [outcome |-> o, phase |-> "none", status |-> "unknown", run |-> 0]
  BY DEF NoReceipt
<1>2. [NoReceipt EXCEPT !.outcome = o, !.phase = ph] = [y EXCEPT !.phase = ph]
  BY Zenon
<1> HIDE DEF y
<1>3. [y EXCEPT !.phase = ph] = [outcome |-> o, phase |-> ph, status |-> "unknown", run |-> 0]
  BY <1>1
<1>4. [outcome |-> o, phase |-> ph, status |-> "unknown", run |-> 0] \in Receipt /\ NoReceipt \in Receipt
  BY Constants DEF NoReceipt, Receipt, Outcome, Status
<1> QED
  BY <1>2, <1>3, <1>4

LEMMA SettledResolves ==
  ASSUME NEW t \in Record, NEW q \in Request, NEW o \in Answers
  PROVE  Resolves(t, Settled(t, q, o), q, o) /\ Settled(t, q, o).run = t.run /\ Settled(t, q, o).superseded = t.superseded
<1> DEFINE x == [outcome |-> o, phase |-> "settled", status |-> "unknown", run |-> 0]
           s == [t EXCEPT !.requests[q] = x, !.pending = None]
<1>1. [NoReceipt EXCEPT !.outcome = o, !.phase = "settled"] = x /\ x \in Receipt
  BY ReceiptMade DEF Answers, Outcome
<1>2. Settled(t, q, o) = s
  BY <1>1, Zenon DEF Settled
<1>3. x.outcome = o /\ x.phase = "settled"
  OBVIOUS
<1> HIDE DEF x
<1>4. /\ s \in Record /\ s.thread = t.thread /\ s.pending = None /\ s.run = t.run /\ s.superseded = t.superseded
      /\ s.requests[q] = x /\ \A y \in Request \ {q} : s.requests[y] = t.requests[y]
  <2>1. RequestIs(t, s, q, x, None)
    BY Zenon DEF RequestIs
  <2>2. None \in Request \cup {None}
    OBVIOUS
  <2>3. x \in Receipt
    BY <1>1
  <2> HIDE DEF s
  <2> QED
    BY <2>1, <2>2, <2>3, RequestSet
<1> HIDE DEF s
<1> QED
  BY <1>2, <1>3, <1>4 DEF Resolves

LEMMA ThreeSet ==
  ASSUME NEW t \in Record, NEW n \in Run, NEW st \in Status, NEW su \in SUBSET Turn
  PROVE  Learns(t, [t EXCEPT !.run = n, !.status = st, !.superseded = su], {})
<1> DEFINE u == [t EXCEPT !.run = n]
           v == [u EXCEPT !.status = st]
           w == [v EXCEPT !.superseded = su]
<1>1. [t EXCEPT !.run = n, !.status = st, !.superseded = su] = w
  BY Zenon
<1>2. u = [thread |-> t.thread, run |-> n, status |-> t.status, pending |-> t.pending, superseded |-> t.superseded,
           activity |-> t.activity, requests |-> t.requests, stops |-> t.stops]
  BY Fields
<1> HIDE DEF u
<1>3. v = [thread |-> t.thread, run |-> n, status |-> st, pending |-> t.pending, superseded |-> t.superseded,
           activity |-> t.activity, requests |-> t.requests, stops |-> t.stops]
  BY <1>2
<1> HIDE DEF v
<1>4. w = [thread |-> t.thread, run |-> n, status |-> st, pending |-> t.pending, superseded |-> su,
           activity |-> t.activity, requests |-> t.requests, stops |-> t.stops]
  BY <1>3
<1> HIDE DEF w
<1>5. w \in Record /\ w.thread = t.thread /\ w.pending = t.pending /\ w.requests = t.requests
  BY <1>4 DEF Record
<1> QED
  BY <1>1, <1>5, LearnsSame

LEMMA AcceptedResolves ==
  ASSUME task \in Record, live \in LiveType, NEW q \in Request, NEW k \in Turn
  PROVE  Resolves(task, Accepted(q, k), q, "accepted")
<1> DEFINE t == Settled(task, q, "accepted")
           begun == Observe(t, k, "inProgress", {}, FALSE)
           again == Observe(begun, k, live.ended[k], {}, FALSE)
<1>1. Resolves(task, t, q, "accepted") /\ t \in Record
  BY SettledResolves DEF Resolves, Answers
<1>2. Accepted(q, k) = IF t.run \notin {0, k} \cup t.superseded THEN t
                       ELSE IF live.ended[k] \in Final /\ begun.run = k /\ begun.status \notin Final THEN again ELSE begun
  BY DEF Accepted
<1> HIDE DEF t
<1>3. "inProgress" \in {"none"} \cup TurnStatus /\ live.ended[k] \in {"none"} \cup TurnStatus /\ {} \in SUBSET Request
  BY DEF TurnStatus, LiveType
<1>4. Learns(t, begun, {})
  BY <1>1, <1>3, ObserveLearns
<1>5. begun \in Record
  BY <1>4 DEF Learns
<1> HIDE DEF begun
<1>6. Learns(begun, again, {})
  BY <1>3, <1>5, ObserveLearns
<1> HIDE DEF again
<1>7. Resolves(task, begun, q, "accepted")
  BY <1>1, <1>4, ResolvesLearns
<1>8. Resolves(task, again, q, "accepted")
  BY <1>6, <1>7, ResolvesLearns
<1> QED
  BY <1>1, <1>2, <1>7, <1>8

LEMMA RefusedResolves ==
  ASSUME task \in Record, NEW q \in Request
  PROVE  Resolves(task, Refused(q), q, IF task.requests[q].outcome = "accepted" THEN "accepted" ELSE "rejected")
<1> DEFINE o == IF task.requests[q].outcome = "accepted" THEN "accepted" ELSE "rejected"
           r == task.requests[q]
           t == Settled(task, q, o)
           st == IF r.status = "unknown" /\ r.run = 0 THEN "failed" ELSE r.status
           su == IF r.status \in Final THEN t.superseded \ {r.run} ELSE t.superseded
           u == [t EXCEPT !.run = r.run, !.status = st, !.superseded = su]
<1>1. Resolves(task, t, q, o) /\ t \in Record
  <2>1. o \in Answers
    BY DEF Answers
  <2> HIDE DEF o
  <2> QED
    BY <2>1, SettledResolves DEF Resolves
<1>2. r \in Receipt
  BY DEF Record
<1>3. r.run \in Run /\ st \in Status
  BY <1>2 DEF Receipt, Status, Final
<1>4. su \in SUBSET Turn
  BY <1>1 DEF Record
<1>5. Refused(q) = IF t.run \notin {0, r.run} THEN t ELSE u
  BY Zenon DEF Refused
<1> HIDE DEF o, r, t, st, su
<1>6. Learns(t, u, {})
  BY <1>1, <1>3, <1>4, ThreeSet
<1> HIDE DEF u
<1>7. Resolves(task, u, q, o)
  BY <1>1, <1>6, ResolvesLearns
<1>8. Resolves(task, Refused(q), q, o)
  BY <1>1, <1>5, <1>7
<1> QED
  BY <1>8 DEF o

(* settlePreparedTask, after a restart.                                    *)
LEMMA PreparedResolves ==
  ASSUME NEW t \in Record
  PROVE  \/ SettlePrepared(t) = t
         \/ /\ t.pending \in Request /\ t.requests[t.pending].phase = "prepared" /\ t.requests[t.pending].outcome = "unknown"
            /\ Resolves(t, SettlePrepared(t), t.pending, "rejected")
<1> DEFINE q == t.pending
           r == t.requests[q]
           s == Settled(t, q, "rejected")
           u == [s EXCEPT !.run = r.run, !.status = r.status, !.superseded = s.superseded \ {r.run}]
<1>1. CASE q = None \/ r.phase # "prepared" \/ r.outcome # "unknown"
  BY <1>1 DEF SettlePrepared
<1>2. CASE ~(q = None \/ r.phase # "prepared" \/ r.outcome # "unknown")
  <2>1. q \in Request /\ r.phase = "prepared" /\ r.outcome = "unknown"
    BY <1>2 DEF Record
  <2>2. SettlePrepared(t) = u
    BY <1>2, Zenon DEF SettlePrepared
  <2>3. r \in Receipt
    BY <2>1 DEF Record
  <2>4. r.run \in Run /\ r.status \in Status
    BY <2>3 DEF Receipt
  <2>5. Resolves(t, s, q, "rejected") /\ s \in Record
    BY <2>1, SettledResolves DEF Resolves, Answers
  <2>6. s.superseded \ {r.run} \in SUBSET Turn
    BY <2>5 DEF Record
  <2> HIDE DEF s
  <2>7. Learns(s, u, {})
    BY <2>4, <2>5, <2>6, ThreeSet
  <2> HIDE DEF u
  <2>8. Resolves(t, u, q, "rejected")
    BY <2>1, <2>5, <2>7, ResolvesLearns
  <2> QED
    BY <2>1, <2>2, <2>8
<1> QED
  BY <1>1, <1>2

(***************************************************************************)
(* Writing a copy.                                                         *)
(***************************************************************************)
Stored(t) == disk' \in {disk, File(t)}

LEMMA StoredBy == \A t : Saved(t) \/ Lost(t) \/ SaveAnyway(t) \/ UNCHANGED disk => Stored(t)
BY DEF Saved, Lost, SaveAnyway, Stored

LEMMA ActivitySet ==
  ASSUME NEW t \in Record, NEW a \in {"", "active", "idle"}, NEW I
  PROVE  Learns(t, [t EXCEPT !.activity = a], I)
<1>1. LET u == [t EXCEPT !.activity = a] IN u \in Record /\ u.thread = t.thread /\ u.pending = t.pending /\ u.requests = t.requests
  BY DEF Record
<1> QED
  BY <1>1, LearnsSame

LEMMA FileLearns == ASSUME NEW t \in Record PROVE Learns(t, File(t), {})
BY ActivitySet DEF File

LEMMA FileHonest == ASSUME NEW t \in Record, Honest(t) PROVE File(t) \in Record /\ Honest(File(t))
<1>1. Learns(t, File(t), {})
  BY FileLearns
<1>2. Honest(File(t))
  BY <1>1, LearnsHonest
<1> QED
  BY <1>1, <1>2 DEF Learns

Known(I) == \A q \in I : q \in Request => Carries(q) # {}

LEMMA HonestStays ==
  ASSUME NEW t, Honest(t), UNCHANGED <<turns, wire>>
  PROVE  (task' = t => Honest(task)') /\ (disk' = t => Honest(disk)')
BY DEF Honest, Sent, Carries

(* The thread and the wire are left alone, and both copies are honest.     *)
LEMMA Copies ==
  ASSUME Types, Inv, task' \in Record, Honest(task'), NEW t \in Record, Honest(t), Stored(t), UNCHANGED <<turns, wire>>
  PROVE  task' \in Record /\ disk' \in Record /\ Honest(task)' /\ Honest(disk)' /\ Wired'
<1>1. File(t) \in Record /\ Honest(File(t))
  BY FileHonest
<1>2. Honest(disk) /\ disk \in Record
  BY DEF Types, Inv
<1>3. Honest(task)'
  BY HonestStays
<1>4. Honest(disk)' /\ disk' \in Record
  BY <1>1, <1>2, HonestStays DEF Stored
<1>5. Wired'
  BY DEF Inv, Wired, Carries
<1> QED
  BY <1>3, <1>4, <1>5

(* Somebody writes what was learnt of accepted requests while a call may   *)
(* be under way.                                                           *)
LEMMA CallingStays ==
  ASSUME Types, Inv, NEW I, Learns(task, task', I), Known(I), UNCHANGED <<turns, wire>>, call' = call \/ call'.kind # "send"
  PROVE  Calling'
<1>1. CASE call'.kind # "send"
  BY <1>1 DEF Calling
<1>2. CASE call' = call /\ call.kind = "send"
  <2> DEFINE q == call.request
  <2>1. /\ q \in Request /\ (q # Start => task.thread)
        /\ call.phase \in {"create", "prepare", "resume", "dispatch"} => Unsent(q)
        /\ call.phase = "create" => q = Start /\ task.pending = None
        /\ call.phase = "prepare" => task.pending = None /\ task.thread
        /\ call.phase \in {"resume", "dispatch"} => task.requests[q].outcome = "unknown" /\ task.thread
        /\ call.phase = "settle" /\ call.answer = "rejected" => Unsent(q)
        /\ call.phase = "settle" /\ call.answer = "ok" => Carries(q) # {} /\ call.run \in Turn
    BY <1>2 DEF Inv, Calling
  <2>2. task'.thread = task.thread /\ task'.pending \in {task.pending, None}
        /\ (task'.requests[q] = task.requests[q] \/ q \in I)
    BY <2>1 DEF Learns
  <2>3. call.phase \in {"resume", "dispatch"} => task'.requests[q].outcome = "unknown"
    BY <2>1, <2>2 DEF Known, Unsent
  <2>4. (Unsent(q) => Unsent(q)') /\ (Carries(q) # {} => Carries(q)' # {})
    BY <1>2 DEF Unsent, Sent, Carries
  <2> HIDE DEF q
  <2>5. q = call.request /\ q' = call'.request
    BY DEF q
  <2> QED
    BY <1>2, <2>1, <2>2, <2>3, <2>4, <2>5 DEF Calling
<1> QED
  BY <1>1, <1>2

LEMMA LatestFacts ==
  ASSUME Thread
  PROVE  /\ Latest \in Snapshot /\ Known(Latest.inputs) /\ Latest.run = Len(turns)
         /\ Busy => Len(turns) \in Turn /\ turns[Len(turns)].status = "inProgress"
         /\ Len(turns) \in Nat
<1>1. Len(turns) \in Nat /\ Len(turns) <= MaxTurns /\ (turns # <<>> => Len(turns) > 0)
  BY DEF Thread
<1>2. CASE turns = <<>>
  <2>1. Latest = [run |-> Len(turns), status |-> "none", inputs |-> {}]
    BY <1>2 DEF Latest
  <2>2. ~Busy /\ Len(turns) \in Run
    BY <1>1, <1>2, Constants DEF Busy, Run
  <2>3. Latest \in Snapshot /\ Latest.inputs = {} /\ Latest.run = Len(turns)
    BY <2>1, <2>2 DEF Snapshot
  <2> QED
    BY <1>1, <2>2, <2>3 DEF Known
<1>3. CASE turns # <<>>
  <2> DEFINE n == Len(turns)
  <2>1. n \in 1..Len(turns) /\ turns[n] \in TurnType /\ n \in Turn /\ n \in Run
    BY <1>1, <1>3, Constants DEF Thread, Turn, Run
  <2>2. Latest = [run |-> n, status |-> turns[n].status, inputs |-> turns[n].inputs]
    BY <1>3 DEF Latest, Last
  <2>3. Latest \in Snapshot /\ Latest.run = n /\ Latest.inputs = turns[n].inputs
    BY <2>1, <2>2 DEF Snapshot, TurnType
  <2>4. Known(turns[n].inputs)
    BY <2>1 DEF Known, Carries
  <2>5. Busy => turns[n].status = "inProgress"
    BY DEF Busy, Last
  <2> QED
    BY <1>1, <2>1, <2>3, <2>4, <2>5
<1> QED
  BY <1>2, <1>3

LEMMA NoSnapshotFacts == NoSnapshot \in Snapshot /\ NoSnapshot.inputs = {}
BY Constants DEF NoSnapshot, Snapshot, TurnStatus

LEMMA EndedType ==
  ASSUME live \in LiveType
  PROVE  /\ \A s \in Snapshot : EndedIn(s) \in [Turn -> {"none"} \cup Final]
         /\ \A k \in Turn, st \in {"none"} \cup TurnStatus : Ended(k, st) \in [Turn -> {"none"} \cup Final]
         /\ \A s \in Snapshot : s.run # 0 => s.run \in Turn
<1>1. live.ended \in [Turn -> {"none"} \cup Final]
  BY DEF LiveType
<1>2. ASSUME NEW k \in Turn, NEW st \in {"none"} \cup TurnStatus
      PROVE  Ended(k, st) \in [Turn -> {"none"} \cup Final]
  BY <1>1 DEF Ended, TurnStatus
<1>3. ASSUME NEW s \in Snapshot, s.run # 0 PROVE s.run \in Turn /\ s.status \in {"none"} \cup TurnStatus
  BY <1>3, Constants DEF Snapshot
<1>4. ASSUME NEW s \in Snapshot PROVE EndedIn(s) \in [Turn -> {"none"} \cup Final]
  BY <1>1, <1>2, <1>3 DEF EndedIn
<1> QED
  BY <1>2, <1>3, <1>4

(***************************************************************************)
(* Steps that leave the thread and the wire alone, where the task only     *)
(* learns of accepted requests.                                            *)
(***************************************************************************)
EventsType(e) == e \in Seq(EventType) /\ \A i \in 1..Len(e) : e[i].turn <= Len(turns)

LEMMA Preserved ==
  ASSUME Types, Inv, NEW I, Learns(task, task', I), Known(I), NEW t, Learns(task, t, I), Stored(t), UNCHANGED <<turns, wire>>,
         call' \in CallType, call' = call \/ call'.kind # "send", Phases(call'),
         live' \in LiveType, reader' \in ReaderType, EventsType(events'),
         Known(call'.snapshot.inputs), Known(reader'.snapshot.inputs)
  PROVE  Types' /\ Inv'
<1>1. Honest(task') /\ Honest(t)
  BY LearnsHonest DEF Known, Inv
<1>2. task' \in Record /\ t \in Record
  BY DEF Learns
<1>3. task' \in Record /\ disk' \in Record /\ Honest(task)' /\ Honest(disk)' /\ Wired'
  BY <1>1, <1>2, Copies
<1>4. Calling'
  BY CallingStays
<1>5. Read'
  <2>1. call'.snapshot.inputs \subseteq Request /\ reader'.snapshot.inputs \subseteq Request
    BY DEF CallType, ReaderType, Snapshot
  <2> QED
    BY <2>1 DEF Read, Known, Carries
<1>6. Thread'
  BY DEF Types, Thread
<1>7. wire' \subseteq MessageType /\ events' \in Seq(EventType) /\ \A i \in 1..Len(events') : events'[i].turn <= Len(turns')
  BY DEF Types, EventsType
<1>8. Phases(call)'
  BY DEF Phases
<1> QED
  BY <1>3, <1>4, <1>5, <1>6, <1>7, <1>8 DEF Types, Inv

(* What is the same of the record, the call, the reader and the events.    *)
LEMMA Kept ==
  ASSUME Types, Inv
  PROVE  /\ \A I : Learns(task, task, I)
         /\ Known({}) /\ Known(call.snapshot.inputs) /\ Known(reader.snapshot.inputs)
         /\ EventsType(events)
         /\ task \in Record /\ live \in LiveType /\ call \in CallType /\ reader \in ReaderType
         /\ call.snapshot \in Snapshot /\ reader.snapshot \in Snapshot
         /\ Idle \in ReaderType /\ Idle.snapshot.inputs = {} /\ NoCall \in CallType /\ NoCall.snapshot.inputs = {}
         /\ NoCall.kind = "none" /\ Phases(NoCall) /\ Phases(call)
         /\ task.pending \in Request \cup {None} /\ task.run \in Run
<1>1. \A I : Learns(task, task, I)
  BY LearnsSame DEF Types
<1>2. Known({}) /\ Known(call.snapshot.inputs) /\ Known(reader.snapshot.inputs)
  BY DEF Known, Inv, Read
<1>3. EventsType(events) /\ task \in Record /\ live \in LiveType /\ call \in CallType /\ reader \in ReaderType
  BY DEF Types, EventsType
<1>4. call.snapshot \in Snapshot /\ reader.snapshot \in Snapshot
  BY <1>3 DEF CallType, ReaderType
<1>5. Idle \in ReaderType /\ Idle.snapshot.inputs = {} /\ NoCall \in CallType /\ NoCall.snapshot.inputs = {}
      /\ NoCall.kind = "none" /\ Phases(NoCall) /\ Phases(call)
  BY NoSnapshotFacts, Constants DEF Idle, NoCall, ReaderType, CallType, Phases, Types
<1>6. task.pending \in Request \cup {None} /\ task.run \in Run
  BY <1>3 DEF Record
<1> QED
  BY <1>1, <1>2, <1>3, <1>4, <1>5, <1>6

(* Steps that only touch the session's view of the thread or the reader.   *)
LEMMA Viewed ==
  ASSUME Types, Inv, UNCHANGED <<task, disk, call, turns, wire, events>>, live' \in LiveType, reader' \in ReaderType,
         Known(reader'.snapshot.inputs)
  PROVE  Types' /\ Inv'
<1>1. Learns(task, task', {}) /\ Known({}) /\ call' \in CallType /\ Known(call'.snapshot.inputs) /\ EventsType(events')
      /\ Phases(call')
  BY Kept
<1>2. Stored(task')
  BY StoredBy
<1> QED
  BY <1>1, <1>2, Preserved

LEMMA LatestAnswer == ASSUME Types PROVE Latest \in Snapshot /\ Known(Latest.inputs)
BY LatestFacts DEF Types

LEMMA RecoverStep == ASSUME Types, Inv, Recover PROVE Types' /\ Inv'
<1>1. live' \in LiveType
  BY Kept DEF Recover, LiveType
<1>2. reader' \in ReaderType
  BY Kept DEF Recover, ReaderType
<1>3. reader'.snapshot.inputs = {}
  BY NoSnapshotFacts DEF Recover, Idle
<1>4. Known(reader'.snapshot.inputs)
  BY <1>3, Kept
<1> QED
  BY <1>1, <1>2, <1>4, Viewed DEF Recover

LEMMA RetryStep == ASSUME Types, Inv, RetryObservations PROVE Types' /\ Inv'
<1>1. live' \in LiveType
  BY Kept DEF RetryObservations, LiveType
<1> QED
  BY <1>1, Kept, Viewed DEF RetryObservations

LEMMA RecoverAnsweredStep == ASSUME Types, Inv, RecoverAnswered PROVE Types' /\ Inv'
<1>1. reader' \in ReaderType /\ reader'.snapshot = Latest
  BY Kept, LatestAnswer DEF RecoverAnswered, ReaderType
<1> QED
  BY <1>1, Kept, LatestAnswer, Viewed DEF RecoverAnswered

LEMMA RecoverDroppedStep == ASSUME Types, Inv, RecoverDropped PROVE Types' /\ Inv'
<1>1. live' \in LiveType
  BY Kept DEF RecoverDropped, LiveType
<1> QED
  BY <1>1, Kept, Viewed DEF RecoverDropped

LEMMA WatchAnsweredStep == ASSUME Types, Inv, WatchAnswered PROVE Types' /\ Inv'
<1>1. reader' \in ReaderType /\ reader'.snapshot \in {NoSnapshot, Latest}
  <2>1. (IF reader.stale THEN NoSnapshot ELSE Latest) \in Snapshot
    BY LatestAnswer, NoSnapshotFacts
  <2> QED
    BY <2>1, Kept DEF WatchAnswered, ReaderType
<1> QED
  BY <1>1, Kept, LatestAnswer, NoSnapshotFacts, Viewed DEF WatchAnswered

LEMMA WatchAgainStep == ASSUME Types, Inv, WatchAgain PROVE Types' /\ Inv'
<1>1. live' \in LiveType
  BY Kept DEF WatchAgain, LiveType
<1>2. reader' \in ReaderType
  BY Kept DEF WatchAgain, ReaderType
<1>3. reader'.snapshot.inputs = {}
  BY NoSnapshotFacts DEF WatchAgain, Idle
<1> QED
  BY <1>1, <1>2, <1>3, Kept, Viewed DEF WatchAgain

LEMMA RetireStep == ASSUME Types, Inv, Retire PROVE Types' /\ Inv'
<1>1. live' \in LiveType
  BY Kept DEF Retire, LiveType
<1> QED
  BY <1>1, Kept, Viewed DEF Retire

(* Steps of the reader that write the record.                              *)
LEMMA Written ==
  ASSUME Types, Inv, NEW I, Learns(task, task', I), Known(I), Stored(task'), UNCHANGED <<call, turns, wire, events>>,
         live' \in LiveType, reader' \in ReaderType, reader'.snapshot.inputs = {}
  PROVE  Types' /\ Inv'
BY Kept, Preserved

LEMMA StatusSet ==
  ASSUME NEW t \in Record, NEW st \in Status, NEW I
  PROVE  Learns(t, [t EXCEPT !.status = st], I)
<1>1. LET u == [t EXCEPT !.status = st] IN u \in Record /\ u.thread = t.thread /\ u.pending = t.pending /\ u.requests = t.requests
  BY DEF Record
<1> QED
  BY <1>1, LearnsSame

LEMMA RecoverFailedStep == ASSUME Types, Inv, RecoverFailed PROVE Types' /\ Inv'
<1>1. live' \in LiveType
  BY Kept DEF RecoverFailed, LiveType
<1>2. Learns(task, task', {})
  BY Kept, ActivitySet DEF RecoverFailed
<1>3. Stored(task')
  BY StoredBy DEF RecoverFailed
<1> QED
  BY <1>1, <1>2, <1>3, Kept, Written DEF RecoverFailed

LEMMA WatchFailedStep == ASSUME Types, Inv, WatchFailed PROVE Types' /\ Inv'
<1>1. live' \in LiveType
  BY Kept DEF WatchFailed, LiveType
<1>2. Learns(task, task', {})
  BY Kept, StatusSet DEF WatchFailed, Status
<1>3. Stored(task')
  BY StoredBy DEF WatchFailed
<1> QED
  BY <1>1, <1>2, <1>3, Kept, Written DEF WatchFailed

(* What a read that is believed makes of the task.                         *)
LEMMA ReadLearns ==
  ASSUME Types, Inv, NEW s \in Snapshot
  PROVE  Learns(task, Quiet(ObserveLatest(task, s), s), s.inputs)
<1> DEFINE seen == ObserveLatest(task, s)
<1>1. Learns(task, seen, s.inputs)
  BY Kept, ObserveLatestLearns
<1> HIDE DEF seen
<1>2. seen \in Record
  BY <1>1 DEF Learns
<1>3. Learns(seen, Quiet(seen, s), s.inputs)
  BY <1>2, QuietLearns
<1> QED
  BY <1>1, <1>3, LearnsTwice DEF seen

LEMMA TerminalsType ==
  ASSUME live \in LiveType, NEW s \in Snapshot
  PROVE  Terminals(s) \subseteq Turn
<1>1. s.status \in Final => s.run \in Turn
  BY Constants DEF Snapshot, Final
<1> QED
  BY <1>1 DEF LiveType, Terminals

LEMMA RecoverDoneStep == ASSUME Types, Inv, RecoverDone PROVE Types' /\ Inv'
<1> DEFINE s == reader.snapshot
<1>1. Learns(task, task', s.inputs) /\ Known(s.inputs)
  BY Kept, ReadLearns DEF RecoverDone
<1>2. Stored(task')
  BY StoredBy DEF RecoverDone
<1>3. reader' \in ReaderType /\ reader'.snapshot.inputs = {}
  <2>1. [Idle EXCEPT !.phase = "resuming"] \in ReaderType /\ [Idle EXCEPT !.phase = "resuming"].snapshot = Idle.snapshot
    BY Kept DEF ReaderType
  <2> QED
    BY <2>1, Kept DEF RecoverDone
<1>4. live' \in LiveType
  <2>1. EndedIn(s) \in [Turn -> {"none"} \cup Final] /\ Terminals(s) \in SUBSET Turn
    BY Kept, EndedType, TerminalsType
  <2>2. s.run \in Run /\ 0 \in Run /\ live.run \in Run \cup {Absent}
    BY Kept, Constants DEF Snapshot, LiveType
  <2>3. PICK n \in Run \cup {Absent}, w \in BOOLEAN :
          live' = [live EXCEPT !.ended = EndedIn(s), !.terminals = Terminals(s), !.failed = FALSE, !.watching = w, !.run = n]
    <3> DEFINE t == Quiet(ObserveLatest(task, s), s)
               active == s.status = "inProgress"
               n == IF ~active THEN Absent ELSE IF s.run \notin t.superseded THEN s.run ELSE IF live.run = Absent THEN 0 ELSE live.run
    <3>1. n \in Run \cup {Absent}
      BY <2>2
    <3>2. (live.subscribed \/ active) \in BOOLEAN
      BY Kept DEF LiveType
    <3>3. live' = [live EXCEPT !.ended = EndedIn(s), !.terminals = Terminals(s), !.failed = FALSE,
                               !.watching = live.subscribed \/ active, !.run = n]
      BY Zenon DEF RecoverDone
    <3> HIDE DEF n, active
    <3> QED
      BY <3>1, <3>2, <3>3
  <2> QED
    BY <2>1, <2>3, Kept DEF LiveType
<1> QED
  BY <1>1, <1>2, <1>3, <1>4, Written DEF RecoverDone

LEMMA WatchDoneStep == ASSUME Types, Inv, WatchDone PROVE Types' /\ Inv'
<1> DEFINE s == reader.snapshot
           seen == ObserveLatest(task, s)
<1>1. Learns(task, task', s.inputs) /\ Known(s.inputs)
  <2>0. Learns(task, seen, s.inputs)
    BY Kept, ObserveLatestLearns
  <2>2. task' \in {seen, [seen EXCEPT !.status = "unknown"]}
    BY DEF WatchDone
  <2> HIDE DEF seen
  <2>1. Learns(task, seen, s.inputs) /\ seen \in Record
    BY <2>0 DEF Learns
  <2>3. Learns(seen, task', s.inputs)
    BY <2>1, <2>2, StatusSet, LearnsSame DEF Status
  <2> QED
    BY <2>1, <2>3, LearnsTwice, Kept
<1>2. Stored(task')
  BY StoredBy DEF WatchDone
<1>3. reader' \in ReaderType /\ reader'.snapshot.inputs = {}
  BY Kept DEF WatchDone
<1>4. live' \in LiveType
  <2>1. EndedIn(s) \in [Turn -> {"none"} \cup Final] /\ Terminals(s) \in SUBSET Turn
    BY Kept, EndedType, TerminalsType
  <2>2. s.run \in Run /\ 0 \in Run
    BY Kept, Constants DEF Snapshot
  <2>3. PICK n \in Run \cup {Absent} :
          live' = [live EXCEPT !.ended = EndedIn(s), !.terminals = Terminals(s), !.subscribed = TRUE, !.failed = FALSE, !.run = n]
    <3> DEFINE active == s.status = "inProgress"
               t == IF ~active /\ seen.status = "working" THEN [seen EXCEPT !.status = "unknown"] ELSE seen
               n == IF ~active THEN Absent ELSE IF s.run \notin live.terminals \cup t.superseded THEN s.run ELSE 0
    <3>1. n \in Run \cup {Absent}
      BY <2>2
    <3>2. live' = [live EXCEPT !.ended = EndedIn(s), !.terminals = Terminals(s), !.subscribed = TRUE, !.failed = FALSE, !.run = n]
      BY Zenon DEF WatchDone
    <3> HIDE DEF n
    <3> QED
      BY <3>1, <3>2
  <2> QED
    BY <2>1, <2>3, Kept DEF LiveType
<1> QED
  BY <1>1, <1>2, <1>3, <1>4, Written DEF WatchDone

(***************************************************************************)
(* Reads, and the start and the end of a stop.                             *)
(***************************************************************************)
(* The call is no send, before or after.                                   *)
LEMMA Called ==
  ASSUME Types, Inv, NEW I, Learns(task, task', I), Known(I), NEW t, Learns(task, t, I), Stored(t), UNCHANGED <<reader, turns, wire, events>>,
         live' \in LiveType, call' \in CallType, call'.kind # "send", Phases(call'), Known(call'.snapshot.inputs)
  PROVE  Types' /\ Inv'
BY Kept, Preserved

LEMMA ReadWorkStep == ASSUME Types, Inv, ReadWork PROVE Types' /\ Inv'
<1>1. call' \in CallType
  BY Kept DEF ReadWork, CallType
<1>2. call'.kind = "read" /\ call'.phase = "reading" /\ call'.snapshot.inputs = {}
  BY NoSnapshotFacts DEF ReadWork, NoCall
<1>3. Stored(task') /\ Learns(task, task', {}) /\ live' \in LiveType
  BY Kept, StoredBy DEF ReadWork
<1> QED
  BY <1>1, <1>2, <1>3, Kept, Called DEF ReadWork, Phases

LEMMA ReadAnsweredStep == ASSUME Types, Inv, ReadAnswered PROVE Types' /\ Inv'
<1>1. call.kind = "read"
  BY DEF Types, Phases, ReadAnswered
<1>2. call' \in CallType /\ call'.kind = "read" /\ call'.phase = "read" /\ call'.snapshot = Latest
  BY <1>1, Kept, LatestAnswer DEF ReadAnswered, CallType
<1>3. Stored(task') /\ Learns(task, task', {}) /\ live' \in LiveType
  BY Kept, StoredBy DEF ReadAnswered
<1> QED
  BY <1>2, <1>3, Kept, LatestAnswer, Called DEF ReadAnswered, Phases

LEMMA ReadFailedStep == ASSUME Types, Inv, ReadFailed PROVE Types' /\ Inv'
<1>1. Learns(task, task', {})
  BY Kept, ActivitySet DEF ReadFailed
<1>2. Stored(task') /\ live' \in LiveType
  BY Kept, StoredBy DEF ReadFailed
<1> QED
  BY <1>1, <1>2, Kept, Called DEF ReadFailed

LEMMA ReadDoneStep == ASSUME Types, Inv, ReadDone PROVE Types' /\ Inv'
<1> DEFINE s == call.snapshot
<1>1. Learns(task, task', s.inputs) /\ Known(s.inputs)
  BY Kept, ReadLearns DEF ReadDone
<1>2. Stored(task')
  BY StoredBy DEF ReadDone
<1>3. live' \in LiveType
  <2>1. EndedIn(s) \in [Turn -> {"none"} \cup Final]
    BY Kept, EndedType
  <2>2. live.run \in Run \cup {Absent}
    BY Kept DEF LiveType
  <2> QED
    BY <2>1, <2>2, Kept DEF ReadDone, LiveType
<1> QED
  BY <1>1, <1>2, <1>3, Kept, Called DEF ReadDone

LEMMA StopSet ==
  ASSUME NEW t \in Record, NEW k \in Run, NEW o \in Outcome, NEW I
  PROVE  Learns(t, [t EXCEPT !.stops[k] = o], I)
<1>1. LET u == [t EXCEPT !.stops[k] = o] IN u \in Record /\ u.thread = t.thread /\ u.pending = t.pending /\ u.requests = t.requests
  BY DEF Record
<1> QED
  BY <1>1, LearnsSame

LEMMA StopWorkStep == ASSUME Types, Inv, StopWork PROVE Types' /\ Inv'
<1> DEFINE t == [task EXCEPT !.stops[task.run] = "unknown"]
<1>1. Learns(task, t, {}) /\ Learns(task, task, {})
  BY Kept, StopSet DEF Outcome
<1>2. Stored(t) /\ task' \in {task, t}
  BY StoredBy DEF StopWork
<1> HIDE DEF t
<1>4. Learns(task, task', {}) /\ live' \in LiveType
  BY <1>1, <1>2, Kept DEF StopWork
<1>3. call' \in CallType /\ call'.kind # "send" /\ Phases(call') /\ call'.snapshot.inputs = {}
  <2> DEFINE c == [NoCall EXCEPT !.kind = "stop", !.phase = "waiting", !.run = live.run, !.key = task.run]
  <2>1. live.run \in Run
    BY Constants DEF StopWork
  <2>2. c \in CallType /\ c.kind = "stop" /\ c.phase = "waiting" /\ c.snapshot = NoCall.snapshot
    BY <2>1, Kept DEF CallType
  <2>3. call' \in {c, NoCall}
    BY DEF StopWork
  <2> HIDE DEF c
  <2> QED
    BY <2>2, <2>3, Kept DEF Phases
<1> QED
  BY <1>1, <1>2, <1>3, <1>4, Kept, Called DEF StopWork

LEMMA StopDoneStep == ASSUME Types, Inv, StopDone PROVE Types' /\ Inv'
<1>1. PICK o \in Outcome :
        LET t == [task EXCEPT !.stops[call.key] = o] IN (Saved(t) /\ task' = t) \/ (Lost(t) /\ task' = task)
  <2> DEFINE o == CASE call.answer = "ok" -> "accepted" [] call.answer = "rejected" -> "rejected"
                    [] call.answer = "lost" -> "unknown"
  <2>1. call.answer \in {"ok", "rejected", "lost"}
    BY Kept DEF StopDone, CallType, Phases
  <2>2. o \in Outcome
    BY <2>1 DEF Outcome
  <2> HIDE DEF o
  <2> QED
    BY <2>2 DEF StopDone, o
<1> DEFINE t == [task EXCEPT !.stops[call.key] = o]
<1>2. Stored(t) /\ task' \in {task, t}
  BY <1>1, StoredBy
<1>3. Learns(task, t, {}) /\ Learns(task, task, {})
  <2>1. call.key \in Run
    BY Kept DEF CallType
  <2> QED
    BY <2>1, Kept, StopSet
<1> HIDE DEF t
<1>4. Learns(task, task', {}) /\ live' \in LiveType
  BY <1>2, <1>3, Kept DEF StopDone
<1> QED
  BY <1>2, <1>3, <1>4, Kept, Called DEF StopDone

(***************************************************************************)
(* Native events.                                                          *)
(***************************************************************************)
LEMMA HandleStep == ASSUME Types, Inv, Handle PROVE Types' /\ Inv'
<1> DEFINE k == Head(events).turn
           status == Head(events).status
<1>1. /\ events # <<>> /\ events \in Seq(EventType) /\ Len(events) \in Nat /\ Len(events) > 0
      /\ Head(events) = events[1] /\ events[1] \in EventType
  BY DEF Types, Handle
<1>2. k \in Turn /\ status \in TurnStatus /\ k \in 1..Len(turns)
  <2>1. k \in Turn /\ status \in TurnStatus
    BY <1>1 DEF EventType
  <2>2. k <= Len(turns)
    BY <1>1 DEF Types
  <2>3. Len(turns) \in Nat
    BY DEF Types, Thread
  <2> QED
    BY <2>1, <2>2, <2>3 DEF Turn
<1>3. turns[k].inputs \in SUBSET Request /\ Known(turns[k].inputs)
  <2>1. turns[k] \in TurnType
    BY <1>2 DEF Types, Thread
  <2> QED
    BY <1>2, <2>1 DEF TurnType, Known, Carries
<1> HIDE DEF k, status
<1>4. PICK inputs \in {{}, turns[k].inputs} :
        LET t == Observe(task, k, status, inputs, FALSE) IN
        /\ task' = t
        /\ IF t = task THEN UNCHANGED <<disk, faults>> ELSE SaveAnyway(t)
        /\ live' = [live EXCEPT
             !.ended = Ended(k, status),
             !.run = IF status = "inProgress" /\ k \notin live.terminals \cup t.superseded THEN k
                     ELSE IF status \in Final /\ live.run \in {0, k} THEN Absent ELSE live.run,
             !.terminals = IF status \in Final THEN live.terminals \cup {k} ELSE live.terminals]
  BY DEF Handle, k, status
<1>5. inputs \in SUBSET Request /\ Known(inputs)
  BY <1>3, Kept
<1>6. Learns(task, task', inputs)
  BY <1>2, <1>4, <1>5, Kept, ObserveLearns
<1>7. Stored(task')
  BY <1>4, StoredBy
<1>8. live' \in LiveType
  <2>1. Ended(k, status) \in [Turn -> {"none"} \cup Final]
    BY <1>2, Kept, EndedType
  <2>2. PICK n \in Run \cup {Absent} :
          live' = [live EXCEPT !.ended = Ended(k, status), !.run = n,
                               !.terminals = IF status \in Final THEN live.terminals \cup {k} ELSE live.terminals]
    <3> DEFINE t == Observe(task, k, status, inputs, FALSE)
               n == IF status = "inProgress" /\ k \notin live.terminals \cup t.superseded THEN k
                    ELSE IF status \in Final /\ live.run \in {0, k} THEN Absent ELSE live.run
    <3>1. n \in Run \cup {Absent}
      BY <1>2, Kept, Constants DEF LiveType
    <3>2. live' = [live EXCEPT !.ended = Ended(k, status), !.run = n,
                               !.terminals = IF status \in Final THEN live.terminals \cup {k} ELSE live.terminals]
      BY <1>4
    <3> HIDE DEF n
    <3> QED
      BY <3>1, <3>2
  <2>3. (IF status \in Final THEN live.terminals \cup {k} ELSE live.terminals) \in SUBSET Turn
    BY <1>2, Kept DEF LiveType
  <2> QED
    BY <2>1, <2>2, <2>3, Kept DEF LiveType
<1>9. EventsType(events')
  <2>1. events' = Tail(events)
    BY DEF Handle
  <2>2. Tail(events) \in Seq(EventType) /\ Len(Tail(events)) = Len(events) - 1
        /\ \A i \in 1..Len(Tail(events)) : Tail(events)[i] = events[i + 1]
    BY <1>1
  <2>3. \A i \in 1..Len(Tail(events)) : i + 1 \in 1..Len(events)
    BY <1>1, <2>2
  <2> QED
    BY <2>1, <2>2, <2>3 DEF EventsType, Types
<1>10. call' \in CallType /\ Phases(call') /\ Known(call'.snapshot.inputs) /\ (call' = call \/ call'.kind # "send")
  <2>1. CASE call' = call
    BY <2>1, Kept
  <2>2. CASE call' = [NoCall EXCEPT !.kind = "read", !.phase = "fenced"]
    <3>1. call' \in CallType /\ call'.kind = "read" /\ call'.phase = "fenced" /\ call'.snapshot = NoCall.snapshot
      BY <2>2, Kept DEF CallType
    <3> QED
      BY <3>1, Kept DEF Phases
  <2> QED
    BY <2>1, <2>2 DEF Handle
<1>11. reader' \in ReaderType /\ Known(reader'.snapshot.inputs)
  <2>1. CASE reader' = [Idle EXCEPT !.phase = "fenced"]
    <3>1. reader' \in ReaderType /\ reader'.snapshot = Idle.snapshot
      BY <2>1, Kept DEF ReaderType
    <3> QED
      BY <3>1, Kept
  <2>2. CASE reader' = [reader EXCEPT !.stale = TRUE, !.snapshot = NoSnapshot]
    <3>1. reader' \in ReaderType
      BY <2>2, Kept, NoSnapshotFacts DEF ReaderType
    <3>2. reader'.snapshot = NoSnapshot
      <4> DEFINE u == [reader EXCEPT !.stale = TRUE]
      <4>1. u \in ReaderType
        BY Kept DEF ReaderType
      <4>2. reader' = [u EXCEPT !.snapshot = NoSnapshot]
        BY <2>2, Zenon
      <4> HIDE DEF u
      <4> QED
        BY <4>1, <4>2 DEF ReaderType
    <3> QED
      BY <3>1, <3>2, NoSnapshotFacts, Kept
  <2>3. CASE reader' = reader
    BY <2>3, Kept
  <2> QED
    BY <2>1, <2>2, <2>3 DEF Handle
<1> QED
  BY <1>5, <1>6, <1>7, <1>8, <1>9, <1>10, <1>11, Preserved DEF Handle

(***************************************************************************)
(* The native thread moves on; the record is left alone.                   *)
(***************************************************************************)
(* A request that turns newly carry was on the wire, and is no more.       *)
Grows == \A q \in Request :
  Carries(q)' = Carries(q) \/ (Sent(q) /\ ~Sent(q)' /\ \E k \in Turn : Carries(q)' = {k})

(* The call that sends is answered.                                        *)
AnswersCall ==
  /\ call.kind = "send" /\ call.phase = "waiting"
  /\ call'.kind = "send" /\ call'.phase = "settle" /\ call'.request = call.request
  /\ call'.answer = "ok" => Carries(call.request)' # {} /\ call'.run \in Turn
  /\ call'.answer = "rejected" => ~Sent(call.request)' /\ Carries(call.request)' = {}

LEMMA GrowsHonest ==
  ASSUME NEW t, Honest(t), Wired, Grows, wire' \subseteq wire
  PROVE  (task' = t => Honest(task)') /\ (disk' = t => Honest(disk)')
<1>1. \A q \in Request : (Sent(q)' => Sent(q)) /\ (Carries(q)' # {} => Sent(q) \/ Carries(q) # {}) /\ (Carries(q) # {} => Carries(q)' # {})
  <2> TAKE q \in Request
  <2>1. Sent(q)' => Sent(q)
    BY DEF Sent
  <2>2. Carries(q)' # {} => Sent(q) \/ Carries(q) # {}
    BY DEF Grows
  <2>3. Carries(q) # {} => Carries(q)' # {}
    BY DEF Grows
  <2> QED
    BY <2>1, <2>2, <2>3
<1>2. ASSUME task' = t PROVE Honest(task)'
  BY <1>1, <1>2 DEF Honest
<1>3. ASSUME disk' = t PROVE Honest(disk)'
  BY <1>1, <1>3 DEF Honest
<1> QED
  BY <1>2, <1>3

LEMMA Moved ==
  ASSUME Types, Inv, UNCHANGED <<task, disk, live, reader>>, wire' \subseteq wire, Thread', EventsType(events)', Grows,
         call' \in CallType, Phases(call'), call'.snapshot = call.snapshot,
         call' = call \/ call'.kind # "send" \/ AnswersCall
  PROVE  Types' /\ Inv'
<1>1. Honest(task)' /\ Honest(disk)'
  BY GrowsHonest DEF Inv
<1>2. Wired'
  <2>1. \A m, n \in wire' : m.request = n.request => m = n
    BY DEF Inv, Wired
  <2>2. ASSUME NEW m \in wire' PROVE Carries(m.request)' = {}
    <3>1. m.request \in Request /\ Carries(m.request) = {}
      BY DEF Types, MessageType, Inv, Wired
    <3>2. Sent(m.request)'
      BY DEF Sent
    <3> QED
      BY <3>1, <3>2 DEF Grows
  <2>3. ASSUME NEW q \in Request PROVE \A j, k \in Carries(q)' : j = k
    BY DEF Inv, Wired, Grows
  <2> QED
    BY <2>1, <2>2, <2>3 DEF Wired
<1>3. \A q \in Request : Carries(q) # {} => Carries(q)' # {}
  BY DEF Grows
<1>4. Read'
  <2>1. call.snapshot.inputs \subseteq Request /\ reader.snapshot.inputs \subseteq Request
    BY DEF Types, CallType, ReaderType, Snapshot
  <2> QED
    BY <1>3, <2>1 DEF Inv, Read
<1>5. Calling'
  <2>1. CASE call'.kind # "send"
    BY <2>1 DEF Calling
  <2>2. CASE AnswersCall
    <3>1. call.request \in Request /\ (call.request # Start => task.thread)
      BY <2>2 DEF Inv, Calling, AnswersCall
    <3> QED
      BY <2>2, <3>1 DEF AnswersCall, Calling, Unsent
  <2>3. CASE call' = call /\ call.kind = "send"
    <3> DEFINE q == call.request
    <3>1. /\ q \in Request /\ (q # Start => task.thread)
          /\ call.phase \in {"create", "prepare", "resume", "dispatch"} => Unsent(q)
          /\ call.phase = "create" => q = Start /\ task.pending = None
          /\ call.phase = "prepare" => task.pending = None /\ task.thread
          /\ call.phase \in {"resume", "dispatch"} => task.requests[q].outcome = "unknown" /\ task.thread
          /\ call.phase = "settle" /\ call.answer = "rejected" => Unsent(q)
          /\ call.phase = "settle" /\ call.answer = "ok" => Carries(q) # {} /\ call.run \in Turn
      BY <2>3 DEF Inv, Calling
    <3>2. Carries(q) # {} => Carries(q)' # {}
      BY <2>3, <3>1 DEF Grows
    <3>3. Unsent(q) => ~Sent(q)' /\ Carries(q)' = {}
      <4>1. ASSUME Unsent(q) PROVE ~Sent(q)' /\ Carries(q)' = {}
        <5>1. ~Sent(q) /\ Carries(q) = {}
          BY <4>1 DEF Unsent
        <5>2. ~Sent(q)'
          BY <5>1, <2>3 DEF Sent
        <5>3. Carries(q)' = {}
          BY <5>1, <2>3, <3>1 DEF Grows
        <5> QED
          BY <5>2, <5>3
      <4> QED
        BY <4>1
    <3> HIDE DEF q
    <3>4. q = call.request /\ q' = q
      BY <2>3 DEF q
    <3>5. Unsent(q) => Unsent(q)'
      BY <3>3 DEF Unsent
    <3>6. call'.request = q
      BY <2>3, <3>4
    <3> QED
      BY <2>3, <3>1, <3>2, <3>4, <3>5, <3>6 DEF Calling
  <2> QED
    BY <2>1, <2>2, <2>3
<1>6. wire' \subseteq MessageType
  BY DEF Types
<1>7. events' \in Seq(EventType) /\ \A i \in 1..Len(events') : events'[i].turn <= Len(turns')
  BY DEF EventsType
<1>8. task' \in Record /\ disk' \in Record /\ live' \in LiveType /\ reader' \in ReaderType
  BY DEF Types
<1>9. Phases(call)'
  BY DEF Phases
<1> QED
  BY <1>1, <1>2, <1>4, <1>5, <1>6, <1>7, <1>8, <1>9 DEF Types, Inv

LEMMA SettlingFields ==
  ASSUME call \in CallType, NEW a \in {"ok", "rejected", "lost"}
  PROVE  /\ Settling(a) \in CallType /\ Settling(a).kind = call.kind /\ Settling(a).request = call.request
         /\ Settling(a).phase = "settle" /\ Settling(a).answer = a /\ Settling(a).snapshot = call.snapshot
         /\ Settling(a).run = call.run /\ Phases(Settling(a))
<1> DEFINE u == [call EXCEPT !.phase = "settle"]
<1>1. Settling(a) = [u EXCEPT !.answer = a]
  BY Zenon DEF Settling
<1>2. u \in CallType /\ u.kind = call.kind /\ u.request = call.request /\ u.phase = "settle"
      /\ u.snapshot = call.snapshot /\ u.run = call.run
  BY DEF CallType
<1> HIDE DEF u
<1>3. [u EXCEPT !.answer = a] \in CallType
  BY <1>2 DEF CallType
<1>4. /\ [u EXCEPT !.answer = a].kind = call.kind /\ [u EXCEPT !.answer = a].request = call.request
      /\ [u EXCEPT !.answer = a].phase = "settle" /\ [u EXCEPT !.answer = a].answer = a
      /\ [u EXCEPT !.answer = a].snapshot = call.snapshot /\ [u EXCEPT !.answer = a].run = call.run
  BY <1>2 DEF CallType
<1>5. Phases([u EXCEPT !.answer = a])
  BY <1>4 DEF Phases
<1> QED
  BY <1>1, <1>3, <1>4, <1>5

LEMMA AnswerLostStep == ASSUME Types, Inv, AnswerLost PROVE Types' /\ Inv'
<1>1. call' = Settling("lost") /\ call.phase = "waiting"
  BY DEF AnswerLost
<1>2. Grows /\ Thread' /\ EventsType(events)' /\ wire' \subseteq wire
  BY Kept DEF AnswerLost, Grows, Carries, Types, Thread, EventsType
<1>3. call' \in CallType /\ Phases(call') /\ call'.snapshot = call.snapshot /\ call'.kind = call.kind
      /\ call'.request = call.request /\ call'.phase = "settle" /\ call'.answer = "lost"
  BY <1>1, Kept, SettlingFields
<1>4. call'.kind # "send" \/ AnswersCall
  BY <1>1, <1>3 DEF AnswersCall
<1> QED
  BY <1>2, <1>3, <1>4, Moved DEF AnswerLost

LEMMA NotifyType ==
  ASSUME Types, NEW k \in Turn, NEW st \in TurnStatus, Notify(k, st), k <= Len(turns'), Len(turns) <= Len(turns'),
         Len(turns) \in Nat, Len(turns') \in Nat
  PROVE  EventsType(events)'
<1>1. EventsType(events)
  BY DEF Types, EventsType
<1>2. CASE events' = events
  <2>1. ASSUME NEW i \in 1..Len(events) PROVE events[i].turn <= Len(turns')
    <3>1. events[i] \in EventType /\ events[i].turn <= Len(turns)
      BY <1>1 DEF EventsType
    <3>2. events[i].turn \in Nat
      BY <3>1 DEF EventType, Turn
    <3> QED
      BY <3>1, <3>2
  <2> QED
    BY <1>1, <1>2, <2>1 DEF EventsType
<1>3. CASE events' = Append(events, [turn |-> k, status |-> st])
  <2>1. [turn |-> k, status |-> st] \in EventType
    BY DEF EventType
  <2>2. events' \in Seq(EventType) /\ Len(events') = Len(events) + 1 /\ Len(events) \in Nat
        /\ \A i \in 1..Len(events) : events'[i] = events[i]
    BY <1>1, <1>3, <2>1 DEF EventsType
  <2>3. events'[Len(events) + 1] = [turn |-> k, status |-> st]
    BY <1>1, <1>3, <2>1 DEF EventsType
  <2>4. ASSUME NEW i \in 1..Len(events') PROVE events'[i].turn <= Len(turns')
    <3>1. CASE i \in 1..Len(events)
      <4>1. events'[i] = events[i] /\ events[i].turn <= Len(turns) /\ events[i] \in EventType
        BY <1>1, <2>2, <3>1 DEF EventsType
      <4>2. events[i].turn \in Nat
        BY <4>1 DEF EventType, Turn
      <4> QED
        BY <4>1, <4>2
    <3>2. CASE i = Len(events) + 1
      BY <2>3, <3>2
    <3> QED
      BY <2>2, <3>1, <3>2
  <2> QED
    BY <2>2, <2>4 DEF EventsType
<1> QED
  BY <1>2, <1>3 DEF Notify

LEMMA Begun ==
  ASSUME Types, NEW inputs \in SUBSET Request, Begin(inputs)
  PROVE  /\ Thread' /\ EventsType(events)' /\ Len(turns) + 1 \in Turn
         /\ \A q \in Request : Carries(q)' = IF q \in inputs THEN Carries(q) \cup {Len(turns) + 1} ELSE Carries(q)
<1> DEFINE r == [status |-> "inProgress", inputs |-> inputs]
           n == Len(turns)
<1>1. /\ turns \in Seq(TurnType) /\ n \in Nat /\ n < MaxTurns /\ turns' = Append(turns, r) /\ ~Busy
      /\ \A k \in 1..n : turns[k].status = "inProgress" => k = n
  BY DEF Types, Thread, Begin
<1>2. r \in TurnType
  BY DEF TurnType, TurnStatus
<1>3. r.status = "inProgress" /\ r.inputs = inputs
  OBVIOUS
<1> HIDE DEF r
<1>4. turns' \in Seq(TurnType) /\ Len(turns') = n + 1 /\ turns'[n + 1] = r /\ \A k \in 1..n : turns'[k] = turns[k]
  BY <1>1, <1>2
<1>5. n + 1 \in Turn /\ n + 1 \in Nat
  BY <1>1, Constants DEF Turn
<1>6. \A k \in 1..n : turns[k].status # "inProgress"
  <2>1. ASSUME NEW k \in 1..n, turns[k].status = "inProgress" PROVE FALSE
    <3>1. k = n /\ n > 0
      BY <1>1, <2>1
    <3>2. turns # <<>> /\ Last(turns) = turns[n]
      BY <1>1, <3>1 DEF Last
    <3> QED
      BY <1>1, <2>1, <3>1, <3>2 DEF Busy
  <2> QED
    BY <2>1
<1>7. Thread'
  <2>1. Len(turns') <= MaxTurns
    BY <1>1, <1>4, Constants
  <2>2. \A k \in 1..Len(turns') : k \in 1..n \/ k = n + 1
    BY <1>1, <1>4
  <2>3. \A k \in 1..Len(turns') : turns'[k].status = "inProgress" => k = Len(turns')
    BY <1>4, <1>6, <2>2
  <2> QED
    BY <1>4, <2>1, <2>3 DEF Thread
<1>8. EventsType(events)'
  <2>1. Notify(n + 1, "inProgress")
    BY DEF Begin
  <2>2. "inProgress" \in TurnStatus
    BY DEF TurnStatus
  <2>3. n + 1 <= Len(turns') /\ n <= Len(turns') /\ Len(turns') \in Nat
    BY <1>1, <1>4
  <2> QED
    BY <1>1, <1>5, <2>1, <2>2, <2>3, NotifyType
<1>9. ASSUME NEW q \in Request
      PROVE  Carries(q)' = IF q \in inputs THEN Carries(q) \cup {n + 1} ELSE Carries(q)
  <2>1. 1..Len(turns') = (1..n) \cup {n + 1} /\ n + 1 \notin 1..n
    BY <1>1, <1>4
  <2>2. q \in turns'[n + 1].inputs <=> q \in inputs
    BY <1>3, <1>4
  <2> QED
    BY <1>4, <2>1, <2>2 DEF Carries
<1> QED
  BY <1>5, <1>7, <1>8, <1>9

LEMMA TurnEnded ==
  ASSUME Types, NEW how \in Final, EndTurn(how)
  PROVE  /\ Thread' /\ EventsType(events)' /\ \A q \in Request : Carries(q)' = Carries(q)
<1> DEFINE n == Len(turns)
<1>1. n \in Turn /\ n \in 1..Len(turns) /\ n \in Nat /\ turns \in Seq(TurnType)
  <2>1. n \in Turn /\ n \in Nat
    BY LatestFacts DEF Types, EndTurn
  <2> QED
    BY <2>1 DEF Types, Thread, Turn
<1>2. turns' = [turns EXCEPT ![n].status = how]
  BY DEF EndTurn
<1>3. how \in TurnStatus
  BY DEF TurnStatus
<1>4. Len(turns') = n /\ turns' \in Seq(TurnType)
  <2>1. turns[n] \in TurnType
    BY <1>1
  <2>2. [turns[n] EXCEPT !.status = how] \in TurnType
    BY <1>3, <2>1 DEF TurnType
  <2>3. turns' = [turns EXCEPT ![n] = [turns[n] EXCEPT !.status = how]]
    BY <1>2, Zenon
  <2> QED
    BY <1>1, <2>2, <2>3
<1>5. \A k \in 1..n : turns'[k].inputs = turns[k].inputs /\ (k # n => turns'[k] = turns[k]) /\ turns'[n].status = how
  <2>1. \A k \in 1..n : turns[k] \in TurnType
    BY <1>1
  <2> QED
    BY <1>1, <1>2, <2>1 DEF TurnType
<1>6. Thread'
  <2>1. \A k \in 1..n : turns'[k].status = "inProgress" => k = n
    BY <1>5 DEF Types, Thread
  <2> QED
    BY <1>1, <1>4, <2>1 DEF Types, Thread
<1>7. EventsType(events)'
  <2>1. Notify(n, how)
    BY DEF EndTurn
  <2> QED
    BY <1>1, <1>3, <1>4, <2>1, NotifyType
<1>8. \A q \in Request : Carries(q)' = Carries(q)
  BY <1>4, <1>5 DEF Carries
<1> QED
  BY <1>6, <1>7, <1>8

LEMMA TurnEndsStep == ASSUME Types, Inv, TurnEnds PROVE Types' /\ Inv'
<1>1. PICK how \in Final : EndTurn(how)
  BY ConstantsOK DEF TurnEnds, Final
<1>2. Thread' /\ EventsType(events)' /\ Grows
  BY <1>1, TurnEnded DEF Grows
<1> QED
  BY <1>2, Kept, Moved DEF TurnEnds

LEMMA ContinueStep == ASSUME Types, Inv, Continue PROVE Types' /\ Inv'
<1>1. Begin({}) /\ {} \in SUBSET Request
  BY DEF Continue
<1>2. Thread' /\ EventsType(events)' /\ Grows
  BY <1>1, Begun DEF Grows
<1> QED
  BY <1>2, Kept, Moved DEF Continue

LEMMA InterruptStep == ASSUME Types, Inv, Interrupt PROVE Types' /\ Inv'
<1>1. \E a \in {"ok", "rejected", "lost"} : call' = Settling(a)
  BY DEF Interrupt
<1>2. call' \in CallType /\ Phases(call') /\ call'.snapshot = call.snapshot /\ call'.kind = "stop"
  BY <1>1, Kept, SettlingFields DEF Interrupt
<1>3. Thread' /\ EventsType(events)' /\ Grows
  <2>1. CASE EndTurn("interrupted")
    BY <2>1, TurnEnded DEF Final, Grows
  <2>2. CASE UNCHANGED <<turns, events>>
    BY <2>2, Kept DEF Grows, Carries, Types, Thread, EventsType
  <2> QED
    BY <2>1, <2>2 DEF Interrupt
<1> QED
  BY <1>2, <1>3, Moved DEF Interrupt

(* The Runtime's answer to the call that waits for it.                     *)
LEMMA Answered ==
  ASSUME Types, Inv, NEW m \in wire, NEW a \in {"ok", "rejected"}, NEW k \in Run, Answer(m, a, k),
         wire' = wire \ {m},
         a = "ok" => k \in Turn /\ Carries(m.request)' # {},
         a = "rejected" => UNCHANGED turns
  PROVE  /\ call' \in CallType /\ Phases(call') /\ call'.snapshot = call.snapshot
         /\ call' = call \/ call'.kind # "send" \/ AnswersCall
<1>1. CASE call.kind = "send" /\ call.phase = "waiting" /\ call.request = m.request
  <2> DEFINE c == Settling(a)
             n == IF a = "ok" THEN k ELSE c.run
             d == [c EXCEPT !.run = n]
  <2>1. /\ c \in CallType /\ c.kind = call.kind /\ c.request = call.request
        /\ c.phase = "settle" /\ c.answer = a /\ c.snapshot = call.snapshot /\ Phases(c) /\ c.run \in Run
    BY Kept, SettlingFields DEF CallType
  <2>2. call' = d
    BY <1>1 DEF Answer
  <2>3. n \in Run
    BY <2>1
  <2> HIDE DEF c
  <2>4. d \in CallType
    BY <2>1, <2>3 DEF CallType
  <2>5. d.kind = "send" /\ d.request = call.request /\ d.phase = "settle" /\ d.answer = a /\ d.snapshot = call.snapshot /\ d.run = n
    BY <1>1, <2>1 DEF CallType
  <2>6. Phases(d)
    BY <2>5 DEF Phases
  <2>7. a = "ok" => n \in Turn
    OBVIOUS
  <2> HIDE DEF d, n
  <2>8. a = "rejected" => ~Sent(call.request)' /\ Carries(call.request)' = {}
    <3>1. \A x \in wire' : x.request # m.request
      BY DEF Inv, Wired
    <3>2. Carries(m.request) = {}
      BY DEF Inv, Wired
    <3>3. a = "rejected" => Carries(m.request)' = {}
      BY <3>2 DEF Carries
    <3>4. ~Sent(m.request)'
      BY <3>1 DEF Sent
    <3>5. call'.request = m.request
      BY <1>1, <2>2, <2>5
    <3> QED
      BY <3>3, <3>4, <3>5
  <2>9. AnswersCall
    BY <1>1, <2>2, <2>5, <2>7, <2>8 DEF AnswersCall
  <2> QED
    BY <2>2, <2>4, <2>5, <2>6, <2>9
<1>2. CASE ~(call.kind = "send" /\ call.phase = "waiting" /\ call.request = m.request)
  BY <1>2, Kept DEF Answer
<1> QED
  BY <1>1, <1>2

LEMMA Taken ==
  ASSUME Types, Inv, NEW m \in wire, wire' = wire \ {m}
  PROVE  m.request \in Request /\ m.run \in Run /\ Sent(m.request) /\ ~Sent(m.request)' /\ Carries(m.request) = {}
<1>1. m.request \in Request /\ m.run \in Run
  BY DEF Types, MessageType
<1>2. Sent(m.request) /\ Carries(m.request) = {}
  BY DEF Sent, Inv, Wired
<1>3. \A x \in wire' : x.request # m.request
  BY DEF Inv, Wired
<1>4. ~Sent(m.request)'
  BY <1>3 DEF Sent
<1> QED
  BY <1>1, <1>2, <1>4

LEMMA NativeStartsStep == ASSUME Types, Inv, NEW m, NativeStarts(m) PROVE Types' /\ Inv'
<1> DEFINE n == Len(turns) + 1
<1>1. m \in wire /\ wire' = wire \ {m} /\ Begin({m.request}) /\ Answer(m, "ok", n)
  BY DEF NativeStarts
<1>2. m.request \in Request /\ Sent(m.request) /\ ~Sent(m.request)' /\ Carries(m.request) = {}
  BY <1>1, Taken
<1>3. /\ Thread' /\ EventsType(events)' /\ n \in Turn
      /\ \A q \in Request : Carries(q)' = IF q \in {m.request} THEN Carries(q) \cup {n} ELSE Carries(q)
  BY <1>1, <1>2, Begun
<1> HIDE DEF n
<1>4. Carries(m.request)' = {n}
  BY <1>2, <1>3
<1>5. Grows
  BY <1>2, <1>3, <1>4 DEF Grows
<1>6. n \in Run
  BY <1>3, Constants
<1>7. /\ call' \in CallType /\ Phases(call') /\ call'.snapshot = call.snapshot
      /\ call' = call \/ call'.kind # "send" \/ AnswersCall
  BY <1>1, <1>3, <1>4, <1>6, Answered
<1> QED
  BY <1>1, <1>3, <1>5, <1>7, Moved DEF NativeStarts

LEMMA NativeSteersStep == ASSUME Types, Inv, NEW m, NativeSteers(m) PROVE Types' /\ Inv'
<1> DEFINE n == m.run
<1>1. /\ m \in wire /\ wire' = wire \ {m} /\ Busy /\ Len(turns) = n /\ Answer(m, "ok", n)
      /\ turns' = [turns EXCEPT ![n].inputs = @ \cup {m.request}] /\ events' = events
  BY DEF NativeSteers
<1>2. m.request \in Request /\ Sent(m.request) /\ ~Sent(m.request)' /\ Carries(m.request) = {}
  BY <1>1, Taken
<1> HIDE DEF n
<1>3. n \in Turn /\ n \in Nat /\ n \in 1..Len(turns) /\ turns \in Seq(TurnType) /\ n <= MaxTurns
  <2>1. n \in Turn /\ n \in Nat
    BY <1>1, LatestFacts DEF Types
  <2> QED
    BY <1>1, <2>1 DEF Types, Thread, Turn
<1>4. Len(turns') = n /\ turns' \in Seq(TurnType)
  <2>1. turns[n] \in TurnType
    BY <1>3
  <2>2. [turns[n] EXCEPT !.inputs = turns[n].inputs \cup {m.request}] \in TurnType
    BY <1>2, <2>1 DEF TurnType
  <2>3. turns' = [turns EXCEPT ![n] = [turns[n] EXCEPT !.inputs = turns[n].inputs \cup {m.request}]]
    BY <1>1, Zenon
  <2> QED
    BY <1>1, <1>3, <2>2, <2>3
<1>5. /\ \A k \in 1..n : turns'[k].status = turns[k].status /\ (k # n => turns'[k] = turns[k])
      /\ turns'[n].inputs = turns[n].inputs \cup {m.request}
  <2>1. \A k \in 1..n : turns[k] \in TurnType
    BY <1>1, <1>3
  <2> QED
    BY <1>1, <1>3, <2>1 DEF TurnType
<1>6. Thread'
  <2>1. \A k \in 1..n : turns'[k].status = "inProgress" => k = n
    BY <1>1, <1>5 DEF Types, Thread
  <2> QED
    BY <1>3, <1>4, <2>1 DEF Thread
<1>7. EventsType(events)'
  BY <1>1, <1>4, Kept DEF EventsType
<1>8. \A q \in Request : Carries(q)' = IF q = m.request THEN Carries(q) \cup {n} ELSE Carries(q)
  BY <1>1, <1>3, <1>4, <1>5 DEF Carries
<1>9. Carries(m.request)' = {n}
  BY <1>2, <1>8
<1>10. Grows
  BY <1>2, <1>3, <1>8, <1>9 DEF Grows
<1>11. n \in Run
  BY <1>3, Constants
<1>12. /\ call' \in CallType /\ Phases(call') /\ call'.snapshot = call.snapshot
       /\ call' = call \/ call'.kind # "send" \/ AnswersCall
  BY <1>1, <1>3, <1>9, <1>11, Answered
<1> QED
  BY <1>1, <1>6, <1>7, <1>10, <1>12, Moved DEF NativeSteers

LEMMA NativeRefusesStep == ASSUME Types, Inv, NEW m, NativeRefuses(m) PROVE Types' /\ Inv'
<1>1. m \in wire /\ wire' = wire \ {m} /\ Answer(m, "rejected", 0) /\ UNCHANGED <<turns, events>> /\ 0 \in Run
  BY Constants DEF NativeRefuses
<1>2. Thread' /\ EventsType(events)' /\ Grows
  BY <1>1, Kept DEF Grows, Carries, Types, Thread, EventsType
<1>3. /\ call' \in CallType /\ Phases(call') /\ call'.snapshot = call.snapshot
      /\ call' = call \/ call'.kind # "send" \/ AnswersCall
  BY <1>1, Answered
<1> QED
  BY <1>1, <1>2, <1>3, Moved DEF NativeRefuses

(***************************************************************************)
(* Starts and sends.                                                       *)
(***************************************************************************)
LEMMA Assembled ==
  ASSUME Types, Inv, task' \in Record, disk' \in Record, Honest(task)', Honest(disk)', Wired', Calling',
         UNCHANGED turns, wire' \subseteq MessageType, EventsType(events'), live' \in LiveType, reader' \in ReaderType,
         call' \in CallType, Phases(call'), Known(call'.snapshot.inputs), Known(reader'.snapshot.inputs)
  PROVE  Types' /\ Inv'
<1>1. Read'
  <2>1. call'.snapshot.inputs \subseteq Request /\ reader'.snapshot.inputs \subseteq Request
    BY DEF CallType, ReaderType, Snapshot
  <2> QED
    BY <2>1 DEF Read, Known, Carries
<1>2. Thread'
  BY DEF Types, Thread
<1>3. events' \in Seq(EventType) /\ \A i \in 1..Len(events') : events'[i].turn <= Len(turns')
  BY DEF Types, EventsType
<1>4. Phases(call)'
  BY DEF Phases
<1> QED
  BY <1>1, <1>2, <1>3, <1>4 DEF Types, Inv

(* The wire and the thread are left alone.                                 *)
LEMMA Recorded ==
  ASSUME Types, Inv, task' \in Record, Honest(task'), NEW t \in Record, Honest(t), Stored(t), Calling',
         UNCHANGED <<turns, wire, events>>, live' \in LiveType, reader' \in ReaderType, Known(reader'.snapshot.inputs),
         call' \in CallType, Phases(call'), Known(call'.snapshot.inputs)
  PROVE  Types' /\ Inv'
<1>1. disk' \in Record /\ Honest(task)' /\ Honest(disk)' /\ Wired'
  BY Copies
<1>2. wire' \subseteq MessageType /\ EventsType(events')
  BY Kept DEF Types
<1> QED
  BY <1>1, <1>2, Assembled

(* What is known of the request that is being sent.                        *)
LEMMA Sending ==
  ASSUME Types, Inv, call.kind = "send"
  PROVE  LET q == call.request IN
         /\ q \in Request /\ (q # Start => task.thread)
         /\ call.phase \in {"create", "prepare", "resume", "dispatch"} => Unsent(q)
         /\ call.phase = "create" => q = Start /\ task.pending = None
         /\ call.phase = "prepare" => task.pending = None /\ task.thread
         /\ call.phase \in {"resume", "dispatch"} => task.requests[q].outcome = "unknown" /\ task.thread
         /\ call.phase = "settle" /\ call.answer = "rejected" => Unsent(q)
         /\ call.phase = "settle" /\ call.answer = "ok" => Carries(q) # {} /\ call.run \in Turn
         /\ task.requests[q] \in Receipt
BY DEF Inv, Calling, Types, Record

LEMMA NotSent ==
  ASSUME Types, Inv, NEW q \in Request, task.requests[q].outcome = "none"
  PROVE  Unsent(q)
BY DEF Inv, Honest, Unsent

(* No request of the record p was sent unless it says so; q was not sent.  *)
LEMMA OneChanged ==
  ASSUME NEW p, NEW t, Honest(p), NEW q \in Request, Unsent(q), t.requests[q].outcome # "accepted",
         \A x \in Request \ {q} : t.requests[x] = p.requests[x], t.pending \in {p.pending, None, q}, t.thread = p.thread,
         t.pending = q => t.requests[q].outcome = "unknown",
         ~p.thread /\ q # Start => t.requests[q].outcome = "none"
  PROVE  Honest(t)
<1> SUFFICES ASSUME NEW x \in Request
             PROVE  LET r == t.requests[x] IN
                    /\ Sent(x) \/ Carries(x) # {} => r.outcome \in {"unknown", "accepted"} /\ r.phase \in {"dispatching", "settled"}
                    /\ r.outcome = "accepted" => Carries(x) # {}
                    /\ t.pending = x => r.outcome = "unknown"
                    /\ ~t.thread /\ x # Start => r.outcome = "none"
  BY DEF Honest
<1>1. CASE x = q
  BY <1>1 DEF Unsent
<1>2. CASE x # q
  <2>1. t.requests[x] = p.requests[x] /\ (t.pending = x => p.pending = x)
    BY <1>2, Constants
  <2> QED
    BY <1>2, <2>1 DEF Honest
<1> QED
  BY <1>1, <1>2

LEMMA NoTaskType == NoTask \in Record /\ NoTask.pending = None /\ NoTask.thread = FALSE
                    /\ \A q \in Request : NoTask.requests[q] = NoReceipt
<1>1. NoReceipt \in Receipt
  BY ReceiptMade DEF Outcome
<1>2. [q \in Request |-> NoReceipt] \in [Request -> Receipt]
  BY <1>1
<1>3. [k \in Run |-> "none"] \in [Run -> Outcome \cup {"none"}]
  OBVIOUS
<1>4. 0 \in Run
  BY Constants
<1> QED
  BY <1>2, <1>3, <1>4 DEF NoTask, Record, Status

LEMMA StartWorkStep == ASSUME Types, Inv, StartWork PROVE Types' /\ Inv'
<1> DEFINE x == [outcome |-> "unknown", phase |-> "creating", status |-> "unknown", run |-> 0]
           t == [NoTask EXCEPT !.requests[Start] = x]
           c == [NoCall EXCEPT !.kind = "send", !.phase = "create", !.request = Start]
<1>1. [NoReceipt EXCEPT !.outcome = "unknown", !.phase = "creating"] = x /\ x \in Receipt /\ NoReceipt \in Receipt
  BY ReceiptMade DEF Outcome
<1>2. (Saved(t) /\ task' = t /\ call' = c) \/ (Lost(t) /\ task' = task /\ call' = call)
  BY <1>1 DEF StartWork
<1>3. x.outcome = "unknown" /\ NoReceipt.outcome = "none"
  BY DEF NoReceipt
<1> HIDE DEF x
<1>4. /\ t \in Record /\ t.pending = None /\ t.thread = FALSE /\ t.requests[Start] = x
      /\ \A q \in Request \ {Start} : t.requests[q] = NoReceipt
  BY <1>1, NoTaskType, Constants DEF Record
<1>5. /\ call = NoCall /\ ~task.thread /\ task.requests[Start].outcome = "none"
      /\ \A q \in Request : Unsent(q)
  <2>1. call = NoCall /\ ~task.thread /\ task.requests[Start].outcome = "none"
    BY DEF StartWork, Exists
  <2>2. \A q \in Request : task.requests[q].outcome = "none"
    BY <2>1 DEF Inv, Honest
  <2> QED
    BY <2>1, <2>2, NotSent
<1> HIDE DEF t
<1>6. Honest(t)
  <2> SUFFICES ASSUME NEW q \in Request
               PROVE  LET r == t.requests[q] IN
                      /\ Sent(q) \/ Carries(q) # {} => r.outcome \in {"unknown", "accepted"} /\ r.phase \in {"dispatching", "settled"}
                      /\ r.outcome = "accepted" => Carries(q) # {}
                      /\ t.pending = q => r.outcome = "unknown"
                      /\ ~t.thread /\ q # Start => r.outcome = "none"
    BY DEF Honest
  <2>1. ~Sent(q) /\ Carries(q) = {} /\ t.pending # q
    BY <1>4, <1>5, Constants DEF Unsent
  <2> QED
    BY <1>3, <1>4, <2>1
<1>7. task \in Record /\ Honest(task) /\ Stored(t) /\ UNCHANGED <<turns, wire, events, live, reader>>
  BY <1>2, Kept, StoredBy DEF Inv, StartWork
<1>8. c \in CallType /\ c.kind = "send" /\ c.phase = "create" /\ c.request = Start /\ c.snapshot = NoCall.snapshot
  BY Kept, Constants DEF CallType
<1> HIDE DEF c
<1>9. call' \in CallType /\ Phases(call') /\ Known(call'.snapshot.inputs)
  BY <1>2, <1>5, <1>8, Kept DEF Phases
<1>10. Calling'
  <2>1. CASE task' = t /\ call' = c
    <3>1. Unsent(Start)' /\ Start \in Request /\ task'.pending = None
      BY <1>4, <1>5, <1>7, <2>1, Constants DEF Unsent, Sent, Carries
    <3> QED
      BY <1>8, <2>1, <3>1 DEF Calling
  <2>2. CASE call' = call
    BY <1>5, <2>2, Kept DEF Calling
  <2> QED
    BY <1>2, <2>1, <2>2
<1> QED
  BY <1>2, <1>4, <1>6, <1>7, <1>9, <1>10, Kept, Recorded

(* A call that ends says nothing of a request any more.                    *)
LEMMA NoCalling == call' = NoCall => Calling'
<1>1. NoCall.kind = "none"
  BY DEF NoCall
<1> QED
  BY <1>1 DEF Calling

LEMMA Phased ==
  ASSUME call \in CallType, NEW p \in {"prepare", "dispatch"}, call.kind = "send"
  PROVE  LET c == [call EXCEPT !.phase = p] IN
         /\ c \in CallType /\ c.kind = "send" /\ c.phase = p /\ c.request = call.request /\ c.snapshot = call.snapshot
         /\ Phases(c) /\ c.steer = call.steer /\ c.run = call.run
BY DEF CallType, Phases

LEMMA ThreadStartedStep == ASSUME Types, Inv, ThreadStarted PROVE Types' /\ Inv'
<1> DEFINE t == [task EXCEPT !.thread = TRUE]
           c == [call EXCEPT !.phase = "prepare"]
<1>1. call.kind = "send" /\ call.phase = "create" /\ task' = t /\ Stored(t) /\ call' \in {c, NoCall}
      /\ UNCHANGED <<reader, turns, wire, events>>
  BY StoredBy DEF ThreadStarted, Types, Phases
<1>2. call.request = Start /\ task.pending = None /\ Unsent(Start) /\ Start \in Request
  BY <1>1, Sending, Constants
<1>3. t \in Record /\ t.thread = TRUE /\ t.pending = None /\ t.requests = task.requests
  BY <1>2, Kept DEF Record
<1> HIDE DEF t
<1>4. Honest(t)
  <2>1. \A q \in Request : t.pending # q
    BY <1>3, Constants
  <2> QED
    BY <1>3, <2>1 DEF Inv, Honest
<1>5. c \in CallType /\ c.kind = "send" /\ c.phase = "prepare" /\ c.request = Start /\ c.snapshot = call.snapshot /\ Phases(c)
  BY <1>1, <1>2, Kept, Phased
<1> HIDE DEF c
<1>6. call' \in CallType /\ Phases(call') /\ Known(call'.snapshot.inputs)
  BY <1>1, <1>5, Kept
<1>7. Calling'
  <2>1. CASE call' = c
    <3>1. Unsent(Start)'
      BY <1>1, <1>2 DEF Unsent, Sent, Carries
    <3> QED
      BY <1>1, <1>2, <1>3, <1>5, <2>1, <3>1 DEF Calling
  <2> QED
    BY <1>1, <2>1, NoCalling
<1>8. live' \in LiveType
  BY Kept DEF ThreadStarted, LiveType
<1> QED
  BY <1>1, <1>3, <1>4, <1>6, <1>7, <1>8, Kept, Recorded

LEMMA ThreadNotStartedStep == ASSUME Types, Inv, ThreadNotStarted PROVE Types' /\ Inv'
<1> DEFINE r == task.requests[Start]
           u == [task EXCEPT !.status = "failed"]
           x == [r EXCEPT !.outcome = "rejected"]
           y == [x EXCEPT !.phase = "settled"]
           reqs == [task.requests EXCEPT ![Start] = y]
           t == [u EXCEPT !.requests = reqs]
<1>1. call.kind = "send" /\ call.phase = "create" /\ call' = NoCall /\ UNCHANGED <<live, reader, turns, wire, events>>
  BY DEF ThreadNotStarted, Types, Phases
<1>2. call.request = Start /\ task.pending = None /\ Unsent(Start) /\ Start \in Request
  BY <1>1, Sending, Constants
<1>3. u \in Record /\ u.pending = task.pending /\ u.thread = task.thread /\ u.requests = task.requests
  BY Kept DEF Record, Status, Final
<1>4. r \in Receipt
  BY <1>2, Kept DEF Record
<1>5. x \in Receipt
  BY <1>4 DEF Receipt, Outcome
<1>6. y \in Receipt /\ y.outcome = "rejected"
  <2>1. x.outcome = "rejected"
    BY <1>4 DEF Receipt
  <2> HIDE DEF x
  <2> QED
    BY <1>5, <2>1 DEF Receipt
<1>7. [task EXCEPT !.status = "failed", !.requests[Start].outcome = "rejected", !.requests[Start].phase = "settled"] = t
  <2> DEFINE v == [u EXCEPT !.requests[Start].outcome = "rejected"]
             w == [v EXCEPT !.requests[Start].phase = "settled"]
  <2>1. [task EXCEPT !.status = "failed", !.requests[Start].outcome = "rejected", !.requests[Start].phase = "settled"] = w
    BY Zenon
  <2>2. u = [thread |-> task.thread, run |-> task.run, status |-> "failed", pending |-> task.pending,
             superseded |-> task.superseded, activity |-> task.activity, requests |-> task.requests, stops |-> task.stops]
    BY Kept, Fields
  <2>3. task.requests \in [Request -> Receipt]
    BY Kept DEF Record
  <2> DEFINE mid == [task.requests EXCEPT ![Start] = x]
  <2>4. v = [u EXCEPT !.requests = mid]
    <3>1. v = [u EXCEPT !.requests = [u.requests EXCEPT ![Start] = [u.requests[Start] EXCEPT !.outcome = "rejected"]]]
      BY Zenon
    <3>2. u.requests = task.requests
      BY <1>3
    <3> HIDE DEF u, v
    <3> QED
      BY <3>1, <3>2
  <2>5. w = [v EXCEPT !.requests = [v.requests EXCEPT ![Start] = [v.requests[Start] EXCEPT !.phase = "settled"]]]
    BY Zenon
  <2> HIDE DEF u, v, w, x
  <2>6. mid[Start] = x /\ mid \in [Request -> Receipt] /\ [mid EXCEPT ![Start] = y] = reqs
    <3>1. mid[Start] = x /\ mid \in [Request -> Receipt]
      BY <1>2, <1>5, <2>3
    <3> HIDE DEF y
    <3>2. [mid EXCEPT ![Start] = y] = reqs
      BY <1>2, <2>3
    <3> QED
      BY <3>1, <3>2
  <2> HIDE DEF mid, reqs
  <2>7. v.requests = mid
    BY <2>2, <2>4
  <2>8. w = [v EXCEPT !.requests = reqs]
    BY <2>5, <2>6, <2>7
  <2>9. w = [u EXCEPT !.requests = reqs]
    BY <2>2, <2>4, <2>8
  <2> QED
    BY <2>1, <2>9
<1> HIDE DEF y
<1>8. /\ reqs \in [Request -> Receipt] /\ reqs[Start] = y /\ \A q \in Request \ {Start} : reqs[q] = task.requests[q]
  BY <1>2, <1>6, Kept DEF Record
<1> HIDE DEF reqs, u
<1>9. t \in Record /\ t.pending = task.pending /\ t.thread = task.thread /\ t.requests = reqs
  BY <1>3, <1>8 DEF Record
<1>10. task' \in {task, t} /\ Stored(task')
  BY <1>7, StoredBy DEF ThreadNotStarted
<1> HIDE DEF t
<1>11. Honest(t)
  <2>1. t.pending # Start
    BY <1>2, <1>9, Constants
  <2>2. t.requests[Start].outcome = "rejected"
    BY <1>6, <1>8, <1>9
  <2>3. Honest(task)
    BY DEF Inv
  <2>4. t.thread = task.thread /\ t.pending = task.pending
        /\ \A q \in Request \ {Start} : t.requests[q] = task.requests[q]
    BY <1>8, <1>9
  <2> QED
    BY <1>2, <2>1, <2>2, <2>3, <2>4, OneChanged
<1>12. Honest(task') /\ task' \in Record
  BY <1>9, <1>10, <1>11, Kept DEF Inv
<1>13. Calling' /\ call' \in CallType /\ Phases(call') /\ Known(call'.snapshot.inputs)
  BY <1>1, NoCalling, Kept
<1> QED
  BY <1>1, <1>10, <1>12, <1>13, Kept, Recorded

LEMMA SendWorkStep == ASSUME Types, Inv, NEW q \in Sends, SendWork(q) PROVE Types' /\ Inv'
<1>1. /\ q \in Request /\ call = NoCall /\ task.thread /\ task.pending = None /\ task.requests[q].outcome = "none"
      /\ UNCHANGED <<task, disk, live, reader, turns, wire, events>>
  BY DEF SendWork, Request
<1>2. Unsent(q)
  BY <1>1, NotSent
<1>3. /\ call' \in CallType /\ call'.kind = "send" /\ call'.phase = "prepare" /\ call'.request = q
      /\ call'.snapshot = NoCall.snapshot
  BY <1>1, Kept DEF SendWork, CallType
<1>4. Phases(call') /\ Known(call'.snapshot.inputs)
  BY <1>3, Kept DEF Phases
<1>5. Calling'
  <2>1. Unsent(q)'
    BY <1>1, <1>2 DEF Unsent, Sent, Carries
  <2> QED
    BY <1>1, <1>3, <2>1 DEF Calling
<1>6. Stored(task') /\ task' \in Record /\ Honest(task')
  BY <1>1, StoredBy, Kept DEF Inv
<1> QED
  BY <1>1, <1>3, <1>4, <1>5, <1>6, Kept, Recorded

LEMMA PreparedFacts ==
  ASSUME Types, NEW q \in Request, NEW steer \in BOOLEAN
  PROVE  LET t == Prepared(q, steer) IN
         /\ t \in Record /\ t.thread = task.thread /\ t.pending \in {q, None} /\ t.requests[q].outcome = "unknown"
         /\ \A p \in Request \ {q} : t.requests[p] = task.requests[p]
<1> DEFINE x == [outcome |-> "unknown", phase |-> "prepared", status |-> task.status, run |-> task.run]
           over == Supersede(task, task.run)
           base == IF steer THEN task ELSE [over EXCEPT !.run = 0]
           s == [base EXCEPT !.requests[q] = x, !.pending = q]
           u == [s EXCEPT !.activity = ""]
           v == [u EXCEPT !.status = "unknown"]
<1>1. task \in Record /\ task.run \in Run /\ task.status \in Status /\ 0 \in Run
  BY Constants DEF Types, Record
<1>2. Prepared(q, steer) = v
  BY Zenon DEF Prepared
<1>3. x \in Receipt /\ x.outcome = "unknown"
  BY <1>1 DEF Receipt, Outcome
<1> HIDE DEF x
<1>4. Learns(task, over, {}) /\ over \in Record
  <2>1. Learns(task, over, {})
    BY <1>1, SupersedeLearns
  <2> QED
    BY <2>1 DEF Learns
<1> HIDE DEF over
<1>5. Learns(over, [over EXCEPT !.run = 0], {})
  BY <1>1, <1>4, RunSet
<1>6. Learns(task, [over EXCEPT !.run = 0], {}) /\ Learns(task, task, {})
  BY <1>1, <1>4, <1>5, LearnsTwice, LearnsSame
<1>7. Learns(task, base, {})
  BY <1>6
<1> HIDE DEF base
<1>8. base \in Record /\ base.thread = task.thread /\ \A p \in Request : base.requests[p] = task.requests[p]
  BY <1>7 DEF Learns
<1>9. RequestIs(base, s, q, x, q)
  BY Zenon DEF RequestIs
<1> HIDE DEF s
<1>10. q \in Request \cup {None}
  OBVIOUS
<1>11. /\ s \in Record /\ s.thread = base.thread /\ s.pending = q
       /\ s.requests[q] = x /\ \A y \in Request \ {q} : s.requests[y] = base.requests[y]
  BY <1>3, <1>8, <1>9, <1>10, RequestSet
<1>12. Learns(s, u, {}) /\ u \in Record
  <2>1. Learns(s, u, {})
    BY <1>11, ActivitySet
  <2> QED
    BY <2>1 DEF Learns
<1> HIDE DEF u
<1>13. Learns(u, v, {})
  BY <1>12, StatusSet DEF Status
<1> HIDE DEF v
<1>14. Learns(s, v, {})
  BY <1>12, <1>13, LearnsTwice
<1>15. v \in Record /\ v.thread = s.thread /\ v.pending \in {q, None} /\ \A p \in Request : v.requests[p] = s.requests[p]
  BY <1>11, <1>14 DEF Learns
<1> QED
  BY <1>2, <1>3, <1>8, <1>11, <1>15

LEMMA PrepareStep == ASSUME Types, Inv, Prepare PROVE Types' /\ Inv'
<1> DEFINE q == call.request
           steer == task.status = "working"
           t == Prepared(q, steer)
           e == [task EXCEPT !.activity = ""]
           back == [task EXCEPT !.activity = "", !.requests[q] = NoReceipt]
           d == [call EXCEPT !.steer = steer, !.run = IF steer THEN live.run ELSE 0,
                             !.phase = IF steer \/ q = Start THEN "dispatch" ELSE "resume"]
<1>1. call.kind = "send" /\ call.phase = "prepare" /\ UNCHANGED <<live, reader, turns, wire, events>>
  BY DEF Prepare, Types, Phases
<1>2. q \in Request /\ Unsent(q) /\ task.pending = None /\ task.thread
  BY <1>1, Sending
<1>3. /\ t \in Record /\ t.thread = task.thread /\ t.pending \in {q, None} /\ t.requests[q].outcome = "unknown"
      /\ \A p \in Request \ {q} : t.requests[p] = task.requests[p]
  BY <1>2, PreparedFacts
<1>4. \/ call' = NoCall /\ task' = task /\ disk' = disk
      \/ Saved(t) /\ task' = t /\ call' = d /\ (steer => live.run \in Turn)
      \/ Lost(t) /\ call' = NoCall /\ task' = back
  BY DEF Prepare
<1>5. \/ /\ d \in CallType /\ d.kind = "send" /\ d.request = q
         /\ d.phase \in {"dispatch", "resume"} /\ d.snapshot = call.snapshot
      \/ (steer /\ live.run \notin Turn)
  <2> DEFINE n == IF steer THEN live.run ELSE 0
             ph == IF steer \/ q = Start THEN "dispatch" ELSE "resume"
             d1 == [call EXCEPT !.steer = steer]
             d2 == [d1 EXCEPT !.run = n]
             d3 == [d2 EXCEPT !.phase = ph]
  <2>1. d = d3
    BY Zenon
  <2>2. CASE ~(steer /\ live.run \notin Turn)
    <3>1. n \in Run /\ ph \in {"dispatch", "resume"} /\ steer \in BOOLEAN
      BY <2>2, Constants
    <3> HIDE DEF n, ph, steer
    <3>2. d1 \in CallType /\ d1.kind = "send" /\ d1.request = q /\ d1.snapshot = call.snapshot
      BY <1>1, <3>1, Kept DEF CallType
    <3> HIDE DEF d1, q
    <3>3. d2 \in CallType /\ d2.kind = "send" /\ d2.request = q /\ d2.snapshot = call.snapshot
      BY <3>1, <3>2 DEF CallType
    <3> HIDE DEF d2
    <3>4. d3 \in CallType /\ d3.kind = "send" /\ d3.request = q /\ d3.snapshot = call.snapshot /\ d3.phase = ph
      BY <3>1, <3>3 DEF CallType
    <3> HIDE DEF d3, d
    <3> QED
      BY <2>1, <3>1, <3>4
  <2> QED
    BY <2>2
<1>6. /\ back \in Record /\ back.thread = task.thread /\ back.pending \in {task.pending, None} /\ back.requests[q].outcome = "none"
      /\ \A p \in Request \ {q} : back.requests[p] = task.requests[p]
  <2>1. Learns(task, e, {}) /\ e \in Record
    <3>1. Learns(task, e, {})
      BY Kept, ActivitySet
    <3> QED
      BY <3>1 DEF Learns
  <2>2. back = [e EXCEPT !.requests[q] = NoReceipt]
    BY Zenon
  <2>3. NoReceipt \in Receipt /\ NoReceipt.outcome = "none"
    BY ReceiptMade DEF Outcome, NoReceipt
  <2> HIDE DEF e, back
  <2>4. /\ back \in Record /\ back.thread = e.thread /\ back.pending = e.pending /\ back.requests[q] = NoReceipt
        /\ \A p \in Request \ {q} : back.requests[p] = e.requests[p]
    BY <1>2, <2>1, <2>2, <2>3 DEF Record
  <2>5. e.thread = task.thread /\ e.pending \in {task.pending, None} /\ \A p \in Request : e.requests[p] = task.requests[p]
    BY <2>1 DEF Learns
  <2> QED
    BY <2>3, <2>4, <2>5
<1> HIDE DEF t, back, d, e
<1>7. Honest(task) /\ task \in Record
  BY Kept DEF Inv
<1>8. Honest(t)
  BY <1>2, <1>3, <1>7, OneChanged
<1>9. Honest(back)
  <2>1. back.pending # q
    BY <1>2, <1>6, Constants
  <2> QED
    BY <1>2, <1>6, <1>7, <2>1, OneChanged
<1>10. task' \in Record /\ Honest(task') /\ Stored(t)
  <2>1. task' \in {task, t, back}
    BY <1>4
  <2>2. Stored(t)
    BY <1>4, StoredBy
  <2> QED
    BY <1>3, <1>6, <1>7, <1>8, <1>9, <2>1, <2>2
<1>11. call' = NoCall \/ (call' = d /\ task' = t /\ d \in CallType /\ d.kind = "send" /\ d.request = q
                          /\ d.phase \in {"dispatch", "resume"} /\ d.snapshot = call.snapshot)
  BY <1>4, <1>5
<1>12. call' \in CallType /\ Phases(call') /\ Known(call'.snapshot.inputs)
  BY <1>11, Kept DEF Phases
<1>13. Calling'
  <2>1. CASE call' = NoCall
    BY <2>1, NoCalling
  <2>2. CASE call' = d /\ task' = t /\ d.kind = "send" /\ d.request = q /\ d.phase \in {"dispatch", "resume"}
    <3> HIDE DEF q
    <3>1. call'.kind = "send" /\ call'.request = q /\ call'.phase \in {"dispatch", "resume"}
      BY <2>2
    <3>2. ~(\E m \in wire' : m.request = q) /\ {k \in 1..Len(turns') : q \in turns'[k].inputs} = {}
      BY <1>1, <1>2 DEF Unsent, Sent, Carries
    <3>3. Unsent(call.request)'
      BY <3>1, <3>2 DEF Unsent, Sent, Carries
    <3>4. task'.requests[q].outcome = "unknown" /\ task'.thread
      BY <1>2, <1>3, <2>2
    <3> QED
      BY <1>2, <3>1, <3>3, <3>4 DEF Calling
  <2> QED
    BY <1>11, <2>1, <2>2
<1> QED
  BY <1>1, <1>3, <1>8, <1>10, <1>12, <1>13, Kept, Recorded

LEMMA ResumeStep == ASSUME Types, Inv, Resume PROVE Types' /\ Inv'
<1> DEFINE q == call.request
           d == [call EXCEPT !.phase = "dispatch"]
<1>1. call.kind = "send" /\ call.phase = "resume" /\ UNCHANGED <<task, reader, turns, wire, events>>
  BY DEF Resume, Types, Phases
<1>2. q \in Request /\ Unsent(q) /\ task.thread /\ task.requests[q].outcome = "unknown"
  BY <1>1, Sending
<1>3. call' \in {d, Settling("rejected")} /\ Stored(task)
  BY StoredBy DEF Resume
<1>4. d \in CallType /\ d.kind = "send" /\ d.phase = "dispatch" /\ d.request = q /\ d.snapshot = call.snapshot /\ Phases(d)
  BY <1>1, Kept, Phased
<1>5. /\ Settling("rejected") \in CallType /\ Settling("rejected").kind = "send" /\ Settling("rejected").request = q
      /\ Settling("rejected").phase = "settle" /\ Settling("rejected").answer = "rejected"
      /\ Settling("rejected").snapshot = call.snapshot /\ Phases(Settling("rejected"))
  BY <1>1, Kept, SettlingFields
<1> HIDE DEF d
<1>6. call' \in CallType /\ call'.kind = "send" /\ call'.request = q /\ call'.snapshot = call.snapshot /\ Phases(call')
      /\ (call'.phase = "dispatch" \/ (call'.phase = "settle" /\ call'.answer = "rejected"))
  BY <1>3, <1>4, <1>5
<1>7. Calling'
  <2> HIDE DEF q
  <2>1. ~(\E m \in wire' : m.request = q) /\ {k \in 1..Len(turns') : q \in turns'[k].inputs} = {}
    BY <1>1, <1>2 DEF Unsent, Sent, Carries
  <2>2. Unsent(call.request)'
    BY <1>6, <2>1 DEF Unsent, Sent, Carries
  <2> QED
    BY <1>1, <1>2, <1>6, <2>2 DEF Calling
<1>8. live' \in LiveType
  BY Kept DEF Resume, LiveType
<1>9. task' \in Record /\ Honest(task') /\ task \in Record /\ Honest(task)
  BY <1>1, Kept DEF Inv
<1>10. Known(call'.snapshot.inputs)
  BY <1>6, Kept
<1> QED
  BY <1>1, <1>3, <1>6, <1>7, <1>8, <1>9, <1>10, Kept, Recorded

LEMMA DispatchingFacts ==
  ASSUME NEW p \in Record, NEW q \in Request
  PROVE  LET t == [p EXCEPT !.requests[q].phase = "dispatching"] IN
         /\ t \in Record /\ t.thread = p.thread /\ t.pending = p.pending
         /\ t.requests[q].outcome = p.requests[q].outcome /\ t.requests[q].phase = "dispatching"
         /\ \A x \in Request \ {q} : t.requests[x] = p.requests[x]
<1> DEFINE x == [p.requests[q] EXCEPT !.phase = "dispatching"]
           reqs == [p.requests EXCEPT ![q] = x]
           t == [p EXCEPT !.requests = reqs]
<1>1. [p EXCEPT !.requests[q].phase = "dispatching"] = t
  BY Zenon
<1>2. p.requests \in [Request -> Receipt] /\ p.requests[q] \in Receipt
  BY DEF Record
<1>3. x \in Receipt /\ x.outcome = p.requests[q].outcome /\ x.phase = "dispatching"
  BY <1>2 DEF Receipt
<1> HIDE DEF x
<1>4. reqs \in [Request -> Receipt] /\ reqs[q] = x /\ \A y \in Request \ {q} : reqs[y] = p.requests[y]
  BY <1>2, <1>3
<1> HIDE DEF reqs
<1>5. t \in Record /\ t.thread = p.thread /\ t.pending = p.pending /\ t.requests = reqs
  BY <1>4 DEF Record
<1> HIDE DEF t
<1> QED
  BY <1>1, <1>3, <1>4, <1>5

(* A request that was not sent before is on the wire now.                  *)
LEMMA DispatchedHonest ==
  ASSUME NEW t, NEW q \in Request, NEW n, Honest(t), t.requests[q].outcome = "unknown", t.requests[q].phase = "dispatching",
         n.request = q, wire' = wire \cup {n}, UNCHANGED turns
  PROVE  (task' = t => Honest(task)') /\ (disk' = t => Honest(disk)')
<1>1. \A x \in Request : (Sent(x)' => Sent(x) \/ x = q) /\ Carries(x)' = Carries(x)
  BY DEF Sent, Carries
<1>2. ASSUME task' = t PROVE Honest(task)'
  BY <1>1, <1>2 DEF Honest
<1>3. ASSUME disk' = t PROVE Honest(disk)'
  BY <1>1, <1>3 DEF Honest
<1> QED
  BY <1>2, <1>3

LEMMA DispatchStep == ASSUME Types, Inv, Dispatch PROVE Types' /\ Inv'
<1> DEFINE q == call.request
           t == [task EXCEPT !.requests[q].phase = "dispatching"]
           n == [request |-> q, steer |-> call.steer, run |-> call.run]
           w == [call EXCEPT !.phase = "waiting"]
<1>1. call.kind = "send" /\ call.phase = "dispatch" /\ task' = t /\ UNCHANGED <<live, reader, turns, events>>
  BY DEF Dispatch, Types, Phases
<1>2. q \in Request /\ Unsent(q) /\ task.thread /\ task.requests[q].outcome = "unknown"
  BY <1>1, Sending
<1>3. /\ t \in Record /\ t.thread = task.thread /\ t.pending = task.pending
      /\ t.requests[q].outcome = "unknown" /\ t.requests[q].phase = "dispatching"
      /\ \A x \in Request \ {q} : t.requests[x] = task.requests[x]
  BY <1>2, Kept, DispatchingFacts
<1>4. \/ disk' = File(t) /\ call' = w /\ wire' = wire \cup {n}
      \/ Stored(t) /\ call' = Settling("rejected") /\ wire' = wire
  BY StoredBy DEF Dispatch, Saved
<1> HIDE DEF t
<1>5. Honest(t)
  <2>1. Honest(task) /\ t.pending \in {task.pending, None, q}
    BY <1>3 DEF Inv
  <2>2. t.requests[q].outcome # "accepted" /\ ~(~task.thread)
    BY <1>2, <1>3
  <2> QED
    BY <1>2, <1>3, <2>1, <2>2, OneChanged
<1>6. CASE Stored(t) /\ call' = Settling("rejected") /\ wire' = wire
  <2>1. /\ call' \in CallType /\ call'.kind = "send" /\ call'.request = q
        /\ call'.phase = "settle" /\ call'.answer = "rejected" /\ call'.snapshot = call.snapshot /\ Phases(call')
    BY <1>1, <1>6, Kept, SettlingFields
  <2>2. Calling'
    <3> HIDE DEF q
    <3>1. ~(\E m \in wire' : m.request = q) /\ {k \in 1..Len(turns') : q \in turns'[k].inputs} = {}
      BY <1>1, <1>2, <1>6 DEF Unsent, Sent, Carries
    <3>2. Unsent(call.request)'
      BY <2>1, <3>1 DEF Unsent, Sent, Carries
    <3>3. task'.thread
      BY <1>1, <1>2, <1>3
    <3> QED
      BY <1>2, <2>1, <3>2, <3>3 DEF Calling
  <2>3. task' \in Record /\ Honest(task')
    BY <1>1, <1>3, <1>5
  <2>4. Known(call'.snapshot.inputs)
    BY <2>1, Kept
  <2> QED
    BY <1>1, <1>3, <1>5, <1>6, <2>1, <2>2, <2>3, <2>4, Kept, Recorded
<1>7. CASE disk' = File(t) /\ call' = w /\ wire' = wire \cup {n}
  <2>1. w \in CallType /\ w.kind = "send" /\ w.request = q /\ w.phase = "waiting" /\ w.snapshot = call.snapshot /\ Phases(w)
    BY <1>1, Kept DEF CallType, Phases
  <2>2. n \in MessageType /\ n.request = q
    BY <1>2, Kept DEF MessageType, CallType
  <2>3. File(t) \in Record /\ Honest(File(t)) /\ File(t).requests = t.requests
    <3>1. File(t) \in Record /\ Honest(File(t))
      BY <1>3, <1>5, FileHonest
    <3>2. File(t).requests = t.requests
      BY <1>3 DEF File, Record
    <3> QED
      BY <3>1, <3>2
  <2> HIDE DEF w, n
  <2>4. Honest(task)'
    BY <1>1, <1>2, <1>3, <1>5, <1>7, <2>2, DispatchedHonest
  <2>5. Honest(disk)'
    <3>1. File(t).requests[q].outcome = "unknown" /\ File(t).requests[q].phase = "dispatching"
      BY <1>3, <2>3
    <3> QED
      BY <1>1, <1>2, <1>7, <2>2, <2>3, <3>1, DispatchedHonest
  <2>6. Wired'
    <3>1. \A m \in wire : m.request # q
      BY <1>2 DEF Unsent, Sent
    <3>2. Carries(q) = {}
      BY <1>2 DEF Unsent
    <3> HIDE DEF q
    <3>3. \A m, x \in wire' : m.request = x.request => m = x
      BY <1>7, <2>2, <3>1 DEF Inv, Wired
    <3>4. \A m \in wire' : {k \in 1..Len(turns') : m.request \in turns'[k].inputs} = {}
      BY <1>1, <1>7, <2>2, <3>2 DEF Inv, Wired, Carries
    <3>5. \A x \in Request : Carries(x)' = Carries(x)
      BY <1>1 DEF Carries
    <3>6. \A m \in wire' : Carries(m.request)' = {}
      BY <3>4 DEF Carries
    <3>7. \A x \in Request : \A j, k \in Carries(x)' : j = k
      BY <3>5 DEF Inv, Wired
    <3> QED
      BY <3>3, <3>6, <3>7 DEF Wired
  <2>7. Calling'
    <3>1. task'.thread
      BY <1>1, <1>2, <1>3
    <3> HIDE DEF q
    <3> QED
      BY <1>2, <1>7, <2>1, <3>1 DEF Calling
  <2>8. task' \in Record /\ disk' \in Record /\ wire' \subseteq MessageType /\ Known(call'.snapshot.inputs)
        /\ call' \in CallType /\ Phases(call')
    BY <1>1, <1>3, <1>7, <2>1, <2>2, <2>3, Kept DEF Types
  <2> QED
    BY <1>1, <2>4, <2>5, <2>6, <2>7, <2>8, Kept, Assembled
<1> QED
  BY <1>4, <1>6, <1>7

LEMMA SettleStep == ASSUME Types, Inv, Settle PROVE Types' /\ Inv'
<1> DEFINE q == call.request
           k == call.run
<1>1. call.kind = "send" /\ call.phase = "settle" /\ call' = NoCall /\ UNCHANGED <<turns, wire, events>>
      /\ call.answer \in {"ok", "rejected", "lost"} /\ Stored(task')
  <2>1. call.answer \in {"ok", "rejected", "lost"}
    BY Kept DEF Settle, CallType, Phases
  <2> QED
    BY <2>1, StoredBy DEF Settle
<1>2. /\ q \in Request /\ (q # Start => task.thread)
      /\ call.answer = "rejected" => Unsent(q)
      /\ call.answer = "ok" => Carries(q) # {} /\ k \in Turn
  BY <1>1, Sending
<1>3. Honest(task) /\ task \in Record /\ live \in LiveType
  BY Kept DEF Inv
<1>4. task' \in Record /\ Honest(task')
  <2>1. CASE call.answer = "ok"
    <3>1. task' = Accepted(q, k)
      BY <2>1 DEF Settle
    <3>2. Resolves(task, Accepted(q, k), q, "accepted")
      BY <1>2, <1>3, <2>1, AcceptedResolves
    <3>3. Honest(Accepted(q, k))
      <4>1. "accepted" \in Answers
        BY DEF Answers
      <4>2. task.thread \/ q = Start
        BY <1>2
      <4>3. "accepted" = "rejected" => Unsent(q)
        OBVIOUS
      <4> HIDE DEF q, k
      <4> QED
        BY <1>2, <1>3, <2>1, <3>2, <4>1, <4>2, <4>3, ResolvesHonest
    <3> QED
      BY <3>1, <3>2, <3>3 DEF Resolves
  <2>2. CASE call.answer = "rejected"
    <3>1. task' = Refused(q)
      BY <2>2 DEF Settle
    <3>2. Unsent(q)
      BY <1>2, <2>2
    <3>3. task.requests[q].outcome # "accepted"
      BY <1>2, <1>3, <3>2 DEF Honest, Unsent
    <3>4. Resolves(task, Refused(q), q, "rejected")
      BY <1>2, <1>3, <3>3, RefusedResolves
    <3>5. Honest(Refused(q))
      <4>1. "rejected" \in Answers
        BY DEF Answers
      <4>2. task.thread \/ q = Start
        BY <1>2
      <4>3. "rejected" = "accepted" => Carries(q) # {}
        OBVIOUS
      <4> HIDE DEF q
      <4> QED
        BY <1>2, <1>3, <3>2, <3>4, <4>1, <4>2, <4>3, ResolvesHonest
    <3> QED
      BY <3>1, <3>4, <3>5 DEF Resolves
  <2>3. CASE call.answer = "lost"
    BY <1>3, <2>3 DEF Settle
  <2> QED
    BY <1>1, <2>1, <2>2, <2>3
<1>5. live' \in LiveType
  <2>1. PICK n \in Run \cup {Absent}, w \in BOOLEAN : live' = [live EXCEPT !.run = n, !.watching = w]
    <3> DEFINE t == CASE call.answer = "ok" -> Accepted(call.request, call.run)
                      [] call.answer = "rejected" -> Refused(call.request)
                      [] call.answer = "lost" -> task
               begun == call.answer = "ok" /\ task.run \in {0, k} \cup task.superseded
                        /\ k \notin live.terminals /\ t.status \notin Final
               n == IF begun THEN k ELSE live.run
    <3>1. n \in Run \cup {Absent}
      BY <1>2, <1>3, Constants DEF LiveType
    <3>2. (live.watching \/ call.answer # "ok") \in BOOLEAN
      BY <1>3 DEF LiveType
    <3>3. live' = [live EXCEPT !.run = n, !.watching = live.watching \/ call.answer # "ok"]
      BY DEF Settle
    <3> HIDE DEF n
    <3> QED
      BY <3>1, <3>2, <3>3
  <2> QED
    BY <1>3, <2>1 DEF LiveType
<1>6. reader' \in ReaderType /\ Known(reader'.snapshot.inputs)
  <2>1. CASE reader' = reader
    BY <2>1, Kept
  <2>2. CASE reader' = [Idle EXCEPT !.phase = "reading", !.request = task'.pending, !.run = task'.run]
    <3>1. task'.pending \in Request \cup {None} /\ task'.run \in Run
      BY <1>4 DEF Record
    <3>2. reader' \in ReaderType /\ reader'.snapshot = Idle.snapshot
      BY <2>2, <3>1, Kept DEF ReaderType
    <3> QED
      BY <3>2, Kept
  <2> QED
    BY <2>1, <2>2 DEF Settle
<1>7. Calling' /\ call' \in CallType /\ Phases(call') /\ Known(call'.snapshot.inputs)
  BY <1>1, NoCalling, Kept
<1> QED
  BY <1>1, <1>4, <1>5, <1>6, <1>7, Recorded

(***************************************************************************)
(* Restarts and reconnections.                                             *)
(***************************************************************************)
LEMMA ForgetFacts ==
  ASSUME Types, Inv, Forget
  PROVE  /\ UNCHANGED turns /\ wire' \subseteq wire /\ wire' \subseteq MessageType /\ Grows
         /\ live' \in LiveType /\ reader' \in ReaderType /\ Known(reader'.snapshot.inputs) /\ EventsType(events') /\ Wired'
<1>1. UNCHANGED turns /\ wire' \subseteq wire /\ wire' \subseteq MessageType /\ reader' = Idle /\ events' = <<>> /\ live' = NewLive
  BY DEF Forget, Types
<1>2. \A q \in Request : Carries(q)' = Carries(q)
  BY <1>1 DEF Carries
<1>3. live' \in LiveType
  <2>1. [k \in Turn |-> "none"] \in [Turn -> {"none"} \cup Final]
    OBVIOUS
  <2> QED
    BY <1>1, <2>1 DEF NewLive, LiveType
<1>4. EventsType(events')
  BY <1>1 DEF EventsType
<1>5. Wired'
  <2>1. \A m \in wire' : m.request \in Request
    BY <1>1 DEF MessageType
  <2>2. \A m \in wire' : {k \in 1..Len(turns') : m.request \in turns'[k].inputs} = {}
    BY <1>1 DEF Inv, Wired, Carries
  <2>3. \A m \in wire' : Carries(m.request)' = {}
    BY <2>2 DEF Carries
  <2> QED
    BY <1>1, <1>2, <2>3 DEF Inv, Wired
<1> QED
  BY <1>1, <1>2, <1>3, <1>4, <1>5, Kept DEF Grows

LEMMA RestartStep == ASSUME Types, Inv, Restart PROVE Types' /\ Inv'
<1> DEFINE t == SettlePrepared(disk)
           q == disk.pending
<1>1. task' = t /\ call' = NoCall /\ disk' = disk /\ Forget
  BY DEF Restart
<1>2. disk \in Record /\ Honest(disk) /\ Wired
  BY DEF Types, Inv
<1>3. t \in Record /\ Honest(t)
  <2>1. CASE t = disk
    BY <1>2, <2>1
  <2>2. CASE /\ q \in Request /\ disk.requests[q].phase = "prepared" /\ disk.requests[q].outcome = "unknown"
             /\ Resolves(disk, t, q, "rejected")
    <3>1. Unsent(q) /\ (disk.thread \/ q = Start)
      BY <1>2, <2>2 DEF Honest, Unsent
    <3>2. "rejected" \in Answers /\ ("rejected" = "accepted" => Carries(q) # {})
      BY DEF Answers
    <3> HIDE DEF t, q
    <3>3. Honest(t)
      BY <1>2, <2>2, <3>1, <3>2, ResolvesHonest
    <3> QED
      BY <2>2, <3>3 DEF Resolves
  <2> QED
    BY <1>2, <2>1, <2>2, PreparedResolves
<1> HIDE DEF t
<1>4. /\ UNCHANGED turns /\ wire' \subseteq wire /\ wire' \subseteq MessageType /\ Grows
      /\ live' \in LiveType /\ reader' \in ReaderType /\ Known(reader'.snapshot.inputs) /\ EventsType(events') /\ Wired'
  BY <1>1, ForgetFacts
<1>5. Honest(task)' /\ Honest(disk)'
  BY <1>1, <1>2, <1>3, <1>4, GrowsHonest
<1>6. Calling' /\ call' \in CallType /\ Phases(call') /\ Known(call'.snapshot.inputs)
  BY <1>1, NoCalling, Kept
<1>7. task' \in Record /\ disk' \in Record
  BY <1>1, <1>2, <1>3
<1> QED
  BY <1>4, <1>5, <1>6, <1>7, Assembled

LEMMA ReconnectStep == ASSUME Types, Inv, Reconnect PROVE Types' /\ Inv'
<1> DEFINE t == [task EXCEPT !.activity = ""]
           q == call.request
<1>1. /\ task' = t /\ disk' = disk /\ Forget
      /\ call' = CASE call.kind = "read" -> NoCall
                   [] call.phase = "waiting" -> Settling("lost")
                   [] call.phase \in {"resume", "dispatch"} -> Settling("rejected")
                   [] OTHER -> call
  BY DEF Reconnect
<1>2. Learns(task, t, {})
  BY Kept, ActivitySet
<1> HIDE DEF t
<1>3. t \in Record /\ Honest(t) /\ Honest(disk) /\ disk \in Record /\ Wired
  BY <1>2, LearnsHonest DEF Learns, Inv, Types
<1>4. t.thread = task.thread /\ t.pending \in {task.pending, None} /\ \A x \in Request : t.requests[x] = task.requests[x]
  BY <1>2 DEF Learns
<1>5. /\ UNCHANGED turns /\ wire' \subseteq wire /\ wire' \subseteq MessageType /\ Grows
      /\ live' \in LiveType /\ reader' \in ReaderType /\ Known(reader'.snapshot.inputs) /\ EventsType(events') /\ Wired'
  BY <1>1, ForgetFacts
<1>6. Honest(task)' /\ Honest(disk)'
  BY <1>1, <1>3, <1>5, GrowsHonest
<1>7. \/ call' = NoCall
      \/ call' = call /\ call.phase \notin {"waiting", "resume", "dispatch"}
      \/ call' = Settling("lost")
      \/ call' = Settling("rejected") /\ call.phase \in {"resume", "dispatch"}
  BY <1>1
<1>8. call' \in CallType /\ Phases(call') /\ Known(call'.snapshot.inputs)
  <2>1. /\ Settling("lost") \in CallType /\ Settling("lost").snapshot = call.snapshot /\ Phases(Settling("lost"))
        /\ Settling("rejected") \in CallType /\ Settling("rejected").snapshot = call.snapshot /\ Phases(Settling("rejected"))
    BY Kept, SettlingFields
  <2> QED
    BY <1>7, <2>1, Kept
<1>9. Calling'
  <2>1. CASE call' = NoCall
    BY <2>1, NoCalling
  <2>2. CASE call.kind # "send" /\ call' # NoCall
    <3>1. call'.kind = call.kind
      BY <1>7, <2>2, Kept, SettlingFields
    <3> QED
      BY <2>2, <3>1 DEF Calling
  <2>3. CASE call.kind = "send" /\ call' # NoCall
    <3>1. /\ q \in Request /\ (q # Start => task.thread)
          /\ call.phase \in {"create", "prepare", "resume", "dispatch"} => Unsent(q)
          /\ call.phase = "create" => q = Start /\ task.pending = None
          /\ call.phase = "prepare" => task.pending = None /\ task.thread
          /\ call.phase = "settle" /\ call.answer = "rejected" => Unsent(q)
          /\ call.phase = "settle" /\ call.answer = "ok" => Carries(q) # {} /\ call.run \in Turn
      BY <2>3, Sending
    <3>2. /\ call'.request = q /\ call'.kind = "send"
          /\ \/ /\ call'.phase = call.phase /\ call'.answer = call.answer /\ call'.run = call.run
                /\ call.phase \notin {"resume", "dispatch"}
             \/ call'.phase = "settle" /\ call'.answer = "lost"
             \/ /\ call'.phase = "settle" /\ call'.answer = "rejected"
                /\ call.phase \in {"resume", "dispatch"}
      BY <1>7, <2>3, Kept, SettlingFields
    <3> HIDE DEF q
    <3>3. Unsent(q) => ~(\E m \in wire' : m.request = q) /\ {k \in 1..Len(turns') : q \in turns'[k].inputs} = {}
      BY <1>5 DEF Unsent, Sent, Carries
    <3>4. Unsent(q) => Unsent(call.request)'
      BY <3>2, <3>3 DEF Unsent, Sent, Carries
    <3>5. Carries(q) # {} => Carries(call.request)' # {}
      <4>1. {k \in 1..Len(turns') : q \in turns'[k].inputs} = Carries(q)
        BY <1>5 DEF Carries
      <4> QED
        BY <3>2, <4>1 DEF Carries
    <3>6. task'.thread = task.thread /\ task'.pending \in {task.pending, None}
      BY <1>1, <1>4
    <3> QED
      BY <3>1, <3>2, <3>4, <3>5, <3>6 DEF Calling
  <2> QED
    BY <2>1, <2>2, <2>3
<1>10. task' \in Record /\ disk' \in Record
  BY <1>1, <1>3
<1> QED
  BY <1>5, <1>6, <1>8, <1>9, <1>10, Assembled

(***************************************************************************)
(* The invariant.                                                          *)
(***************************************************************************)
LEMMA Initially == Init => Types /\ Inv
<1> SUFFICES ASSUME Init PROVE Types /\ Inv
  OBVIOUS
<1>1. task \in Record /\ disk \in Record
  BY NoTaskType DEF Init
<1>2. live \in LiveType
  <2>1. [k \in Turn |-> "none"] \in [Turn -> {"none"} \cup Final]
    OBVIOUS
  <2> QED
    BY <2>1 DEF Init, NewLive, LiveType
<1>3. NoCall \in CallType /\ Idle \in ReaderType /\ Phases(NoCall) /\ NoCall.kind = "none"
      /\ NoCall.snapshot.inputs = {} /\ Idle.snapshot.inputs = {}
  BY NoSnapshotFacts, Constants DEF Idle, NoCall, ReaderType, CallType, Phases
<1>4. Thread /\ wire \subseteq MessageType /\ events \in Seq(EventType) /\ \A i \in 1..Len(events) : events[i].turn <= Len(turns)
  BY ConstantsOK DEF Init, Thread
<1>5. Types
  BY <1>1, <1>2, <1>3, <1>4 DEF Init, Types
<1>6. \A q \in Request : ~Sent(q) /\ Carries(q) = {}
  BY DEF Init, Sent, Carries
<1>7. Honest(NoTask)
  <2>1. NoReceipt.outcome = "none"
    BY DEF NoReceipt
  <2>2. \A q \in Request : NoTask.requests[q].outcome = "none" /\ NoTask.pending # q
    BY <2>1, NoTaskType, Constants
  <2> QED
    BY <1>6, <2>2 DEF Honest
<1>8. Wired
  BY <1>6 DEF Init, Wired
<1>9. Calling /\ Read
  BY <1>3 DEF Init, Calling, Read
<1> QED
  BY <1>5, <1>7, <1>8, <1>9 DEF Init, Inv

LEMMA Stepwise == Types /\ Inv /\ [Next]_vars => Types' /\ Inv'
<1> SUFFICES ASSUME Types, Inv, [Next]_vars PROVE Types' /\ Inv'
  OBVIOUS
<1>1. CASE UNCHANGED vars
  <2>1. UNCHANGED <<task, disk, live, call, reader, turns, wire, events>>
    BY <1>1 DEF vars
  <2> QED
    BY <2>1, Kept, Viewed
<1>2. CASE StartWork \/ ReadWork \/ StopWork
  BY <1>2, StartWorkStep, ReadWorkStep, StopWorkStep
<1>3. CASE \E q \in Sends : SendWork(q)
  BY <1>3, SendWorkStep
<1>4. CASE Progress
  BY <1>4, ThreadStartedStep, ThreadNotStartedStep, PrepareStep, ResumeStep, DispatchStep, AnswerLostStep, SettleStep,
     ReadAnsweredStep, ReadFailedStep, ReadDoneStep, InterruptStep, StopDoneStep DEF Progress
<1>5. CASE Recovery
  BY <1>5, RecoverStep, RecoverAnsweredStep, RecoverDroppedStep, RecoverFailedStep, RecoverDoneStep,
     WatchAnsweredStep, WatchFailedStep, WatchAgainStep, WatchDoneStep DEF Recovery
<1>6. CASE RetryObservations \/ Retire \/ Handle
  BY <1>6, RetryStep, RetireStep, HandleStep
<1>7. CASE Native
  BY <1>7, NativeStartsStep, NativeSteersStep, NativeRefusesStep, ContinueStep, TurnEndsStep DEF Native
<1>8. CASE Restart \/ Reconnect
  BY <1>8, RestartStep, ReconnectStep
<1> QED
  BY <1>1, <1>2, <1>3, <1>4, <1>5, <1>6, <1>7, <1>8 DEF Next

(* The record says of every request no more and no less than what may have *)
(* become of it, in memory and in the file, however calls, events, reads,  *)
(* failed saves and restarts interleave (sendTask, observeTaskTurn,        *)
(* settlePreparedTask).                                                    *)
THEOREM Safety == Spec => []Inv
<1>1. Spec => [](Types /\ Inv)
  BY Initially, Stepwise, PTL DEF Spec
<1> QED
  BY <1>1, PTL

LEMMA Typed == Spec => [](Types /\ Inv)
BY Initially, Stepwise, PTL DEF Spec

(* The record, in memory and in the file, keeps its shape, a pending       *)
(* request has a receipt, and the thread never runs two turns.             *)
THEOREM Typing == Spec => []TypeOK
<1>1. Types /\ Inv => TypeOK
  <2> SUFFICES ASSUME Types, Inv PROVE TypeOK
    OBVIOUS
  <2>1. task \in Record /\ disk \in Record /\ live.run \in Run \cup {Absent} /\ live.terminals \subseteq Turn
    BY DEF Types, LiveType
  <2>2. task.pending # None => task.requests[task.pending].outcome = "unknown"
    <3>1. task.pending \in Request \cup {None}
      BY <2>1 DEF Record
    <3> QED
      BY <3>1 DEF Inv, Honest
  <2> QED
    BY <2>1, <2>2 DEF TypeOK, Types, Thread
<1> QED
  BY <1>1, Typed, PTL

(* A request reaches the native thread at most once (sendTask).            *)
THEOREM Once == Spec => []DispatchedOnce
<1>1. Types /\ Inv => DispatchedOnce
  <2> SUFFICES ASSUME Types, Inv, NEW q \in Request PROVE Cardinality(Carries(q)) <= 1
    BY DEF DispatchedOnce
  <2>1. CASE Carries(q) = {}
    BY <2>1, FS_EmptySet
  <2>2. CASE Carries(q) # {}
    <3>1. PICK k : k \in Carries(q)
      BY <2>2
    <3>2. Carries(q) = {k}
      BY <3>1 DEF Inv, Wired
    <3> QED
      BY <3>2, FS_Singleton
  <2> QED
    BY <2>1, <2>2
<1> QED
  BY <1>1, Typed, PTL

(* A receipt is true: what is settled as rejected never reached a turn and *)
(* will not, what is settled as accepted did (taskSendResult).             *)
THEOREM Receipts == Spec => []ReceiptsTrue
<1>1. Types /\ Inv => ReceiptsTrue
  BY DEF Inv, Honest, Sent, ReceiptsTrue
<1> QED
  BY <1>1, Typed, PTL
=============================================================================
