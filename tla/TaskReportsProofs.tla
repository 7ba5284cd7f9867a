------------------------- MODULE TaskReportsProofs -------------------------
(***************************************************************************)
(* Proofs about TaskReports, for every number of executions, delays,       *)
(* failed writes and restarts.                                             *)
(***************************************************************************)
EXTENDS TaskReports, TLAPS

Feed == [run : Run, status : Status, pending : BOOLEAN]
Answer == {"none", "unknown", "accepted", "rejected", "deferred"}
SenderType == {Idle} \cup [phase : {"submit", "native", "answered"}, run : Execution, answer : Answer]

(***************************************************************************)
(* The ledger's operators.                                                 *)
(***************************************************************************)
LEMMA RunFacts == 0 \in Run /\ Execution \subseteq Run /\ 0 \notin Execution
                  /\ \A k \in Run : k # 0 => k \in Execution
BY ConstantsOK DEF Run, Execution

LEMMA SupersedeEffect ==
  ASSUME NEW r \in Record, NEW k \in Run
  PROVE  LET q == Supersede(r, k) IN
         /\ q \in Record /\ q.run = r.run /\ q.status = r.status
         /\ q.retired = IF r.run = 0 \/ k = 0 \/ r.run = k THEN r.retired ELSE r.retired \cup {r.run}
         /\ \A j \in Run : q.reports[j] =
              IF ~(r.run = 0 \/ k = 0 \/ r.run = k) /\ j = r.run /\ r.reports[j] = "pending"
              THEN "observed" ELSE r.reports[j]
<1>1. CASE r.run = 0 \/ k = 0 \/ r.run = k
  BY <1>1 DEF Supersede
<1>2. CASE ~(r.run = 0 \/ k = 0 \/ r.run = k)
  <2> DEFINE n == r.run
             reps == [r.reports EXCEPT ![n] = IF @ = "pending" THEN "observed" ELSE @]
  <2>1. n \in Execution /\ n \in Run
    BY <1>2, RunFacts DEF Record
  <2>2. reps \in [Run -> Report] /\ r.retired \cup {n} \in SUBSET Execution
    BY <2>1 DEF Record, Report
  <2>3. Supersede(r, k) = [run |-> r.run, status |-> r.status, retired |-> r.retired \cup {n}, reports |-> reps]
    BY <1>2 DEF Supersede, Record
  <2>4. \A j \in Run : reps[j] = IF j = n /\ r.reports[j] = "pending" THEN "observed" ELSE r.reports[j]
    BY <2>1 DEF Record
  <2> HIDE DEF reps
  <2> QED
    BY <1>2, <2>2, <2>3, <2>4 DEF Record
<1> QED
  BY <1>1, <1>2

LEMMA ObserveEffect ==
  ASSUME NEW r \in Record
  PROVE  LET q == Observe(r) IN
         /\ q \in Record /\ q.run = r.run /\ q.status = r.status /\ q.retired = r.retired
         /\ \A j \in Run : q.reports[j] = IF j = r.run /\ r.reports[j] = "pending" THEN "observed" ELSE r.reports[j]
BY DEF Observe, Record, Report

LEMMA ViewEffect ==
  ASSUME NEW r \in Record, NEW f \in Feed
  PROVE  LET q == View(r, f)
             k == IF f.run = 0 THEN r.run ELSE f.run
         IN
         /\ q \in Record /\ q.run = k /\ q.retired = r.retired
         /\ \A j \in Run : \/ q.reports[j] = r.reports[j]
                           \/ j = k /\ k # r.run /\ q.reports[j] \in {"pending", "observed"}
                           \/ j = k /\ k = r.run /\ r.reports[j] = "pending" /\ q.reports[j] = "observed"
<1> DEFINE k == IF f.run = 0 THEN r.run ELSE f.run
           reps == IF k = r.run THEN r.reports ELSE [r.reports EXCEPT ![k] = "pending"]
           v == [run |-> k, status |-> f.status, retired |-> r.retired, reports |-> reps]
<1>1. k \in Run
  BY DEF Record, Feed
<1>2. reps \in [Run -> Report]
  BY <1>1 DEF Record, Report
<1>3. v \in Record
  BY <1>1, <1>2 DEF Record, Feed
<1>4. \A j \in Run : reps[j] = IF j = k /\ k # r.run THEN "pending" ELSE r.reports[j]
  BY <1>1 DEF Record
<1>5. View(r, f) = IF f.status = "stopped" THEN Observe(v) ELSE v
  BY DEF View
<1> HIDE DEF reps
<1>6. /\ v.run = k /\ v.retired = r.retired
      /\ \A j \in Run : v.reports[j] = IF j = k /\ k # r.run THEN "pending" ELSE r.reports[j]
  BY <1>4
<1> HIDE DEF v, k
<1>7. CASE f.status = "stopped"
  BY <1>3, <1>5, <1>6, <1>7, ObserveEffect DEF k
<1>8. CASE f.status # "stopped"
  BY <1>3, <1>5, <1>6, <1>8 DEF k
<1> QED
  BY <1>7, <1>8

(* What a ledger operation may do to a consistent record.                  *)
Keeps(r, q) == \A k \in Execution : r.reports[k] \in Kept => q.reports[k] \in Kept

LEMMA RefreshedType ==
  ASSUME NEW r \in Record, NEW f \in Feed
  PROVE  Refreshed(r, f) \in Record
BY SupersedeEffect, ViewEffect DEF Refreshed, Feed

LEMMA RefreshedKeeps ==
  ASSUME NEW r \in Record, NEW f \in Feed, Consistent(r)
  PROVE  Consistent(Refreshed(r, f)) /\ Keeps(r, Refreshed(r, f))
<1> DEFINE s == Supersede(r, f.run)
           q == View(s, f)
           k == IF f.run = 0 THEN r.run ELSE f.run
<1>1. CASE f.run \in r.retired
  BY <1>1 DEF Refreshed, Keeps
<1>2. CASE f.run \notin r.retired
  <2>1. f.run \in Run /\ r.run \in Run /\ k \in Run
    BY DEF Feed, Record
  <2>2. /\ s \in Record /\ s.run = r.run
        /\ s.retired = IF r.run = 0 \/ f.run = 0 \/ r.run = f.run THEN r.retired ELSE r.retired \cup {r.run}
        /\ \A j \in Run : s.reports[j] =
             IF ~(r.run = 0 \/ f.run = 0 \/ r.run = f.run) /\ j = r.run /\ r.reports[j] = "pending"
             THEN "observed" ELSE r.reports[j]
    BY <2>1, SupersedeEffect
  <2> HIDE DEF s
  <2>3. /\ q \in Record /\ q.run = k /\ q.retired = s.retired
        /\ \A j \in Run : \/ q.reports[j] = s.reports[j]
                          \/ j = k /\ k # r.run /\ q.reports[j] \in {"pending", "observed"}
                          \/ j = k /\ k = r.run /\ s.reports[j] = "pending" /\ q.reports[j] = "observed"
    BY <2>2, ViewEffect
  <2> HIDE DEF q
  <2>4. Refreshed(r, f) = q
    BY <1>2 DEF Refreshed, q, s
  <2>5. q.run \notin q.retired
    BY <1>2, <2>2, <2>3 DEF Consistent
  <2>6. ASSUME NEW j \in Execution
        PROVE  /\ q.reports[j] # "none" => j = q.run \/ j \in q.retired
               /\ q.reports[j] = "pending" => j = q.run
               /\ receipt[j] # "none" => q.reports[j] \in Kept
               /\ q.reports[j] = "delivered" => receipt[j] = "accepted"
               /\ q.reports[j] = "rejected" => receipt[j] = "rejected"
               /\ r.reports[j] \in Kept => q.reports[j] \in Kept
    <3>1. j \in Run /\ j # 0
      BY RunFacts
    <3>2. CASE q.reports[j] = r.reports[j]
      <4>1. r.reports[j] # "none" => j = q.run \/ j \in q.retired
        BY <2>2, <2>3, <3>1 DEF Consistent
      <4>2. q.reports[j] = "pending" => j = q.run
        BY <2>1, <2>2, <2>3, <3>1, <3>2 DEF Consistent
      <4> QED
        BY <3>2, <4>1, <4>2 DEF Consistent
    <3>3. CASE r.reports[j] = "pending" /\ q.reports[j] = "observed"
      <4>1. receipt[j] = "none"
        BY <3>3 DEF Consistent, Kept
      <4>2. j = r.run
        BY <3>3 DEF Consistent
      <4> QED
        BY <2>2, <2>3, <3>1, <3>3, <4>1, <4>2 DEF Kept
    <3>4. CASE j = k /\ k # r.run /\ q.reports[j] \in {"pending", "observed"}
      <4>1. r.reports[j] = "none"
        BY <1>2, <3>1, <3>4 DEF Consistent
      <4> QED
        BY <2>3, <3>4, <4>1 DEF Consistent, Kept
    <3> QED
      BY <2>2, <2>3, <3>1, <3>2, <3>3, <3>4
  <2> QED
    BY <2>4, <2>5, <2>6 DEF Consistent, Keeps
<1> QED
  BY <1>1, <1>2


LEMMA ObserveKeeps ==
  ASSUME NEW r \in Record, Consistent(r)
  PROVE  Observe(r) \in Record /\ Consistent(Observe(r)) /\ Keeps(r, Observe(r))
<1> DEFINE q == Observe(r)
<1>1. /\ q \in Record /\ q.run = r.run /\ q.retired = r.retired
      /\ \A j \in Run : q.reports[j] = IF j = r.run /\ r.reports[j] = "pending" THEN "observed" ELSE r.reports[j]
  BY ObserveEffect
<1> HIDE DEF q
<1>2. Consistent(q) /\ Keeps(r, q)
  BY <1>1, RunFacts DEF Consistent, Keeps, Kept
<1> QED
  BY <1>1, <1>2 DEF q

(* Reconciling changes only reports whose outcome the log has.             *)
LEMMA ReconciledKeeps ==
  ASSUME NEW r \in Record, Consistent(r), receipt \in [Execution -> {"none", "unknown", "accepted", "rejected"}]
  PROVE  /\ Reconciled(r) \in Record /\ Consistent(Reconciled(r)) /\ Keeps(r, Reconciled(r))
         /\ Reconciled(r).run = r.run
<1> DEFINE reps == [k \in Run |-> IF r.reports[k] = "dispatching"
                                  THEN Settle("dispatching", receipt[k]) ELSE r.reports[k]]
           q == [run |-> r.run, status |-> r.status, retired |-> r.retired, reports |-> reps]
<1>1. Reconciled(r) = q
  BY DEF Reconciled, Record
<1>2. \A a : Settle("dispatching", a) \in Report
  BY DEF Settle, Report
<1>3. reps \in [Run -> Report]
  BY <1>2 DEF Record
<1>4. \A k \in Execution :
        IF r.reports[k] = "dispatching"
        THEN reps[k] = CASE receipt[k] = "accepted" -> "delivered" [] receipt[k] = "rejected" -> "rejected"
                         [] OTHER -> "dispatching"
        ELSE reps[k] = r.reports[k]
  BY RunFacts DEF Settle
<1> HIDE DEF reps
<1>5. q \in Record
  BY <1>3 DEF Record
<1>6. Consistent(q) /\ Keeps(r, q)
  BY <1>4 DEF Consistent, Keeps, Kept
<1> QED
  BY <1>1, <1>5, <1>6

LEMMA DispatchingKeeps ==
  ASSUME NEW r \in Record, Consistent(r), r.run # 0
  PROVE  /\ Dispatching(r) \in Record /\ Keeps(r, Dispatching(r))
         /\ (r.reports[r.run] = "pending" => Consistent(Dispatching(r)))
         /\ Dispatching(r).reports[r.run] \in Kept
<1> DEFINE reps == [r.reports EXCEPT ![r.run] = "dispatching"]
           q == [run |-> r.run, status |-> r.status, retired |-> r.retired, reports |-> reps]
<1>1. Dispatching(r) = q
  BY DEF Dispatching, Record
<1>2. r.run \in Run /\ r.run \in Execution
  BY RunFacts DEF Record
<1>3. reps \in [Run -> Report] /\ reps[r.run] = "dispatching"
      /\ \A k \in Execution : k # r.run => reps[k] = r.reports[k]
  BY <1>2, RunFacts DEF Record, Report
<1> HIDE DEF reps
<1>4. q \in Record
  BY <1>3 DEF Record
<1>5. Keeps(r, q) /\ q.reports[r.run] \in Kept
  BY <1>3 DEF Keeps, Kept
<1>6. ASSUME r.reports[r.run] = "pending" PROVE Consistent(q)
  BY <1>2, <1>3, <1>6 DEF Consistent, Kept
<1> QED
  BY <1>1, <1>4, <1>5, <1>6

(* An answer settles its own report, and only a message that the log       *)
(* forgot is owed again.                                                   *)
LEMMA SettledConsistent ==
  ASSUME NEW r \in Record, Consistent(r), NEW k \in Execution, NEW a \in Answer,
         a = "deferred" => receipt[k] = "none",
         a \in {"accepted", "rejected"} => receipt[k] = a,
         r.reports[k] # "none"
  PROVE  Settled(r, k, a) \in Record /\ Consistent(Settled(r, k, a))
<1> DEFINE n == IF Settle(r.reports[k], a) = "pending" /\ k # r.run THEN "observed" ELSE Settle(r.reports[k], a)
           reps == [r.reports EXCEPT ![k] = n]
           q == [run |-> r.run, status |-> r.status, retired |-> r.retired, reports |-> reps]
<1>1. k \in Run /\ r.reports[k] \in Report
  BY RunFacts DEF Record
<1>2. Settled(r, k, a) = q
  BY <1>1 DEF Settled, Record
<1>3. n = CASE a = "accepted" -> "delivered" [] a = "rejected" -> "rejected"
            [] a = "deferred" -> IF k = r.run THEN "pending" ELSE "observed"
            [] OTHER -> IF r.reports[k] = "pending" /\ k # r.run THEN "observed" ELSE r.reports[k]
  BY DEF Settle, Answer
<1> HIDE DEF n
<1>4. n \in Report
  BY <1>1, <1>3 DEF Report, Answer
<1>5. reps \in [Run -> Report] /\ reps[k] = n /\ \A j \in Execution : j # k => reps[j] = r.reports[j]
  BY <1>1, <1>4, RunFacts DEF Record
<1> HIDE DEF reps
<1>6. q \in Record
  BY <1>5 DEF Record
<1>7. /\ n # "none" => k = r.run \/ k \in r.retired
      /\ n = "pending" => k = r.run
      /\ receipt[k] # "none" => n \in Kept
      /\ n = "delivered" => receipt[k] = "accepted"
      /\ n = "rejected" => receipt[k] = "rejected"
  BY <1>3 DEF Consistent, Kept, Answer
<1>8. Consistent(q)
  BY <1>5, <1>7 DEF Consistent
<1> QED
  BY <1>2, <1>6, <1>8


(***************************************************************************)
(* Types.                                                                  *)
(***************************************************************************)
LogType == receipt \in [Execution -> {"none", "unknown", "accepted", "rejected"}] /\ given \in [Execution -> 0..1]

LEMMA TypeUnfolds == TypeOK => rec \in Record /\ disk \in Record /\ feed \in Feed /\ LogType
BY DEF TypeOK, Feed, LogType, Log!Receipt, Log!Terminal

LEMMA TypeInit == Init => TypeOK
BY RunFacts, ConstantsOK DEF Init, TypeOK, Record, NoRecord, Idle, Status, Report, Log!Init, Log!Receipt, Log!Terminal

(* A hold of the ledger that computes q: what it writes has its type.      *)
LEMMA WriteType ==
  ASSUME TypeOK, NEW q \in Record, Saved(q) \/ Lost(q)
  PROVE  disk' \in Record /\ faults' \in 0..MaxFaults
BY ConstantsOK DEF TypeOK, Saved, Lost

LEMMA DelayType == TypeOK /\ Delays => delays' \in 0..MaxDelays
BY ConstantsOK DEF TypeOK, Delays

LEMMA SettledType ==
  ASSUME NEW r \in Record, NEW k \in Run, NEW a \in Answer
  PROVE  Settled(r, k, a) \in Record
<1> DEFINE n == IF Settle(r.reports[k], a) = "pending" /\ k # r.run THEN "observed" ELSE Settle(r.reports[k], a)
           q == [run |-> r.run, status |-> r.status, retired |-> r.retired, reports |-> [r.reports EXCEPT ![k] = n]]
<1>1. Settled(r, k, a) = q
  BY DEF Settled, Record
<1>2. n \in Report
  BY DEF Settle, Report, Record
<1> HIDE DEF n
<1>3. [r.reports EXCEPT ![k] = n] \in [Run -> Report]
  BY <1>2 DEF Record
<1> QED
  BY <1>1, <1>3 DEF Record

LEMMA ReconciledType ==
  ASSUME NEW r \in Record
  PROVE  Reconciled(r) \in Record /\ Dispatching(r) \in Record /\ Reconciled(r).run = r.run
<1>1. \A a : Settle("dispatching", a) \in Report
  BY DEF Settle, Report
<1> DEFINE reps == [k \in Run |-> IF r.reports[k] = "dispatching"
                                  THEN Settle("dispatching", receipt[k]) ELSE r.reports[k]]
<1>2. reps \in [Run -> Report]
  BY <1>1 DEF Record
<1>3. Reconciled(r) = [run |-> r.run, status |-> r.status, retired |-> r.retired, reports |-> reps]
  BY DEF Reconciled, Record
<1>4. [r.reports EXCEPT ![r.run] = "dispatching"] \in [Run -> Report]
  BY DEF Record, Report
<1>5. Dispatching(r) = [run |-> r.run, status |-> r.status, retired |-> r.retired,
                        reports |-> [r.reports EXCEPT ![r.run] = "dispatching"]]
  BY DEF Dispatching, Record
<1> HIDE DEF reps
<1> QED
  BY <1>2, <1>3, <1>4, <1>5 DEF Record


LEMMA RefreshType == TypeOK => Refreshed(rec, feed) \in Record /\ Observe(Refreshed(rec, feed)) \in Record /\ Observe(rec) \in Record
BY TypeUnfolds, RefreshedType, ObserveEffect

LEMMA TypeDeliver == TypeOK /\ Deliver => TypeOK'
<1> SUFFICES ASSUME TypeOK, Deliver PROVE TypeOK'
  OBVIOUS
<1>0. LogType /\ sender \in SenderType /\ (sender.phase # "idle" => sender.run \in Execution)
  BY TypeUnfolds DEF TypeOK, SenderType, Idle, Answer
<1>1. CASE PrepareRefresh
  <2> DEFINE q == Refreshed(rec, feed)
  <2>1. q \in Record
    BY RefreshType
  <2>2. rec' = q /\ (Saved(q) \/ Lost(q)) /\ op' \in {"free", "prepare"}
    BY <1>1 DEF PrepareRefresh
  <2> HIDE DEF q
  <2>3. rec' \in Record /\ disk' \in Record /\ faults' \in 0..MaxFaults
    BY <2>1, <2>2, WriteType
  <2> QED
    BY <1>1, <2>2, <2>3 DEF PrepareRefresh, native, log, TypeOK
<1>2. CASE PreparesNothing
  <2> DEFINE q == Reconciled(rec)
  <2>1. q \in Record
    BY ReconciledType, TypeUnfolds
  <2>2. rec' = q /\ (Saved(q) \/ Lost(q)) /\ op' = "free" /\ (UNCHANGED delays \/ Delays)
    BY <1>2 DEF PreparesNothing
  <2> HIDE DEF q
  <2>3. rec' \in Record /\ disk' \in Record /\ faults' \in 0..MaxFaults /\ delays' \in 0..MaxDelays
    BY <2>1, <2>2, WriteType, DelayType DEF TypeOK
  <2> QED
    BY <1>2, <2>2, <2>3 DEF PreparesNothing, log, TypeOK
<1>3. CASE Dispatch
  <2> DEFINE q == Reconciled(rec)
             d == Dispatching(q)
  <2>1. q \in Record /\ d \in Record /\ q.run \in Execution
    BY <1>3, ReconciledType, RunFacts, TypeUnfolds DEF Dispatch, Selected, Record
  <2>2. /\ op' = "free"
        /\ \/ Saved(d) /\ rec' = d /\ sender' = [Idle EXCEPT !.phase = "submit", !.run = q.run]
           \/ faults < MaxFaults /\ faults' = faults + 1 /\ disk' \in {q, d} /\ rec' = q /\ UNCHANGED sender
    BY <1>3 DEF Dispatch
  <2> HIDE DEF q, d
  <2>3. rec' \in Record /\ disk' \in Record /\ faults' \in 0..MaxFaults
    BY <2>1, <2>2, ConstantsOK DEF Saved, TypeOK
  <2>4. sender' \in SenderType
    BY <1>0, <2>1, <2>2 DEF SenderType, Idle, Answer
  <2> QED
    BY <1>3, <2>2, <2>3, <2>4 DEF Dispatch, native, log, TypeOK, SenderType, Answer
<1>4. ASSUME NEW a \in Answer, Answered(a), sender.phase # "idle"
      PROVE  sender' \in SenderType
  BY <1>0, <1>4 DEF Answered, SenderType, Idle
<1>5. CASE SubmitDeferred
  <2>1. sender' \in SenderType
    BY <1>4, <1>5 DEF SubmitDeferred, Answer
  <2>2. delays' \in 0..MaxDelays
    BY <1>5, DelayType DEF SubmitDeferred, TypeOK
  <2> QED
    BY <1>5, <2>1, <2>2 DEF SubmitDeferred, log, TypeOK, SenderType, Answer
<1>6. CASE SubmitFenced
  <2>1. sender' \in SenderType
    BY <1>0, <1>6 DEF SubmitFenced, SenderType, Idle
  <2>2. LogType'
    BY <1>0, <1>6 DEF SubmitFenced, Log!Fence, LogType
  <2> QED
    BY <1>6, <2>1, <2>2 DEF SubmitFenced, TypeOK, SenderType, Answer, LogType, Log!Receipt, Log!Terminal
<1>7. CASE Given
  <2>1. LogType'
    BY <1>0, <1>7 DEF Given, Log!Give, LogType
  <2> QED
    BY <1>7, <2>1 DEF Given, TypeOK, LogType, Log!Receipt, Log!Terminal
<1>8. CASE NativeDeferred
  <2>1. sender' \in SenderType
    BY <1>4, <1>8 DEF NativeDeferred, Answer
  <2>2. LogType'
    BY <1>0, <1>8 DEF NativeDeferred, Log!Release, LogType
  <2>3. delays' \in 0..MaxDelays
    BY <1>8, DelayType DEF NativeDeferred
  <2> QED
    BY <1>8, <2>1, <2>2, <2>3 DEF NativeDeferred, TypeOK, SenderType, Answer, LogType, Log!Receipt, Log!Terminal
<1>9. CASE SubmitReturns
  <2>1. ASSUME sender.run \in Execution PROVE receipt[sender.run] \in Answer
    BY <1>0, <2>1 DEF LogType, Answer
  <2>2. sender.run \in Execution
    BY <1>0, <1>9 DEF SubmitReturns
  <2>3. sender' \in SenderType
    BY <1>4, <1>9, <2>1, <2>2 DEF SubmitReturns
  <2> QED
    BY <1>9, <2>3 DEF SubmitReturns, log, TypeOK, SenderType, Answer
<1>10. CASE SettleReport
  <2> DEFINE q == Settled(rec, sender.run, sender.answer)
  <2>0. sender.run \in Run /\ sender.answer \in Answer
    BY <1>0, <1>10, RunFacts DEF SettleReport, SenderType, Idle
  <2>1. q \in Record
    BY <2>0, SettledType, TypeUnfolds
  <2>2. rec' = q /\ (Saved(q) \/ Lost(q)) /\ sender' = Idle
    BY <1>10 DEF SettleReport
  <2> HIDE DEF q
  <2>3. rec' \in Record /\ disk' \in Record /\ faults' \in 0..MaxFaults
    BY <2>1, <2>2, WriteType
  <2> QED
    BY <1>0, <1>10, <2>2, <2>3 DEF SettleReport, native, log, TypeOK, SenderType, Answer
<1> QED
  BY <1>1, <1>2, <1>3, <1>5, <1>6, <1>7, <1>8, <1>9, <1>10 DEF Deliver, Delivers


LEMMA TypeTasks == TypeOK /\ Tasks => TypeOK'
<1> SUFFICES ASSUME TypeOK, Tasks PROVE TypeOK'
  OBVIOUS
<1> DEFINE q == Refreshed(rec, feed)
           o == IF q.status \in Terminal THEN Observe(q) ELSE q
<1>0. q \in Record /\ Observe(q) \in Record /\ o \in Record /\ Observe(rec) \in Record
  BY RefreshType
<1>1. ASSUME rec' = q \/ rec' = o \/ rec' = Observe(rec), Saved(rec') \/ Lost(rec')
      PROVE  rec' \in Record /\ disk' \in Record /\ faults' \in 0..MaxFaults
  BY <1>0, <1>1, WriteType
<1>2. CASE Refresh \/ ReadMarks \/ SendReturns
  <2>1. rec' \in Record /\ disk' \in Record /\ faults' \in 0..MaxFaults
    BY <1>1, <1>2 DEF Refresh, ReadMarks, SendReturns
  <2> QED
    BY <1>2, <2>1 DEF Refresh, ReadMarks, SendReturns, native, log, TypeOK
<1>3. CASE ReadView
  <2>1. rec' \in Record /\ disk' \in Record /\ faults' \in 0..MaxFaults
    BY <1>1, <1>3 DEF ReadView
  <2> QED
    BY <1>3, <2>1 DEF ReadView, log, TypeOK
<1>4. CASE ReadInflight
  <2>1. \/ rec' = q /\ Lost(q)
        \/ rec' = o /\ Saved(o)
        \/ rec' = o /\ faults < MaxFaults /\ faults' = faults + 1 /\ disk' \in {q, o}
    BY <1>4 DEF ReadInflight
  <2>2. rec' \in Record /\ disk' \in Record /\ faults' \in 0..MaxFaults
    BY <1>0, <2>1, WriteType, ConstantsOK DEF TypeOK
  <2> QED
    BY <1>4, <2>2 DEF ReadInflight, log, TypeOK
<1>5. CASE SendTask
  <2>1. rec' \in Record /\ disk' \in Record /\ faults' \in 0..MaxFaults
    BY <1>1, <1>5 DEF SendTask
  <2>2. feed' \in Feed /\ op' \in {"free", "prepare", "read", "send"}
    BY <1>5, TypeUnfolds DEF SendTask, Feed, Status, TypeOK
  <2> QED
    BY <1>5, <2>1, <2>2 DEF SendTask, log, TypeOK, Feed
<1> QED
  BY <1>2, <1>3, <1>4, <1>5 DEF Tasks

LEMMA TypeWork == TypeOK /\ Work => TypeOK'
<1> SUFFICES ASSUME TypeOK, Work PROVE TypeOK'
  OBVIOUS
<1> DEFINE Works == {[run |-> 0, status |-> "none"]} \cup [run : Execution, status : {"working"} \cup Terminal]
<1>0. /\ feed \in Feed /\ work \in Works
      /\ \A k \in Run, st \in Status : Shows(k, st) => feed' \in Feed
  <2>1. feed \in Feed
    BY TypeUnfolds
  <2>2. work \in Works
    BY DEF TypeOK
  <2>3. \A k \in Run, st \in Status : Shows(k, st) => feed' \in Feed
    BY DEF Shows, Feed
  <2> QED
    BY <2>1, <2>2, <2>3
<1>1. work' \in Works
  <2>1. work.run < MaxRuns => work.run + 1 \in Execution
    BY <1>0, ConstantsOK DEF Execution
  <2>2. CASE WorkStarts
    BY <2>1, <2>2 DEF WorkStarts
  <2>3. CASE WorkEnds
    <3>1. work \in [run : Execution, status : {"working"} \cup Terminal]
      BY <1>0, <2>3 DEF WorkEnds
    <3> QED
      BY <2>3, <3>1 DEF WorkEnds
  <2>4. CASE UNCHANGED work
    BY <1>0, <2>4
  <2> QED
    BY <2>2, <2>3, <2>4 DEF Work, RequestSettles, ConnectionLost, Reconnected, Reads
<1>2. feed' \in Feed
  <2>1. CASE WorkStarts
    <3>1. work'.run \in Run
      BY <1>1, RunFacts
    <3> QED
      BY <1>0, <2>1, <3>1 DEF WorkStarts, Status
  <2>2. CASE WorkEnds
    BY <1>0, <2>2, RunFacts DEF WorkEnds, Status
  <2>3. CASE Reads
    <3>1. PICK k \in {feed.run, work.run} \ {0} : Shows(k, IF k = work.run THEN work.status ELSE "completed")
      BY <2>3 DEF Reads
    <3>2. k \in Run /\ (k = work.run => work.status \in Status) /\ "completed" \in Status
      BY <1>0, <3>1, RunFacts DEF Feed, Status, Terminal
    <3> QED
      BY <1>0, <3>1, <3>2
  <2>4. CASE ConnectionLost
    BY <1>0, <2>4 DEF ConnectionLost, Feed, Status
  <2> QED
    BY <2>1, <2>2, <2>3, <2>4 DEF Work, RequestSettles, Reconnected
<1> QED
  BY <1>1, <1>2 DEF Work, log, TypeOK, Feed

LEMMA TypeRest ==
  TypeOK /\ (Pausing \/ Restart \/ \E k \in Execution : NativeSettles(k)) => TypeOK'
<1> SUFFICES ASSUME TypeOK, Pausing \/ Restart \/ \E k \in Execution : NativeSettles(k) PROVE TypeOK'
  OBVIOUS
<1>1. CASE Pause
  <2> DEFINE q == Refreshed(rec, feed)
  <2>1. q \in Record
    BY RefreshType
  <2>2. rec' = q /\ (Saved(q) \/ Lost(q)) /\ Delays /\ paused' \in {paused, "both"}
    BY <1>1 DEF Pause
  <2> HIDE DEF q
  <2>3. rec' \in Record /\ disk' \in Record /\ faults' \in 0..MaxFaults /\ delays' \in 0..MaxDelays
    BY <2>1, <2>2, WriteType, DelayType
  <2> QED
    BY <1>1, <2>2, <2>3 DEF Pause, log, TypeOK
<1>2. CASE ManagerResumes \/ ResidentResumes
  BY <1>2 DEF ManagerResumes, ResidentResumes, log, TypeOK
<1>3. CASE Restart
  <2>1. feed' \in Feed
    <3>1. PICK k \in Run : Shows(k, IF feed.status \in Terminal /\ k = feed.run THEN feed.status ELSE "unknown")
      BY <1>3 DEF Restart
    <3> QED
      BY <3>1 DEF Shows, Feed, Status
  <2>2. rec' \in Record /\ disk' = rec'
    BY <1>3, <2>1, RefreshedType, TypeUnfolds DEF Restart
  <2>3. LogType'
    BY <1>3, TypeUnfolds DEF Restart, LogType
  <2>4. restarts' \in 0..MaxRestarts
    BY <1>3, ConstantsOK DEF Restart, TypeOK
  <2> QED
    BY <1>3, <2>1, <2>2, <2>3, <2>4 DEF Restart, TypeOK, Feed, LogType, Log!Receipt, Log!Terminal
<1>4. ASSUME NEW k \in Execution, NativeSettles(k) PROVE TypeOK'
  <2>1. LogType'
    BY <1>4, TypeUnfolds DEF NativeSettles, Log!Settle, LogType
  <2> QED
    BY <1>4, <2>1 DEF NativeSettles, TypeOK, LogType, Log!Receipt, Log!Terminal
<1> QED
  BY <1>1, <1>2, <1>3, <1>4 DEF Pausing

(* Every record, answer and receipt has its shape.                         *)
THEOREM Typing == Spec => []TypeOK
<1>1. TypeOK /\ UNCHANGED vars => TypeOK'
  BY DEF vars, TypeOK
<1>2. TypeOK /\ [Next]_vars => TypeOK'
  BY <1>1, TypeDeliver, TypeTasks, TypeWork, TypeRest DEF Next
<1> QED
  BY TypeInit, <1>2, PTL DEF Spec


(***************************************************************************)
(* Safety.                                                                 *)
(***************************************************************************)
Fences == \A k \in Execution : given[k] = 1 => receipt[k] # "none"

LEMMA InvInit == Init => Inv
BY RunFacts DEF Init, Inv, Consistent, NoRecord, Sending, Idle, PausedQuiet, StepHeld, Log!Init

(* A hold of the ledger that leaves the log and the sender alone.          *)
LEMMA LedgerStep ==
  ASSUME TypeOK, Inv, NEW q, Consistent(q), Keeps(rec, q), rec' = q, disk' \in {disk, q},
         UNCHANGED <<receipt, given, sender>>
  PROVE  Consistent(rec)' /\ Consistent(disk)' /\ Sending' /\ Fences'
<1>1. Consistent(rec)' /\ Consistent(disk)'
  BY DEF Inv, Consistent
<1>2. sender.phase # "idle" => sender.run \in Execution
  BY DEF TypeOK, Idle
<1>3. Sending'
  BY <1>2 DEF Inv, Sending, Keeps
<1> QED
  BY <1>1, <1>3 DEF Inv, Fences

LEMMA RefreshKeeps ==
  ASSUME TypeOK, Inv, NEW f \in Feed, NEW r \in {rec, disk}
  PROVE  LET q == Refreshed(r, f) IN
         /\ q \in Record /\ Consistent(q) /\ Keeps(r, q)
         /\ Consistent(Observe(q)) /\ Keeps(r, Observe(q))
<1>1. r \in Record /\ Consistent(r)
  BY TypeUnfolds DEF Inv
<1> DEFINE q == Refreshed(r, f)
<1>2. q \in Record /\ Consistent(q) /\ Keeps(r, q)
  BY <1>1, RefreshedType, RefreshedKeeps
<1> HIDE DEF q
<1>3. Consistent(Observe(q)) /\ Keeps(q, Observe(q))
  BY <1>2, ObserveKeeps
<1>4. Keeps(r, Observe(q))
  BY <1>2, <1>3 DEF Keeps
<1> QED
  BY <1>2, <1>3, <1>4 DEF q

LEMMA WriteEffect ==
  ASSUME NEW q, Saved(q) \/ Lost(q)
  PROVE  disk' \in {disk, q}
BY DEF Saved, Lost

LEMMA InvTasks == TypeOK /\ Inv /\ Tasks => Inv'
<1> SUFFICES ASSUME TypeOK, Inv, Tasks PROVE Inv'
  OBVIOUS
<1> DEFINE q == Refreshed(rec, feed)
           o == IF q.status \in Terminal THEN Observe(q) ELSE q
<1>1. Consistent(q) /\ Keeps(rec, q) /\ Consistent(Observe(q)) /\ Keeps(rec, Observe(q))
  BY RefreshKeeps, TypeUnfolds
<1>2. Consistent(Observe(rec)) /\ Keeps(rec, Observe(rec))
  BY ObserveKeeps, TypeUnfolds DEF Inv
<1>3. PausedQuiet'
  BY DEF Tasks, Refresh, ReadView, ReadMarks, ReadInflight, SendTask, SendReturns, native, log,
         Inv, PausedQuiet, StepHeld
<1>4. UNCHANGED <<receipt, given, sender>>
  BY DEF Tasks, Refresh, ReadView, ReadMarks, ReadInflight, SendTask, SendReturns, native, log
<1>5. ASSUME Consistent(rec)', Consistent(disk)', Sending', Fences' PROVE Inv'
  BY <1>3, <1>5 DEF Inv, Fences
<1>6. CASE Refresh \/ ReadView \/ SendTask \/ SendReturns
  <2>1. rec' = q /\ disk' \in {disk, q}
    BY <1>6, WriteEffect DEF Refresh, ReadView, SendTask, SendReturns
  <2> QED
    BY <1>1, <1>4, <1>5, <2>1, LedgerStep
<1>7. CASE ReadMarks
  <2>1. rec' = Observe(rec) /\ disk' \in {disk, Observe(rec)}
    BY <1>7, WriteEffect DEF ReadMarks
  <2> QED
    BY <1>2, <1>4, <1>5, <2>1, LedgerStep
<1>8. CASE ReadInflight
  <2>1. rec' \in {q, o} /\ disk' \in {disk, q, o}
    BY <1>8 DEF ReadInflight, Saved, Lost
  <2>2. Consistent(o) /\ Keeps(rec, o)
    BY <1>1
  <2> HIDE DEF q, o
  <2>3. Consistent(rec)' /\ Consistent(disk)'
    BY <1>1, <1>4, <2>1, <2>2 DEF Inv, Consistent
  <2>4. Sending'
    <3>1. sender.phase # "idle" => sender.run \in Execution
      BY DEF TypeOK, Idle
    <3> QED
      BY <1>1, <1>4, <2>1, <2>2, <3>1 DEF Inv, Sending, Keeps
  <2>5. Fences'
    BY <1>4 DEF Inv, Fences
  <2> QED
    BY <1>5, <2>3, <2>4, <2>5
<1> QED
  BY <1>6, <1>7, <1>8 DEF Tasks

LEMMA InvDeliver == TypeOK /\ Inv /\ Deliver => Inv'
<1> SUFFICES ASSUME TypeOK, Inv, Deliver PROVE Inv'
  OBVIOUS
<1>0. /\ LogType /\ rec \in Record /\ disk \in Record /\ (sender.phase # "idle" => sender.run \in Execution)
      /\ sender \in SenderType
  BY TypeUnfolds DEF TypeOK, SenderType, Idle, Answer
<1>1. CASE PrepareRefresh
  <2> DEFINE q == Refreshed(rec, feed)
  <2>1. Consistent(q) /\ Keeps(rec, q)
    BY RefreshKeeps, TypeUnfolds
  <2>2. rec' = q /\ disk' \in {disk, q} /\ UNCHANGED <<receipt, given, sender, paused>>
    BY <1>1, WriteEffect DEF PrepareRefresh, native, log
  <2> HIDE DEF q
  <2>3. Consistent(rec)' /\ Consistent(disk)' /\ Sending' /\ Fences'
    BY <2>1, <2>2, LedgerStep
  <2> QED
    BY <2>2, <2>3 DEF Inv, Fences, PausedQuiet, StepHeld
<1> DEFINE r == Reconciled(rec)
           d == Dispatching(r)
<1>2. r \in Record /\ Consistent(r) /\ Keeps(rec, r)
  BY <1>0, ReconciledKeeps DEF LogType, Inv
<1> HIDE DEF r
<1>3. ASSUME Selected(r)
      PROVE  /\ Consistent(d) /\ Keeps(r, d) /\ d.reports[r.run] \in Kept
             /\ r.run \in Execution /\ receipt[r.run] = "none"
  <2>1. r.run \in Execution /\ r.reports[r.run] = "pending"
    BY <1>2, <1>3, RunFacts DEF Selected, Record
  <2> QED
    BY <1>2, <2>1, RunFacts, DispatchingKeeps DEF Consistent, Kept
<1>4. CASE PreparesNothing
  <2>1. rec' = r /\ disk' \in {disk, r} /\ UNCHANGED <<receipt, given, sender, paused>>
    BY <1>4, WriteEffect DEF PreparesNothing, log, r
  <2>2. Consistent(rec)' /\ Consistent(disk)' /\ Sending' /\ Fences'
    BY <1>2, <2>1, LedgerStep
  <2> QED
    BY <2>1, <2>2 DEF Inv, Fences, PausedQuiet, StepHeld
<1>5. CASE Dispatch
  <2>1. /\ Selected(r) /\ UNCHANGED <<receipt, given, paused>>
        /\ \/ disk' = d /\ rec' = d /\ sender' = [Idle EXCEPT !.phase = "submit", !.run = r.run]
           \/ disk' \in {r, d} /\ rec' = r /\ UNCHANGED sender
    BY <1>5 DEF Dispatch, Saved, native, log, r
  <2>2. Consistent(d) /\ Keeps(rec, d) /\ d.reports[r.run] \in Kept /\ r.run \in Execution /\ receipt[r.run] = "none"
    BY <1>2, <1>3, <2>1 DEF Keeps
  <2> HIDE DEF d
  <2>3. Consistent(rec)' /\ Consistent(disk)'
    BY <1>2, <2>1, <2>2 DEF Consistent
  <2>4. Sending'
    BY <1>0, <1>2, <2>1, <2>2 DEF Inv, Sending, Keeps, Idle
  <2>5. PausedQuiet'
    BY <2>1 DEF Inv, PausedQuiet, StepHeld, Idle
  <2> QED
    BY <2>1, <2>3, <2>4, <2>5 DEF Inv
<1>6. ASSUME UNCHANGED <<rec, disk>>, \A k \in Execution : k # sender.run => receipt'[k] = receipt[k],
             sender.phase # "idle",
             receipt[sender.run] \in {"none", "unknown"}, receipt'[sender.run] \in {"none", "unknown"}
      PROVE  Consistent(rec)' /\ Consistent(disk)'
  <2>1. rec.reports[sender.run] \in Kept /\ disk.reports[sender.run] \in Kept
    BY <1>6 DEF Inv, Sending
  <2>2. ASSUME NEW x \in {rec, disk}
        PROVE  \A k \in Execution :
                 /\ receipt'[k] # "none" => x.reports[k] \in Kept
                 /\ x.reports[k] = "delivered" => receipt'[k] = "accepted"
                 /\ x.reports[k] = "rejected" => receipt'[k] = "rejected"
    BY <1>6, <2>1, <2>2 DEF Inv, Consistent
  <2> QED
    BY <1>6, <2>2 DEF Inv, Consistent
<1>7. CASE SubmitDeferred
  BY <1>0, <1>7 DEF SubmitDeferred, Answered, log, Inv, Consistent, Sending, PausedQuiet, StepHeld, SenderType, Idle
<1>8. CASE SubmitFenced
  <2>1. /\ UNCHANGED <<rec, disk, paused, given>> /\ sender.phase = "submit" /\ paused = "no"
        /\ receipt[sender.run] = "none" /\ receipt' = [receipt EXCEPT ![sender.run] = "unknown"]
        /\ sender'.run = sender.run /\ sender'.phase = "native"
    BY <1>0, <1>8 DEF SubmitFenced, Log!Fence, SenderType, Idle
  <2>2. Consistent(rec)' /\ Consistent(disk)'
    BY <1>0, <1>6, <2>1 DEF LogType
  <2> QED
    BY <1>0, <2>1, <2>2 DEF Inv, Sending, PausedQuiet, LogType
<1>9. CASE Given
  <2>1. /\ UNCHANGED <<rec, disk, paused, sender, receipt>>
        /\ receipt[sender.run] = "unknown" /\ given' = [given EXCEPT ![sender.run] = 1]
    BY <1>9 DEF Given, Log!Give
  <2> QED
    BY <1>0, <2>1 DEF Inv, Consistent, Sending, PausedQuiet, StepHeld, LogType
<1>10. CASE NativeDeferred
  <2>1. /\ UNCHANGED <<rec, disk, paused, given>> /\ sender.phase = "native"
        /\ receipt[sender.run] = "unknown" /\ given[sender.run] = 0
        /\ receipt' = [receipt EXCEPT ![sender.run] = "none"]
        /\ sender'.run = sender.run /\ sender'.phase = "answered" /\ sender'.answer = "deferred"
    BY <1>0, <1>10 DEF NativeDeferred, Log!Release, Answered, SenderType, Idle
  <2>2. Consistent(rec)' /\ Consistent(disk)'
    <3>1. /\ receipt'[sender.run] = "none"
          /\ \A k \in Execution : k # sender.run => receipt'[k] = receipt[k]
      BY <1>0, <2>1 DEF LogType
    <3>2. UNCHANGED <<rec, disk>> /\ receipt[sender.run] \in {"none", "unknown"} /\ sender.phase # "idle"
      BY <2>1
    <3> QED
      BY <1>6, <3>1, <3>2
  <2> QED
    BY <1>0, <2>1, <2>2 DEF Inv, Sending, PausedQuiet, StepHeld, LogType
<1>11. CASE SubmitReturns
  <2>1. /\ UNCHANGED <<rec, disk, paused, given, receipt>> /\ sender.phase = "native"
        /\ sender'.run = sender.run /\ sender'.phase = "answered" /\ sender'.answer = receipt[sender.run]
    BY <1>0, <1>11 DEF SubmitReturns, Answered, log, SenderType, Idle
  <2> QED
    BY <1>0, <2>1 DEF Inv, Consistent, Sending, PausedQuiet, StepHeld, LogType
<1>12. CASE SettleReport
  <2> DEFINE q == Settled(rec, sender.run, sender.answer)
  <2>0. sender.phase = "answered" /\ sender.run \in Execution /\ sender.answer \in Answer
    BY <1>0, <1>12 DEF SettleReport, SenderType, Idle
  <2>1. Consistent(q)
    <3>1. rec.reports[sender.run] # "none" /\ Consistent(rec)
      BY <2>0 DEF Inv, Sending, Kept
    <3>2. /\ sender.answer = "deferred" => receipt[sender.run] = "none"
          /\ sender.answer \in {"accepted", "rejected"} => receipt[sender.run] = sender.answer
      BY <2>0 DEF Inv, Sending
    <3> QED
      BY <1>0, <2>0, <3>1, <3>2, SettledConsistent
  <2>2. rec' = q /\ disk' \in {disk, q} /\ sender' = Idle /\ UNCHANGED <<receipt, given, paused>>
    BY <1>12, WriteEffect DEF SettleReport, native, log
  <2> HIDE DEF q
  <2>3. Consistent(rec)' /\ Consistent(disk)'
    BY <2>1, <2>2 DEF Inv, Consistent
  <2> QED
    BY <2>2, <2>3 DEF Inv, Sending, PausedQuiet, StepHeld, Idle
<1> QED
  BY <1>1, <1>4, <1>5, <1>7, <1>8, <1>9, <1>10, <1>11, <1>12 DEF Deliver, Delivers


LEMMA InvWork == TypeOK /\ Inv /\ Work => Inv'
BY DEF Work, log, Inv, Consistent, Sending, PausedQuiet, StepHeld

LEMMA InvRest ==
  TypeOK /\ Inv /\ (Pausing \/ Restart \/ \E k \in Execution : NativeSettles(k)) => Inv'
<1> SUFFICES ASSUME TypeOK, Inv, Pausing \/ Restart \/ \E k \in Execution : NativeSettles(k) PROVE Inv'
  OBVIOUS
<1>0. LogType /\ (sender.phase # "idle" => sender.run \in Execution)
  BY TypeUnfolds DEF TypeOK, Idle
<1>1. CASE Pause
  <2> DEFINE q == Refreshed(rec, feed)
  <2>1. Consistent(q) /\ Keeps(rec, q)
    BY RefreshKeeps, TypeUnfolds
  <2>2. rec' = q /\ disk' \in {disk, q} /\ UNCHANGED <<receipt, given, sender>> /\ ~StepHeld
    BY <1>1, WriteEffect DEF Pause, log
  <2> HIDE DEF q
  <2>3. Consistent(rec)' /\ Consistent(disk)' /\ Sending' /\ Fences'
    BY <2>1, <2>2, LedgerStep
  <2> QED
    BY <2>2, <2>3 DEF Inv, Fences, PausedQuiet, StepHeld
<1>2. CASE ManagerResumes \/ ResidentResumes
  BY <1>2 DEF ManagerResumes, ResidentResumes, log, Inv, Consistent, Sending, PausedQuiet, StepHeld
<1>3. CASE Restart
  <2> DEFINE q == Refreshed(disk, feed')
  <2>1. feed' \in Feed
    <3>1. PICK k \in Run : Shows(k, IF feed.status \in Terminal /\ k = feed.run THEN feed.status ELSE "unknown")
      BY <1>3 DEF Restart
    <3> QED
      BY <3>1, TypeUnfolds DEF Shows, Feed, Status
  <2>2. Consistent(q)
    BY <2>1, RefreshKeeps
  <2>3. /\ rec' = q /\ disk' = q /\ sender' = Idle /\ paused' = "no" /\ UNCHANGED given
        /\ receipt' = [k \in Execution |->
                         IF receipt[k] = "none" /\ q.reports[k] = "dispatching" THEN "unknown" ELSE receipt[k]]
    BY <1>3 DEF Restart
  <2> HIDE DEF q
  <2>4. Consistent(rec)' /\ Consistent(disk)'
    BY <2>2, <2>3 DEF Consistent, Kept
  <2>5. Fences'
    BY <2>3 DEF Inv, Fences
  <2> QED
    BY <2>3, <2>4, <2>5 DEF Inv, Fences, Sending, PausedQuiet, StepHeld, Idle
<1>4. ASSUME NEW k \in Execution, NativeSettles(k) PROVE Inv'
  <2>1. PICK outcome \in {"accepted", "rejected"} :
          receipt[k] = "unknown" /\ receipt' = [receipt EXCEPT ![k] = outcome]
    BY <1>4 DEF NativeSettles, Log!Settle
  <2>2. UNCHANGED <<rec, disk, sender, paused, given>>
    BY <1>4 DEF NativeSettles, Log!Settle
  <2>3. /\ receipt'[k] = outcome
        /\ \A j \in Execution : j # k => receipt'[j] = receipt[j]
    BY <1>0, <2>1 DEF LogType
  <2>4. Consistent(rec)' /\ Consistent(disk)'
    BY <2>1, <2>2, <2>3 DEF Inv, Consistent
  <2> QED
    BY <1>0, <2>1, <2>2, <2>3, <2>4 DEF Inv, Sending, PausedQuiet, StepHeld
<1> QED
  BY <1>1, <1>2, <1>3, <1>4 DEF Pausing

(* What the ledger knows agrees with the log, in memory and in the file,   *)
(* at every step of every call.                                            *)
THEOREM Safety == Spec => []Inv
<1>1. TypeOK /\ Inv /\ UNCHANGED vars => Inv'
  BY DEF vars, Inv, Consistent, Sending, PausedQuiet, StepHeld
<1>2. TypeOK /\ Inv /\ [Next]_vars => Inv'
  BY <1>1, InvDeliver, InvTasks, InvWork, InvRest DEF Next
<1> QED
  BY InvInit, Typing, <1>2, PTL DEF Spec

(* A report that the resident was given is never owed again: no failed     *)
(* write, restart, continuation or late answer makes it be submitted twice.*)
THEOREM GivenKept == Spec => []GivenIsKept
<1>1. Inv => GivenIsKept
  BY DEF Inv, Consistent, GivenIsKept, Kept
<1> QED
  BY Safety, <1>1, PTL

(* The ledger says delivered of what was accepted and rejected of what was *)
(* refused: no answer settles the report of another execution.             *)
THEOREM ReportsTrue == Spec => []SettledTrue
<1>1. Inv => SettledTrue
  BY DEF Inv, Consistent, SettledTrue
<1> QED
  BY Safety, <1>1, PTL

(* Nothing but the report of the latest execution is submitted.            *)
THEOREM LatestOnly == Spec => []OnlyLatestPending
<1>1. Inv => OnlyLatestPending
  BY DEF Inv, Consistent, OnlyLatestPending
<1> QED
  BY Safety, <1>1, PTL

(* The resident submits nothing while it is paused for an update.          *)
THEOREM QuietWhilePaused == Spec => []PausedQuiet
<1>1. Inv => PausedQuiet
  BY DEF Inv
<1> QED
  BY Safety, <1>1, PTL

(* An execution that was superseded is never the task's current one again. *)
THEOREM NeverRevived == Spec => []RetiredForGood
<1>1. Inv => RetiredForGood
  BY DEF Inv, Consistent, RetiredForGood
<1> QED
  BY Safety, <1>1, PTL

=============================================================================
