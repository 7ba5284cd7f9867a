---------------------------- MODULE TaskReports ----------------------------
(***************************************************************************)
(* How the end of a Worker task is reported once, tasks/manager.go: every  *)
(* native execution of a task owes one report, its id made from the        *)
(* execution.  A tick submits it to the resident without holding the       *)
(* operation lock; meanwhile others refresh the ledger, read the task,     *)
(* continue it, or pause the host for an update.                           *)
(*                                                                         *)
(* One task; execution k owes report k.  A step is one hold of Manager.mu. *)
(* The resident's log of deliveries is OneDelivery, which SystemDelivery   *)
(* implements.  WorkStates of the adapter is the environment (its record   *)
(* is WorkerTask).  Left out: aliases of execution keys, report texts,     *)
(* attachments, environments and capacity.                                 *)
(***************************************************************************)
EXTENDS Naturals

CONSTANTS
  MaxRuns,       \* bound on native executions of the task
  MaxDelays,     \* bound on submissions a busy resident puts off, and on pauses
  MaxFaults,     \* bound on ledger writes that fail
  MaxRestarts    \* bound on restarts of the host

ASSUME ConstantsOK == MaxRuns \in Nat \ {0} /\ MaxDelays \in Nat /\ MaxFaults \in Nat /\ MaxRestarts \in Nat

Execution == 1..MaxRuns
Run == 0..MaxRuns                     \* 0: the execution is not known yet
Terminal == {"completed", "stopped"}  \* stopped: interrupted, the stop acknowledged
Status == {"unknown", "working"} \cup Terminal
Report == {"none", "pending", "dispatching", "delivered", "observed", "rejected"}

VARIABLES
  work,       \* the last native execution: external
  feed,       \* what WorkStates of the adapter shows of the task
  rec,        \* record in memory; reports of earlier executions are PreviousReports
  disk,       \* the record in the ledger file
  op,         \* the call that holds Manager.op
  sender,     \* the tick in DeliverTaskReport
  paused,     \* whether the resident, or both it and the manager, are paused
  receipt, given,   \* the resident's log of deliveries
  delays, faults, restarts

vars == <<work, feed, rec, disk, op, sender, paused, receipt, given, delays, faults, restarts>>
log == <<receipt, given>>
native == <<work, feed, log, paused, delays, restarts>>   \* what a ledger hold leaves alone

Log == INSTANCE OneDelivery WITH Message <- Execution, Legacy <- {}

NoRecord == [run |-> 0, status |-> "unknown", retired |-> {}, reports |-> [k \in Run |-> "none"]]
Idle == [phase |-> "idle", run |-> 0, answer |-> "none"]

(* Manager.save: written, or failed with the old or the new file on disk.   *)
(* Memory keeps the change; an unchanged ledger is not written.            *)
Saved(r) == disk' = r /\ UNCHANGED faults
Lost(r) == r # disk /\ faults < MaxFaults /\ faults' = faults + 1 /\ disk' \in {disk, r}

(* The resident is busy: something else comes first.                       *)
Delays == delays < MaxDelays /\ delays' = delays + 1

-----------------------------------------------------------------------------
(* refresh: the adapter's view enters the ledger                           *)

(* A new execution retires the one before; a report that nobody submitted  *)
(* goes with it.                                                           *)
Supersede(r, k) ==
  IF r.run = 0 \/ k = 0 \/ r.run = k THEN r
  ELSE [r EXCEPT !.retired = @ \cup {r.run},
                 !.reports[r.run] = IF @ = "pending" THEN "observed" ELSE @]

Observe(r) == IF r.reports[r.run] = "pending"
              THEN [r EXCEPT !.reports[r.run] = "observed"] ELSE r

View(r, f) ==
  LET k == IF f.run = 0 THEN r.run ELSE f.run
      viewed == [run |-> k, status |-> f.status, retired |-> r.retired,
                 reports |-> IF k = r.run THEN r.reports ELSE [r.reports EXCEPT ![k] = "pending"]]
  IN IF f.status = "stopped" THEN Observe(viewed) ELSE viewed

(* A snapshot of a retired execution cannot republish its report.          *)
RefreshedBlindly(r, f) == View(Supersede(r, f.run), f)          \* mutant
Refreshed(r, f) == IF f.run \in r.retired THEN r ELSE View(Supersede(r, f.run), f)

Refresh ==
  /\ rec' = Refreshed(rec, feed)
  /\ Saved(rec') \/ Lost(rec')
  /\ UNCHANGED <<native, op, sender>>

-----------------------------------------------------------------------------
(* settleReportLocked: a receipt settles the report it names.  A deferral  *)
(* is the only rejection after which the report is submitted again.        *)

SettleRaw(report, answer) ==                                    \* mutant
  CASE answer = "accepted" -> "delivered" [] answer = "deferred" -> "pending" [] OTHER -> answer
Settle(report, answer) ==
  CASE answer = "accepted" -> "delivered" [] answer = "rejected" -> "rejected"
    [] answer = "deferred" -> "pending" [] OTHER -> report

SettledLoosely(r, k, answer) ==                                 \* mutant
  [r EXCEPT !.reports[k] = Settle(@, answer)]
SettledLatest(r, k, answer) ==                                  \* mutant
  [r EXCEPT !.reports[r.run] = Settle(@, answer)]
Settled(r, k, answer) ==
  [r EXCEPT !.reports[k] = IF Settle(@, answer) = "pending" /\ k # r.run
                           THEN "observed" ELSE Settle(@, answer)]

(* prepareTaskReport asks the log about every report still dispatching.    *)
ReconciledNever(r) == r                                         \* mutant
Reconciled(r) ==
  [r EXCEPT !.reports = [k \in Run |-> IF r.reports[k] = "dispatching"
                                       THEN Settle("dispatching", receipt[k]) ELSE r.reports[k]]]

Selected(r) == r.run # 0 /\ r.status \in Terminal /\ r.reports[r.run] = "pending"
Dispatching(r) == [r EXCEPT !.reports[r.run] = "dispatching"]

PrepareRefresh ==
  /\ op = "free" /\ sender.phase = "idle" /\ paused # "both"
  /\ rec' = Refreshed(rec, feed)
  /\ \/ Saved(rec') /\ op' = "prepare"
     \/ Lost(rec') /\ UNCHANGED op
  /\ UNCHANGED <<native, sender>>

PreparesNothing ==
  LET r == Reconciled(rec) IN
  /\ op = "prepare" /\ op' = "free"
  /\ rec' = r
  /\ \/ Lost(r) /\ UNCHANGED delays
     \/ Saved(r) /\ ~Selected(r) /\ UNCHANGED delays
     \/ Saved(r) /\ Selected(r) /\ Delays                       \* not CanSend
  /\ UNCHANGED <<work, feed, log, paused, restarts, sender>>

(* The fence is on disk before the report leaves; a write that failed       *)
(* takes it back, in memory.                                               *)
DispatchAnyway ==                                               \* mutant
  LET r == Dispatching(Reconciled(rec)) IN
  /\ op = "prepare" /\ op' = "free" /\ Selected(Reconciled(rec))
  /\ rec' = r /\ sender' = [Idle EXCEPT !.phase = "submit", !.run = r.run]
  /\ Saved(r) \/ Lost(r)
  /\ UNCHANGED native
Dispatch ==
  LET r == Reconciled(rec)
      d == Dispatching(r)
  IN
  /\ op = "prepare" /\ op' = "free" /\ Selected(r)
  /\ \/ Saved(d) /\ rec' = d /\ sender' = [Idle EXCEPT !.phase = "submit", !.run = r.run]
     \/ faults < MaxFaults /\ faults' = faults + 1 /\ disk' \in {r, d}
        /\ rec' = r /\ UNCHANGED sender
  /\ UNCHANGED native

-----------------------------------------------------------------------------
(* The resident: SubmitSystem, under its step lock from the fence to the   *)
(* answer.                                                                 *)

StepHeld == sender.phase = "native"
Answered(answer) == sender' = [sender EXCEPT !.phase = "answered", !.answer = answer]

(* A log that knows the message would answer with its receipt; it never     *)
(* knows a report that is submitted (Sending).                             *)
SubmitDeferred ==
  /\ sender.phase = "submit" /\ receipt[sender.run] = "none"
  /\ IF paused # "no" THEN UNCHANGED delays ELSE Delays
  /\ Answered("deferred")
  /\ UNCHANGED <<work, feed, rec, disk, op, paused, log, faults, restarts>>

SubmitFenced ==
  /\ sender.phase = "submit" /\ paused = "no"
  /\ Log!Fence(sender.run)
  /\ sender' = [sender EXCEPT !.phase = "native"]
  /\ UNCHANGED <<work, feed, rec, disk, op, paused, delays, faults, restarts>>

Given ==
  /\ sender.phase = "native" /\ Log!Give(sender.run)
  /\ UNCHANGED <<work, feed, rec, disk, op, sender, paused, delays, faults, restarts>>

(* The adapter refuses before it creates anything, and the log forgets.    *)
NativeDeferred ==
  /\ sender.phase = "native" /\ Log!Release(sender.run)
  /\ Delays /\ Answered("deferred")
  /\ UNCHANGED <<work, feed, rec, disk, op, paused, faults, restarts>>

(* A native answer or event, or a later reading of the history.            *)
NativeSettles(k) ==
  /\ \E outcome \in {"accepted", "rejected"} :
       Log!Settle(k, outcome) /\ (outcome = "accepted" <=> given[k] = 1)
  /\ UNCHANGED <<work, feed, rec, disk, op, sender, paused, delays, faults, restarts>>

SubmitReturns ==
  /\ sender.phase = "native" /\ Answered(receipt[sender.run])
  /\ UNCHANGED <<work, feed, rec, disk, op, paused, log, delays, faults, restarts>>

(* The rest of DeliverTaskReport: only the original report is settled.      *)
SettleReport ==
  /\ sender.phase = "answered" /\ sender' = Idle
  /\ rec' = Settled(rec, sender.run, sender.answer)
  /\ Saved(rec') \/ Lost(rec')
  /\ UNCHANGED <<native, op>>

-----------------------------------------------------------------------------
(* ReadTask.  What it returns and what it marks are two holds; while a     *)
(* message is being submitted it reads the projection in one.              *)

ReadView ==
  /\ op = "free"
  /\ rec' = Refreshed(rec, feed)
  /\ \/ Lost(rec') /\ UNCHANGED op
     \/ Saved(rec') /\ op' = IF rec'.status \in Terminal THEN "read" ELSE "free"
  /\ UNCHANGED <<work, feed, log, paused, delays, restarts, sender>>

ReadMarks ==
  /\ op = "read" /\ op' = "free"
  /\ rec' = Observe(rec)
  /\ Saved(rec') \/ Lost(rec')
  /\ UNCHANGED <<native, sender>>

ReadInflight ==
  LET r == Refreshed(rec, feed)
      o == IF r.status \in Terminal THEN Observe(r) ELSE r
  IN
  /\ op = "send"
  /\ \/ rec' = r /\ Lost(r)
     \/ rec' = o /\ Saved(o)
     \/ rec' = o /\ o # r                                        \* the second write failed
        /\ faults < MaxFaults /\ faults' = faults + 1 /\ disk' \in {r, o}
  /\ UNCHANGED <<work, feed, op, log, paused, delays, restarts, sender>>

-----------------------------------------------------------------------------
(* SendTask: the adapter shows a request it cannot settle yet as unknown.  *)

SendTask ==
  /\ op = "free" /\ paused # "both"
  /\ rec' = Refreshed(rec, feed)
  /\ \/ Lost(rec') /\ UNCHANGED <<op, feed>>
     \/ Saved(rec') /\ rec'.status # "unknown" /\ ~feed.pending /\ feed.status # "unknown"
        /\ op' = "send"
        /\ feed' = [feed EXCEPT !.status = "unknown", !.pending = TRUE]
  /\ UNCHANGED <<work, log, paused, delays, restarts, sender>>

SendReturns ==
  /\ op = "send" /\ op' = "free"
  /\ rec' = Refreshed(rec, feed)
  /\ Saved(rec') \/ Lost(rec')
  /\ UNCHANGED <<native, sender>>

-----------------------------------------------------------------------------
(* The Runtime and its adapter: executions start, by a request or by a     *)
(* person who continues the thread, and end; the connection is lost and    *)
(* comes back.                                                             *)

Shows(k, status) == feed' = [run |-> k, status |-> status, pending |-> FALSE]
Follows == feed.status # "unknown" \/ feed.pending

WorkStarts ==
  /\ work.run < MaxRuns /\ work.status # "working"
  /\ work' = [run |-> work.run + 1, status |-> "working"]
  /\ IF Follows \/ feed.run = 0 THEN Shows(work'.run, "working") ELSE UNCHANGED feed

WorkEnds ==
  /\ work.status = "working"
  /\ \E status \in Terminal :
       /\ work' = [work EXCEPT !.status = status]
       /\ IF feed.status # "unknown" THEN Shows(work.run, status) ELSE UNCHANGED feed

(* What the adapter reads of the thread: the execution it knows, or the last. *)
Reads == /\ \E k \in {feed.run, work.run} \ {0} :
              Shows(k, IF k = work.run THEN work.status ELSE "completed")
         /\ UNCHANGED work

(* A request that is refused, or that only steered the running execution.   *)
RequestSettles == feed.pending /\ Reads
Reconnected == feed.status = "unknown" /\ ~feed.pending /\ Reads

ConnectionLost ==
  /\ feed.status = "working" /\ Shows(feed.run, "unknown")
  /\ UNCHANGED work

Work ==
  /\ WorkStarts \/ WorkEnds \/ RequestSettles \/ ConnectionLost \/ Reconnected
  /\ UNCHANGED <<rec, disk, op, sender, paused, log, delays, faults, restarts>>

-----------------------------------------------------------------------------
(* Application.PrepareUpdate: the resident's PauseIfIdle, under its step    *)
(* lock, around the manager's PauseIfIdle, or around PauseForUpdate, which *)
(* lets work outlive the host.  CancelUpdate resumes the manager first.    *)

Busy(r) == r.status \notin Terminal \/ r.reports[r.run] = "dispatching"

PauseUnlocked ==                                                \* mutant
  /\ op = "free" /\ paused = "no" /\ Delays
  /\ rec' = Refreshed(rec, feed) /\ Saved(rec')
  /\ paused' = "both"
  /\ UNCHANGED <<work, feed, log, restarts, op, sender>>
Pause ==
  /\ op = "free" /\ ~StepHeld /\ paused = "no" /\ Delays
  /\ rec' = Refreshed(rec, feed)
  /\ \/ Lost(rec') /\ UNCHANGED paused
     \/ Saved(rec') /\ \E idleOnly \in BOOLEAN :
          paused' = IF idleOnly /\ Busy(rec') THEN paused ELSE "both"
  /\ UNCHANGED <<work, feed, log, restarts, op, sender>>

ManagerResumes ==
  /\ paused = "both" /\ op = "free"
  /\ paused' = "resident"
  /\ UNCHANGED <<work, feed, rec, disk, op, sender, log, delays, faults, restarts>>

ResidentResumes ==
  /\ paused = "resident" /\ ~StepHeld
  /\ paused' = "no"
  /\ UNCHANGED <<work, feed, rec, disk, op, sender, log, delays, faults, restarts>>

(* Open: the file, then a refresh that must be written; then the log        *)
(* imports the receipts the ledger holds.  The adapter may have lost its    *)
(* last record of the task.                                                *)
Restart ==
  /\ restarts < MaxRestarts /\ restarts' = restarts + 1
  /\ \E k \in {feed.run, feed.run - 1} \cap Run :
       Shows(k, IF feed.status \in Terminal /\ k = feed.run THEN feed.status ELSE "unknown")
  /\ rec' = Refreshed(disk, feed') /\ disk' = rec'
  /\ receipt' = [k \in Execution |->
                   IF receipt[k] = "none" /\ rec'.reports[k] = "dispatching" THEN "unknown" ELSE receipt[k]]
  /\ op' = "free" /\ sender' = Idle /\ paused' = "no"
  /\ UNCHANGED <<work, given, delays, faults>>

-----------------------------------------------------------------------------
Init ==
  /\ work = [run |-> 0, status |-> "none"]
  /\ feed = [run |-> 0, status |-> "unknown", pending |-> FALSE]
  /\ rec = NoRecord /\ disk = NoRecord
  /\ op = "free" /\ sender = Idle /\ paused = "no"
  /\ Log!Init
  /\ delays = 0 /\ faults = 0 /\ restarts = 0

Delivers == PreparesNothing \/ Dispatch \/ SubmitDeferred \/ SubmitFenced \/ SubmitReturns
             \/ SettleReport
Deliver == PrepareRefresh \/ Delivers \/ Given \/ NativeDeferred
Tasks == Refresh \/ ReadView \/ ReadMarks \/ ReadInflight \/ SendTask \/ SendReturns
Pausing == Pause \/ ManagerResumes \/ ResidentResumes
Next ==
  \/ Deliver \/ Tasks \/ Pausing \/ Work \/ Restart
  \/ \E k \in Execution : NativeSettles(k)

Spec == Init /\ [][Next]_vars

-----------------------------------------------------------------------------
(* Properties                                                              *)

(* Every variable has its type.                                            *)
Record == [run : Run, status : Status, retired : SUBSET Execution, reports : [Run -> Report]]
TypeOK ==
  /\ work \in {[run |-> 0, status |-> "none"]} \cup [run : Execution, status : {"working"} \cup Terminal]
  /\ feed \in [run : Run, status : Status, pending : BOOLEAN]
  /\ rec \in Record /\ disk \in Record
  /\ op \in {"free", "prepare", "read", "send"}
  /\ sender \in {Idle} \cup [phase : {"submit", "native", "answered"}, run : Execution,
                             answer : {"none", "unknown", "accepted", "rejected", "deferred"}]
  /\ paused \in {"no", "resident", "both"}
  /\ receipt \in [Execution -> Log!Receipt] /\ given \in [Execution -> 0..1]
  /\ delays \in 0..MaxDelays /\ faults \in 0..MaxFaults /\ restarts \in 0..MaxRestarts

(* A report that was given to the resident is never pending, unread or     *)
(* unknown to the ledger again, in memory or on disk: it cannot be         *)
(* submitted twice, whatever was superseded, lost or restarted meanwhile.  *)
GivenIsKept == \A k \in Execution :
  given[k] = 1 => \A r \in {rec, disk} : r.reports[k] \in {"dispatching", "delivered", "rejected"}

(* A late receipt never settles the report of another execution: delivered *)
(* means that this report was accepted, rejected that it was refused.      *)
SettledTrue == \A k \in Execution, r \in {rec, disk} :
  /\ r.reports[k] = "delivered" => receipt[k] = "accepted"
  /\ r.reports[k] = "rejected" => receipt[k] = "rejected"

(* A report is pending only for the latest execution; what a deferral      *)
(* gives back after the work went on is not submitted any more.            *)
OnlyLatestPending == \A k \in Execution : rec.reports[k] = "pending" => k = rec.run

(* No native submission of a report is under way while the resident is     *)
(* paused for an update.                                                   *)
PausedQuiet == paused # "no" => ~StepHeld

(* An execution is retired for good: its number never becomes the task's    *)
(* again, so its report is never owed twice.                               *)
RetiredForGood == rec.run \notin rec.retired

(* Every end is reported: delivered, definitely refused, read, superseded, *)
(* or given to the log without an outcome.                                 *)
Ended(k) == rec.run = k /\ rec.status \in Terminal
Owed(k) == Ended(k) /\ rec.reports[k] \in {"pending", "dispatching"}
EndReported == \A k \in Execution :
  Owed(k) ~> ~Owed(k) \/ (receipt[k] = "unknown" /\ given[k] = 0)

(* Ticks go on, mutexes are fair, an operation that began ends; deferrals, *)
(* faults and restarts are bounded.                                        *)
FairSpec ==
  /\ Spec
  /\ SF_vars(PrepareRefresh) /\ WF_vars(Delivers)
  /\ WF_vars(\E k \in Execution : NativeSettles(k))
  /\ WF_vars(ReadMarks \/ SendReturns)
  /\ SF_vars(ManagerResumes) /\ WF_vars(ResidentResumes)

-----------------------------------------------------------------------------
(* The inductive invariant behind the safety properties.                   *)

(* Either copy of the record: reports are owed by executions that were     *)
(* seen, only the latest is pending, and what the log knows of is kept.    *)
Kept == {"dispatching", "delivered", "rejected"}
Consistent(r) ==
  /\ r.run \notin r.retired
  /\ \A k \in Execution :
       /\ r.reports[k] # "none" => k = r.run \/ k \in r.retired
       /\ r.reports[k] = "pending" => k = r.run
       /\ receipt[k] # "none" => r.reports[k] \in Kept
       /\ r.reports[k] = "delivered" => receipt[k] = "accepted"
       /\ r.reports[k] = "rejected" => receipt[k] = "rejected"

(* A report is submitted behind its fence, before the log knows of it, and *)
(* an answer says what the log says.                                       *)
Sending ==
  sender.phase # "idle" =>
    /\ rec.reports[sender.run] \in Kept /\ disk.reports[sender.run] \in Kept
    /\ sender.phase = "submit" => receipt[sender.run] = "none"
    /\ sender.phase = "answered" =>
         /\ sender.answer = "deferred" => receipt[sender.run] = "none"
         /\ sender.answer \in {"accepted", "rejected"} => receipt[sender.run] = sender.answer

Inv ==
  /\ Consistent(rec) /\ Consistent(disk) /\ Sending /\ PausedQuiet
  /\ \A k \in Execution : given[k] = 1 => receipt[k] # "none"
=============================================================================
