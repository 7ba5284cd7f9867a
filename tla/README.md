# Caelis Bot: formal models

Caelis Bot is a resident assistant: one desktop or headless process that owns a
conversation with a native Runtime (Codex or Caelis), wakes it for reminders, events
and results of background work, and must do so without ever repeating an operation
whose outcome it does not know. Its own core logic is therefore a set of small durable
ledgers, each written atomically, with fences before effects and reconciliation after.
These modules model that core: the event and arrangement engine (`internal/eventplan`),
the delivery log through which every unsolicited input reaches the Runtime
(`internal/bot/system_delivery.go`), the reminders and the task reports that are
delivered through it (`internal/bot/runtime.go`, `internal/tasks`), the Worker tasks of
the Codex adapter (`internal/backend/codex`), and the managed updates that replace the
whole process (`internal/managedupdate`).

## The system

| Part | State | Operations | Interacts with |
|---|---|---|---|
| Event engine, `internal/eventplan` | ledger `events-<runtime>.json`: plans, events, occurrences, wake attempts, policy, watermarks; in memory: the collector running, its undrained answer, a storage fault | `Open`, `MigrateLegacy`, `Tick`, `Register`, `Save`, `SaveNative`, `Remove`, `ArchiveEvent`, `ConfigurePolicy`, `ReceiveNative`, `Close` | called by the resident's tick and by tools; collectors run in a goroutine; submits wakes, reads receipts and revokes grants through callbacks |
| Delivery log, `internal/bot/system_delivery.go` | `system-deliveries.json`: per original message its outcome, Runtime and fingerprint | `SubmitSystem`, `SystemReceipt`, `ImportSystemReceipts`, load | every producer of unsolicited input (wakes, reminders, task reports, Worker interactions); the Runtime adapters |
| Runtime adapters, `internal/backend/codex`, `internal/backend/caelis` | their own journals of native operations | `SubmitSystem`, `SystemReceipt`, background results and grants | the native Runtime |
| Worker tasks of the Codex adapter, `internal/backend/codex/tasks.go` | per task its record in the conversation binding: run, status, receipts, superseded runs, stops; in memory the turn that runs and the ends that were handled | `StartWork`, `SendWork`, `ReadWork`, `StopWorkRequest`, `childEvent`, recovery, retirement | the native thread, its notifications, people who continue it from a terminal |
| Resident, `internal/bot/runtime.go` | schedules and the single saved Wake | `Tick`, `Upsert`, `Remove`, `PauseIfIdle` | event engine, delivery log, initialization, handoff |
| Background work, `internal/tasks` | task records, execution generations, reports | create, send, stop, refresh, report | the adapters' `WorkStates`, the delivery log |
| Managed updates, `internal/managedupdate` | `update.json` and `current.json`, the staged releases, the one Bot process | check, download, install, cancel, handoff, ready, recover, roll back | launcher, Bot process, resident and tasks (paused for a handoff) |
| Application, `internal/app` | selected Runtime, model selections | switch Runtime, apply selections, Worker approvals | all of the above |
| Channels, web, machines, terminals, stores | see `PROJECT.json` | | |

Hard behaviours: a crash on either side of every write and every native call; answers
that are lost, late or about something else; a write that reports failure and still
reaches the disk (`localstate.Write` gives up after two seconds while its goroutine goes
on); collectors that outlive the decision that started them; receipts read by the user
interface without the admission lock while deliveries, restarts and changes of Runtime
go on; budgets and retention that move with the clock; notifications, snapshots and
answers of one native turn that overtake each other; a launcher that dies between the
writes of a switch while the Bot it started lives on.

What makes the parts correct: an uncertain effect (a collection, a wake, a delivery) is
never produced twice and is reconciled with its original; a receipt once given is final
and true; every ledger that can be on disk can be opened; what a receipt refers to is
kept, and so is the grant it needs; the interruption budget holds; pending things end.
`PROJECT.json` lists every component and, under `hazards`, each place where these can
go wrong, with the property that would catch it.

## Modules

| Module | What it is |
|---|---|
| `EventPlan` | the event engine: one action per operation, `Tick` cut at its writes |
| `MCEventPlan`, `EventPlan*.cfg` | its small instances |
| `EventPlanProofs`, `EventPlanReceipts` | theorems about `EventPlan` for every value of its constants: submissions, collections, finality, grants and the budget; and, on top of them, receipts |
| `OneDelivery` | what `docs/system-delivery.md` promises of a delivery, without files, processes or adapters |
| `SystemDelivery` | the delivery log with its submitter, readers, adapters, restarts and changes of Runtime; `Promise` is the refinement mapping to `OneDelivery` |
| `MCSystemDelivery`, `SystemDelivery.cfg`, `StaleReader.cfg` | its small instances |
| `SystemDeliveryProofs` | theorems about `SystemDelivery`, the refinement included |
| `ReminderWake` | schedules, the saved Wake and the tick that submits it, over `OneDelivery` |
| `MCReminderWake`, `ReminderWake.cfg` | its small instance |
| `ReminderWakeProofs` | theorems about `ReminderWake` |
| `TaskReports`, `TaskReports.cfg` | the reports of a task's executions, over `OneDelivery` |
| `TaskReportsProofs` | theorems about `TaskReports` |
| `WorkerTask` | one task of the Codex adapter: its record, its thread and all who write the record |
| `MCWorkerTask`, `WorkerTask*.cfg` | its small instances |
| `WorkerTaskProofs`, `WorkerTaskShown` | theorems about `WorkerTask`: what reaches the thread; and, on top of them, what the task shows and what a stop interrupts |
| `ManagedUpdate`, `ManagedUpdate.cfg` | launcher, files and Bot of a headless installation |
| `ManagedUpdateProofs` | theorems about `ManagedUpdate` |

`SystemDelivery` implements `OneDelivery`, and `ReminderWake` and `TaskReports` are built
on `OneDelivery`: what they assume of a delivery is what the log was shown to provide.
`EventPlan` models the receipts it reads directly, because its wakes are settled by what
it reads back. `WorkerTask` is the environment of `TaskReports`: its `Shown` is the feed
that `TaskReports` refreshes from.

Definitions whose comment ends in `mutant` are wrong variants of the definition after
them; they are used nowhere, and stand for the bugs that the properties would catch.

### EventPlan

`mem` is `Engine.state`, `disk` the ledger file, `pc` what the holder of `Engine.mu` is
about to do (and `down` for a process that ended, or an engine frozen by
`Engine.fault`), `running` and `result` are `Engine.running` and the buffered
`Engine.results`. `native`, `sent`, `doubt` and `grants` belong to the world: the
operation each occurrence has at the Runtime, when it was submitted, the collectors
that were started and never confirmed their end, the live grants.

Each action is the code up to and including one write. `Commit` is that write: it
succeeds, or fails with the old or the new ledger on disk and the engine frozen until
the process restarts, which covers a crash before or during the write as well.

| Code | Actions |
|---|---|
| `Open`, `MigrateLegacy` | `OpenQuiet`, `OpenInterrupted`; `Migrate`, `SkipMigration` |
| `Tick`: drain, reconcile, clean up, retire, write | `TickBegin` |
| `Tick`: first pending occurrence | `Expire`, `CancelMoot`, `Dispatch` then `SubmitDeferred`, `SubmitAccepted`, `SubmitRejected`, `SubmitUnknown` |
| `Tick`: earliest due collector | `StartCollection`, `Spawn`; `Collect` is the goroutine; `EndTick` |
| `finishCollection`, `cleanup`, `retire`, `attention` | operators `FinishCollection`, `Cleanup(s)`, `Retire`, `Attention` |
| tools | `Register`, `Save`, `SaveNative`, `Remove`, `ArchiveEvent`, `ConfigurePolicy`; `Unsaved` is a `Register` or `Save` that cleans up and then refuses or repeats |
| `ReceiveNative` | `ReceiveNative`, `Observe` per plan, `Ingested` (written, or left unwritten by a cancelled context) |
| `Close`, a kill | `Crash` |

Abstracted: an occurrence's id is the ordinal of its creation; payloads, schemas and CEL
conditions are the kind of result they lead to; whether a record has outlived its
retention is a nondeterministic choice among the records the code may prune; the
five-second gates on collectors and revocations are below the clock's unit, so a tick
may find them closed; an `at` arrangement is an `after` one. Left out: quota
reservations and attempts imported from the legacy file (the budget starts empty),
more than one watermark, and the revocation of `event:` grants (nothing creates them).
Files the program did not write are not modelled: `Open` rejects them.

### SystemDelivery

`mem` is the log of the resident in service, `disk` its file, `sub` the submission that
holds `r.step`, `reading` the receipt reads in progress (the submitter reads too), and
`stale` the log of a replaced resident. A step is one hold of `d.mu`, or one call of the
adapter, which the code makes without it.

| Code | Actions |
|---|---|
| `SystemReceipt` | `ReadSettled`; `ReadStart`, `Ask`, `Recheck` (`RecheckOld` over a replaced resident's log) |
| `SubmitSystem` | `Begin`, its read, `NotAdmitted` or `Fence`; the adapter's step; `SettledMeanwhile`, `Mismatched`, `Release` or `Conclude` |
| adapter | `NativeDefers`, `NativeRefuses`, `NativeKnows`, `NativeCreates`, `NativeReturns`; `NativeSettles` is an event of the Runtime |
| `ImportSystemReceipts`, import at load | `Import` |
| `NewForRuntime` after an exit, after `activateRuntime` | `Restart`, `Switch` |

The admission gates (paused, busy, initialization, handoff) are one nondeterministic
refusal, `NotAdmitted`. A body with its metadata is a value that is its own fingerprint.
`NativeCreates` is allowed at a Runtime that already has an open operation of the
message, because the Codex adapter relies on the log as the only fence
(`backend/codex/session.go:1069-1070`). In `Spec` a reader ends with its resident;
`LingeringSpec` also lets it outlive a change of Runtime (`RecheckOld`), as readers
without the admission lock do. Not modelled: an unreadable log, which stops all
deliveries; a timed-out write that lands after the same process loaded the file again.

A message of `Legacy` was delivered before the log. Its record has no fingerprint, so
`Begin` gives its receipt to any content, as the code does
(`system_delivery_test.go:299-322`), and `OwnContent` claims less of it: no content that
was named since has reached a Runtime. `Begin` waits until the record is there, because
the notices of interactions are imported when the log is opened, or nothing is dispatched
at all (`system_delivery.go:63-93`, `203-207`), and because task reports that were
delivered before the log are not submitted again by their producer.

### ReminderWake

`mem` and `disk` are `State` (schedules and the one `Wake`) and its file, `tick` the tick
that holds `Runtime.step`, `receipt` and `given` the log of deliveries. `place`, `sent`
and `dropped` record where each wake went, how often each occurrence was given to a
Runtime, and which ones a user or a window dropped. A step is one hold of `Runtime.mu`;
a hold that may reconcile, collect, prune and dispatch in a row is a step for each,
because a busy resident ends it after any.

| Code | Actions |
|---|---|
| `tick`: a wake of the past is reconciled | `Reconcile` |
| `tick`: due schedules become a wake; closed windows pass | `Collect`, `SkipClosed` |
| `tick`: what was edited meanwhile leaves the wake; the wake is saved as dispatching | `Prune`, `Dispatch` |
| `SubmitSystem` of the resident | `SubmitFound`, `SubmitDeferred`, `SubmitFenced`, `Given`, `NativeDeferred`, `SubmitReturns`; `NativeSettles` is an event of the Runtime |
| the answer is saved | `Settle` |
| `Upsert`, `Remove` | `Upsert`, `Remove` |
| loading after an exit or for another Runtime | `Restart` |

Calendar arithmetic is two constants, `Slot` (when a schedule fires) and `Allowed` (when
its window is open); texts and their limit are left out.

### TaskReports

`rec` and `disk` are the record of one task in memory and in the ledger, `feed` what the
adapter's `WorkStates` shows of it, `op` the call that holds `Manager.op`, `sender` the
tick in `DeliverTaskReport`, `paused` whether an update has paused the resident, or it
and the manager. Execution `k` owes report `k`. A step is one hold of `Manager.mu`.

| Code | Actions |
|---|---|
| `refresh` | `Refresh` and the operator `Refreshed` |
| `DeliverTaskReport` | `PrepareRefresh`, `PreparesNothing`, `Dispatch`; the resident's `SubmitDeferred`, `SubmitFenced`, `Given`, `NativeDeferred`, `SubmitReturns`; `SettleReport` |
| `ReadTask` | `ReadView`, `ReadMarks`, `ReadInflight` |
| `SendTask` | `SendTask`, `SendReturns` |
| `PauseIfIdle` of resident and manager | `Pause`, `ManagerResumes`, `ResidentResumes` |
| reopening | `Restart` |
| the adapter | `WorkStarts`, `WorkEnds`, `RequestSettles`, `Reconnected`, `ConnectionLost` |

Left out: aliases of execution keys, texts, attachments, environments, capacity,
explicit finish and stop.

### WorkerTask

`task` and `disk` are the record in memory and in the binding file; `live` what the
session knows of the thread on this connection (`childRuns`, the handled ends, the
subscription); `call` the call that holds `Session.op`, `reader` the recovery reader,
`turns` the native thread, `wire` the requests on their way to the Runtime and `events`
the notifications not yet handled. A step is one hold of `Session.mu`.

| Code | Actions |
|---|---|
| `StartWork` | `StartWork`, `ThreadStarted`, `ThreadNotStarted` |
| `SendWork`, `sendTask`, `taskSendResult` | `SendWork`, `Prepare`, `Resume`, `Dispatch`, `AnswerLost`, `Settle` |
| `observeTaskTurn`, `observeLatestTaskTurn` | operators `Observe`, `ObserveLatest` |
| `childEvent` | `Handle` |
| `ReadWork` | `ReadWork`, `ReadAnswered`, `ReadFailed`, `ReadDone` |
| `recoverUnresolvedChildren`, `recoverChild`, `watchChild`, `RetryObservations`, `retireChild` | `Recover`, `RecoverAnswered`, `RecoverDropped`, `RecoverFailed`, `RecoverDone`, `WatchAnswered`, `WatchFailed`, `WatchAgain`, `WatchDone`, `RetryObservations`, `Retire` |
| `StopWorkRequest` | `StopWork`, `Interrupt`, `StopDone` |
| a new process, a new connection; `settlePreparedTask` | `Restart`, `Reconnect`; operator `SettlePrepared` |
| the Runtime and its other clients | `NativeStarts`, `NativeSteers`, `NativeRefuses`, `TurnEnds`; `Continue` when `Shared` |

Left out: capacity retries, prompts, questions, files, and owners that were lost for
good.

### ManagedUpdate

`mem` and `disk` are `Manager.state` and `update.json`, `selected` is `current.json`,
`staged` and `damaged` the releases on disk and those that no longer verify, `at` and
`opening` where `Launch` is, `boot` the Bot the Manager speaks with and its health
timer, `child` the Bot process, `calls` the requests of Bots under way. `closed`,
`cancelled` and `proved` record which transactions had a confirmed Close, a confirmed
cancellation, and a Bot of their release that reported no failure when it started, and
`belated` those that a Bot concluded which had been ready before.

A step is one hold of `Manager.mu`, except that a switch or a rollback writes three files
under one hold and is a step per write. A request is a member of `calls` until it is
handled, and its sender waits for nothing after its time-out. What it says of its Runtime
is `"up"` or `"down"`: a serving Bot reports what it observes (`Report`), and one whose
Runtime does not start says so, or that it is inactive, and ends (`SendFailure`). `Ready`
skips only what a ready Bot says again; everything else runs the phase switch, a changed
report of a Bot that was replaced and is not forgotten yet included. `Publish` forgets the
requests of earlier boots, which are refused from then on.

| Code | Actions |
|---|---|
| commands of the user | `Touch`, `StartCheck`, `StartDownload`, `Install`, `LocalUpgrade`, `Cancel` |
| their goroutines | `Checked`, `Downloaded` with retention (`Keep`) |
| the Bot and its requests | `SendReady`, `SendFailure`, `Report`, `GivesUp`, `Handoff`, `Busy`, `CloseCore`, `Exits`, `Dies`; `Ready`, `FinishHandoff` handle them |
| `commitSwitch`, `rollback`, `Open` and its recovery | `Switch`, `Select`, `Confirm`; `Revert`, `Reselect`, `Reconfirm`; `Open`, `Settle` |
| `Launch` | `Start`, `StartFails`, `Publish`, `HealthExpires`, `Kill`, `ChildEnded`, `Closed` |
| the machine | `Crash`, `Damage` |

Left out: receipts of commands, revisions, reasons, transfer counts, manifests and
signatures.

## Runs

| Run | Instance | Shows |
|---|---|---|
| `recovery` | an `after` and an `interval` plan over one event; a policy without gap, so that the budget hides no second submission; 3 occurrences, clock 1..2, one crash or failed write | shape, `AtMostOneWake`, `OneShotOnce`, `UncertainNeverRerun`, `DurableFinality` |
| `native` | two migrated native plans under one grant, records that outlive their retention, one crash | `Reopenable`, `OneOpenReceipt`, `RevokesSettled` |
| `settling` | a wait for a task and a native plan, two policies between which the user changes, one crash, fairness | `WakeBudget`, `PendingSettles` |
| `grants` | one `after` plan, one failed write | violation of `GrantOutlivesReceipts` |
| `delivery` | a new and a legacy message, two contents, two Runtimes, one reader, one failed write, two restarts or switches, one deferral, fairness | shape, `AtMostOneOperation`, `ReceiptsFinal`, `AcceptedTrue`, `OwnContent`, `Refines`, `Reconciles` |
| `stale_reader` | two messages, a reader that outlives its resident, three restarts or switches | violation of `OneRuntime` |
| `wake` | a repeating reminder with a window and one that fires once, three edits, two Runtimes of which one batches, one deferral, failed write and restart, clock 1..4, fairness | shape, `RemindsOnce`, `GivenIsFenced`, `RightRuntime`, `AcceptedTrue`, `DueReminds` |
| `reports` | two executions, one deferral or pause, one failed write, one restart, fairness | shape, `GivenIsKept`, `SettledTrue`, `OnlyLatestPending`, `PausedQuiet`, `RetiredForGood`, `EndReported` |
| `worker` | a start and a continuation, two turns, one stop, one failed save, one restart or reconnection | `DispatchedOnce`, `ReceiptsTrue`, `StopsItsTurn` |
| `worker_ends` | the same without faults, with another client on the thread, fairness | `TerminalTrue`, `EndShown` |
| `early_terminal` | one steer of a running turn, no faults | violation of `EarlyTerminalWins` |
| `update` | two releases, one install, one death of the launcher, one of a Bot, one failed write, one damaged release, fairness | `OnlyClosed`, `RunsSelected`, `HealthyTrue`, `Recoverable`, `Concludes` |

Bounds. `MaxOcc` bounds occurrences, `MaxTime` the clock, `MaxCrashes` restarts and
failed writes together; `MaxFaults`, `MaxRestarts` and `MaxDeferrals` or `MaxDelays` do
the same elsewhere. Three occurrences are enough for an observation, its maintenance wake
and a second observation, which is what the collisions between receipts need; two plans
over one event, or under one grant, are enough for each sharing; a single crash already
falls on every step, since each hazard concerns one interrupted step and the recovery
after it. The clock's unit is an hour; an interval of minutes is zero, so that it is due
again in the same unit. In the log, one failed write already loses an intent or a
receipt, and two switches allow a return to the first Runtime. Two executions, two turns
and two releases are what "an earlier and a later one" needs; `MaxLag` is one
notification that is not handled yet, so that a call, a read and an end can cross.
The theorems below hold for every value of these bounds; the instances only have to be
large enough for the properties that are not proved, which are the liveness properties.
`StartCollection` and `Observe` leave room for the maintenance wake of the collection
they start, so that the bound never hides a recovery. The plans of `native` have no
collector: what `Reopenable` and `OneOpenReceipt` say of maintenance wakes is not exercised
there and rests on the theorems `OpensAgain` and `OneReceipt`.

`CHECK_DEADLOCK FALSE` is set where an instance really stops: in the log when every
message is fenced for a Runtime that is no longer selected and the restarts are used up;
in `wake` when the clock and the wakes are used up; in the `worker` runs when the thread
has had its turns; in `update` when a serving Bot that outlived its launcher keeps the
installation's lease and may not die any more.

Fairness. `EventPlan!FairSpec` assumes that the engine's own steps go on while the
process lives, as the resident's ticker has them, and that time passes; time needs
strong fairness only because the model stops the clock within a tick. It does not
assume that a crashed process is started again, that collectors answer, or that the Bot
is ever ready. `SystemDelivery!FairSpec` assumes that a reader which began goes on, and
that each message's receipt is asked for again and again, as producers do for every
original that is not settled. It does not assume that anything is submitted, or that the
Runtime settles anything. `ReminderWake!FairSpec` assumes the resident's ticks and the
end of a native operation that exists; not that a user edits, or that the application is
restarted. `TaskReports!FairSpec` assumes that the report tick comes again and again
although others hold the operation lock in between (strong fairness: a Go mutex lets no
waiter starve), that a call that began ends and that a pause is lifted.
`WorkerTask!FairSpec` assumes that calls return, that the event loop and the recovery go
on, and that the task is read again and again, which the page and the Bot's tools do;
the read is only enabled between calls, hence strong fairness. It does not assume that a
turn ends. `ManagedUpdate!FairSpec` assumes that the service manager restarts a launcher
that failed (`Restart=` of the unit), that requests are handled, that a Bot that is
ending ends, and that the health timer fires; not that a candidate ever reports itself
ready.

## Disagreements between code and documents

1. `grants`. `Tick` revokes the grant of an arrangement that finished in memory before
   it writes that it finished. If that write fails, the reopened arrangement gets a
   maintenance wake whose grant is gone, against "Retire native grants after the last
   unresolved receipt has settled" (`eventplan/scheduler.go:428`).
2. `early_terminal`. When a steer is definitely refused, the task gets the status back
   that it had before the request, also when the end of its turn was handled meanwhile:
   it is shown as working on a turn that ended, against "Early terminal events win over
   late responses" (`docs/architecture.md:717`), until somebody reads the task.
3. `stale_reader`. A receipt read by the user interface takes no admission lock. When it
   outlives a change of Runtime it writes the replaced resident's log over the new
   one's, and a fence is lost; after a restart and another selection a second Runtime
   gets the message, against "Restart, a later input or Runtime selection never causes
   redispatch" (`docs/system-delivery.md:34`).

Found while modelling, by variants of the instances that are not kept as runs:

- `ReadTask` takes the view in one hold and marks the report in the next
  (`tasks/manager.go:795`): a refresh between them may have begun another execution,
  whose report is then marked as observed although nobody saw it, against
  `docs/system-delivery.md:49-52`.
- A reminder's wake whose refusal is only learnt by reading its receipt, or that was
  refused when it was submitted, is not settled (`bot/runtime.go:557`), against
  `docs/system-delivery.md:29`; `DueReminds` excepts what waits behind it.
- With another client on the thread, a stop can interrupt that client's turn, because
  `childRuns` names the turn that runs and the request names the one that was shown,
  against `tasks/worker_service.go:27-28`. `StopsItsTurn` is checked and proved without
  other clients.
- A killed candidate's late `Ready` that is handled after the rollback was saved and
  before the next boot is published marks the update `rolled_back` although the previous
  version has not started, against `docs/managed-updates.md:141`.
- Its twin: a Bot hands over and closes, its last report of a changed Runtime is delayed,
  and `Launch` switches. Until the next boot is published (`launcher.go:109-114`) the
  Manager still takes that report for one of the Bot in service (`launcher.go:190`,
  `204-216`), and the update becomes `healthy` although no Bot of the new release has
  reported, or even started; if the new release then fails, it is not rolled back. This
  is against "Recovery never infers success from a dead PID or a selected path"
  (`managedupdate/manager.go:397`) and `docs/managed-updates.md:141`. `HealthyTrue` without
  its last disjunct, `belated`, is violated by exactly this in the instance of `update`.
- A Bot whose Runtime's store cannot be located (no home directory) reports that Runtime
  as inactive, and not as failed, before it ends (`headless/managed_updates.go:101-104`,
  `app/update_runtime.go:23-26`): a candidate that does so is marked `healthy`, against
  "A startup/readback failure prevents candidate health" (`docs/managed-updates.md:178`).
  `HealthyTrue` takes its word.
- The health timer reads that the candidate is not ready, unlocks and then kills it: a
  `Ready` between the two is killed although the comment says that this child has
  admitted no work.
- After a rollback that became impossible, or with a start that keeps failing during a
  rollback, a service restart boots the candidate again and nothing marks the
  transaction unknown, where the documentation says that it never loops; `MaxDeaths`
  bounds these failures in `update`. A failed save in state `unknown` leaves every later
  command refused until the launcher restarts.

Observed and stated nowhere as a promise: a deferred wake at the head of the queue holds
back later wakes and collections until its expiry; an unconfirmed collection keeps its
arrangement's capacity for ever; an intent write that failed and still reached the disk
leaves a message fenced that was never dispatched; a failed `Save` can leave a grant
without an arrangement; a wake that was saved as dispatching before a crash and was
never fenced in the log stays unknown; with another client on the thread, an accepted
turn whose early end was forgotten is shown as working until it is read, and a read can
overtake a notification that is still queued. They are listed under `hazards` where a
property depends on them.

## Proofs

Every theorem below is proved for every value of the constants that the named
assumptions of its module allow: any number of messages, arrangements, executions,
requests, turns and releases, and all bounds on time, failures and restarts. A theorem
that names a property of the runs says of every instance what the run says of one.

### SystemDelivery

| Theorem | Statement |
|---|---|
| `Typing`, `LingeringTyping` | `Spec => []TypeOK`, `LingeringSpec => []TypeOK` |
| `Safety` | `Spec => []Safe` |
| `AtMostOnce` | `Spec => []AtMostOneOperation` |
| `Final` | `Spec => []ReceiptsFinal` |
| `Implements` | `Spec => Refines` |
| `Own` | `Spec => []OwnContent` |
| `StaysAtOne` | `Spec => []OneRuntime` |
| `Truth` | `LingeringSpec => []AcceptedTrue` |

They rest on the assumptions `Bounds` and `Names`. In `Spec` a reader ends with its
resident; in `LingeringSpec` it may outlive it. The run `stale_reader` shows that
`OneRuntime` is false of `LingeringSpec`, so `StaysAtOne` says that such readers are
the only way there; `Truth` does not need them to end.

`AtMostOneOperation` is not inductive: that a message is dispatched once rests on where
its fence is. `Safe` adds what is needed: an operation exists only behind a fence that
memory and disk both hold (`Fenced`), the submission in progress has its fence on disk
before the Runtime hears of it, and an answer of "deferred" proves that there is no
operation (`Submitting`), a reader holds a proof of an operation that exists (`Reads`),
and terminal receipts are durable before they are in memory (`Durable`). Each action's
lemma says which of these it can disturb. For the refinement `OneAhead` adds that a
failed write leaves the file at most one message, and for it at most one allowed step,
ahead of memory: a restart that loads the file is then one step of `OneDelivery`, and not
several at once. `Truthful` is the invariant behind `Truth`: whoever holds "accepted", in
memory, on disk, in a replaced log, in a read or in an answer, holds it of a message that
some Runtime accepted. `Owned`, on top of both, is the invariant behind `Own`: a
fingerprint that was fenced is never replaced by another (`Kept`), and what the submitter
compares, hands over and records is the fingerprint of the content it was called with
(`Naming`). For a message delivered before the log there is no such fingerprint: `Kept`
says that nothing is created for it, which needs of `Submitting` that its record is there
before it is submitted, so that the submission ends with its receipt.

### EventPlan

| Theorem | Statement |
|---|---|
| `Typing` | `Spec => []TypeOK` |
| `OneSubmission` | `Spec => []AtMostOneWake` |
| `NoBlindRerun` | `Spec => UncertainNeverRerun` |
| `Finality` | `Spec => DurableFinality` |
| `RevokesOnlySettled` | `Spec => RevokesSettled` |
| `WithinBudget` | `Spec => WakeBudget` |
| `AlwaysTidy` | `Spec => [](Inv /\ RInv)` |
| `OpensAgain` | `Spec => []Reopenable` |
| `CollectsOnce` | `Spec => []OneShotOnce` |
| `OneReceipt` | `Spec => []OneOpenReceipt` |

The first six (`EventPlanProofs`) rest on the assumptions `Timing`, `Identities` and
`Budgets`, and on one inductive invariant, `Inv`. `AtMostOneWake` counts submissions, and
says nothing of the ledgers that a restart may find; `Inv` adds that what was submitted
is, in memory and in the file, neither pending nor collecting nor an id still to be given
(`SentOnce`), that the occurrence being submitted is `dispatching` in both and was not
submitted (`Submits`), and that every event in doubt has an unknown or collecting
occurrence in both (`InDoubt`), with the same for the collector about to start and the
one that runs (`Spawning`, `Running`). `Ledgers` says that both are `Sound`, and that
what is finished in the file is finished in memory.

The argument has three layers. Each operator on ledgers has a lemma that says of its
result `t`, relative to its argument `s`, that it is `Sound`, that it `Follows` `s` (ids
are not reused, nothing becomes startable again, finished and unretired arrangements
stay) and that it `Keeps` collections in doubt. `WriteGood` says that a write of such a
ledger, whether it succeeds, fails or fails and still reaches the disk, preserves `Inv`
and takes one of the allowed steps; `MemoryGood` and `QuietGood` say the same of steps
that write nothing. Then one lemma per action combines the two. Three actions need more:
a deferral makes an occurrence pending again, which is sound because it was not
submitted; the migration introduces occurrences below every id in use, which is sound
because the ones that are pending in the legacy file have no operation (`InitGood`); and
`TickBegin` may clear a doubt, but only of the event whose answer it takes.

`WithinBudget` adds `Accounted` to `Inv`: the attempts of both ledgers hold every
submission that the window still counts, and while one is being submitted the others
leave room for it in the policy of that moment. Every operator either leaves the attempts
alone or, in the clean-up, forgets those that have left the window (`Retains`); a deferral
takes one back, which is sound because nothing was sent.

The other four (`EventPlanReceipts`) are about the receipts of one ledger, and rest on
`Inv` as well. A ledger is `Tidy` when every receipt has its event and every maintenance
wake its collection (`Backed`), and when, per event, the originals are ordered, at most
one attempt is open and it has the largest number, and a one-shot was collected once
(`Orderly`: `Originals`, `OneEach`, `Shots`). `RInv` says that both ledgers are tidy, and
ties the collector in flight and its answer to the occurrence they belong to. Most
operators only close or remove receipts (`Wanes`), which keeps a ledger tidy; the rest
add one receipt, and the lemma for each says that its arrangement had nothing open, for
which `Cleanup` is what makes room. They need one more assumption, `OwnEvents`: a native
arrangement's event has an id derived from the arrangement's own, so that no two share
it; the engine refuses a collision when it saves, and the migration skips one.

### TaskReports

| Theorem | Statement |
|---|---|
| `Typing` | `Spec => []TypeOK` |
| `Safety` | `Spec => []Inv` |
| `GivenKept` | `Spec => []GivenIsKept` |
| `ReportsTrue` | `Spec => []SettledTrue` |
| `LatestOnly` | `Spec => []OnlyLatestPending` |
| `QuietWhilePaused` | `Spec => []PausedQuiet` |
| `NeverRevived` | `Spec => []RetiredForGood` |

`Inv` says of the record in memory and of the one in the ledger file the same thing,
`Consistent`: a report that the delivery log holds is neither pending nor forgotten, one
that is shown as settled has that outcome, only the latest execution has one to give,
and what was superseded stays so. `Sending` says which of this a submission in flight
relies on, in both. Memory alone would not do, because every restart loads the file.

### ReminderWake

| Theorem | Statement |
|---|---|
| `Typing` | `Spec => []TypeOK` |
| `Safety` | `Spec => []Inv` |
| `Reminds` | `Spec => []RemindsOnce` |
| `Fenced` | `Spec => []GivenIsFenced` |
| `OwnRuntime` | `Spec => []RightRuntime` |
| `Accepted` | `Spec => []AcceptedTrue` |

That a slot is reminded of once is no statement about one wake: `Inv` says that the
schedules, in memory and in the file, lie ahead of every slot that was given (`Ahead`),
that what was taken from a schedule is in the one wake or was dropped (`Taken`), that a
wake which may have been given is saved as dispatching with its occurrences (`Wake`,
`Submitted`), and that its number is used by no other (`Fresh`, `Numbered`). The calendar
stays a constant: all that the proof uses of it is that the next time lies after now.

### WorkerTask

| Theorem | Statement |
|---|---|
| `Safety`, `Typing` | `Spec => []Inv`, `Spec => []TypeOK` |
| `Once` | `Spec => []DispatchedOnce` |
| `Receipts` | `Spec => []ReceiptsTrue` |
| `Terminal` | `Spec => []TerminalTrue` |
| `OneStop` | `~Shared` implies `Spec => []StopsItsTurn` |

`WorkerTaskProofs` follows a request. Its invariant says that a record is `Honest` about
the requests it names, in memory and in the file: what it shows as accepted was carried,
what it shows as rejected or not yet dispatched was not and is on no wire. `Wired` and
`Calling` say where a request may be while its answer is out, and `Read` that what a
reader brings back is honest about the thread it read. One lemma per operator (`Learns`,
`Resolves`) says what may become of the receipts, and one per action that the invariant
stays.

`WorkerTaskShown` follows the turn that the task shows. A terminal status is shown of the
run that the record names, but it may come from a notification, a snapshot, the handled
ends, or from the file after a restart, and the run may meanwhile be replaced. `Shows`
says that a record is `Faithful`, in memory and in the file, that every end that waits to
be used is one the thread has (`Witnessed`), and that no source names a turn that was
never begun (`Born`). Native steps preserve it because ended turns stay as they are
(`Grown`). `OneStop` adds `Owns`: the task, in
memory and in the file, is at the last turn or at none, and a new turn only begins once
all earlier ones are superseded (`Placed`); what a refusal or a restart restores from a
receipt is the last turn again (`Resumable`); and what is on record as stopped was
interrupted (`Stopped`). `Starting`, `Noted`, `Stopping` and `Looking` say what calls,
handled ends and snapshots know of it. It is a theorem for one client only: with another
one on the thread, the turn that is interrupted can be the other's.

### ManagedUpdate

| Theorem | Statement |
|---|---|
| `Safety`, `Typing` | `Spec => []Inv`, `Spec => []TypeOK` |
| `OnlyCloseCommits` | `Spec => []OnlyClosed` |
| `NothingReplacedAlive` | `Spec => []RunsSelected` |
| `OnlyReadyIsHealthy` | `Spec => []HealthyTrue` |
| `RetentionKeeps` | `Spec => []Recoverable` |

A switch is three writes and a rollback three more, over two files, and the launcher may
die between any two. `Fits` says, per phase of a transaction, which release is selected,
which ones must be kept, and what must have been confirmed; `Fitting` says it of the
record in memory and of the one in the file. `Placed` says which step of `Launch`
belongs to which record, and `Working` and `Proving` what the requests under way of a
Bot, or of one that outlived its launcher, may still do. `HealthyTrue` rests on `Proving`:
a request that would make a switched transaction healthy is of the Bot that runs, and
then of the selected release, or of the one that was ready before it closed, and then the
step notes the transaction in `belated`. The journal's operators have
lemmas of their own, and so have the steps that only request, only report or only write.

### Only model-checked

The theorems cover every safety invariant, action property and refinement that a passing
run checks. The liveness properties `PendingSettles`, `Reconciles`, `DueReminds`,
`EndReported`, `EndShown` and `Concludes` rest on fairness and `ENABLED`, which are beyond
the prover, and stay with TLC. So does what no safety theorem says: that the interesting
states are reached at all, which the runs and the mutants of their properties show.

## Not modelled, and the plan

`PROJECT.json` lists every part with the reason. Next, in this order, each with its
instances, mutants and theorems:

1. `ModelSelections`: the last choice wins under cancelled applications; liveness.
2. `RuntimeSwitch`: activation with its roll-back, one writer per ledger; this refines the
   `Switch` of `SystemDelivery`.
3. `StateFile`: `localstate`'s writer gate with timed-out writers, to justify the failed
   write of all modules.
4. Text-channel answers, the web operation archive, machines, terminals.

The rest is transport, presentation, packaging or platform code with little protocol
state of its own.
