----------------------------- MODULE WorkerTask -----------------------------
(***************************************************************************)
(* One Worker task in the Codex adapter, backend/codex/tasks.go: its       *)
(* record in the conversation binding, the native thread it owns, and all  *)
(* who write the record concurrently: the start, send, read and stop       *)
(* calls (one at a time, under Session.op), native events, the recovery    *)
(* reader, and people who continue the thread from a terminal client.      *)
(*                                                                         *)
(* A step is one hold of Session.mu.  A save writes the whole binding; one *)
(* that fails may still reach the disk.  Left out: capacity retries,       *)
(* prompts, questions, files, and owners that were lost for good.          *)
(***************************************************************************)
EXTENDS Naturals, Sequences, SequencesExt, FiniteSets

CONSTANTS
  Start,        \* the request that starts the task
  Sends,        \* the requests that continue it
  None,         \* no request
  Ends,         \* how turns end, apart from a stop
  Shared,       \* whether people continue the thread from a terminal client
  MaxTurns,     \* bound on native turns
  MaxLag,       \* bound on notifications that are not handled yet
  MaxFaults,    \* bound on saves that fail
  MaxStops,     \* bound on stops
  MaxRestarts   \* bound on restarts and reconnections

ASSUME ConstantsOK ==
  /\ Start \notin Sends /\ None \notin Sends \cup {Start}
  /\ Ends \subseteq {"completed", "interrupted", "failed"} /\ Shared \in BOOLEAN
  /\ MaxTurns \in Nat \ {0} /\ MaxLag \in Nat \ {0} /\ MaxFaults \in Nat /\ MaxStops \in Nat /\ MaxRestarts \in Nat

Request == {Start} \cup Sends
Turn == 1..MaxTurns
Run == 0..MaxTurns                        \* 0: no run known
Absent == MaxTurns + 1                    \* no entry in childRuns
Final == {"completed", "interrupted", "failed"}
Status == {"unknown", "working"} \cup Final
Outcome == {"unknown", "accepted", "rejected"}

VARIABLES
  task,      \* taskRecord in memory
  disk,      \* the record in the binding file
  live,      \* what the session knows of the thread on this connection
  call,      \* the call that holds Session.op
  reader,    \* the recovery reader (recoverChild, then watchChild)
  turns,     \* the native thread: its turns in order
  wire,      \* requests on their way to the Runtime
  events,    \* native notifications not yet handled
  faults, restarts

vars == <<task, disk, live, call, reader, turns, wire, events, faults, restarts>>

-----------------------------------------------------------------------------
(* The record and what is projected from it                                *)

NoReceipt == [outcome |-> "none", phase |-> "none", status |-> "unknown", run |-> 0]
NoTask == [thread |-> FALSE, run |-> 0, status |-> "unknown", pending |-> None,
           superseded |-> {}, activity |-> "", requests |-> [q \in Request |-> NoReceipt],
           stops |-> [k \in Run |-> "none"]]

HasUnknown(t) == \E q \in Request : t.requests[q].outcome = "unknown"

(* taskView and workStatesLocked: the state other parts see.               *)
Shown(t) == [run |-> t.run,
             status |-> IF t.pending # None \/ HasUnknown(t) THEN "unknown" ELSE t.status,
             stopped |-> t.stops[t.run] = "accepted"]

NewLive == [run |-> Absent, terminals |-> {}, ended |-> [k \in Turn |-> "none"],
            watching |-> FALSE, subscribed |-> FALSE, failed |-> FALSE]

(* The Runtime runs one turn of a thread at a time.                        *)
Busy == turns # <<>> /\ Last(turns).status = "inProgress"
Latest == [run |-> Len(turns),
           status |-> IF turns = <<>> THEN "none" ELSE Last(turns).status,
           inputs |-> IF turns = <<>> THEN {} ELSE Last(turns).inputs]
NoSnapshot == [run |-> 0, status |-> "none", inputs |-> {}]

(* request and run are those the call is about, or saw when it began; key  *)
(* is the execution a stop names.                                          *)
NoCall == [kind |-> "none", phase |-> "none", request |-> None, steer |-> FALSE, run |-> 0,
           key |-> 0, answer |-> "none", snapshot |-> NoSnapshot]
Idle == [phase |-> "none", request |-> None, run |-> 0, stale |-> FALSE, snapshot |-> NoSnapshot]

(* Session.save: written, or failed with the old or the new record on disk. *)
(* Activity is not part of the file.                                       *)
File(t) == [t EXCEPT !.activity = ""]
Saved(t) == disk' = File(t) /\ UNCHANGED faults
Lost(t) == faults < MaxFaults /\ faults' = faults + 1 /\ disk' \in {disk, File(t)}
SaveAnyway(t) == Saved(t) \/ Lost(t)

Supersede(t, k) == IF k = 0 THEN t ELSE [t EXCEPT !.superseded = @ \cup {k}]

(* observeTaskTurn: input receipts first; a superseded turn changes nothing *)
(* more, and an unresolved request keeps the task unknown.                 *)
Acknowledge(t, inputs) ==
  [t EXCEPT !.requests = [q \in Request |-> IF q \in inputs /\ t.requests[q].outcome # "none"
                            THEN [t.requests[q] EXCEPT !.outcome = "accepted", !.phase = "settled"]
                            ELSE t.requests[q]],
            !.pending = IF t.pending \in inputs THEN None ELSE t.pending]

Unresolved(t, k, status) ==
  [t EXCEPT !.activity = IF status = "inProgress" THEN "active" ELSE @,
            !.run = IF @ = 0 THEN k ELSE @, !.status = "unknown"]

ProjectOnce(t, k, status, terminals) ==                         \* mutant
  IF k \in terminals THEN t
  ELSE IF status \in Final THEN [t EXCEPT !.activity = "idle", !.status = status]
  ELSE [t EXCEPT !.activity = "active", !.status = "working"]
Project(t, k, status, terminals) ==
  IF status \in Final THEN [t EXCEPT !.activity = "idle", !.status = status]
  ELSE IF k \notin terminals THEN [t EXCEPT !.activity = "active", !.status = "working"]
  ELSE t

ObserveLate(task0, k, status, inputs, history) ==               \* mutant
  LET t == Acknowledge(task0, inputs) IN
  IF t.pending # None \/ HasUnknown(t) THEN Unresolved(t, k, status)
  ELSE Project([t EXCEPT !.run = IF @ = 0 THEN k ELSE @], k, status, live.terminals)
Observe(task0, k, status, inputs, history) ==
  LET t == Acknowledge(task0, inputs)
      next == IF ~history /\ status = "inProgress" THEN Supersede(t, t.run) ELSE t IN
  CASE k \in t.superseded -> t
    [] k \notin t.superseded /\ (t.pending # None \/ HasUnknown(t)) -> Unresolved(t, k, status)
    [] k \notin t.superseded /\ ~(t.pending # None \/ HasUnknown(t)) ->
         IF t.run = k THEN Project(t, k, status, live.terminals)
         ELSE IF k \in live.terminals THEN t
         ELSE Project([next EXCEPT !.run = k], k, status, live.terminals)

(* observeLatestTaskTurn, for the newest turn of a revision-fenced read.   *)
ObserveLatest(t, s) ==
  IF s.run = 0 THEN t
  ELSE LET seen == Observe(t, s.run, s.status, s.inputs, TRUE) IN
       IF seen.run # t.run THEN Supersede(seen, t.run) ELSE seen

Ended(k, status) == IF status \in Final THEN [live.ended EXCEPT ![k] = status] ELSE live.ended
EndedIn(s) == IF s.run = 0 THEN live.ended ELSE Ended(s.run, s.status)
-----------------------------------------------------------------------------
(* StartWork: the record, then the thread, then the first request.         *)

Exists == task.thread \/ task.requests[Start].outcome # "none"

StartWork ==
  /\ call = NoCall /\ ~Exists
  /\ LET t == [NoTask EXCEPT !.requests[Start] = [NoReceipt EXCEPT !.outcome = "unknown", !.phase = "creating"]] IN
     \/ Saved(t) /\ task' = t /\ call' = [NoCall EXCEPT !.kind = "send", !.phase = "create", !.request = Start]
     \/ Lost(t) /\ UNCHANGED <<task, call>>
  /\ UNCHANGED <<live, reader, turns, wire, events, restarts>>

ThreadStarted ==
  /\ call.phase = "create"
  /\ LET t == [task EXCEPT !.thread = TRUE] IN
     /\ task' = t
     /\ \/ Saved(t) /\ call' = [call EXCEPT !.phase = "prepare"]
        \/ Lost(t) /\ call' = NoCall
  /\ live' = [live EXCEPT !.watching = TRUE, !.subscribed = TRUE]
  /\ UNCHANGED <<reader, turns, wire, events, restarts>>

ThreadNotStarted ==
  /\ call.phase = "create"
  /\ \E refused \in BOOLEAN :
       LET t == IF refused
                THEN [task EXCEPT !.status = "failed", !.requests[Start].outcome = "rejected",
                                  !.requests[Start].phase = "settled"]
                ELSE task IN
       task' = t /\ SaveAnyway(t)
  /\ call' = NoCall
  /\ UNCHANGED <<live, reader, turns, wire, events, restarts>>

-----------------------------------------------------------------------------
(* SendWork and sendTask                                                   *)

SendWork(q) ==
  /\ call = NoCall /\ task.thread
  /\ task.requests[q].outcome = "none" /\ task.pending = None /\ Shown(task).status # "unknown"
  /\ call' = [NoCall EXCEPT !.kind = "send", !.phase = "prepare", !.request = q]
  /\ UNCHANGED <<task, disk, live, reader, turns, wire, events, faults, restarts>>

Prepared(q, steer) ==
  LET t == IF steer THEN task ELSE [Supersede(task, task.run) EXCEPT !.run = 0] IN
  [t EXCEPT !.requests[q] = [outcome |-> "unknown", phase |-> "prepared", status |-> task.status, run |-> task.run],
            !.pending = q, !.activity = "", !.status = "unknown"]

(* An active turn is steered; otherwise the last run is superseded.  The   *)
(* intent is saved before anything is sent.                                *)
Prepare ==
  /\ call.phase = "prepare"
  /\ LET q == call.request
         steer == task.status = "working"
         t == Prepared(q, steer) IN
     IF steer /\ live.run \notin Turn
     THEN call' = NoCall /\ UNCHANGED <<task, disk, faults>>
     ELSE \/ /\ Saved(t) /\ task' = t
             /\ call' = [call EXCEPT !.steer = steer, !.run = IF steer THEN live.run ELSE 0,
                                     !.phase = IF steer \/ q = Start THEN "dispatch" ELSE "resume"]
          \/ /\ Lost(t) /\ call' = NoCall
             /\ task' = [task EXCEPT !.activity = "", !.requests[q] = NoReceipt]
  /\ UNCHANGED <<live, reader, turns, wire, events, restarts>>

Settling(answer) == [call EXCEPT !.phase = "settle", !.answer = answer]

Resume ==
  /\ call.phase = "resume"
  /\ \/ /\ live' = [live EXCEPT !.watching = TRUE, !.subscribed = TRUE]
        /\ \/ Saved(task) /\ call' = [call EXCEPT !.phase = "dispatch"]
           \/ Lost(task) /\ call' = Settling("rejected")
     \/ call' = Settling("rejected") /\ UNCHANGED <<live, disk, faults>>
  /\ UNCHANGED <<task, reader, turns, wire, events, restarts>>

(* Only a request whose dispatch is on record is given to the Runtime.     *)
Dispatch ==
  /\ call.phase = "dispatch"
  /\ LET t == [task EXCEPT !.requests[call.request].phase = "dispatching"] IN
     /\ task' = t
     /\ \/ /\ Saved(t) /\ call' = [call EXCEPT !.phase = "waiting"]
           /\ wire' = wire \cup {[request |-> call.request, steer |-> call.steer, run |-> call.run]}
        \/ Lost(t) /\ call' = Settling("rejected") /\ UNCHANGED wire
  /\ UNCHANGED <<live, reader, turns, events, restarts>>

AnswerLost ==
  /\ call.phase = "waiting"
  /\ call' = Settling("lost")
  /\ UNCHANGED <<task, disk, live, reader, turns, wire, events, faults, restarts>>

(* taskSendResult                                                          *)
Settled(t, q, outcome) ==
  [t EXCEPT !.requests[q] = [NoReceipt EXCEPT !.outcome = outcome, !.phase = "settled"], !.pending = None]

Accepted(q, k) ==
  LET t == Settled(task, q, "accepted")
      begun == Observe(t, k, "inProgress", {}, FALSE) IN
  IF t.run \notin {0, k} \cup t.superseded THEN t
  ELSE IF live.ended[k] \in Final /\ begun.run = k /\ begun.status \notin Final
  THEN Observe(begun, k, live.ended[k], {}, FALSE)
  ELSE begun

(* A definite refusal restores what the task was before the request.       *)
Refused(q) ==
  LET r == task.requests[q]
      t == Settled(task, q, IF r.outcome = "accepted" THEN "accepted" ELSE "rejected") IN
  IF t.run \notin {0, r.run} THEN t
  ELSE [t EXCEPT !.run = r.run,
                 !.status = IF r.status = "unknown" /\ r.run = 0 THEN "failed" ELSE r.status,
                 !.superseded = IF r.status \in Final THEN @ \ {r.run} ELSE @]

Settle ==
  /\ call.kind = "send" /\ call.phase = "settle"
  /\ LET t == CASE call.answer = "ok" -> Accepted(call.request, call.run)
                [] call.answer = "rejected" -> Refused(call.request)
                [] call.answer = "lost" -> task
         k == call.run
         begun == call.answer = "ok" /\ task.run \in {0, k} \cup task.superseded
                  /\ k \notin live.terminals /\ t.status \notin Final
         recover == call.answer # "ok" /\ ~live.watching /\ reader = Idle IN
     /\ task' = t /\ SaveAnyway(t)
     /\ live' = [live EXCEPT !.run = IF begun THEN k ELSE @, !.watching = @ \/ call.answer # "ok"]
     /\ reader' = IF recover THEN [Idle EXCEPT !.phase = "reading", !.request = t.pending, !.run = t.run] ELSE reader
  /\ call' = NoCall
  /\ UNCHANGED <<turns, wire, events, restarts>>

-----------------------------------------------------------------------------
(* The native thread                                                       *)

(* The Runtime notifies the connection that started or resumed the thread. *)
Attached == live.subscribed \/ reader.phase = "resumed"

Notify(k, status) ==
  IF Attached THEN events' = Append(events, [turn |-> k, status |-> status]) ELSE UNCHANGED events

Begin(inputs) ==
  /\ ~Busy /\ Len(turns) < MaxTurns /\ Len(events) < MaxLag
  /\ turns' = Append(turns, [status |-> "inProgress", inputs |-> inputs])
  /\ Notify(Len(turns) + 1, "inProgress")

Answer(m, answer, k) ==
  call' = IF call.kind = "send" /\ call.phase = "waiting" /\ call.request = m.request
          THEN [Settling(answer) EXCEPT !.run = IF answer = "ok" THEN k ELSE @] ELSE call

NativeStarts(m) ==
  /\ m \in wire /\ ~m.steer
  /\ Begin({m.request}) /\ Answer(m, "ok", Len(turns) + 1)
  /\ wire' = wire \ {m}
  /\ UNCHANGED <<task, disk, live, reader, faults, restarts>>

NativeSteers(m) ==
  /\ m \in wire /\ m.steer /\ Busy /\ Len(turns) = m.run
  /\ turns' = [turns EXCEPT ![m.run].inputs = @ \cup {m.request}]
  /\ Answer(m, "ok", m.run)
  /\ wire' = wire \ {m}
  /\ UNCHANGED <<task, disk, live, reader, events, faults, restarts>>

NativeRefuses(m) ==
  /\ m \in wire
  /\ Answer(m, "rejected", 0)
  /\ wire' = wire \ {m}
  /\ UNCHANGED <<task, disk, live, reader, turns, events, faults, restarts>>

(* Someone continues the thread from a terminal client.                    *)
Continue ==
  /\ Shared /\ task.thread /\ Begin({})
  /\ UNCHANGED <<task, disk, live, call, reader, wire, faults, restarts>>

EndTurn(how) ==
  /\ Busy /\ Len(events) < MaxLag /\ turns' = [turns EXCEPT ![Len(turns)].status = how]
  /\ Notify(Len(turns), how)

TurnEnds ==
  /\ \E how \in Ends : EndTurn(how)
  /\ UNCHANGED <<task, disk, live, call, reader, wire, faults, restarts>>

-----------------------------------------------------------------------------
(* Native events (childEvent).  A notification may carry the turn's inputs. *)

Handle ==
  /\ events # <<>>
  /\ \E inputs \in {{}, turns[Head(events).turn].inputs} :
       LET k == Head(events).turn
           status == Head(events).status
           t == Observe(task, k, status, inputs, FALSE) IN
       /\ task' = t
       /\ IF t = task THEN UNCHANGED <<disk, faults>> ELSE SaveAnyway(t)
       /\ live' = [live EXCEPT
            !.ended = Ended(k, status),
            !.run = IF status = "inProgress" /\ k \notin live.terminals \cup t.superseded THEN k
                    ELSE IF status \in Final /\ @ \in {0, k} THEN Absent ELSE @,
            !.terminals = IF status \in Final THEN @ \cup {k} ELSE @]
  /\ events' = Tail(events)
  /\ call' = IF call.kind = "read" THEN [NoCall EXCEPT !.kind = "read", !.phase = "fenced"] ELSE call
  /\ reader' = CASE reader.phase \in {"reading", "read"} -> [Idle EXCEPT !.phase = "fenced"]
                 [] reader.phase \in {"resuming", "resumed"} -> [reader EXCEPT !.stale = TRUE, !.snapshot = NoSnapshot]
                 [] OTHER -> reader
  /\ UNCHANGED <<turns, wire, restarts>>

-----------------------------------------------------------------------------
(* ReadWork                                                                *)

(* What a read of an idle thread says of a task believed to be working.    *)
Quiet(t, s) ==
  IF s.status = "inProgress" THEN [t EXCEPT !.activity = "active"]
  ELSE [t EXCEPT !.activity = "idle", !.status = IF @ = "working" THEN "unknown" ELSE @]

ReadWork ==
  /\ call = NoCall /\ task.thread
  /\ call' = [NoCall EXCEPT !.kind = "read", !.phase = "reading", !.request = task.pending, !.run = task.run]
  /\ UNCHANGED <<task, disk, live, reader, turns, wire, events, faults, restarts>>

ReadAnswered ==
  /\ call.phase = "reading"
  /\ call' = [call EXCEPT !.phase = "read", !.snapshot = Latest]
  /\ UNCHANGED <<task, disk, live, reader, turns, wire, events, faults, restarts>>

(* An answer, or a failure, counts only if no notification was handled and *)
(* the task did not change since the read began.                           *)
Current(read) == task.pending = read.request /\ task.run = read.run

ReadFailed ==
  /\ call.phase \in {"reading", "fenced"} /\ call.kind = "read"
  /\ task' = IF call.phase = "reading" /\ Current(call) THEN [task EXCEPT !.activity = ""] ELSE task
  /\ call' = NoCall
  /\ UNCHANGED <<disk, live, reader, turns, wire, events, faults, restarts>>

ReadDone ==
  /\ call.phase = "read"
  /\ call' = NoCall
  /\ LET s == call.snapshot
         t == Quiet(ObserveLatest(task, s), s) IN
     IF ~Current(call)
     THEN UNCHANGED <<task, disk, live, faults>>
     ELSE /\ task' = t /\ SaveAnyway(t)
          /\ live' = [live EXCEPT !.ended = EndedIn(s), !.failed = FALSE,
                                  !.run = IF s.status = "inProgress" THEN @ ELSE Absent]
  /\ UNCHANGED <<reader, turns, wire, events, restarts>>

-----------------------------------------------------------------------------
(* Recovery (recoverUnresolvedChildren, recoverChild, watchChild)          *)

Recover ==
  /\ reader = Idle /\ task.thread /\ ~live.watching /\ ~live.failed /\ task.activity # "idle"
  /\ ~(task.status \in Final /\ task.pending = None /\ ~HasUnknown(task))
  /\ live' = [live EXCEPT !.watching = TRUE]
  /\ reader' = [Idle EXCEPT !.phase = "reading", !.request = task.pending, !.run = task.run]
  /\ UNCHANGED <<task, disk, call, turns, wire, events, faults, restarts>>

(* RetryObservations, on the host's explicit request.                      *)
RetryObservations ==
  /\ live.failed
  /\ live' = [live EXCEPT !.failed = FALSE]
  /\ UNCHANGED <<task, disk, call, reader, turns, wire, events, faults, restarts>>

RecoverAnswered ==
  /\ reader.phase = "reading"
  /\ reader' = [reader EXCEPT !.phase = "read", !.snapshot = Latest]
  /\ UNCHANGED <<task, disk, live, call, turns, wire, events, faults, restarts>>

Terminals(s) == IF s.status \in Final THEN live.terminals \cup {s.run} ELSE live.terminals

RecoverDropped ==
  /\ reader.phase = "fenced" \/ (reader.phase \in {"reading", "read"} /\ ~Current(reader))
  /\ live' = [live EXCEPT !.watching = FALSE]
  /\ reader' = Idle
  /\ UNCHANGED <<task, disk, call, turns, wire, events, faults, restarts>>

RecoverFailed ==
  /\ reader.phase = "reading" /\ Current(reader)
  /\ LET t == [task EXCEPT !.activity = ""] IN task' = t /\ SaveAnyway(t)
  /\ live' = [live EXCEPT !.watching = FALSE, !.failed = TRUE]
  /\ reader' = Idle
  /\ UNCHANGED <<call, turns, wire, events, restarts>>

RecoverDone ==
  /\ reader.phase = "read" /\ Current(reader)
  /\ LET s == reader.snapshot
         t == Quiet(ObserveLatest(task, s), s)
         active == s.status = "inProgress"
         subscribe == active /\ ~live.subscribed IN
     /\ task' = t /\ SaveAnyway(t)
     /\ live' = [live EXCEPT
          !.ended = EndedIn(s), !.terminals = Terminals(s), !.failed = FALSE,
          !.watching = live.subscribed \/ active,
          !.run = IF ~active THEN Absent
                  ELSE IF s.run \notin t.superseded THEN s.run
                  ELSE IF @ = Absent THEN 0 ELSE @]
     /\ reader' = IF subscribe THEN [Idle EXCEPT !.phase = "resuming"] ELSE Idle
  /\ UNCHANGED <<call, turns, wire, events, restarts>>

WatchAnswered ==
  /\ reader.phase = "resuming"
  /\ reader' = [reader EXCEPT !.phase = "resumed", !.snapshot = IF reader.stale THEN NoSnapshot ELSE Latest]
  /\ UNCHANGED <<task, disk, live, call, turns, wire, events, faults, restarts>>

WatchFailed ==
  /\ reader.phase = "resuming"
  /\ LET t == [task EXCEPT !.status = "unknown"] IN task' = t /\ SaveAnyway(t)
  /\ live' = [live EXCEPT !.watching = FALSE, !.failed = TRUE]
  /\ reader' = Idle
  /\ UNCHANGED <<call, turns, wire, events, restarts>>

(* Live notifications that arrived meanwhile supersede the snapshot.       *)
WatchAgain ==
  /\ reader.phase = "resumed" /\ reader.stale
  /\ live' = [live EXCEPT !.subscribed = TRUE, !.failed = FALSE]
  /\ reader' = [Idle EXCEPT !.phase = "reading", !.request = task.pending, !.run = task.run]
  /\ UNCHANGED <<task, disk, call, turns, wire, events, faults, restarts>>

WatchDone ==
  /\ reader.phase = "resumed" /\ ~reader.stale
  /\ LET s == reader.snapshot
         seen == ObserveLatest(task, s)
         active == s.status = "inProgress"
         t == IF ~active /\ seen.status = "working" THEN [seen EXCEPT !.status = "unknown"] ELSE seen IN
     /\ task' = t /\ SaveAnyway(t)
     /\ live' = [live EXCEPT
          !.ended = EndedIn(s), !.terminals = Terminals(s), !.subscribed = TRUE, !.failed = FALSE,
          !.run = IF ~active THEN Absent
                  ELSE IF s.run \notin live.terminals \cup t.superseded THEN s.run ELSE 0]
  /\ reader' = Idle
  /\ UNCHANGED <<call, turns, wire, events, restarts>>

(* retireChild, after a quiet period; its read and unsubscription are one step. *)
Retire ==
  /\ call = NoCall /\ live.subscribed /\ live.run = Absent /\ ~Busy /\ events = <<>>
  /\ \/ task.activity = "idle"
     \/ /\ task.pending = None /\ ~HasUnknown(task) /\ task.status \in Final
        /\ task.run = Len(turns) /\ task.run # 0
  /\ live' = [live EXCEPT !.subscribed = FALSE, !.watching = FALSE]
  /\ UNCHANGED <<task, disk, call, reader, turns, wire, events, faults, restarts>>

-----------------------------------------------------------------------------
(* StopWorkRequest for the execution that is shown                         *)

StopWork ==
  /\ Cardinality({k \in Run : task.stops[k] # "none"}) < MaxStops
  /\ call = NoCall /\ task.thread /\ task.stops[task.run] = "none" /\ live.run \in Turn
  /\ LET t == [task EXCEPT !.stops[task.run] = "unknown"] IN
     \/ /\ Saved(t) /\ task' = t
        /\ call' = [NoCall EXCEPT !.kind = "stop", !.phase = "waiting", !.run = live.run, !.key = task.run]
     \/ Lost(t) /\ UNCHANGED <<task, call>>
  /\ UNCHANGED <<live, reader, turns, wire, events, restarts>>

Interrupt ==
  /\ call.kind = "stop" /\ call.phase = "waiting"
  /\ IF Busy /\ Len(turns) = call.run
     THEN EndTurn("interrupted") /\ \E a \in {"ok", "lost"} : call' = Settling(a)
     ELSE call' = Settling("rejected") /\ UNCHANGED <<turns, events>>
  /\ UNCHANGED <<task, disk, live, reader, wire, faults, restarts>>

StopDoneAnyway ==                                               \* mutant
  /\ call.kind = "stop" /\ call.phase = "settle"
  /\ LET t == [task EXCEPT !.stops[call.key] = "accepted"] IN Saved(t) /\ task' = t
  /\ call' = NoCall
  /\ UNCHANGED <<live, reader, turns, wire, events, restarts>>
StopDone ==
  /\ call.kind = "stop" /\ call.phase = "settle"
  /\ LET t == [task EXCEPT !.stops[call.key] = CASE call.answer = "ok" -> "accepted"
                                                [] call.answer = "rejected" -> "rejected"
                                                [] call.answer = "lost" -> "unknown"] IN
     \/ Saved(t) /\ task' = t
     \/ Lost(t) /\ UNCHANGED task
  /\ call' = NoCall
  /\ UNCHANGED <<live, reader, turns, wire, events, restarts>>

-----------------------------------------------------------------------------
(* Restarts and reconnections: what was on the wire may still arrive.      *)

(* settlePreparedTask: an intent that was never admitted is settled unsent. *)
SettleForgotten(t) ==                                           \* mutant
  IF t.pending = None THEN t
  ELSE [t EXCEPT !.requests[t.pending] = NoReceipt, !.pending = None, !.status = t.requests[t.pending].status]
SettleUnsent(t) ==                                              \* mutant
  LET q == t.pending IN
  IF q = None \/ t.requests[q].outcome # "unknown" THEN t
  ELSE LET r == t.requests[q] IN
       [Settled(t, q, "rejected") EXCEPT !.run = r.run, !.status = r.status, !.superseded = @ \ {r.run}]
SettlePrepared(t) ==
  LET q == t.pending IN
  IF q = None \/ t.requests[q].phase # "prepared" \/ t.requests[q].outcome # "unknown" THEN t
  ELSE LET r == t.requests[q] IN
       [Settled(t, q, "rejected") EXCEPT !.run = r.run, !.status = r.status, !.superseded = @ \ {r.run}]

Forget ==
  /\ restarts < MaxRestarts /\ restarts' = restarts + 1
  /\ live' = NewLive /\ reader' = Idle /\ events' = <<>> /\ wire' \in SUBSET wire
  /\ UNCHANGED turns

Restart ==
  /\ Forget
  /\ task' = SettlePrepared(disk) /\ call' = NoCall
  /\ UNCHANGED <<disk, faults>>

Reconnect ==
  /\ Forget
  /\ task' = [task EXCEPT !.activity = ""]
  /\ call' = CASE call.kind = "read" -> NoCall
               [] call.phase = "waiting" -> Settling("lost")
               [] call.phase \in {"resume", "dispatch"} -> Settling("rejected")
               [] OTHER -> call
  /\ UNCHANGED <<disk, faults>>

Init ==
  /\ task = NoTask /\ disk = NoTask /\ live = NewLive /\ call = NoCall /\ reader = Idle
  /\ turns = <<>> /\ wire = {} /\ events = <<>> /\ faults = 0 /\ restarts = 0

Progress ==
  \/ ThreadStarted \/ ThreadNotStarted \/ Prepare \/ Resume \/ Dispatch \/ AnswerLost \/ Settle
  \/ ReadAnswered \/ ReadFailed \/ ReadDone \/ Interrupt \/ StopDone

Recovery ==
  \/ Recover \/ RecoverAnswered \/ RecoverDropped \/ RecoverFailed \/ RecoverDone
  \/ WatchAnswered \/ WatchFailed \/ WatchAgain \/ WatchDone

Native ==
  \/ \E m \in wire : NativeStarts(m) \/ NativeSteers(m) \/ NativeRefuses(m)
  \/ Continue \/ TurnEnds

Next ==
  \/ StartWork \/ (\E q \in Sends : SendWork(q)) \/ ReadWork \/ StopWork
  \/ Progress \/ Recovery \/ RetryObservations \/ Retire \/ Native \/ Handle
  \/ Restart \/ Reconnect

Spec == Init /\ [][Next]_vars

(* Calls return, the event loop and the supervisor go on, requests on the  *)
(* wire are answered, and the task is read again and again.                *)
FairSpec ==
  /\ Spec
  /\ WF_vars(Progress) /\ WF_vars(Recovery) /\ WF_vars(Handle)
  /\ SF_vars(ReadWork) /\ SF_vars(ReadAnswered)

-----------------------------------------------------------------------------
(* Properties                                                              *)

Receipt == [outcome : Outcome \cup {"none"}, phase : {"none", "creating", "prepared", "dispatching", "settled"},
            status : Status, run : Run]
Record == [thread : BOOLEAN, run : Run, status : Status, pending : Request \cup {None},
           superseded : SUBSET Turn, activity : {"", "active", "idle"},
           requests : [Request -> Receipt], stops : [Run -> Outcome \cup {"none"}]]

(* The record, in memory and in the file, always has the declared shape, a *)
(* pending request has a receipt, and the thread never runs two turns.     *)
TypeOK ==
  /\ task \in Record /\ disk \in Record
  /\ live.run \in Run \cup {Absent} /\ live.terminals \subseteq Turn
  /\ task.pending # None => task.requests[task.pending].outcome = "unknown"
  /\ \A k \in 1..Len(turns) : turns[k].status = "inProgress" => k = Len(turns)

Carries(q) == {k \in 1..Len(turns) : q \in turns[k].inputs}

(* A request reaches the native thread at most once, over failed saves,    *)
(* lost answers, restarts and retries with the same id (sendTask).         *)
DispatchedOnce == \A q \in Request : Cardinality(Carries(q)) <= 1

(* A receipt is true: what is settled as rejected never reached a turn and *)
(* will not, what is settled as accepted did (taskSendResult,              *)
(* settlePreparedTask).                                                    *)
ReceiptsTrue ==
  \A q \in Request :
    /\ task.requests[q].outcome = "rejected" => Carries(q) = {} /\ \A m \in wire : m.request # q
    /\ task.requests[q].outcome = "accepted" => Carries(q) # {}

(***************************************************************************)
(* Why DispatchedOnce and ReceiptsTrue hold, as an inductive invariant:    *)
(* what the record says of each request in memory and in the file, of the  *)
(* call that sends one, and of what was read.                              *)
(***************************************************************************)
Sent(q) == \E m \in wire : m.request = q
Honest(t) == \A q \in Request :
  LET r == t.requests[q] IN
  /\ Sent(q) \/ Carries(q) # {} => r.outcome \in {"unknown", "accepted"} /\ r.phase \in {"dispatching", "settled"}
  /\ r.outcome = "accepted" => Carries(q) # {}
  /\ t.pending = q => r.outcome = "unknown"
  /\ ~t.thread /\ q # Start => r.outcome = "none"

Wired ==
  /\ \A m, n \in wire : m.request = n.request => m = n
  /\ \A m \in wire : Carries(m.request) = {}
  /\ \A q \in Request : \A j, k \in Carries(q) : j = k

Unsent(q) == ~Sent(q) /\ Carries(q) = {}
Calling == call.kind = "send" =>
  LET q == call.request IN
  /\ q \in Request /\ (q # Start => task.thread)
  /\ call.phase \in {"create", "prepare", "resume", "dispatch"} => Unsent(q)
  /\ call.phase = "create" => q = Start /\ task.pending = None
  /\ call.phase = "prepare" => task.pending = None /\ task.thread
  /\ call.phase \in {"resume", "dispatch"} => task.requests[q].outcome = "unknown" /\ task.thread
  /\ call.phase = "settle" /\ call.answer = "rejected" => Unsent(q)
  /\ call.phase = "settle" /\ call.answer = "ok" => Carries(q) # {} /\ call.run \in Turn

Read == \A q \in call.snapshot.inputs \cup reader.snapshot.inputs : Carries(q) # {}

Inv == Honest(task) /\ Honest(disk) /\ Wired /\ Calling /\ Read

(* A terminal status is only shown of a turn that ended that way           *)
(* (observeTaskTurn, taskSendResult's restoration).                        *)
TerminalTrue ==
  Shown(task).status \in Final /\ task.run # 0 => turns[task.run].status = Shown(task).status

(* A stop that is acknowledged for an execution interrupted that turn and  *)
(* no later one (StopWorkRequest; tasks/worker_service.go:27-28: "a late   *)
(* old request cannot stop the later turn").                               *)
StopsItsTurn == \A k \in Turn : task.stops[k] = "accepted" => turns[k].status = "interrupted"

(***************************************************************************)
(* Why TerminalTrue holds: every copy of an end, in the record, in what a  *)
(* receipt keeps of the time before its request, in a notification or in a *)
(* read, is the end of that turn; and a task that is being created has no  *)
(* turns.                                                                  *)
(***************************************************************************)
Was(k, status) == k <= Len(turns) /\ (k # 0 /\ status \in Final => turns[k].status = status)
Faithful(t) == Was(t.run, t.status) /\ \A q \in Request : Was(t.requests[q].run, t.requests[q].status)
Witnessed ==
  /\ \A i \in 1..Len(events) : Was(events[i].turn, events[i].status)
  /\ \A k \in Turn : live.ended[k] # "none" => Was(k, live.ended[k])
  /\ Was(call.snapshot.run, call.snapshot.status) /\ Was(reader.snapshot.run, reader.snapshot.status)
  /\ call.kind = "send" /\ call.phase = "settle" /\ call.answer = "ok" => call.run \in Carries(call.request)
  /\ live.run \in Turn => live.run <= Len(turns)
Made(t) == t.thread \/ t.requests[Start].outcome # "none"
Born ==
  /\ turns # <<>> \/ call.kind = "send" => Made(task)
  /\ Made(task) => Made(disk)
  /\ call.phase = "create" => ~task.thread /\ turns = <<>>
Shows == Faithful(task) /\ Faithful(disk) /\ Witnessed /\ Born

(***************************************************************************)
(* Why StopsItsTurn holds when nobody else continues the thread: the task  *)
(* is at the last turn or at none, a new turn only begins once all others  *)
(* are superseded in memory and in the file, and so a stop that reaches    *)
(* the running turn was about it.  What a refusal, or a restart, restores  *)
(* from a receipt is the last turn again.                                  *)
(***************************************************************************)
Past(t, k) == k = t.run \/ k \in t.superseded
Clear(t) == t.run = 0 /\ \A k \in 1..Len(turns) : k \in t.superseded
Open(t, q) == t.requests[q].outcome = "unknown"
Placed(t) ==
  /\ t.run \in {0, Len(turns)}
  /\ \A k \in 1..Len(turns) : /\ k < Len(turns) => k \in t.superseded
                              /\ Past(t, k) \/ \E q \in turns[k].inputs : Open(t, q)
  /\ (\E m \in wire : ~m.steer) => Clear(t)
Remembered(t, q) ==
  LET r == t.requests[q] IN
  /\ Carries(q) = {} /\ r.run # 0 => Open(t, q) /\ r.run = Len(turns)
  /\ Open(t, q) /\ r.phase = "prepared" => Clear(t) \/ (t.run # 0 /\ t.run = r.run)
  /\ r.status = "working" => r.run # 0
Resumable(t) ==
  /\ \A p, q \in Request : Open(t, p) /\ Open(t, q) => p = q
  /\ \A q \in Request : Remembered(t, q)
  /\ t.status = "working" => t.run # 0
Stopped(t) == \A k \in Turn : t.stops[k] = "accepted" => k <= Len(turns) /\ turns[k].status = "interrupted"
Mine(t) == Placed(t) /\ Resumable(t) /\ Stopped(t)

Starting ==
  /\ call.phase = "prepare" => \A p \in Request : Open(task, p) => p = call.request
  /\ call.phase \in {"resume", "dispatch"} /\ ~call.steer => Clear(task)
Noted == \A k \in live.terminals : k <= Len(turns) /\ Past(task, k)
Stopping == call.kind = "stop" =>
  /\ call.run <= Len(turns)
  /\ call.phase = "waiting" /\ call.run = Len(turns) => call.key \in {0, Len(turns)}
  /\ call.phase = "settle" /\ call.answer = "ok" /\ call.key # 0 =>
       call.key <= Len(turns) /\ turns[call.key].status = "interrupted"
Looking == \A s \in {call.snapshot, reader.snapshot} : \A q \in s.inputs : s.run \in Carries(q)
Owns == Mine(task) /\ Mine(disk) /\ Starting /\ Noted /\ Stopping /\ Looking

(* If the task is read again and again, the end of the thread's last turn  *)
(* is shown, unless a request is unresolved, or was refused after it had   *)
(* superseded that turn, or another client has begun a turn there, which a *)
(* read does not attribute to the task (observeLatestTaskTurn,             *)
(* taskSendResult).                                                        *)
EndShown ==
  (task.thread /\ turns # <<>> /\ ~Busy)
    ~> \/ Busy \/ HasUnknown(task) \/ Len(turns) \in task.superseded
       \/ \E k \in 1..Len(turns) : turns[k].inputs = {}
       \/ Shown(task).run = Len(turns) /\ Shown(task).status = Latest.status

(* docs/architecture.md:717: "Early terminal events win over late          *)
(* responses": once a turn's end was handled and nothing is pending, the   *)
(* task is not shown as working on it (taskSendResult).                    *)
EarlyTerminalWins ==
  task.pending = None /\ task.run \in live.terminals => task.status # "working"
=============================================================================
