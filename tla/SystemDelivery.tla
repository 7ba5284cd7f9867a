--------------------------- MODULE SystemDelivery ---------------------------
(***************************************************************************)
(* The resident's delivery log, internal/bot/system_delivery.go, between   *)
(* the producers of system messages and the native Runtime adapters.       *)
(*                                                                         *)
(* One submission runs at a time (r.step); receipts are read concurrently. *)
(* Every step below is what the code does under one hold of the log's      *)
(* mutex d.mu, or one call of the adapter, which is made without it.       *)
(* `mem' is the log of the resident in service and `disk' its file;        *)
(* starting, restarting and switching Runtime load the file.               *)
(* Operators marked `mutant' are wrong variants of the operator that       *)
(* follows them, to see that the properties can fail.                      *)
(*                                                                         *)
(* Abstractions: a body and its metadata are a member of Content, which is *)
(* its own fingerprint; pausing, a busy conversation and the other         *)
(* admission gates are one nondeterministic refusal.  A write that failed  *)
(* may have reached the disk.  The adapters (backend/codex, backend/caelis)*)
(* are modelled from how the log uses them.                                *)
(***************************************************************************)
EXTENDS Naturals, FiniteSets

CONSTANTS
  Message,      \* original message ids
  Content,      \* bodies
  Provider,     \* Runtimes that can be selected
  Nobody,       \* no recorded owner, no recorded fingerprint
  Reader,       \* concurrent readers of receipts
  Submitter,    \* the process that holds r.step
  Legacy,       \* messages whose producer delivered them before the log
  LegacyOutcome,\* what that producer knows of them
  MaxFaults, MaxRestarts, MaxDeferrals  \* bounds

Terminal == {"accepted", "rejected"}
Outcome == {"none", "unknown"} \cup Terminal
NativeState == {"none", "open"} \cup Terminal
Reading == Reader \cup {Submitter}
Owner == Provider \cup {Nobody}
Fingerprint == Content \cup {Nobody}
Record == [outcome : Outcome, owner : Owner, content : Fingerprint]
Log == [Message -> Record]

ASSUME Bounds == MaxFaults \in Nat /\ MaxRestarts \in Nat /\ MaxDeferrals \in Nat
ASSUME Names ==
  /\ Nobody \notin Provider \cup Content /\ Submitter \notin Reader
  /\ Legacy \subseteq Message /\ LegacyOutcome \in [Legacy -> {"accepted", "unknown"}]

VARIABLES
  mem,      \* systemDeliveryLog.state of the resident in service
  disk,     \* system-deliveries.json
  stale,    \* the log of the resident that was replaced last
  provider, \* the selected Runtime
  reading,  \* SystemReceipt in progress, per process
  sub,      \* SubmitSystem in progress
  native,   \* the operation of each message at each Runtime
  given,    \* operations created for each message
  body,     \* the content of the operation created last
  told,     \* terminal receipts that were returned for each message
  faults, restarts, deferrals

vars == <<mem, disk, stale, provider, reading, sub, native, given, body, told,
          faults, restarts, deferrals>>
counters == <<restarts, deferrals>>
world == <<native, given, body>>

Absent == [outcome |-> "none", owner |-> Nobody, content |-> Nobody]
NotReading == [at |-> "idle", msg |-> Nobody, from |-> Nobody, seen |-> "unknown", old |-> FALSE]
NotSubmitting == [at |-> "idle", msg |-> Nobody, content |-> Nobody, answer |-> "unknown"]

(* An earlier delivery went to one Runtime, with any outcome unless its    *)
(* producer knows that it was accepted.                                    *)
Init ==
  /\ mem = [m \in Message |-> Absent] /\ disk = mem /\ stale = mem
  /\ provider \in Provider
  /\ reading = [x \in Reading |-> NotReading] /\ sub = NotSubmitting
  /\ native \in [Provider -> [Message -> NativeState]]
  /\ \A m \in Message : \A p, q \in Provider :
       native[p][m] # "none" => m \in Legacy /\ (native[q][m] # "none" => p = q)
  /\ \A m \in Legacy : LegacyOutcome[m] = "accepted" => \E p \in Provider : native[p][m] = "accepted"
  /\ given = [m \in Message |-> IF \E p \in Provider : native[p][m] # "none" THEN 1 ELSE 0]
  /\ body = [m \in Message |-> Nobody]
  /\ told = [m \in Message |-> {}]
  /\ faults = 0 /\ restarts = 0 /\ deferrals = 0

(***************************************************************************)
(* localstate.Write of the log `before' with ledger s: success, or failure *)
(* after which memory holds what it held.                                  *)
(***************************************************************************)
Saved(s) == mem' = s /\ disk' = s /\ UNCHANGED faults
UnsavedAdvances(s) ==                                           \* mutant
  /\ faults < MaxFaults /\ faults' = faults + 1
  /\ disk' \in {disk, s} /\ mem' = s
Unsaved(s) ==
  /\ faults < MaxFaults /\ faults' = faults + 1
  /\ disk' \in {disk, s} /\ UNCHANGED mem

(* What was returned, and for which content: producers name theirs.        *)
Tell(m, c, outcome) ==
  told' = [told EXCEPT ![m] = @ \cup {<<c, o>> : o \in {outcome} \cap Terminal}]
For(x) == IF x = Submitter THEN sub.content ELSE Nobody

(***************************************************************************)
(* SystemReceipt.  The log is read, ...                                    *)
(***************************************************************************)
ReadSettled(m) ==
  /\ mem[m].outcome \in Terminal
  /\ Tell(m, Nobody, mem[m].outcome)
  /\ UNCHANGED <<mem, disk, stale, provider, reading, sub, world, faults, counters>>

(* Another Runtime's uncertain operation cannot be reconciled here.        *)
ReadableOwned(m) == mem[m].outcome \notin Terminal /\ mem[m].owner = provider  \* mutant
Readable(m) == mem[m].outcome \notin Terminal /\ mem[m].owner \in {Nobody, provider}
StartRead(x, m) ==
  /\ reading[x].at = "idle" /\ Readable(m)
  /\ reading' = [reading EXCEPT ![x] =
                   [at |-> "native", msg |-> m, from |-> provider, seen |-> "unknown", old |-> FALSE]]

ReadStart(x, m) ==
  /\ x \in Reader /\ StartRead(x, m)
  /\ UNCHANGED <<mem, disk, stale, provider, sub, world, told, faults, counters>>

(* ... then the adapter is asked ...                                       *)
Ask(x) ==
  /\ reading[x].at = "native"
  /\ LET seen == native[reading[x].from][reading[x].msg]
     IN  reading' = [reading EXCEPT ![x] =
           IF seen \in Terminal THEN [@ EXCEPT !.at = "recheck", !.seen = seen] ELSE NotReading]
  /\ UNCHANGED <<mem, disk, stale, provider, sub, world, told, faults, counters>>

(* ... and a terminal proof is saved, unless another one came first.       *)
Recheck(x) ==
  /\ reading[x].at = "recheck" /\ ~reading[x].old
  /\ reading' = [reading EXCEPT ![x] = NotReading]
  /\ LET m == reading[x].msg
         s == [mem EXCEPT ![m].outcome = reading[x].seen]
     IN  \/ /\ mem[m].outcome \in Terminal /\ Tell(m, For(x), mem[m].outcome)
            /\ UNCHANGED <<mem, disk, faults>>
         \/ mem[m].outcome \notin Terminal /\ Saved(s) /\ Tell(m, For(x), reading[x].seen)
         \/ mem[m].outcome \notin Terminal /\ Unsaved(s) /\ UNCHANGED told
  /\ UNCHANGED <<stale, provider, sub, world, counters>>

(***************************************************************************)
(* SubmitSystem.  A known message returns its receipt, read as above; a    *)
(* reused id with another content is refused.  A record that was imported   *)
(* has no fingerprint, and gives its receipt to any content.  Nothing is   *)
(* submitted for a message of Legacy before its record is there: the log   *)
(* takes in the old notices of interactions before it opens or refuses all *)
(* work, and the producer of task reports never submits an old one again.  *)
(***************************************************************************)
BoundAny(m, c) == TRUE                                          \* mutant
Bound(m, c) == mem[m].content \in {Nobody, c}
Begin(m, c) ==
  /\ sub.at = "idle" /\ (m \in Legacy => mem[m].outcome # "none")
  /\ Bound(m, c)
  /\ \/ /\ mem[m].outcome \in Terminal /\ Tell(m, c, mem[m].outcome)
        /\ UNCHANGED <<reading, sub>>
     \/ /\ StartRead(Submitter, m)
        /\ sub' = [at |-> "reconcile", msg |-> m, content |-> c, answer |-> "unknown"]
        /\ UNCHANGED told
  /\ UNCHANGED <<mem, disk, stale, provider, world, faults, counters>>

(* A retained identity, or closed admission.                               *)
Reconciled == sub.at = "reconcile" /\ reading[Submitter].at = "idle"
NotAdmitted ==
  /\ Reconciled
  /\ sub' = NotSubmitting
  /\ UNCHANGED <<mem, disk, stale, provider, reading, world, told, faults, counters>>

(* The unknown fence is on disk before the Runtime hears of the message.   *)
Fence ==
  /\ Reconciled /\ mem[sub.msg].outcome = "none"
  /\ LET s == [mem EXCEPT ![sub.msg] =
                 [outcome |-> "unknown", owner |-> provider, content |-> sub.content]]
     IN  \/ Saved(s) /\ sub' = [sub EXCEPT !.at = "dispatch"]
         \/ Unsaved(s) /\ sub' = NotSubmitting
  /\ UNCHANGED <<stale, provider, reading, world, told, counters>>

(***************************************************************************)
(* The adapter's SubmitSystem, without d.mu.  It proves that nothing was   *)
(* created, refuses for good, ...                                          *)
(***************************************************************************)
Here == native[provider][sub.msg]
Answer(a) == sub' = [sub EXCEPT !.at = "settle", !.answer = a]

NativeDefers ==
  /\ sub.at = "dispatch" /\ Here = "none" /\ deferrals < MaxDeferrals
  /\ deferrals' = deferrals + 1 /\ Answer("deferred")
  /\ UNCHANGED <<mem, disk, stale, provider, reading, world, told, faults, restarts>>
NativeRefuses ==
  /\ sub.at = "dispatch" /\ Here = "none"
  /\ Answer("rejected")
  /\ UNCHANGED <<mem, disk, stale, provider, reading, world, told, faults, counters>>

(* ... or creates one.  The log is the fence: an adapter that only marked  *)
(* the input for presentation may create it again.                         *)
NativeCreates ==
  /\ sub.at = "dispatch" /\ Here \in {"none", "open"}
  /\ native' = [native EXCEPT ![provider][sub.msg] = "open"]
  /\ given' = [given EXCEPT ![sub.msg] = @ + 1]
  /\ body' = [body EXCEPT ![sub.msg] = sub.content]
  /\ sub' = [sub EXCEPT !.at = "flight"]
  /\ UNCHANGED <<mem, disk, stale, provider, reading, told, faults, counters>>

(* Native events settle an operation at any time; the call's own answer    *)
(* can be lost or unintelligible all the same.                             *)
NativeSettles(p, m, outcome) ==
  /\ native[p][m] = "open"
  /\ native' = [native EXCEPT ![p][m] = outcome]
  /\ UNCHANGED <<mem, disk, stale, provider, reading, sub, given, body, told, faults, counters>>
NativeReturns ==
  /\ sub.at = "flight"
  /\ \E a \in {"unknown", "mismatch"} \cup ({Here} \cap Terminal) : Answer(a)
  /\ UNCHANGED <<mem, disk, stale, provider, reading, world, told, faults, counters>>

(***************************************************************************)
(* What SubmitSystem does with the answer, under d.mu again.  A terminal   *)
(* proof that a reader saved meanwhile survives it.                        *)
(***************************************************************************)
Settling == sub.at = "settle" /\ sub' = NotSubmitting
MeanwhileNever == FALSE                                         \* mutant
Meanwhile == mem[sub.msg].outcome # "unknown"

SettledMeanwhile ==
  /\ Settling /\ Meanwhile
  /\ Tell(sub.msg, sub.content, mem[sub.msg].outcome)
  /\ UNCHANGED <<mem, disk, stale, provider, reading, world, faults, counters>>
Mismatched ==
  /\ Settling /\ ~Meanwhile /\ sub.answer = "mismatch"
  /\ UNCHANGED <<mem, disk, stale, provider, reading, world, told, faults, counters>>
ReleaseUnknown ==                                               \* mutant
  /\ Settling /\ ~Meanwhile /\ sub.answer \in {"deferred", "unknown"}
  /\ LET s == [mem EXCEPT ![sub.msg] = Absent] IN Saved(s) \/ Unsaved(s)
  /\ UNCHANGED <<stale, provider, reading, world, told, counters>>
Release ==
  /\ Settling /\ ~Meanwhile /\ sub.answer = "deferred"
  /\ LET s == [mem EXCEPT ![sub.msg] = Absent] IN Saved(s) \/ Unsaved(s)
  /\ UNCHANGED <<stale, provider, reading, world, told, counters>>
ConcludeAnything ==                                             \* mutant
  /\ Settling /\ ~Meanwhile
  /\ Saved([mem EXCEPT ![sub.msg].outcome = sub.answer]) /\ Tell(sub.msg, sub.content, sub.answer)
  /\ UNCHANGED <<stale, provider, reading, world, counters>>
ConcludeOptimist ==                                             \* mutant
  /\ Settling /\ ~Meanwhile /\ sub.answer \in {"unknown", "accepted"}
  /\ Saved([mem EXCEPT ![sub.msg].outcome = "accepted"]) /\ Tell(sub.msg, sub.content, "accepted")
  /\ UNCHANGED <<stale, provider, reading, world, counters>>
Conclude ==
  /\ Settling /\ ~Meanwhile /\ sub.answer \in {"unknown"} \cup Terminal
  /\ LET s == [mem EXCEPT ![sub.msg].outcome = sub.answer]
     IN  \/ Saved(s) /\ Tell(sub.msg, sub.content, sub.answer)
         \/ Unsaved(s) /\ UNCHANGED told
  /\ UNCHANGED <<stale, provider, reading, world, counters>>

(***************************************************************************)
(* ImportSystemReceipts, one of the producers' old proofs.                 *)
(***************************************************************************)
Import(m) ==
  /\ mem[m].outcome = "none"
  /\ LET s == [mem EXCEPT ![m].outcome = LegacyOutcome[m]] IN Saved(s) \/ Unsaved(s)
  /\ UNCHANGED <<stale, provider, reading, sub, world, told, counters>>

(***************************************************************************)
(* A restart loses the memory; another Runtime is selected only between    *)
(* submissions (PauseIfIdle holds r.step).                                 *)
(***************************************************************************)
Restart ==
  /\ restarts < MaxRestarts /\ restarts' = restarts + 1
  /\ mem' = disk
  /\ reading' = [x \in Reading |-> NotReading] /\ sub' = NotSubmitting
  /\ UNCHANGED <<disk, stale, provider, world, told, faults, deferrals>>

ToRuntime(p) ==
  /\ restarts < MaxRestarts /\ restarts' = restarts + 1
  /\ p # provider /\ sub.at = "idle"
  /\ mem' = disk /\ provider' = p
  /\ UNCHANGED <<disk, sub, world, told, faults, deferrals>>
Switch(p) ==
  /\ ToRuntime(p)
  /\ \A x \in Reading : reading[x].at = "idle"
  /\ UNCHANGED <<stale, reading>>

Receipts ==
  \/ \E x \in Reading : Ask(x) \/ Recheck(x)
  \/ \E m \in Message : ReadSettled(m)
  \/ \E x \in Reader, m \in Message : ReadStart(x, m)
Submission ==
  \/ \E m \in Message, c \in Content : Begin(m, c)
  \/ NotAdmitted \/ Fence
  \/ SettledMeanwhile \/ Mismatched \/ Release \/ Conclude
Adapter ==
  \/ NativeDefers \/ NativeRefuses \/ NativeCreates \/ NativeReturns
  \/ \E p \in Provider, m \in Message, outcome \in Terminal : NativeSettles(p, m, outcome)
Lifecycle == Restart \/ (\E p \in Provider : Switch(p)) \/ (\E m \in Legacy : Import(m))

Next == Receipts \/ Submission \/ Adapter \/ Lifecycle
Spec == Init /\ [][Next]_vars

(***************************************************************************)
(* Nothing makes a change of Runtime wait for the readers of receipts: one *)
(* may outlive the resident it asked and save its proof in that resident's *)
(* log, over the file of the new one.  Only then can a Runtime be handed a *)
(* message it knows.                                                       *)
(***************************************************************************)
SwitchAway(p) ==
  /\ ToRuntime(p)
  /\ \A x \in Reading : ~reading[x].old
  /\ stale' = mem
  /\ reading' = [x \in Reading |-> IF reading[x].at = "idle" THEN NotReading
                                  ELSE [reading[x] EXCEPT !.old = TRUE]]

RecheckOld(x) ==
  /\ reading[x].at = "recheck" /\ reading[x].old
  /\ reading' = [reading EXCEPT ![x] = NotReading]
  /\ LET m == reading[x].msg
     IN  IF stale[m].outcome \in Terminal
           THEN Tell(m, Nobody, stale[m].outcome) /\ UNCHANGED <<disk, stale>>
           ELSE /\ stale' = [stale EXCEPT ![m].outcome = reading[x].seen]
                /\ disk' = stale' /\ Tell(m, Nobody, reading[x].seen)
  /\ UNCHANGED <<mem, provider, sub, world, faults, counters>>

(* The adapter recognises an operation of its own.                         *)
NativeKnows ==
  /\ sub.at = "dispatch" /\ Here # "none"
  /\ Answer(IF Here = "open" THEN "unknown" ELSE Here)
  /\ UNCHANGED <<mem, disk, stale, provider, reading, world, told, faults, counters>>

Outlived ==
  \/ \E p \in Provider : SwitchAway(p)
  \/ \E x \in Reading : RecheckOld(x)
  \/ NativeKnows
LingeringSpec == Init /\ [][Next \/ Outlived]_vars

(***************************************************************************)
(* Properties.                                                             *)
(***************************************************************************)
ReadingState ==
  {NotReading}
    \cup [at : {"native"}, msg : Message, from : Provider, seen : {"unknown"}, old : BOOLEAN]
    \cup [at : {"recheck"}, msg : Message, from : Provider, seen : Terminal, old : BOOLEAN]
SubState ==
  {NotSubmitting}
    \cup [at : {"reconcile", "dispatch", "flight", "settle"}, msg : Message, content : Content,
          answer : {"unknown", "mismatch", "deferred"} \cup Terminal]
TypeOK ==
  /\ mem \in Log /\ disk \in Log /\ stale \in Log
  /\ provider \in Provider
  /\ reading \in [Reading -> ReadingState] /\ sub \in SubState
  /\ native \in [Provider -> [Message -> NativeState]]
  /\ given \in [Message -> Nat] /\ body \in [Message -> Fingerprint]
  /\ told \in [Message -> SUBSET (Fingerprint \X Terminal)]
  /\ faults \in Nat /\ restarts \in Nat /\ deferrals \in Nat

(* "Restart, a later input or Runtime selection never causes redispatch":  *)
(* no original creates two native operations, whatever answers are lost,   *)
(* writes fail, and whenever the resident restarts or changes its Runtime. *)
AtMostOneOperation == \A m \in Message : given[m] <= 1

(* "Runtime selection never causes redispatch": no original has operations *)
(* at two Runtimes.                                                        *)
OneRuntime ==
  \A m \in Message : Cardinality({p \in Provider : native[p][m] # "none"}) <= 1

(* A terminal receipt that anyone was given is the only one anyone is      *)
(* given, and it is on disk: late answers, concurrent readers, failed      *)
(* writes and restarts do not take it back.                                *)
ReceiptsFinal ==
  \A m \in Message : \A t \in told[m] :
    t[2] = mem[m].outcome /\ mem[m].outcome = disk[m].outcome

(* "accepted" is only returned for a message that a Runtime accepted.      *)
AcceptedTrue ==
  \A m \in Message : (\E c \in Fingerprint : <<c, "accepted">> \in told[m])
    => \E p \in Provider : native[p][m] = "accepted"

(* A producer that is told that its message was accepted named the content *)
(* that the Runtime got, although identities are reused, submissions fail  *)
(* and residents restart.  Of a message that was delivered before the log  *)
(* the content is not known, and its receipt goes to any: then at least no *)
(* content of these producers ever reached a Runtime under that identity.  *)
OwnContent ==
  \A m \in Message, c \in Content :
    <<c, "accepted">> \in told[m] => body[m] = IF m \in Legacy THEN Nobody ELSE c

(* The log implements the promise: each step of it is one of OneDelivery's *)
(* or none, the restart included.                                          *)
Promise == INSTANCE OneDelivery WITH receipt <- [m \in Message |-> mem[m].outcome]
Refines == Promise!Spec

(* An uncertain delivery whose outcome the selected Runtime knows becomes  *)
(* settled, once writes succeed, if receipts are read again and again.     *)
Uncertain(m) ==
  /\ mem[m].outcome = "unknown" /\ mem[m].owner \in {Nobody, provider}
  /\ native[provider][m] \in Terminal
Reconciles == \A m \in Message : Uncertain(m) ~> ~Uncertain(m)

(* Producers poll the receipt of each of their originals, and the bounds   *)
(* let writes fail and residents restart finitely often.                   *)
FairSpec ==
  /\ Spec
  /\ \A x \in Reading : WF_vars(Ask(x)) /\ WF_vars(Recheck(x))
  /\ \A m \in Message : SF_vars(\E x \in Reader : ReadStart(x, m))

(***************************************************************************)
(* The inductive invariant behind the safety properties.                   *)
(***************************************************************************)
(* An operation exists only behind a fence that memory and disk both hold. *)
Fenced ==
  \A m \in Message :
    /\ given[m] \in 0..1
    /\ m \notin Legacy /\ given[m] = 1 => mem[m].outcome # "none" /\ disk[m].outcome # "none"
    /\ \A p \in Provider : native[p][m] # "none" => given[m] = 1
    /\ m \in Legacy /\ LegacyOutcome[m] = "accepted" => given[m] = 1

(* The submission in progress: its fence, and what its answer proves.      *)
Submitting ==
  sub.at # "idle" =>
    /\ sub.msg \in Legacy => sub.at = "reconcile" /\ mem[sub.msg].outcome # "none"
    /\ sub.at = "dispatch" => /\ given[sub.msg] = 0
                              /\ mem[sub.msg].outcome = "unknown" /\ disk[sub.msg].outcome = "unknown"
    /\ sub.at = "flight" => given[sub.msg] = 1
    /\ sub.at = "settle" =>
         /\ sub.answer = "deferred" => given[sub.msg] = 0
         /\ sub.answer = "accepted" => given[sub.msg] = 1

(* A reader holds a proof of an operation that exists.                     *)
Reads ==
  \A x \in Reading :
    /\ ~reading[x].old
    /\ reading[x].at = "recheck" => given[reading[x].msg] = 1

(* Terminal receipts are durable before they are in memory, and agree with *)
(* every receipt returned.                                                 *)
Durable ==
  \A m \in Message :
    /\ mem[m].outcome \in Terminal => disk[m].outcome = mem[m].outcome
    /\ \A t \in told[m] : t[2] = mem[m].outcome

(* A failed write leaves the file at most one allowed step ahead.          *)
Ahead(m) ==
  \/ /\ mem[m].outcome = "none"
     /\ disk[m].outcome = "unknown"
  \/ /\ mem[m].outcome = "unknown"
     /\ disk[m].outcome = "none" /\ given[m] = 0
  \/ /\ mem[m].outcome = "unknown" \/ (mem[m].outcome = "none" /\ m \in Legacy)
     /\ disk[m].outcome \in Terminal
     /\ disk[m].outcome = "accepted" => given[m] = 1
OneAhead ==
  /\ \A m \in Message : disk[m].outcome # mem[m].outcome => Ahead(m)
  /\ \A m, n \in Message :
       disk[m].outcome # mem[m].outcome /\ disk[n].outcome # mem[n].outcome => m = n

Safe == Fenced /\ Submitting /\ Reads /\ Durable

(* What was fenced keeps the content it was fenced with, and that is the   *)
(* operation's; nothing more is created for an older message; a submission *)
(* is about the content that its record has.                               *)
Kept ==
  /\ \A m \in Message \ Legacy :
       /\ mem[m].outcome # "none" => mem[m].content \in Content
       /\ disk[m].outcome # "none" => disk[m].content \in Content
       /\ given[m] = 1 => mem[m].content = body[m] /\ disk[m].content = body[m]
  /\ \A m \in Legacy : body[m] = Nobody
Naming ==
  /\ sub.at \in {"dispatch", "flight", "settle"} => mem[sub.msg].content = sub.content
  /\ sub.at = "dispatch" => disk[sub.msg].content = sub.content
  /\ reading[Submitter].at # "idle" =>
       /\ sub.at = "reconcile" /\ reading[Submitter].msg = sub.msg
       /\ sub.msg \notin Legacy /\ mem[sub.msg].outcome # "none" => mem[sub.msg].content = sub.content
Owned == Kept /\ Naming

(* Whoever holds "accepted", a lingering reader included, holds it of a    *)
(* message that some Runtime accepted.                                     *)
Accepted(m) == \E p \in Provider : native[p][m] = "accepted"
Truthful ==
  /\ \A m \in Message : "accepted" \in {mem[m].outcome, disk[m].outcome, stale[m].outcome} => Accepted(m)
  /\ \A m \in Message : \A t \in told[m] : t[2] = "accepted" => Accepted(m)
  /\ \A m \in Legacy : LegacyOutcome[m] = "accepted" => Accepted(m)
  /\ \A x \in Reading :
       reading[x].at = "recheck" /\ reading[x].seen = "accepted" => Accepted(reading[x].msg)
  /\ sub.at = "settle" /\ sub.answer = "accepted" => Accepted(sub.msg)
=============================================================================
