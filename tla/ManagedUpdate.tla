---------------------------- MODULE ManagedUpdate ----------------------------
(***************************************************************************)
(* Managed updates, internal/managedupdate and headless/managed_updates.go: *)
(* the launcher that owns an installation, its update.json and             *)
(* current.json, the one Bot it runs, and the handoff from the old Bot to   *)
(* a candidate and back.                                                   *)
(*                                                                         *)
(* A step is one hold of Manager.mu, except that a switch or a rollback,   *)
(* which writes three files under one hold, is a step per write: the        *)
(* launcher may die between them.  Until the next Start a Bot that ended is *)
(* "dead".  A request of a Bot waits in calls and may be handled after its  *)
(* sender gave up; identical requests of a Bot are one.  Releases are       *)
(* numbered by version.  Left out: receipts of commands, revisions, reasons *)
(* and transfer counts; what a Bot reports of its Runtime is "up" or "down"; *)
(* states in which nothing is offered are all "idle".                       *)
(***************************************************************************)
EXTENDS Naturals, FiniteSets

CONSTANTS
  Newest,      \* releases are 1..Newest; the first is installed
  MaxInstalls,
  MaxCrashes,  \* bound on ends of the launcher
  MaxDeaths,   \* bound on ends of a Bot and on failed starts
  MaxFaults,   \* bound on failed writes
  MaxDamage    \* bound on releases whose files stop verifying

ASSUME ConstantsOK ==
  /\ Newest \in Nat \ {0} /\ MaxInstalls \in Nat /\ MaxCrashes \in Nat
  /\ MaxDeaths \in Nat /\ MaxFaults \in Nat /\ MaxDamage \in Nat

Release == 1..Newest
Transaction == 1..MaxInstalls

VARIABLES
  mem, disk,           \* Manager.state and update.json
  selected,            \* current.json
  staged, damaged,     \* versions/, and the releases there that no longer verify
  work,                \* the check or download that keeps the Manager busy
  at, opening,         \* where Launch is, and whether inside Open
  retried,             \* recoveredOld
  boot,                \* Manager.boot and ready, its Runtime, and the health timer
  child, calls,        \* the Bot process, and requests of Bots under way
  made,                \* transactions made so far
  closed, cancelled,   \* those whose Bot confirmed its Close, whose cancellation was confirmed
  proved,              \* a Bot of the selected release reported no failure when it started
  belated,             \* transactions concluded by a Bot that had been ready before
  crashes, deaths, faults, damages

vars == <<mem, disk, selected, staged, damaged, work, at, opening, retried, boot, child, calls,
          made, closed, cancelled, proved, belated, crashes, deaths, faults, damages>>
release == <<selected, staged, damaged>>
launch == <<at, opening, retried>>
history == <<made, closed, cancelled, proved, belated>>
bounds == <<crashes, deaths, damages>>

NoTx == [id |-> 0, offer |-> 0, previous |-> 0, phase |-> "none"]
NoBoot == [id |-> 0, release |-> 0, ready |-> FALSE, runtime |-> "none", timer |-> "off"]
NoChild == [boot |-> 0, release |-> 0, stage |-> "none", tx |-> 0]

Runtimes == {"up", "down"}                                      \* "failed" is "down"

Active(tx) == tx.phase \notin {"none", "healthy", "rolled_back", "cancelled"}
Loadable(r) == r \in staged /\ r \notin damaged                  \* loadOffer
Alive == child.stage \notin {"none", "dead"}
Listening == at \in {"boot", "publish", "running"}               \* and Manager.mu is free
Handling == Listening \/ at = "closing"

(* Manager.save: a failed write leaves the old or the new file, and a state *)
(* that refuses every command.                                             *)
Saved(j) == mem' = j /\ disk' = j /\ UNCHANGED faults
Unsaved(j) ==
  /\ faults < MaxFaults /\ faults' = faults + 1
  /\ mem' = [j EXCEPT !.state = "unknown"] /\ disk' \in {disk, j}
Save(j) == Saved(j) \/ Unsaved(j)

Phase(j, phase) == [j EXCEPT !.tx.phase = phase]
State(j, state) == [j EXCEPT !.state = state]

-----------------------------------------------------------------------------
(* What the user and the feed do (commandLocked, startWork, scheduleLocal). *)

Commanded == Listening /\ mem.state # "unknown"
Quiet == work = "none" /\ ~Active(mem.tx)

(* "automatic", a joined install, a refreshed status: nothing but a save.  *)
Touch ==
  /\ Commanded /\ Save(mem)
  /\ UNCHANGED <<release, launch, work, boot, child, calls, history, bounds>>

StartCheck ==
  /\ Commanded /\ Quiet
  /\ LET j == State(mem, "idle") IN
     \/ Saved(j) /\ work' = "check"
     \/ Unsaved(j) /\ UNCHANGED work
  /\ UNCHANGED <<release, launch, boot, child, calls, history, bounds>>

StartDownload ==
  /\ Commanded /\ Quiet /\ mem.state # "ready" /\ mem.offer > boot.release
  /\ LET j == State(mem, "idle") IN
     \/ Saved(j) /\ work' = "download"
     \/ Unsaved(j) /\ UNCHANGED work
  /\ UNCHANGED <<release, launch, boot, child, calls, history, bounds>>

(* The feed answers; what it offers may be downloaded at once.             *)
Checked ==
  /\ work = "check" /\ Handling
  /\ \E o \in {0, mem.offer} \cup {r \in Release : r > boot.release} :
       LET j == [State(mem, "idle") EXCEPT !.offer = o] IN
       \/ Saved(j) /\ work' = "none"
       \/ Saved(j) /\ o > boot.release /\ work' = "download"
       \/ Unsaved(j) /\ work' = "none"
  /\ UNCHANGED <<release, launch, boot, child, calls, history, bounds>>

(* prune keeps what is selected, offered, or needed by the transaction.    *)
KeepForgets(j) == {selected, j.offer} \cup (IF Active(j.tx) THEN {j.tx.offer} ELSE {})   \* mutant
Keep(j) == {selected, j.offer, j.tx.previous} \cup (IF Active(j.tx) THEN {j.tx.offer} ELSE {})
Pruned(have, j) == {r \in have : r \in Keep(j) \/ r \in damaged}

Downloaded ==
  /\ work = "download" /\ Handling /\ work' = "none"
  /\ \/ /\ mem.offer \notin damaged
        /\ staged' = Pruned(staged \cup {mem.offer}, mem) /\ Save(State(mem, "ready"))
     \/ staged' \in {staged, staged \cup {mem.offer}} /\ Save(State(mem, "idle"))
  /\ UNCHANGED <<selected, damaged, launch, boot, child, calls, history, bounds>>

Scheduled(j) ==
  [State(j, "waiting_idle") EXCEPT
     !.tx = [id |-> made + 1, offer |-> j.offer, previous |-> selected, phase |-> "waiting"]]
Installable(j) == j.offer > selected /\ Loadable(selected)

Install ==
  /\ Commanded /\ Quiet /\ mem.state = "ready" /\ Installable(mem) /\ Loadable(mem.offer)
  /\ made < MaxInstalls /\ made' = made + 1
  /\ Save(Scheduled(mem))
  /\ UNCHANGED <<release, launch, work, boot, child, calls, closed, cancelled, proved, belated, bounds>>

(* An installer stages a release and schedules it: two writes, one hold.   *)
LocalUpgrade ==
  /\ Commanded /\ Quiet /\ made < MaxInstalls
  /\ \E o \in Release \ damaged :
       LET j == [State(mem, "ready") EXCEPT !.offer = o]
           k == Scheduled(j)
       IN
       /\ o # selected /\ o > boot.release /\ staged' = staged \cup {o}
       /\ \/ Unsaved(j) /\ UNCHANGED made
          \/ ~Installable(j) /\ Saved(j) /\ UNCHANGED made
          \/ Installable(j) /\ Saved(k) /\ made' = made + 1
          \/ /\ Installable(j) /\ made' = made + 1 /\ faults < MaxFaults /\ faults' = faults + 1
             /\ mem' = State(k, "unknown") /\ disk' \in {j, k}
  /\ UNCHANGED <<selected, damaged, launch, work, boot, child, calls, closed, cancelled, proved, belated, bounds>>

Cancel ==
  /\ Commanded /\ mem.tx.phase \in {"waiting", "requested"}
  /\ LET j == State(Phase(mem, "cancelled"), "ready") IN
     \/ Saved(j) /\ cancelled' = cancelled \cup {mem.tx.id}
     \/ Unsaved(j) /\ UNCHANGED cancelled
  /\ UNCHANGED <<release, launch, work, boot, child, calls, made, closed, proved, belated, bounds>>

-----------------------------------------------------------------------------
(* The Bot (managedHost).                                                  *)

Says(runtime) == calls' = calls \cup {[boot |-> child.boot, tx |-> 0, what |-> runtime]}

(* Local state and Runtime are up; Ready is tried again until it succeeds.  *)
SendReady ==
  /\ child.stage = "new" /\ at # "down" /\ Says("up") /\ proved' = TRUE
  /\ UNCHANGED <<mem, disk, release, work, launch, boot, child, made, closed, cancelled, belated, faults, bounds>>

(* A Bot whose Runtime does not start says so and ends; one that cannot    *)
(* even look for it says that it is inactive, no failure, and ends.        *)
SendFailure ==
  /\ child.stage = "new" /\ at # "down"
  /\ \E runtime \in Runtimes : Says(runtime) /\ proved' = (proved \/ runtime = "up")
  /\ deaths < MaxDeaths /\ deaths' = deaths + 1 /\ child' = [child EXCEPT !.stage = "exiting"]
  /\ UNCHANGED <<mem, disk, release, work, launch, boot, made, closed, cancelled, belated, faults, crashes, damages>>

(* A serving Bot looks at its Runtime now and then, and goes on without    *)
(* the answer.  What the Manager has on record already changes nothing.    *)
Report ==
  /\ child.stage = "serving" /\ at # "down" /\ \E runtime \in Runtimes \ {boot.runtime} : Says(runtime)
  /\ UNCHANGED <<mem, disk, release, work, launch, boot, child, history, faults, bounds>>

(* A Bot whose launcher died gives up.                                     *)
GivesUp ==
  /\ child.stage = "new" /\ at = "down" /\ child' = [child EXCEPT !.stage = "dead"]
  /\ UNCHANGED <<mem, disk, release, work, launch, boot, calls, history, faults, bounds>>

(* The serving Bot polls; the answer may be lost.                          *)
Handoff ==
  /\ Commanded /\ child.stage = "serving" /\ child.boot = boot.id /\ boot.ready
  /\ LET asked == {child, [child EXCEPT !.stage = "handoff", !.tx = mem.tx.id]} IN
     \/ mem.tx.phase = "waiting" /\ Saved(Phase(mem, "requested")) /\ child' \in asked
     \/ mem.tx.phase = "waiting" /\ Unsaved(Phase(mem, "requested")) /\ UNCHANGED child
     \/ mem.tx.phase = "requested" /\ child' \in asked /\ UNCHANGED <<mem, disk, faults>>
  /\ UNCHANGED <<release, launch, work, boot, calls, history, bounds>>

(* Work is pending: "busy", which only changes the reason shown.           *)
Busy ==
  /\ child.stage = "handoff" /\ child' = [child EXCEPT !.stage = "serving", !.tx = 0]
  /\ \/ Commanded /\ mem.tx.phase = "requested" /\ mem.tx.id = child.tx /\ Save(mem)
     \/ UNCHANGED <<mem, disk, faults>>
  /\ UNCHANGED <<release, launch, work, boot, calls, history, bounds>>

(* Core is closed, with or without an error, its outcome sent, and the Bot  *)
(* ends whatever is answered.                                              *)
CloseCore ==
  /\ child.stage = "handoff" /\ child' = [child EXCEPT !.stage = "exiting"]
  /\ \E what \in {"committed", "failed"} :
       /\ closed' = IF what = "committed" THEN closed \cup {child.tx} ELSE closed
       /\ calls' = IF at = "down" THEN calls
                   ELSE calls \cup {[boot |-> child.boot, tx |-> child.tx, what |-> what]}
  /\ UNCHANGED <<mem, disk, release, work, launch, boot, made, cancelled, proved, belated, faults, bounds>>

Exits ==
  /\ child.stage = "exiting" /\ child' = [child EXCEPT !.stage = "dead"]
  /\ UNCHANGED <<mem, disk, release, work, launch, boot, calls, history, faults, bounds>>

Dies ==
  /\ Alive /\ deaths < MaxDeaths /\ deaths' = deaths + 1
  /\ child' = [child EXCEPT !.stage = "dead"]
  /\ UNCHANGED <<mem, disk, release, work, launch, boot, calls, history, faults, crashes, damages>>

-----------------------------------------------------------------------------
(* What the Manager makes of a Bot's requests.                             *)

Concluded(j) ==
  CASE j.tx.phase = "switched" -> State(Phase(j, "healthy"), "installed")
    [] j.tx.phase = "rolling_back" -> State(Phase(j, "rolled_back"), "rolled_back")
    [] OTHER -> j

(* The answer may come too late for the Bot, which then asks again.       *)
Answered(c) ==
  \/ c.boot = child.boot /\ child.stage = "new" /\ child' = [child EXCEPT !.stage = "serving"]
  \/ UNCHANGED child

(* A report of the Bot on record, unless it says again what a ready Bot     *)
(* said, concludes the transaction: also the first one of a Bot that ended, *)
(* and a changed one of a Bot that has been replaced and not yet forgotten. *)
Ready(c) ==
  /\ Handling /\ c.what \in Runtimes /\ calls' = calls \ {c}
  /\ LET known == boot.ready /\ boot.runtime = c.what
         failed == c.what = "down" /\ ~boot.ready
     IN
     \/ c.boot # boot.id /\ UNCHANGED <<mem, disk, boot, child, belated, faults>>
     \/ /\ c.boot = boot.id /\ known /\ Answered(c)
        /\ UNCHANGED <<mem, disk, boot, belated, faults>>
     \/ c.boot = boot.id /\ failed /\ Save(mem) /\ UNCHANGED <<boot, child, belated>>
     \/ /\ c.boot = boot.id /\ ~known /\ ~failed
        /\ belated' = IF boot.ready /\ Concluded(mem) # mem THEN belated \cup {mem.tx.id} ELSE belated
        /\ \/ /\ Saved(Concluded(mem)) /\ Answered(c)
              /\ boot' = [boot EXCEPT !.ready = TRUE, !.runtime = c.what]
           \/ /\ Unsaved(Concluded(mem)) /\ UNCHANGED child
              /\ boot' = IF boot.ready THEN [boot EXCEPT !.runtime = c.what] ELSE boot
  /\ UNCHANGED <<release, launch, work, made, closed, cancelled, proved, bounds>>

AcceptedLate(c) == mem.state # "unknown" /\ c.boot = boot.id /\ c.tx = mem.tx.id     \* mutant
Accepted(c) ==
  mem.state # "unknown" /\ c.boot = boot.id /\ c.tx = mem.tx.id /\ mem.tx.phase = "requested"
FinishHandoff(c) ==
  /\ Handling /\ c.what \in {"committed", "failed"} /\ calls' = calls \ {c}
  /\ \/ Accepted(c) /\ c.what = "committed" /\ Save(State(Phase(mem, "committed"), "restarting"))
     \/ Accepted(c) /\ c.what = "failed" /\ Save(State(Phase(mem, "unknown"), "unknown"))
     \/ ~Accepted(c) /\ UNCHANGED <<mem, disk, faults>>
  /\ UNCHANGED <<release, launch, work, boot, child, history, bounds>>

-----------------------------------------------------------------------------
(* switchRelease and rollback.                                             *)

Stop == at' = "closing" /\ UNCHANGED <<opening, retried>>
Goto(step) == at' = step /\ UNCHANGED <<opening, retried>>
Continue == Goto(IF opening THEN "settle" ELSE "boot")

Switch ==
  /\ at = "switch"
  /\ \/ ~Loadable(mem.tx.offer) /\ Goto("revert") /\ UNCHANGED <<mem, disk, faults>>
     \/ Loadable(mem.tx.offer) /\ Saved(Phase(mem, "switching")) /\ Goto("select")
     \/ Loadable(mem.tx.offer) /\ Unsaved(Phase(mem, "switching")) /\ Stop
  /\ UNCHANGED <<release, work, boot, child, calls, history, bounds>>

Revert ==
  /\ at = "revert"
  /\ \/ ~Loadable(mem.tx.previous) /\ Save(State(Phase(mem, "unknown"), "unknown")) /\ Stop
     \/ Loadable(mem.tx.previous) /\ Saved(Phase(mem, "rolling_back")) /\ Goto("reselect")
     \/ Loadable(mem.tx.previous) /\ Unsaved(Phase(mem, "rolling_back")) /\ Stop
  /\ UNCHANGED <<release, work, boot, child, calls, history, bounds>>

(* selectRelease: a failed write leaves the old or the new selection.      *)
Selecting(r, next) ==
  /\ \/ selected' = r /\ Goto(next) /\ UNCHANGED faults
     \/ faults < MaxFaults /\ faults' = faults + 1 /\ selected' \in {selected, r} /\ Stop
  /\ proved' = FALSE
  /\ UNCHANGED <<mem, disk, staged, damaged, work, boot, child, calls, made, closed, cancelled, belated, bounds>>
Select == at = "select" /\ Selecting(mem.tx.offer, "confirm")
Reselect == at = "reselect" /\ Selecting(mem.tx.previous, "reconfirm")

Confirmed(j) ==
  /\ (Saved(j) /\ Continue) \/ (Unsaved(j) /\ Stop)
  /\ UNCHANGED <<release, work, boot, child, calls, history, bounds>>
Confirm == at = "confirm" /\ Confirmed(Phase(mem, "switched"))
Reconfirm == at = "reconfirm" /\ Confirmed(State(mem, "rolling_back"))

-----------------------------------------------------------------------------
(* Launch.                                                                 *)

(* Open takes the lease, which a Bot that outlived its launcher still holds. *)
Reached(tx) ==
  CASE tx.phase \in {"committed", "switching"} -> "switch"
    [] tx.phase \in {"switched", "rolling_back"} -> "revert"
    [] OTHER -> "settle"
ReopenedHealthy(j) == IF j.tx.phase = "switched" THEN State(Phase(j, "healthy"), "installed") ELSE j   \* mutant
Reopened(j) == IF j.tx.phase = "requested" THEN State(Phase(j, "waiting"), "waiting_idle") ELSE j
OpenAnyway ==                                                   \* mutant
  /\ at = "down" /\ mem' = Reopened(disk)
  /\ at' = Reached(disk.tx) /\ opening' = TRUE /\ retried' = FALSE
  /\ UNCHANGED <<disk, release, work, boot, child, calls, history, faults, bounds>>
Open ==
  /\ at = "down" /\ ~Alive /\ mem' = Reopened(disk)
  /\ at' = Reached(disk.tx) /\ opening' = TRUE /\ child' = NoChild /\ retried' = FALSE
  /\ UNCHANGED <<disk, release, work, boot, calls, history, faults, bounds>>

Settle ==
  /\ at = "settle"
  /\ \/ ~Loadable(selected) /\ Stop /\ UNCHANGED <<mem, disk, staged, boot, faults>>
     \/ /\ Loadable(selected) /\ staged' = Pruned(staged, mem)
        /\ boot' = [NoBoot EXCEPT !.release = selected]
        /\ \/ Saved(mem) /\ at' = "boot" /\ opening' = FALSE /\ UNCHANGED retried
           \/ Unsaved(mem) /\ Stop
  /\ UNCHANGED <<selected, damaged, work, child, calls, history, bounds>>

(* A boot's name is new: no request under way has it.                      *)
Used == {boot.id} \cup {c.boot : c \in calls}
Fresh == CHOOSE n \in 1..(Cardinality(calls) + 2) : n \notin Used

Start ==
  /\ at = "boot" /\ Loadable(selected) /\ Goto("publish")
  /\ child' = [boot |-> Fresh, release |-> selected, stage |-> "new", tx |-> 0]
  /\ UNCHANGED <<mem, disk, release, work, boot, calls, history, faults, bounds>>

StartFails ==
  /\ at = "boot"
  /\ \/ ~Loadable(selected) /\ Stop /\ UNCHANGED deaths
     \/ /\ Loadable(selected) /\ deaths < MaxDeaths /\ deaths' = deaths + 1
        /\ IF mem.tx.phase = "switched" THEN Goto("revert") ELSE Stop
  /\ UNCHANGED <<mem, disk, release, work, boot, child, calls, history, faults, crashes, damages>>

(* From here on every request of an earlier boot is refused.               *)
Publish ==
  /\ at = "publish" /\ Goto("running")
  /\ boot' = [NoBoot EXCEPT !.id = child.boot, !.release = child.release, !.timer = "armed"]
  /\ calls' = {c \in calls : c.boot = child.boot}
  /\ UNCHANGED <<mem, disk, release, work, child, history, faults, bounds>>

(* The health timer reads ready, and kills later.                          *)
HealthOfNew ==                                                  \* mutant
  /\ at = "running" /\ boot.timer = "armed" /\ mem.tx.phase = "switched"
  /\ boot' = [boot EXCEPT !.timer = IF boot.ready THEN "off" ELSE "expired"]
  /\ UNCHANGED <<mem, disk, release, work, launch, child, calls, history, faults, bounds>>
HealthExpires ==
  /\ at = "running" /\ boot.timer = "armed"
  /\ boot' = [boot EXCEPT !.timer = IF boot.ready THEN "off" ELSE "expired"]
  /\ UNCHANGED <<mem, disk, release, work, launch, child, calls, history, faults, bounds>>
Kill ==
  /\ at = "running" /\ boot.timer = "expired" /\ boot' = [boot EXCEPT !.timer = "off"]
  /\ child' = [child EXCEPT !.stage = "dead"]
  /\ UNCHANGED <<mem, disk, release, work, launch, calls, history, faults, bounds>>

(* A stopped handoff may leave the old Bot ended: it is started once more.  *)
Restartable == mem.tx.phase \in {"requested", "cancelled", "unknown"} /\ ~retried
ChildEnded ==
  /\ at = "running" /\ child.stage = "dead" /\ boot.timer # "expired" /\ child' = NoChild
  /\ \/ mem.tx.phase = "committed" /\ Goto("switch") /\ UNCHANGED <<mem, disk, faults>>
     \/ mem.tx.phase = "switched" /\ Goto("revert") /\ UNCHANGED <<mem, disk, faults>>
     \/ mem.tx.phase = "rolling_back" /\ Save(State(Phase(mem, "unknown"), "unknown")) /\ Stop
     \/ Restartable /\ Saved(Reopened(mem)) /\ at' = "boot" /\ retried' = TRUE /\ UNCHANGED opening
     \/ Restartable /\ Unsaved(Reopened(mem)) /\ Stop
     \/ /\ mem.tx.phase \notin {"committed", "switched", "rolling_back"} /\ ~Restartable
        /\ Stop /\ UNCHANGED <<mem, disk, faults>>
  /\ UNCHANGED <<release, work, boot, calls, history, bounds>>

(* Close waits for the worker; what was in memory only is gone.            *)
Ended ==
  /\ at' = "down" /\ opening' = FALSE /\ retried' = FALSE
  /\ mem' = disk /\ work' = "none" /\ boot' = NoBoot /\ calls' = {}
Closed ==
  /\ at = "closing" /\ work = "none" /\ Ended
  /\ UNCHANGED <<disk, release, child, history, faults, bounds>>

(* The launcher is killed, or stopped while its Bot goes on.               *)
Crash ==
  /\ at # "down" /\ crashes < MaxCrashes /\ crashes' = crashes + 1 /\ Ended
  /\ UNCHANGED <<disk, release, child, history, faults, deaths, damages>>

Damage ==
  /\ damages < MaxDamage /\ damages' = damages + 1
  /\ \E r \in staged \ damaged : damaged' = damaged \cup {r}
  /\ UNCHANGED <<mem, disk, selected, staged, work, launch, boot, child, calls, history, faults, crashes, deaths>>

-----------------------------------------------------------------------------
Init ==
  /\ mem = [state |-> "idle", offer |-> 0, tx |-> NoTx] /\ disk = mem
  /\ selected = 1 /\ staged = {1} /\ damaged = {} /\ work = "none"
  /\ at = "down" /\ opening = FALSE /\ retried = FALSE
  /\ boot = NoBoot /\ child = NoChild /\ calls = {}
  /\ made = 0 /\ closed = {} /\ cancelled = {} /\ proved = FALSE /\ belated = {}
  /\ crashes = 0 /\ deaths = 0 /\ faults = 0 /\ damages = 0

User == Touch \/ StartCheck \/ StartDownload \/ Install \/ LocalUpgrade \/ Cancel
Worker == Checked \/ Downloaded
Requests == \E c \in calls : Ready(c) \/ FinishHandoff(c)
Launcher ==
  \/ Switch \/ Select \/ Confirm \/ Revert \/ Reselect \/ Reconfirm
  \/ Open \/ Settle \/ Start \/ StartFails \/ Publish \/ Kill \/ ChildEnded \/ Closed

Next ==
  \/ User \/ Worker \/ Requests \/ Launcher \/ HealthExpires
  \/ SendReady \/ SendFailure \/ Report \/ GivesUp \/ Handoff \/ Busy \/ CloseCore \/ Exits \/ Dies
  \/ Crash \/ Damage

Spec == Init /\ [][Next]_vars

(* The service is started again when it fails (caelisbot.service), requests *)
(* are handled, a Bot that is ending or lost its launcher ends, and the     *)
(* health timer fires.  No Bot need ever report itself ready.              *)
FairSpec ==
  /\ Spec
  /\ WF_vars(Worker) /\ WF_vars(Requests) /\ WF_vars(Launcher) /\ WF_vars(HealthExpires)
  /\ WF_vars(GivesUp) /\ WF_vars(Exits)

-----------------------------------------------------------------------------
(* Properties                                                              *)

States == {"idle", "ready", "waiting_idle", "restarting", "installed", "rolling_back", "rolled_back", "unknown"}
Phases == {"waiting", "requested", "committed", "switching", "switched", "healthy", "rolling_back",
           "rolled_back", "cancelled", "unknown"}
Tx == {NoTx} \cup [id : Transaction, offer : Release, previous : Release, phase : Phases]
Boots == [id : Nat, release : {0} \cup Release, ready : BOOLEAN, runtime : Runtimes \cup {"none"},
          timer : {"off", "armed", "expired"}]
Journal == [state : States, offer : {0} \cup Release, tx : Tx]

TypeOK ==
  /\ mem \in Journal /\ disk \in Journal
  /\ selected \in Release /\ staged \subseteq Release /\ damaged \subseteq staged
  /\ work \in {"none", "check", "download"}
  /\ at \in {"down", "switch", "select", "confirm", "revert", "reselect", "reconfirm", "settle",
             "boot", "publish", "running", "closing"}
  /\ opening \in BOOLEAN /\ retried \in BOOLEAN
  /\ boot \in Boots
  /\ child \in [boot : Nat, release : {0} \cup Release, tx : {0} \cup Transaction,
                stage : {"none", "new", "serving", "handoff", "exiting", "dead"}]
  /\ \A c \in calls : c \in [boot : Nat \ {0}, tx : {0} \cup Transaction, what : Runtimes \cup {"committed", "failed"}]
  /\ made \in 0..MaxInstalls /\ closed \subseteq 1..made /\ cancelled \subseteq 1..made
  /\ proved \in BOOLEAN /\ belated \subseteq 1..made
  /\ crashes \in 0..MaxCrashes /\ deaths \in 0..MaxDeaths /\ faults \in 0..MaxFaults /\ damages \in 0..MaxDamage

Known == {mem.tx, disk.tx}

(* "Only confirmed old-owner Close can commit" (docs/managed-updates.md),   *)
(* and "a late preparation cannot install after cancellation"              *)
(* (manager.go:341): what is being switched was closed for, and was not    *)
(* cancelled.                                                              *)
OnlyClosed ==
  \A t \in Known :
    t.phase \in {"committed", "switching", "switched", "healthy", "rolling_back", "rolled_back"} =>
      t.id \in closed \ cancelled

(* "Only observed child exit allows replacement": while a Bot is alive, also *)
(* one that outlived its launcher, its own release stays selected.         *)
RunsSelected == Alive => child.release = selected

(* "Recovery never infers success from a dead PID or a selected path; ...   *)
(* only Ready permits success" (manager.go:397-398): a transaction is       *)
(* healthy only with its release selected, and only by the word of a Bot:   *)
(* one of that release that started and reported no failure or, what nobody *)
(* wrote for, the Bot that had been ready before it closed, whose changed   *)
(* report came late.                                                        *)
HealthyTrue ==
  \A t \in Known : t.phase = "healthy" => selected = t.offer /\ (proved \/ t.id \in belated)

(* Retention keeps what recovery may need: the selected release, the one to *)
(* roll back to and the one to switch to (retention.go).                   *)
Recoverable ==
  /\ selected \in staged
  /\ \A t \in Known :
       /\ t.phase \in {"waiting", "requested", "committed", "switching"} => t.offer \in staged
       /\ Active(t) /\ t.phase # "unknown" => t.previous \in staged

(* A committed update is concluded: healthy, rolled back, or unknown.      *)
Concludes ==
  disk.tx.phase \in {"committed", "switching", "switched", "rolling_back"}
    ~> disk.tx.phase \in {"healthy", "rolled_back", "unknown"}
=============================================================================
