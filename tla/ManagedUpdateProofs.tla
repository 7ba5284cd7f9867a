------------------------ MODULE ManagedUpdateProofs ------------------------
(***************************************************************************)
(* Theorems about ManagedUpdate for every value of its constants.          *)
(***************************************************************************)
EXTENDS ManagedUpdate, FiniteSetTheorems, TLAPS

-----------------------------------------------------------------------------
(* The inductive invariant.                                                *)

Begun == {"committed", "switching", "switched", "healthy", "rolling_back", "rolled_back"}
Forward == {"waiting", "requested", "committed", "switching"}

(* What holds of the transaction in memory and of the one in the file.     *)
Fits(t) ==
  /\ t.phase # "none" => t.id \in 1..made
  /\ t.phase \in Begun => t.id \in closed
  /\ t.phase # "cancelled" => t.id \notin cancelled
  /\ t.phase \in {"switched", "healthy"} => selected = t.offer
  /\ t.phase = "healthy" => proved \/ t.id \in belated
  /\ t.phase \in Forward => t.offer \in staged
  /\ Active(t) /\ t.phase # "unknown" => t.previous \in staged
Fitting == \A t \in Known : Fits(t)

(* What the launcher's place says of memory, file and Bot.                  *)
Placed ==
  /\ Alive => at \in {"down", "publish", "running"} /\ child.boot # 0
  /\ at = "publish" => child.stage \in {"new", "exiting", "dead"} /\ child.boot # boot.id
  /\ at = "running" => child.boot = boot.id /\ (child.stage \in {"serving", "handoff"} => boot.ready)
  /\ at = "down" => mem = disk /\ work = "none" /\ boot = NoBoot /\ calls = {}
  /\ at = "settle" => mem = Reopened(disk)
  /\ at = "switch" => mem.tx.phase \in {"committed", "switching"}
  /\ at = "revert" => mem.tx.phase \in {"committed", "switching", "switched", "rolling_back"}
  /\ at \in {"select", "confirm"} => mem = disk /\ mem.tx.phase = "switching"
  /\ at = "confirm" => selected = mem.tx.offer
  /\ at \in {"reselect", "reconfirm"} => mem = disk /\ mem.tx.phase = "rolling_back"
  /\ at \in {"settle", "boot", "publish"} => mem.tx.phase \notin {"requested", "committed", "switching"}

(* A check or a download goes on only between transactions, and what a Bot  *)
(* says of a transaction is about one that was made.                        *)
Working ==
  /\ work # "none" => mem.tx = disk.tx /\ ~Active(mem.tx)
  /\ work = "download" => mem.offer \in Release
  /\ child.stage = "handoff" => child.tx \in 1..made
  /\ \A c \in calls : c.what = "committed" => c.tx \in closed

(* A first report after a release was selected is of a Bot of that release: *)
(* while another boot is on record, that one had reported already.         *)
Spent == boot.ready \/ boot.id = 0
Proving ==
  /\ at # "down" /\ mem.tx.phase \in {"requested", "committed", "switching"} => Spent
  /\ at \notin {"down", "revert", "running"} /\ mem.tx.phase = "switched" => Spent
  /\ at = "publish" => \A c \in calls : c.what = "up" /\ c.boot = child.boot => proved
  /\ at = "running" /\ mem.tx.phase = "switched" /\ ~boot.ready =>
       \A c \in calls : c.what = "up" /\ c.boot = boot.id => proved

Inv ==
  /\ TypeOK /\ IsFiniteSet(calls) /\ selected \in staged
  /\ RunsSelected /\ Fitting /\ Placed /\ Working /\ Proving

-----------------------------------------------------------------------------
(* Journals.                                                               *)

LEMMA PhaseOf ==
  ASSUME NEW j \in Journal, j.tx.phase # "none", NEW p \in Phases
  PROVE  /\ Phase(j, p) \in Journal /\ Phase(j, p).offer = j.offer
         /\ Phase(j, p).tx.id = j.tx.id /\ Phase(j, p).tx.offer = j.tx.offer
         /\ Phase(j, p).tx.previous = j.tx.previous /\ Phase(j, p).tx.phase = p
BY DEF Phase, Journal, Tx, NoTx

LEMMA StateOf ==
  ASSUME NEW j \in Journal, NEW s \in States
  PROVE  State(j, s) \in Journal /\ State(j, s).offer = j.offer /\ State(j, s).tx = j.tx
BY DEF State, Journal

LEMMA SaveWrites ==
  ASSUME TypeOK, NEW j \in Journal, Save(j)
  PROVE  /\ mem' \in Journal /\ disk' \in Journal /\ faults' \in 0..MaxFaults
         /\ mem'.tx = j.tx /\ mem'.offer = j.offer /\ disk' \in {disk, j}
BY ConstantsOK, SMT DEF TypeOK, Save, Saved, Unsaved, Journal, States

LEMMA ReopenedOf ==
  ASSUME NEW j \in Journal
  PROVE  /\ Reopened(j) \in Journal /\ Reopened(j).offer = j.offer
         /\ Reopened(j).tx.id = j.tx.id /\ Reopened(j).tx.offer = j.tx.offer
         /\ Reopened(j).tx.previous = j.tx.previous
         /\ Reopened(j).tx.phase = IF j.tx.phase = "requested" THEN "waiting" ELSE j.tx.phase
         /\ j.tx.phase # "requested" => Reopened(j) = j
<1>1. CASE j.tx.phase = "requested"
  BY <1>1, PhaseOf, StateOf DEF Reopened, Phases, States
<1>2. CASE j.tx.phase # "requested"
  BY <1>2 DEF Reopened
<1> QED
  BY <1>1, <1>2

(* What fits goes on to fit when nothing it refers to is taken away.       *)
LEMMA FitsStill ==
  ASSUME NEW t, Fits(t), selected' = selected, proved => proved', belated \subseteq belated', staged \subseteq staged',
         closed \subseteq closed', cancelled' = cancelled, made \in Nat, made' \in Nat, made <= made'
  PROVE  Fits(t)'
BY DEF Fits, Active

LEMMA FittingStill ==
  ASSUME Fitting, mem'.tx = mem.tx, disk'.tx = disk.tx,
         selected' = selected, proved => proved', belated \subseteq belated', staged \subseteq staged',
         closed \subseteq closed', cancelled' = cancelled, made \in Nat, made' \in Nat, made <= made'
  PROVE  Fitting'
BY FitsStill DEF Fitting, Known

(* A write makes nothing known but what was known and what is written.     *)
LEMMA SaveFits ==
  ASSUME TypeOK, NEW j \in Journal, Save(j), Fits(j.tx)', \A t \in Known : Fits(t)'
  PROVE  Fitting'
BY SaveWrites DEF Fitting, Known

-----------------------------------------------------------------------------
(* Steps of the user and of the worker.                                    *)

(* A write that leaves the transaction as it is.                           *)
LEMMA SameTxStep ==
  ASSUME Inv, NEW j \in Journal, Save(j), j.tx = mem.tx, Handling,
         UNCHANGED <<selected, damaged, launch, boot, child, calls, history, bounds>>,
         staged' \subseteq Release, damaged \subseteq staged', selected \in staged',
         \A t \in Known : Fits(t)',
         work' \in {"none", "check", "download"},
         work' # "none" => mem'.tx = disk'.tx /\ ~Active(mem.tx),
         work' = "download" => j.offer \in Release
  PROVE  Inv'
<1>1. /\ mem' \in Journal /\ disk' \in Journal /\ faults' \in 0..MaxFaults
      /\ mem'.tx = mem.tx /\ mem'.offer = j.offer /\ disk' \in {disk, j}
  BY SaveWrites DEF Inv
<1>2. TypeOK' /\ IsFiniteSet(calls)'
  BY <1>1 DEF Inv, TypeOK, launch, history, bounds
<1>3. Fitting'
  BY SaveFits DEF Inv, Fitting, Known
<1>4. Placed'
  BY <1>1 DEF Inv, Placed, Handling, Listening, Alive, launch
<1>5. Working'
  BY <1>1 DEF Inv, Working, Active, history
<1>6. Proving'
  BY <1>1 DEF Inv, Proving, Spent, launch, history
<1> QED
  BY <1>2, <1>3, <1>4, <1>5, <1>6 DEF Inv, RunsSelected, Alive

LEMMA FitsUnmoved ==
  ASSUME Inv, UNCHANGED <<selected, history>>, staged \subseteq staged'
  PROVE  \A t \in Known : Fits(t)'
BY FitsStill DEF Inv, TypeOK, Fitting, history

LEMMA TouchStep ==
  ASSUME Inv, Touch  PROVE Inv'
<1>1. mem \in Journal /\ staged \subseteq Release /\ damaged \subseteq staged /\ selected \in staged
  BY DEF Inv, TypeOK
<1>2. /\ Save(mem) /\ Handling /\ staged' = staged /\ work' = work
      /\ UNCHANGED <<selected, damaged, launch, boot, child, calls, history, bounds>>
  BY DEF Touch, Commanded, Handling, release
<1>3. \A t \in Known : Fits(t)'
  BY <1>2, FitsUnmoved
<1>4. /\ work \in {"none", "check", "download"}
      /\ work # "none" => mem'.tx = disk'.tx /\ ~Active(mem.tx)
      /\ work = "download" => mem.offer \in Release
  BY <1>1, <1>2, SaveWrites DEF Inv, TypeOK, Working
<1> QED
  BY <1>1, <1>2, <1>3, <1>4, SameTxStep

LEMMA StartCheckStep ==
  ASSUME Inv, StartCheck  PROVE Inv'
<1> DEFINE j == State(mem, "idle")
<1>1. /\ mem \in Journal /\ staged \subseteq Release /\ damaged \subseteq staged /\ selected \in staged
      /\ j \in Journal /\ j.tx = mem.tx
  BY StateOf DEF Inv, TypeOK, States
<1>2. /\ Save(j) /\ Handling /\ staged' = staged /\ work' \in {"none", "check"} /\ ~Active(mem.tx)
      /\ UNCHANGED <<selected, damaged, launch, boot, child, calls, history, bounds>>
  BY DEF StartCheck, Commanded, Handling, release, Save, Quiet
<1>3. \A t \in Known : Fits(t)'
  BY <1>2, FitsUnmoved
<1>4. work' # "none" => mem'.tx = disk'.tx
  BY DEF StartCheck, Saved, Quiet
<1> QED
  BY <1>1, <1>2, <1>3, <1>4, SameTxStep

LEMMA StartDownloadStep ==
  ASSUME Inv, StartDownload  PROVE Inv'
<1> DEFINE j == State(mem, "idle")
<1>1. /\ mem \in Journal /\ staged \subseteq Release /\ damaged \subseteq staged /\ selected \in staged
      /\ j \in Journal /\ j.tx = mem.tx /\ j.offer = mem.offer
  BY StateOf DEF Inv, TypeOK, States
<1>2. /\ Save(j) /\ Handling /\ staged' = staged /\ work' \in {"none", "download"} /\ ~Active(mem.tx)
      /\ UNCHANGED <<selected, damaged, launch, boot, child, calls, history, bounds>>
  BY DEF StartDownload, Commanded, Handling, release, Save, Quiet
<1>3. \A t \in Known : Fits(t)'
  BY <1>2, FitsUnmoved
<1>4. work' # "none" => mem'.tx = disk'.tx
  BY DEF StartDownload, Saved, Quiet
<1>5. mem.offer \in Release
  BY <1>1, ConstantsOK DEF StartDownload, Inv, TypeOK, Journal, Release, Boots
<1> QED
  BY <1>1, <1>2, <1>3, <1>4, <1>5, SameTxStep

LEMMA CheckedStep ==
  ASSUME Inv, Checked  PROVE Inv'
<1>1. PICK o \in {0, mem.offer} \cup {r \in Release : r > boot.release} :
        LET k == [State(mem, "idle") EXCEPT !.offer = o] IN
        \/ Saved(k) /\ work' = "none"
        \/ Saved(k) /\ o > boot.release /\ work' = "download"
        \/ Unsaved(k) /\ work' = "none"
  BY DEF Checked
<1> DEFINE j == [State(mem, "idle") EXCEPT !.offer = o]
<1>2. /\ mem \in Journal /\ staged \subseteq Release /\ damaged \subseteq staged /\ selected \in staged
      /\ mem.offer \in {0} \cup Release /\ boot.release \in Nat /\ ~Active(mem.tx)
  BY ConstantsOK DEF Inv, TypeOK, Checked, Working, Journal, Release, Boots
<1>3. j \in Journal /\ j.tx = mem.tx /\ j.offer = o
  BY <1>2, StateOf DEF States, Journal
<1>4. o > boot.release => o \in Release
  BY <1>2, ConstantsOK DEF Release
<1>5. /\ Save(j) /\ Handling /\ staged' = staged /\ work' \in {"none", "download"}
      /\ UNCHANGED <<selected, damaged, launch, boot, child, calls, history, bounds>>
  BY <1>1 DEF Checked, release, Save
<1>6. \A t \in Known : Fits(t)'
  BY <1>5, FitsUnmoved
<1>7. work' # "none" => mem'.tx = disk'.tx /\ o > boot.release
  BY <1>1 DEF Saved
<1> QED
  BY <1>2, <1>3, <1>4, <1>5, <1>6, <1>7, SameTxStep

(* Retention keeps what is selected and what a transaction may need.       *)
LEMMA PrunedKeeps ==
  ASSUME NEW have \in SUBSET Release, NEW j \in Journal, damaged \subseteq have, selected \in have
  PROVE  /\ Pruned(have, j) \subseteq Release /\ damaged \subseteq Pruned(have, j) /\ selected \in Pruned(have, j)
         /\ j.tx.previous \in have => j.tx.previous \in Pruned(have, j)
         /\ Active(j.tx) /\ j.tx.offer \in have => j.tx.offer \in Pruned(have, j)
BY DEF Pruned, Keep

LEMMA DownloadedStep ==
  ASSUME Inv, Downloaded  PROVE Inv'
<1>1. PICK j \in {State(mem, "ready"), State(mem, "idle")} : Save(j)
  BY DEF Downloaded
<1>2. /\ mem \in Journal /\ staged \subseteq Release /\ damaged \subseteq staged /\ selected \in staged
      /\ mem.offer \in Release /\ ~Active(mem.tx) /\ mem.tx = disk.tx
  BY DEF Inv, TypeOK, Downloaded, Working
<1>3. j \in Journal /\ j.tx = mem.tx
  BY <1>1, <1>2, StateOf DEF States
<1>4. /\ Handling /\ work' = "none"
      /\ UNCHANGED <<selected, damaged, launch, boot, child, calls, history, bounds>>
  BY DEF Downloaded
<1>5. staged' \subseteq Release /\ damaged \subseteq staged' /\ selected \in staged'
  BY <1>2, PrunedKeeps DEF Downloaded
<1>6. \A t \in Known : Fits(t)'
  BY <1>2, <1>4 DEF Inv, Fitting, Fits, Known, Active, Forward, history
<1> QED
  BY <1>1, <1>2, <1>3, <1>4, <1>5, <1>6, SameTxStep

-----------------------------------------------------------------------------
(* Steps of a transaction before its Bot closes.                           *)

(* A write that schedules, asks, cancels or commits.                        *)
LEMMA NewTxStep ==
  ASSUME Inv, NEW j \in Journal, Save(j), Handling,
         UNCHANGED <<selected, damaged, launch, boot, work, proved, belated, bounds>>, work = "none",
         staged' \subseteq Release, staged \subseteq staged',
         \A t \in Known : Fits(t)', \A t \in {j.tx} : Fits(t)',
         j.tx.phase \in {"waiting", "requested", "cancelled", "committed", "unknown"},
         at \in {"boot", "publish"} => j.tx.phase \notin {"requested", "committed"},
         j.tx.phase \in {"requested", "committed"} => Spent,
         calls' \subseteq calls, child' \in {child, [child EXCEPT !.stage = "handoff", !.tx = j.tx.id]},
         child' # child => at = "running" /\ Alive /\ j.tx.id \in 1..made' /\ boot.ready,
         made \in Nat, made' \in made..MaxInstalls,
         closed' = closed, cancelled' \subseteq 1..made'
  PROVE  Inv'
<1>1. /\ mem' \in Journal /\ disk' \in Journal /\ faults' \in 0..MaxFaults
      /\ mem'.tx = j.tx /\ disk' \in {disk, j}
  BY SaveWrites DEF Inv
<1>2. TypeOK'
  <2>1. made' \in 0..MaxInstalls /\ 1..made \subseteq 1..made' /\ 1..made' \subseteq Transaction
    BY ConstantsOK DEF Transaction
  <2>2. closed' \subseteq 1..made' /\ \A c \in calls' : c \in calls
    BY <2>1 DEF Inv, TypeOK
  <2>3. child' \in [boot : Nat, release : {0} \cup Release, tx : {0} \cup Transaction,
                   stage : {"none", "new", "serving", "handoff", "exiting", "dead"}]
    BY <2>1 DEF Inv, TypeOK
  <2> QED
    BY <1>1, <2>1, <2>2, <2>3 DEF Inv, TypeOK, launch, bounds
<1>3. IsFiniteSet(calls)'
  BY FS_Subset DEF Inv
<1>4. Fitting'
  BY SaveFits DEF Inv
<1>5. Placed'
  BY <1>1 DEF Inv, Placed, Handling, Listening, Alive, launch, TypeOK
<1>6. Working'
  <2>1. 1..made \subseteq 1..made'
    OBVIOUS
  <2> QED
    BY <2>1 DEF Inv, Working, TypeOK
<1>7. Proving'
  BY <1>1 DEF Inv, Proving, Spent, launch, TypeOK, Handling, Listening
<1>8. RunsSelected' /\ (selected \in staged)'
  BY DEF Inv, RunsSelected, Alive, TypeOK
<1> QED
  BY <1>2, <1>3, <1>4, <1>5, <1>6, <1>7, <1>8 DEF Inv

LEMMA ScheduledOf ==
  ASSUME NEW j \in Journal, made \in Nat, made < MaxInstalls, selected \in Release, j.offer \in Release
  PROVE  /\ Scheduled(j) \in Journal
         /\ Scheduled(j).tx = [id |-> made + 1, offer |-> j.offer, previous |-> selected, phase |-> "waiting"]
<1> DEFINE t == [id |-> made + 1, offer |-> j.offer, previous |-> selected, phase |-> "waiting"]
           k == State(j, "waiting_idle")
<1>1. t \in Tx
  BY ConstantsOK DEF Tx, Transaction, Phases
<1>2. k \in Journal
  BY StateOf DEF States
<1>3. Scheduled(j) = [k EXCEPT !.tx = t]
  BY DEF Scheduled
<1> HIDE DEF t, k
<1>4. Scheduled(j) \in Journal /\ Scheduled(j).tx = t
  BY <1>1, <1>2, <1>3 DEF Journal
<1> QED
  BY <1>4 DEF t

LEMMA InstallStep ==
  ASSUME Inv, Install  PROVE Inv'
<1> DEFINE j == Scheduled(mem)
<1>1. /\ mem \in Journal /\ disk \in Journal /\ made \in Nat /\ made < MaxInstalls /\ selected \in Release
      /\ mem.offer \in Release /\ mem.offer \in staged /\ selected \in staged
      /\ closed \subseteq 1..made /\ cancelled \subseteq 1..made
  BY ConstantsOK DEF Inv, TypeOK, Install, Installable, Loadable, Journal, Release
<1>2. j \in Journal /\ j.tx = [id |-> made + 1, offer |-> mem.offer, previous |-> selected, phase |-> "waiting"]
  BY <1>1, ScheduledOf
<1>3. /\ Save(j) /\ Handling /\ work = "none" /\ made' = made + 1 /\ made' \in made..MaxInstalls
      /\ UNCHANGED <<selected, staged, damaged, launch, boot, child, calls, closed, cancelled, proved, belated, work, bounds>>
  BY <1>1, ConstantsOK DEF Install, Commanded, Handling, release, Quiet
<1>4. \A t \in Known : Fits(t)'
  BY <1>1, <1>3, FitsStill DEF Inv, Fitting
<1>5. \A t \in {j.tx} : Fits(t)'
  BY <1>1, <1>2, <1>3 DEF Fits, Active, Begun, Forward
<1>6. cancelled' \subseteq 1..made'
  BY <1>1, <1>3
<1> QED
  BY <1>1, <1>2, <1>3, <1>4, <1>5, <1>6, NewTxStep DEF Inv, TypeOK

LEMMA CancelStep ==
  ASSUME Inv, Cancel  PROVE Inv'
<1> DEFINE j == State(Phase(mem, "cancelled"), "ready")
<1>1. /\ mem \in Journal /\ disk \in Journal /\ made \in 0..MaxInstalls /\ mem.tx.id \in 1..made
      /\ cancelled \subseteq 1..made /\ staged \subseteq Release
  BY DEF Inv, TypeOK, Cancel, Fitting, Fits, Known
<1>2. j \in Journal /\ j.tx.id = mem.tx.id /\ j.tx.offer = mem.tx.offer /\ j.tx.phase = "cancelled"
  BY <1>1, PhaseOf, StateOf DEF Cancel, States, Phases
<1>3. /\ Handling /\ work = "none"
      /\ UNCHANGED <<selected, staged, damaged, launch, boot, child, calls, closed, made, proved, belated, work, bounds>>
  BY DEF Cancel, Commanded, Handling, release, Inv, Working, Active
<1>4. \A t \in {j.tx} : Fits(t)'
  BY <1>1, <1>2, <1>3 DEF Fits, Active, Begun, Forward
<1>5. CASE Unsaved(j) /\ UNCHANGED cancelled
  <2>1. \A t \in Known : Fits(t)'
    BY <1>1, <1>3, <1>5, FitsStill DEF Inv, Fitting
  <2> QED
    BY <1>1, <1>2, <1>3, <1>4, <1>5, <2>1, NewTxStep DEF Save
<1>6. CASE Saved(j) /\ cancelled' = cancelled \cup {mem.tx.id}
  (* Memory and file both say so: nothing else is known any more.          *)
  <2>1. /\ mem' = j /\ disk' = j /\ faults' = faults /\ cancelled' \subseteq 1..made
    BY <1>1, <1>6 DEF Saved
  <2>2. TypeOK' /\ IsFiniteSet(calls)'
    BY <1>2, <1>3, <2>1 DEF Inv, TypeOK, launch, bounds
  <2>3. Fitting'
    BY <1>4, <2>1 DEF Fitting, Known
  <2>4. Placed'
    BY <1>2, <1>3, <2>1 DEF Inv, Placed, Handling, Listening, Alive, launch
  <2>5. Working' /\ Proving'
    BY <1>2, <1>3, <2>1 DEF Inv, Working, Proving, Spent, launch
  <2> QED
    BY <1>3, <2>2, <2>3, <2>4, <2>5 DEF Inv, RunsSelected, Alive
<1> QED
  BY <1>5, <1>6 DEF Cancel

LEMMA LocalUpgradeStep ==
  ASSUME Inv, LocalUpgrade  PROVE Inv'
<1>1. PICK o \in Release \ damaged :
        LET j == [State(mem, "ready") EXCEPT !.offer = o]
            k == Scheduled(j)
        IN
        /\ o # selected /\ o > boot.release /\ staged' = staged \cup {o}
        /\ \/ Unsaved(j) /\ UNCHANGED made
           \/ ~Installable(j) /\ Saved(j) /\ UNCHANGED made
           \/ Installable(j) /\ Saved(k) /\ made' = made + 1
           \/ /\ Installable(j) /\ made' = made + 1 /\ faults < MaxFaults /\ faults' = faults + 1
              /\ mem' = State(k, "unknown") /\ disk' \in {j, k}
  BY DEF LocalUpgrade
<1> DEFINE j == [State(mem, "ready") EXCEPT !.offer = o]
           k == Scheduled(j)
<1>2. /\ mem \in Journal /\ disk \in Journal /\ made \in Nat /\ made < MaxInstalls /\ selected \in Release
      /\ staged \subseteq Release /\ damaged \subseteq staged /\ selected \in staged
      /\ closed \subseteq 1..made /\ cancelled \subseteq 1..made /\ faults \in Nat
  BY ConstantsOK DEF Inv, TypeOK, LocalUpgrade
<1>3. j \in Journal /\ j.tx = mem.tx /\ j.offer = o /\ o \in Release
  BY <1>2, StateOf DEF States, Journal
<1>4. /\ k \in Journal
      /\ k.tx = [id |-> made + 1, offer |-> o, previous |-> selected, phase |-> "waiting"]
  BY <1>2, <1>3, ScheduledOf
<1>5. /\ Handling /\ work = "none" /\ ~Active(mem.tx) /\ at \in {"boot", "publish", "running"}
      /\ staged' = staged \cup {o} /\ staged' \subseteq Release
      /\ UNCHANGED <<selected, damaged, launch, work, boot, child, calls, closed, cancelled, proved, belated, bounds>>
  BY <1>1, <1>2 DEF LocalUpgrade, Commanded, Handling, Listening, Quiet
<1>6. made' = made \/ made' = made + 1
  BY <1>1
<1>7. \A t \in Known : Fits(t)'
  BY <1>2, <1>5, <1>6, FitsStill DEF Inv, Fitting
<1>8. CASE Save(j) /\ made' = made
  BY <1>2, <1>3, <1>5, <1>7, <1>8, SameTxStep DEF history
<1>9. CASE made' = made + 1
  <2>1. \A t \in {k.tx} : Fits(t)'
    BY <1>2, <1>4, <1>5, <1>9 DEF Fits, Active, Begun, Forward
  <2>2. made' \in made..MaxInstalls /\ cancelled' \subseteq 1..made' /\ calls' \subseteq calls
    BY <1>2, <1>5, <1>9, ConstantsOK
  <2>3. CASE Saved(k)
    BY <1>2, <1>4, <1>5, <1>7, <1>9, <2>1, <2>2, <2>3, NewTxStep DEF Save
  <2>4. CASE /\ faults < MaxFaults /\ faults' = faults + 1
             /\ mem' = State(k, "unknown") /\ disk' \in {j, k}
    (* The first write is in the file, the second may not be.              *)
    <3>1. /\ mem' \in Journal /\ disk' \in Journal /\ faults' \in 0..MaxFaults
          /\ mem'.tx = k.tx /\ disk'.tx \in {mem.tx, k.tx}
      <4>1. State(k, "unknown") \in Journal /\ State(k, "unknown").tx = k.tx
        BY <1>4, StateOf DEF States
      <4>2. faults' \in 0..MaxFaults
        BY <1>2, <2>4, ConstantsOK
      <4> HIDE DEF j, k
      <4> QED
        BY <1>3, <1>4, <2>4, <4>1, <4>2
    <3>2. made' \in 0..MaxInstalls /\ 1..made \subseteq 1..made'
      BY <1>2, <1>9, ConstantsOK
    <3>3. TypeOK' /\ IsFiniteSet(calls)'
      BY <1>2, <1>5, <2>2, <3>1, <3>2 DEF Inv, TypeOK, launch, bounds
    <3>4. Fitting'
      BY <1>7, <2>1, <3>1 DEF Fitting, Known
    <3>5. Placed' /\ Proving'
      BY <1>4, <1>5, <3>1 DEF Inv, Placed, Proving, Spent, Alive, launch
    <3>6. Working'
      BY <1>5, <3>2 DEF Inv, Working
    <3> QED
      BY <1>2, <1>5, <3>3, <3>4, <3>5, <3>6 DEF Inv, RunsSelected, Alive
  <2> QED
    BY <1>1, <1>2, <1>9, <2>3, <2>4
<1> QED
  BY <1>1, <1>2, <1>8, <1>9 DEF Save

LEMMA HandoffStep ==
  ASSUME Inv, Handoff  PROVE Inv'
<1> DEFINE j == Phase(mem, "requested")
           asked == {child, [child EXCEPT !.stage = "handoff", !.tx = mem.tx.id]}
<1>1. /\ mem \in Journal /\ disk \in Journal /\ made \in Nat /\ made \in made..MaxInstalls /\ mem.tx.id \in 1..made
      /\ mem.tx.phase \in {"waiting", "requested"} /\ work = "none"
      /\ closed \subseteq 1..made /\ cancelled \subseteq 1..made
  BY ConstantsOK DEF Inv, TypeOK, Handoff, Fitting, Fits, Known, Working, Active
<1>2. /\ Handling /\ at = "running" /\ Alive /\ Spent /\ boot.ready /\ child' \in asked
      /\ UNCHANGED <<selected, staged, damaged, launch, boot, calls, closed, made, cancelled, proved, belated, work, bounds>>
  BY DEF Handoff, Commanded, Handling, Listening, Alive, Spent, Inv, Placed, release, history
<1>3. /\ j \in Journal /\ j.tx.id = mem.tx.id /\ j.tx.offer = mem.tx.offer /\ j.tx.previous = mem.tx.previous
      /\ j.tx.phase = "requested"
  BY <1>1, PhaseOf DEF Phases
<1>4. \A t \in Known : Fits(t)'
  BY <1>1, <1>2, FitsStill DEF Inv, Fitting
<1>5. CASE Save(j)
  <2>1. \A t \in {j.tx} : Fits(t)'
    BY <1>1, <1>2, <1>3 DEF Inv, Fitting, Known, Fits, Active, Begun, Forward
  <2> QED
    BY <1>1, <1>2, <1>3, <1>4, <1>5, <2>1, NewTxStep DEF Inv, TypeOK
<1>6. CASE UNCHANGED <<mem, disk, faults>> /\ mem.tx.phase = "requested"
  <2>1. TypeOK' /\ IsFiniteSet(calls)'
    <3>1. child' \in [boot : Nat, release : {0} \cup Release, tx : {0} \cup Transaction,
                      stage : {"none", "new", "serving", "handoff", "exiting", "dead"}]
      <4>1. mem.tx.id \in Transaction
        BY <1>1, ConstantsOK DEF Transaction
      <4> QED
        BY <1>2, <4>1 DEF Inv, TypeOK
    <3> QED
      BY <1>2, <1>6, <3>1 DEF Inv, TypeOK, launch, bounds
  <2>2. Fitting'
    BY <1>4, <1>6 DEF Fitting, Known
  <2>3. Placed'
    BY <1>2, <1>6 DEF Inv, TypeOK, Placed, Alive, launch
  <2>4. Working'
    BY <1>1, <1>2, <1>6 DEF Inv, TypeOK, Working
  <2>5. Proving' /\ RunsSelected'
    BY <1>1, <1>2, <1>6 DEF Inv, TypeOK, Proving, Spent, RunsSelected, Alive, launch
  <2> QED
    BY <1>2, <2>1, <2>2, <2>3, <2>4, <2>5 DEF Inv
<1> QED
  BY <1>5, <1>6 DEF Handoff, Save

LEMMA BusyStep ==
  ASSUME Inv, Busy  PROVE Inv'
<1>1. /\ child.stage = "handoff" /\ child' = [child EXCEPT !.stage = "serving", !.tx = 0]
      /\ UNCHANGED <<selected, staged, damaged, launch, work, boot, calls, history, bounds>>
  BY DEF Busy, release
<1>2. /\ mem' \in Journal /\ disk' \in Journal /\ faults' \in 0..MaxFaults
      /\ mem'.tx = mem.tx /\ mem'.offer = mem.offer /\ disk' \in {disk, mem}
      /\ UNCHANGED <<mem, disk>> \/ Commanded
  BY SaveWrites DEF Busy, Inv, TypeOK
<1>3. TypeOK' /\ IsFiniteSet(calls)'
  <2>1. child' \in [boot : Nat, release : {0} \cup Release, tx : {0} \cup Transaction,
                   stage : {"none", "new", "serving", "handoff", "exiting", "dead"}]
    BY <1>1 DEF Inv, TypeOK
  <2> QED
    BY <1>1, <1>2, <2>1 DEF Inv, TypeOK, launch, history, bounds
<1>4. Fitting'
  BY <1>1, <1>2, FitsUnmoved DEF Fitting, Known
<1>5. Placed'
  BY <1>1, <1>2 DEF Inv, TypeOK, Placed, Alive, Commanded, Listening, launch
<1>6. Working' /\ Proving'
  BY <1>1, <1>2 DEF Inv, TypeOK, Working, Proving, Spent, launch, history
<1> QED
  BY <1>1, <1>3, <1>4, <1>5, <1>6 DEF Inv, TypeOK, RunsSelected, Alive

-----------------------------------------------------------------------------
(* Steps of Bots that write nothing.                                       *)

(* What a Bot says of its Runtime; it came up if it says so for the first  *)
(* time.                                                                   *)
LEMMA SaysStep ==
  ASSUME Inv, NEW runtime \in Runtimes, Says(runtime), at # "down", Alive, proved' \in BOOLEAN, proved => proved',
         runtime = "up" => proved' \/ (boot.ready /\ at # "publish"),
         UNCHANGED <<mem, disk, release, work, launch, boot, child, made, closed, cancelled, belated, faults, bounds>>
  PROVE  Inv'
<1> DEFINE c == [boot |-> child.boot, tx |-> 0, what |-> runtime]
<1>1. /\ at \in {"publish", "running"} /\ calls' = calls \cup {c}
      /\ UNCHANGED <<mem, disk, selected, staged, damaged, work, launch, boot, child, made, closed, cancelled, belated, faults, bounds>>
  BY DEF Says, Inv, Placed, release
<1>2. child.boot \in Nat \ {0}
  BY DEF Inv, TypeOK, Placed
<1>3. TypeOK'
  BY <1>1, <1>2 DEF Inv, TypeOK, launch, bounds
<1>4. IsFiniteSet(calls)'
  BY <1>1, FS_AddElement DEF Inv
<1>5. Fitting'
  BY <1>1, FittingStill DEF Inv, TypeOK
<1>6. Placed'
  BY <1>1 DEF Inv, Placed, Alive, launch
<1>7. Working'
  BY <1>1 DEF Inv, Working, Runtimes
<1>8. Proving'
  BY <1>1 DEF Inv, Proving, Spent, launch
<1> QED
  BY <1>1, <1>3, <1>4, <1>5, <1>6, <1>7, <1>8 DEF Inv, RunsSelected, Alive

LEMMA SendReadyStep ==
  ASSUME Inv, SendReady  PROVE Inv'
BY SaysStep DEF SendReady, Runtimes, Alive

LEMMA ReportStep ==
  ASSUME Inv, Report  PROVE Inv'
<1>1. PICK runtime \in Runtimes : Says(runtime)
  BY DEF Report
<1>2. Alive /\ at = "running" /\ boot.ready
  BY DEF Report, Alive, Inv, Placed
<1> QED
  BY <1>1, <1>2, SaysStep DEF Report, history, Inv, TypeOK

(* An end of a Bot disturbs nothing, and its last word is true.            *)
LEMMA ChildEnds ==
  ASSUME Inv, child' \in {child, [child EXCEPT !.stage = "dead"], [child EXCEPT !.stage = "exiting"]},
         child' # child => Alive,
         UNCHANGED <<mem, disk, release, work, launch, boot, made, cancelled, belated, faults, crashes, damages>>,
         proved' \in BOOLEAN, proved => proved',
         deaths' \in 0..MaxDeaths, closed \subseteq closed', closed' \subseteq 1..made,
         calls \subseteq calls', IsFiniteSet(calls'),
         \A c \in calls' \ calls :
           /\ c \in [boot : Nat \ {0}, tx : {0} \cup Transaction, what : Runtimes \cup {"committed", "failed"}]
           /\ c.what = "up" => proved'
           /\ c.what = "committed" => c.tx \in closed'
           /\ at # "down"
  PROVE  Inv'
<1>1. TypeOK'
  <2>1. child' \in [boot : Nat, release : {0} \cup Release, tx : {0} \cup Transaction,
                   stage : {"none", "new", "serving", "handoff", "exiting", "dead"}]
    BY DEF Inv, TypeOK
  <2>2. \A c \in calls' : c \in [boot : Nat \ {0}, tx : {0} \cup Transaction, what : Runtimes \cup {"committed", "failed"}]
    BY DEF Inv, TypeOK
  <2> QED
    BY <2>1, <2>2 DEF Inv, TypeOK, release, launch
<1>2. Fitting'
  BY FittingStill DEF Inv, TypeOK, release
<1>3. Placed'
  BY DEF Inv, TypeOK, Placed, Alive, release, launch
<1>4. Working'
  BY DEF Inv, TypeOK, Working
<1>5. Proving'
  BY DEF Inv, TypeOK, Proving, Spent, launch
<1> QED
  BY <1>1, <1>2, <1>3, <1>4, <1>5 DEF Inv, TypeOK, RunsSelected, Alive, release

LEMMA GivesUpStep ==
  ASSUME Inv, GivesUp  PROVE Inv'
<1>1. child' = [child EXCEPT !.stage = "dead"] /\ Alive
  BY DEF GivesUp, Alive, Inv, TypeOK
<1> QED
  BY <1>1, ChildEnds DEF GivesUp, history, bounds, Inv, TypeOK

LEMMA ExitsStep ==
  ASSUME Inv, Exits  PROVE Inv'
<1>1. child' = [child EXCEPT !.stage = "dead"] /\ Alive
  BY DEF Exits, Alive, Inv, TypeOK
<1> QED
  BY <1>1, ChildEnds DEF Exits, history, bounds, Inv, TypeOK

LEMMA DiesStep ==
  ASSUME Inv, Dies  PROVE Inv'
<1>1. child' = [child EXCEPT !.stage = "dead"] /\ Alive
  BY DEF Dies, Alive, Inv, TypeOK
<1>2. deaths' \in 0..MaxDeaths
  BY ConstantsOK DEF Dies, Inv, TypeOK
<1> QED
  BY <1>1, <1>2, ChildEnds DEF Dies, history, Inv, TypeOK

LEMMA SendFailureStep ==
  ASSUME Inv, SendFailure  PROVE Inv'
<1>0. PICK runtime \in Runtimes : Says(runtime) /\ proved' = (proved \/ runtime = "up")
  BY DEF SendFailure
<1> DEFINE c == [boot |-> child.boot, tx |-> 0, what |-> runtime]
<1>1. child' = [child EXCEPT !.stage = "exiting"] /\ Alive /\ calls' = calls \cup {c} /\ at # "down"
  BY <1>0 DEF SendFailure, Says, Alive
<1>2. c \in [boot : Nat \ {0}, tx : {0} \cup Transaction, what : Runtimes \cup {"committed", "failed"}]
  BY <1>1 DEF Inv, TypeOK, Placed
<1>3. IsFiniteSet(calls')
  BY <1>1, FS_AddElement DEF Inv
<1>4. deaths' \in 0..MaxDeaths
  BY ConstantsOK DEF SendFailure, Inv, TypeOK
<1>5. proved' \in BOOLEAN /\ (proved => proved') /\ (runtime = "up" => proved')
  BY <1>0
<1>6. \A d \in calls' \ calls :
        /\ d \in [boot : Nat \ {0}, tx : {0} \cup Transaction, what : Runtimes \cup {"committed", "failed"}]
        /\ d.what = "up" => proved'
        /\ d.what # "committed" /\ at # "down"
  BY <1>1, <1>2, <1>5 DEF Runtimes
<1> QED
  BY <1>1, <1>3, <1>4, <1>5, <1>6, ChildEnds DEF SendFailure, Inv, TypeOK

LEMMA CloseCoreStep ==
  ASSUME Inv, CloseCore  PROVE Inv'
<1>1. PICK what \in {"committed", "failed"} :
        /\ closed' = IF what = "committed" THEN closed \cup {child.tx} ELSE closed
        /\ calls' = IF at = "down" THEN calls
                    ELSE calls \cup {[boot |-> child.boot, tx |-> child.tx, what |-> what]}
  BY DEF CloseCore
<1>2. /\ child' = [child EXCEPT !.stage = "exiting"] /\ Alive
      /\ child.tx \in 1..made /\ child.boot \in Nat \ {0} /\ child.tx \in {0} \cup Transaction
  BY DEF CloseCore, Alive, Inv, TypeOK, Placed, Working
<1>3. closed \subseteq closed' /\ closed' \subseteq 1..made
  BY <1>1, <1>2 DEF Inv, TypeOK
<1>4. calls \subseteq calls' /\ IsFiniteSet(calls')
  BY <1>1, FS_AddElement DEF Inv
<1>5. \A c \in calls' \ calls :
        /\ c \in [boot : Nat \ {0}, tx : {0} \cup Transaction, what : Runtimes \cup {"committed", "failed"}]
        /\ c.what # "up" /\ (c.what = "committed" => c.tx \in closed')
        /\ at # "down"
  BY <1>1, <1>2
<1>6. /\ UNCHANGED <<mem, disk, release, work, launch, boot, made, cancelled, belated, faults, crashes, damages>>
      /\ proved' = proved /\ proved \in BOOLEAN /\ deaths' \in 0..MaxDeaths
  BY DEF CloseCore, bounds, Inv, TypeOK
<1> QED
  BY <1>2, <1>3, <1>4, <1>5, <1>6, ChildEnds

LEMMA DamageStep ==
  ASSUME Inv, Damage  PROVE Inv'
<1>1. /\ damaged' \subseteq staged /\ damages' \in 0..MaxDamage
      /\ UNCHANGED <<mem, disk, selected, staged, work, launch, boot, child, calls, history, faults, crashes, deaths>>
  BY ConstantsOK DEF Damage, Inv, TypeOK
<1>2. TypeOK' /\ IsFiniteSet(calls)'
  BY <1>1 DEF Inv, TypeOK, launch, history
<1>3. Fitting'
  BY <1>1, FitsUnmoved DEF Fitting, Known
<1>4. Placed' /\ Working' /\ Proving'
  BY <1>1 DEF Inv, Placed, Alive, Working, Proving, Spent, launch, history
<1> QED
  BY <1>1, <1>2, <1>3, <1>4 DEF Inv, RunsSelected, Alive

-----------------------------------------------------------------------------
(* What the Manager makes of a Bot's requests.                             *)

LEMMA ConcludedOf ==
  ASSUME NEW j \in Journal
  PROVE  /\ Concluded(j) \in Journal /\ Concluded(j).offer = j.offer
         /\ Concluded(j).tx.id = j.tx.id /\ Concluded(j).tx.offer = j.tx.offer
         /\ Concluded(j).tx.previous = j.tx.previous
         /\ Concluded(j).tx.phase = CASE j.tx.phase = "switched" -> "healthy"
                                      [] j.tx.phase = "rolling_back" -> "rolled_back"
                                      [] OTHER -> j.tx.phase
         /\ j.tx.phase \notin {"switched", "rolling_back"} => Concluded(j) = j
<1>1. CASE j.tx.phase = "switched"
  BY <1>1, PhaseOf, StateOf DEF Concluded, Phases, States
<1>2. CASE j.tx.phase = "rolling_back"
  BY <1>2, PhaseOf, StateOf DEF Concluded, Phases, States
<1>3. CASE j.tx.phase \notin {"switched", "rolling_back"}
  BY <1>3 DEF Concluded
<1> QED
  BY <1>1, <1>2, <1>3

LEMMA ReadyStep ==
  ASSUME Inv, NEW c \in calls, Ready(c)  PROVE Inv'
<1> DEFINE known == boot.ready /\ boot.runtime = c.what
           failed == c.what = "down" /\ ~boot.ready
           concludes == Concluded(mem) # mem
<1>1. /\ Handling /\ c.what \in Runtimes /\ calls' = calls \ {c} /\ IsFiniteSet(calls')
      /\ UNCHANGED <<selected, staged, damaged, launch, work, made, closed, cancelled, proved, bounds>>
  BY FS_RemoveElement DEF Ready, Inv, release
<1>2. \/ UNCHANGED <<mem, disk, boot, belated, faults>>
      \/ Save(mem) /\ UNCHANGED <<boot, belated>>
      \/ /\ Save(Concluded(mem)) /\ c.boot = boot.id /\ ~known /\ ~failed
         /\ belated' = IF boot.ready /\ concludes THEN belated \cup {mem.tx.id} ELSE belated
         /\ boot' \in {boot, [boot EXCEPT !.runtime = c.what], [boot EXCEPT !.ready = TRUE, !.runtime = c.what]}
         /\ boot.ready => boot'.ready
  <2>1. boot \in Boots
    BY DEF Inv, TypeOK
  <2> QED
    BY <2>1 DEF Ready, Save, Boots
<1>3. /\ boot' \in Boots /\ boot'.id = boot.id /\ (boot.ready => boot'.ready)
  BY <1>1, <1>2 DEF Inv, TypeOK, Boots
<1>4. /\ child' \in {child, [child EXCEPT !.stage = "serving"]}
      /\ child' # child => child.stage = "new" /\ at = "running" /\ boot'.ready
  <2>1. child' # child => child.stage = "new" /\ child' = [child EXCEPT !.stage = "serving"] /\ c.boot = child.boot
    BY DEF Ready, Answered
  <2>2. child' # child => boot'.ready
    BY <1>3 DEF Ready, Inv, TypeOK, Boots
  <2>3. child' # child => at = "running"
    <3>1. at = "publish" /\ c.boot = boot.id => c.boot # child.boot
      BY DEF Inv, Placed
    <3>2. child' # child => c.boot = boot.id /\ Alive
      BY <2>1 DEF Ready, Alive
    <3> QED
      BY <1>1, <2>1, <3>1, <3>2 DEF Inv, Placed, Handling, Listening
  <2> QED
    BY <2>1, <2>2, <2>3
<1>5. /\ mem \in Journal /\ disk \in Journal /\ made \in Nat /\ faults \in 0..MaxFaults
      /\ belated \subseteq belated'
  BY <1>2 DEF Inv, TypeOK
<1>6. \A t \in Known : Fits(t)'
  BY <1>1, <1>5, FitsStill DEF Inv, TypeOK, Fitting
<1>7. /\ mem' \in Journal /\ disk' \in Journal /\ faults' \in 0..MaxFaults
      /\ mem'.offer = mem.offer /\ mem'.tx.phase \in {mem.tx.phase, "healthy", "rolled_back"}
      /\ ~Active(mem.tx) => mem'.tx = mem.tx /\ disk'.tx \in {disk.tx, mem.tx}
  <2>1. CASE UNCHANGED <<mem, disk, faults>>
    BY <1>5, <2>1
  <2>2. CASE Save(mem)
    BY <1>5, <2>2, SaveWrites DEF Inv
  <2>3. CASE Save(Concluded(mem))
    BY <1>5, <2>3, ConcludedOf, SaveWrites DEF Inv, Active
  <2> QED
    BY <1>2, <2>1, <2>2, <2>3
<1>8. TypeOK'
  <2>1. child' \in [boot : Nat, release : {0} \cup Release, tx : {0} \cup Transaction,
                   stage : {"none", "new", "serving", "handoff", "exiting", "dead"}]
    BY <1>4 DEF Inv, TypeOK
  <2>2. belated' \subseteq 1..made
    <3>1. Fits(mem.tx)
      BY DEF Inv, Fitting, Known
    <3>2. concludes => mem.tx.id \in 1..made
      BY <3>1 DEF Fits, Concluded
    <3> QED
      BY <1>2, <3>2 DEF Inv, TypeOK
  <2> QED
    BY <1>1, <1>3, <1>7, <2>1, <2>2 DEF Inv, TypeOK, launch, bounds
<1>9. Fitting'
  <2>1. CASE UNCHANGED <<mem, disk>>
    BY <1>6, <2>1 DEF Fitting, Known
  <2>2. CASE Save(mem)
    <3>1. \A t \in {mem.tx} : Fits(t)'
      BY <1>6 DEF Known
    <3> QED
      BY <1>5, <1>6, <2>2, <3>1, SaveFits DEF Inv
  <2>3. CASE /\ Save(Concluded(mem)) /\ c.boot = boot.id /\ ~known /\ ~failed
             /\ belated' = IF boot.ready /\ concludes THEN belated \cup {mem.tx.id} ELSE belated
    <3> DEFINE j == Concluded(mem)
    <3>1. Fits(mem.tx)
      BY DEF Inv, Fitting, Known
    (* A first report is of a Bot of the release that was switched to; one   *)
    (* of a Bot that had been ready is recorded as such.                     *)
    <3>2. mem.tx.phase = "switched" => proved \/ mem.tx.id \in belated'
      <4>1. boot.id # 0 /\ at # "down" /\ at # "revert"
        BY <1>1, <2>3 DEF Inv, TypeOK, Handling, Listening
      <4>2. CASE ~boot.ready
        BY <1>1, <2>3, <4>1, <4>2 DEF Inv, Proving, Spent, Runtimes
      <4>3. CASE boot.ready /\ mem.tx.phase = "switched"
        <5>1. concludes
          BY <1>5, <4>3, ConcludedOf
        <5> QED
          BY <2>3, <4>3, <5>1
      <4> QED
        BY <4>2, <4>3
    <3>3. \A t \in {j.tx} : Fits(t)'
      BY <1>1, <1>5, <3>1, <3>2, ConcludedOf DEF Fits, Active, Begun, Forward
    <3> QED
      BY <1>5, <1>6, <2>3, <3>3, ConcludedOf, SaveFits DEF Inv
  <2> QED
    BY <1>2, <2>1, <2>2, <2>3
<1>10. Placed'
  BY <1>1, <1>3, <1>4, <1>7 DEF Inv, TypeOK, Placed, Alive, Handling, Listening, launch
<1>11. Working'
  BY <1>1, <1>4, <1>7 DEF Inv, TypeOK, Working, Active
<1>12. Proving'
  BY <1>1, <1>3, <1>4, <1>7 DEF Inv, TypeOK, Proving, Spent, launch
<1> QED
  BY <1>1, <1>4, <1>8, <1>9, <1>10, <1>11, <1>12 DEF Inv, TypeOK, RunsSelected, Alive

LEMMA FinishHandoffStep ==
  ASSUME Inv, NEW c \in calls, FinishHandoff(c)  PROVE Inv'
<1>1. /\ Handling /\ calls' = calls \ {c} /\ calls' \subseteq calls /\ IsFiniteSet(calls')
      /\ UNCHANGED <<selected, staged, damaged, launch, work, boot, child, history, bounds>>
  BY FS_RemoveElement DEF FinishHandoff, Inv, release
<1>2. /\ mem \in Journal /\ made \in Nat /\ made \in made..MaxInstalls /\ staged \subseteq Release
      /\ closed \subseteq 1..made /\ cancelled \subseteq 1..made
  BY ConstantsOK DEF Inv, TypeOK
<1>3. \A t \in Known : Fits(t)'
  BY <1>1, FitsUnmoved
<1>4. CASE Accepted(c)
  <2>1. PICK j \in {State(Phase(mem, "committed"), "restarting"), State(Phase(mem, "unknown"), "unknown")} :
          Save(j) /\ (j.tx.phase = "committed" => c.what = "committed")
    <3>1. State(Phase(mem, "unknown"), "unknown").tx.phase = "unknown"
      BY <1>2, <1>4, PhaseOf, StateOf DEF Accepted, Phases, States
    <3> QED
      BY <1>4, <3>1 DEF FinishHandoff
  <2>2. mem.tx.phase = "requested" /\ c.tx = mem.tx.id /\ Fits(mem.tx) /\ work = "none" /\ Spent
        /\ at \notin {"boot", "publish"}
    BY <1>1, <1>4 DEF Accepted, Inv, Fitting, Known, Working, Active, Proving, Placed, Handling, Listening
  <2>3. /\ j \in Journal /\ j.tx.id = mem.tx.id /\ j.tx.offer = mem.tx.offer /\ j.tx.previous = mem.tx.previous
        /\ j.tx.phase \in {"committed", "unknown"}
    BY <1>2, <2>1, <2>2, PhaseOf, StateOf DEF Phases, States
  <2>4. j.tx.phase = "committed" => j.tx.id \in closed
    BY <2>1, <2>2, <2>3 DEF Inv, Working
  <2>5. \A t \in {j.tx} : Fits(t)'
    BY <1>1, <2>2, <2>3, <2>4 DEF Fits, Active, Begun, Forward, history
  <2> QED
    BY <1>1, <1>2, <1>3, <2>1, <2>2, <2>3, <2>5, NewTxStep DEF history
<1>5. CASE UNCHANGED <<mem, disk, faults>>
  <2>1. TypeOK'
    BY <1>1, <1>5 DEF Inv, TypeOK, launch, history, bounds
  <2>2. Fitting'
    BY <1>3, <1>5 DEF Fitting, Known
  <2>3. Placed' /\ Working' /\ Proving'
    BY <1>1, <1>5 DEF Inv, Placed, Alive, Working, Proving, Spent, Handling, Listening, launch, history
  <2> QED
    BY <1>1, <2>1, <2>2, <2>3 DEF Inv, RunsSelected, Alive
<1> QED
  BY <1>4, <1>5 DEF FinishHandoff

-----------------------------------------------------------------------------
(* switchRelease and rollback.                                             *)

(* A write of a switch or a rollback, with nothing else going on.          *)
LEMMA PhaseStep ==
  ASSUME Inv, NEW j \in Journal, Save(j), Active(mem.tx) \/ j = mem, ~Alive,
         UNCHANGED <<release, work, boot, calls, history, bounds, opening>>, retried' \in BOOLEAN,
         child' \in {child, NoChild}, \A t \in {j.tx} : Fits(t)',
         at' \in {"select", "reselect", "settle", "boot", "closing"},
         at' = "select" => Saved(j) /\ j.tx.phase = "switching",
         at' = "reselect" => Saved(j) /\ j.tx.phase = "rolling_back",
         at' \in {"settle", "boot"} => Saved(j) /\ j.tx.phase \notin {"requested", "committed", "switching"},
         j.tx.phase \in {"requested", "committed", "switching", "switched"} => Spent
  PROVE  Inv'
<1>1. /\ mem' \in Journal /\ disk' \in Journal /\ faults' \in 0..MaxFaults
      /\ mem'.tx = j.tx /\ mem'.offer = j.offer /\ disk' \in {disk, j} /\ (Saved(j) => mem' = j /\ disk' = j)
  BY SaveWrites DEF Inv, Saved
<1>2. /\ ~Alive' /\ (child'.stage = "handoff" => child.stage = "handoff")
      /\ work # "none" => j = mem /\ disk.tx = mem.tx
  BY DEF Inv, Working, Alive, NoChild
<1>3. TypeOK' /\ IsFiniteSet(calls)'
  BY <1>1 DEF Inv, TypeOK, release, history, bounds, NoChild
<1>4. Fitting'
  BY SaveFits, FitsUnmoved DEF Inv, release
<1>5. Placed'
  <2>1. at' = "settle" => mem' = Reopened(disk')
    BY <1>1 DEF Reopened
  <2> QED
    BY <1>1, <1>2, <2>1 DEF Placed
<1>6. Working'
  BY <1>1, <1>2 DEF Inv, Working, history, Alive
<1>7. Proving'
  BY <1>1 DEF Proving, Spent
<1> QED
  BY <1>2, <1>3, <1>4, <1>5, <1>6, <1>7 DEF Inv, RunsSelected, release

(* A step of the launcher that changes nothing but its place.              *)
LEMMA PlaceStep ==
  ASSUME Inv, UNCHANGED <<mem, disk, release, work, boot, calls, history, faults, crashes, damages, opening, retried>>,
         deaths' \in 0..MaxDeaths, child' \in {child, NoChild}, ~Alive,
         \/ at' = "closing" /\ (mem.tx.phase = "switched" => Spent) /\ at # "down"
         \/ at' = "revert" /\ at # "down" /\ mem.tx.phase \in {"committed", "switching", "switched", "rolling_back"}
         \/ at' = "switch" /\ at # "down" /\ mem.tx.phase \in {"committed", "switching"}
  PROVE  Inv'
<1>1. ~Alive' /\ (child'.stage = "handoff" => child.stage = "handoff")
  BY DEF Alive, NoChild
<1>2. TypeOK' /\ IsFiniteSet(calls)'
  BY DEF Inv, TypeOK, release, history, NoChild
<1>3. Fitting'
  BY FitsUnmoved DEF Fitting, Known, release
<1>4. Placed'
  BY <1>1 DEF Placed
<1>5. Working' /\ Proving'
  BY <1>1 DEF Inv, Working, Proving, Spent, history, Alive
<1> QED
  BY <1>1, <1>2, <1>3, <1>4, <1>5 DEF Inv, RunsSelected, release

LEMMA SwitchStep ==
  ASSUME Inv, Switch  PROVE Inv'
<1> DEFINE j == Phase(mem, "switching")
<1>1. /\ mem \in Journal /\ at = "switch" /\ mem.tx.phase \in {"committed", "switching"} /\ Active(mem.tx)
      /\ ~Alive /\ Fits(mem.tx) /\ Spent
  BY DEF Switch, Inv, TypeOK, Placed, Fitting, Known, Active, Proving
<1>2. CASE ~Loadable(mem.tx.offer)
  BY <1>1, <1>2, PlaceStep DEF Switch, Goto, bounds, Inv, TypeOK
<1>3. CASE Loadable(mem.tx.offer)
  <2>1. /\ j \in Journal /\ j.tx.id = mem.tx.id /\ j.tx.offer = mem.tx.offer /\ j.tx.previous = mem.tx.previous
        /\ j.tx.phase = "switching"
    BY <1>1, PhaseOf DEF Phases
  <2>2. /\ Save(j) /\ UNCHANGED <<release, work, boot, child, calls, history, bounds, opening, retried>>
        /\ at' \in {"select", "closing"} /\ (at' = "select" => Saved(j))
    BY <1>1, <1>3 DEF Switch, Goto, Stop, Save
  <2>3. \A t \in {j.tx} : Fits(t)'
    BY <1>1, <2>1, <2>2 DEF Fits, Active, Begun, Forward, release, history
  <2> QED
    BY <1>1, <2>1, <2>2, <2>3, PhaseStep DEF Inv, TypeOK
<1> QED
  BY <1>2, <1>3

LEMMA RevertStep ==
  ASSUME Inv, Revert  PROVE Inv'
<1>1. /\ mem \in Journal /\ at = "revert" /\ Active(mem.tx) /\ ~Alive /\ Fits(mem.tx)
      /\ mem.tx.phase \in {"committed", "switching", "switched", "rolling_back"}
  BY DEF Revert, Inv, TypeOK, Placed, Fitting, Known, Active
<1>2. CASE ~Loadable(mem.tx.previous)
  <2> DEFINE j == State(Phase(mem, "unknown"), "unknown")
  <2>1. j \in Journal /\ j.tx.id = mem.tx.id /\ j.tx.phase = "unknown"
    BY <1>1, PhaseOf, StateOf DEF Phases, States
  <2>2. Save(j) /\ at' = "closing" /\ UNCHANGED <<release, work, boot, child, calls, history, bounds, opening, retried>>
    BY <1>2 DEF Revert, Stop
  <2>3. \A t \in {j.tx} : Fits(t)'
    BY <1>1, <2>1, <2>2 DEF Fits, Active, Begun, Forward, release, history
  <2> QED
    BY <1>1, <2>1, <2>2, <2>3, PhaseStep DEF Inv, TypeOK
<1>3. CASE Loadable(mem.tx.previous)
  <2> DEFINE j == Phase(mem, "rolling_back")
  <2>1. j \in Journal /\ j.tx.id = mem.tx.id /\ j.tx.previous = mem.tx.previous /\ j.tx.phase = "rolling_back"
    BY <1>1, PhaseOf DEF Phases
  <2>2. /\ Save(j) /\ UNCHANGED <<release, work, boot, child, calls, history, bounds, opening, retried>>
        /\ at' \in {"reselect", "closing"} /\ (at' = "reselect" => Saved(j))
    BY <1>1, <1>3 DEF Revert, Goto, Stop, Save
  <2>3. \A t \in {j.tx} : Fits(t)'
    BY <1>1, <2>1, <2>2 DEF Fits, Active, Begun, Forward, release, history
  <2> QED
    BY <1>1, <2>1, <2>2, <2>3, PhaseStep DEF Inv, TypeOK
<1> QED
  BY <1>2, <1>3

LEMMA SelectingStep ==
  ASSUME Inv, NEW r \in Release, r \in staged, NEW next, Selecting(r, next),
         \/ at = "select" /\ r = mem.tx.offer /\ next = "confirm"
         \/ at = "reselect" /\ r = mem.tx.previous /\ next = "reconfirm"
  PROVE  Inv'
<1>1. /\ mem = disk /\ mem.tx.phase \in {"switching", "rolling_back"} /\ ~Alive /\ Fits(mem.tx) /\ work = "none"
  BY DEF Inv, Placed, Fitting, Known, Working, Active
<1>2. /\ selected' \in {selected, r} /\ at' \in {next, "closing"} /\ (at' = next => selected' = r)
      /\ faults' \in 0..MaxFaults /\ proved' = FALSE
      /\ UNCHANGED <<mem, disk, staged, damaged, work, boot, child, calls, made, closed, cancelled, belated, bounds, opening, retried>>
  BY ConstantsOK DEF Selecting, Goto, Stop, Inv, TypeOK
<1>3. TypeOK'
  <2>1. at' \in {"confirm", "reconfirm", "closing"} /\ selected' \in Release /\ proved' \in BOOLEAN
    BY <1>2 DEF Inv, TypeOK
  <2> QED
    BY <1>2, <2>1 DEF Inv, TypeOK, bounds
<1>4. IsFiniteSet(calls)' /\ (selected \in staged)'
  BY <1>2 DEF Inv
<1>5. Fitting'
  BY <1>1, <1>2 DEF Fitting, Known, Fits, Active, Begun, Forward
<1>6. Placed'
  BY <1>1, <1>2 DEF Inv, Placed, Alive
<1>7. Working' /\ Proving'
  BY <1>1, <1>2 DEF Inv, Working, Proving, Spent
<1> QED
  BY <1>1, <1>2, <1>3, <1>4, <1>5, <1>6, <1>7 DEF Inv, RunsSelected, Alive

LEMMA SelectStep ==
  ASSUME Inv, Select  PROVE Inv'
<1>1. mem.tx.phase = "switching" /\ mem.tx \in Tx /\ Fits(mem.tx)
  BY DEF Select, Inv, Placed, TypeOK, Journal, Fitting, Known
<1>2. mem.tx.offer \in Release /\ mem.tx.offer \in staged
  BY <1>1 DEF Tx, NoTx, Fits, Forward
<1> QED
  BY <1>2, SelectingStep DEF Select

LEMMA ReselectStep ==
  ASSUME Inv, Reselect  PROVE Inv'
<1>1. mem.tx.phase = "rolling_back" /\ mem.tx \in Tx /\ Fits(mem.tx)
  BY DEF Reselect, Inv, Placed, TypeOK, Journal, Fitting, Known
<1>2. mem.tx.previous \in Release /\ mem.tx.previous \in staged
  BY <1>1 DEF Tx, NoTx, Fits, Active
<1> QED
  BY <1>2, SelectingStep DEF Reselect

LEMMA ConfirmStep ==
  ASSUME Inv, Confirm  PROVE Inv'
<1> DEFINE j == Phase(mem, "switched")
<1>1. /\ mem \in Journal /\ at = "confirm" /\ mem.tx.phase = "switching" /\ Active(mem.tx)
      /\ ~Alive /\ Fits(mem.tx) /\ Spent /\ selected = mem.tx.offer
  BY DEF Confirm, Inv, TypeOK, Placed, Fitting, Known, Active, Proving
<1>2. /\ j \in Journal /\ j.tx.id = mem.tx.id /\ j.tx.offer = mem.tx.offer /\ j.tx.previous = mem.tx.previous
      /\ j.tx.phase = "switched"
  BY <1>1, PhaseOf DEF Phases
<1>3. /\ Save(j) /\ UNCHANGED <<release, work, boot, child, calls, history, bounds, opening, retried>>
      /\ at' \in {"settle", "boot", "closing"} /\ (at' # "closing" => Saved(j))
  BY DEF Confirm, Confirmed, Continue, Goto, Stop, Save
<1>4. \A t \in {j.tx} : Fits(t)'
  BY <1>1, <1>2, <1>3 DEF Fits, Active, Begun, Forward, release, history
<1> QED
  BY <1>1, <1>2, <1>3, <1>4, PhaseStep DEF Inv, TypeOK

LEMMA ReconfirmStep ==
  ASSUME Inv, Reconfirm  PROVE Inv'
<1> DEFINE j == State(mem, "rolling_back")
<1>1. /\ mem \in Journal /\ at = "reconfirm" /\ mem.tx.phase = "rolling_back" /\ Active(mem.tx)
      /\ ~Alive /\ Fits(mem.tx)
  BY DEF Reconfirm, Inv, TypeOK, Placed, Fitting, Known, Active
<1>2. j \in Journal /\ j.tx = mem.tx
  BY <1>1, StateOf DEF States
<1>3. /\ Save(j) /\ UNCHANGED <<release, work, boot, child, calls, history, bounds, opening, retried>>
      /\ at' \in {"settle", "boot", "closing"} /\ (at' # "closing" => Saved(j))
  BY DEF Reconfirm, Confirmed, Continue, Goto, Stop, Save
<1>4. \A t \in {j.tx} : Fits(t)'
  BY <1>1, <1>2, <1>3 DEF Fits, Active, Begun, Forward, release, history
<1> QED
  BY <1>1, <1>2, <1>3, <1>4, PhaseStep DEF Inv, TypeOK

-----------------------------------------------------------------------------
(* Launch.                                                                 *)

LEMMA OpenStep ==
  ASSUME Inv, Open  PROVE Inv'
<1>1. /\ disk \in Journal /\ mem = disk /\ work = "none" /\ calls = {} /\ boot = NoBoot /\ Fits(disk.tx)
      /\ mem' = Reopened(disk) /\ at' = Reached(disk.tx) /\ opening' = TRUE /\ retried' = FALSE /\ child' = NoChild
      /\ UNCHANGED <<disk, selected, staged, damaged, work, boot, calls, history, faults, bounds>>
  BY DEF Open, Inv, TypeOK, Placed, Fitting, Known, release
<1>2. /\ mem' \in Journal /\ mem'.tx.id = disk.tx.id /\ mem'.tx.offer = disk.tx.offer
      /\ mem'.tx.previous = disk.tx.previous
      /\ mem'.tx.phase = IF disk.tx.phase = "requested" THEN "waiting" ELSE disk.tx.phase
      /\ disk.tx.phase # "requested" => mem' = disk
  BY <1>1, ReopenedOf
<1>3. TypeOK' /\ IsFiniteSet(calls)'
  BY <1>1, <1>2 DEF Inv, TypeOK, Reached, NoChild, history, bounds
<1>4. Fitting'
  <2>1. \A t \in Known : Fits(t)'
    BY <1>1, FitsUnmoved
  <2>2. \A t \in {Reopened(disk).tx} : Fits(t)'
    BY <1>1, <1>2 DEF Fits, Active, Begun, Forward, history
  <2> QED
    BY <1>1, <2>1, <2>2 DEF Fitting, Known
<1>5. Placed'
  BY <1>1, <1>2 DEF Placed, Reached, Alive, NoChild
<1>6. Working'
  BY <1>1 DEF Inv, Working, NoChild, history
<1>7. Proving'
  BY <1>1, <1>2 DEF Proving, Reached, Spent, NoBoot
<1> QED
  BY <1>1, <1>3, <1>4, <1>5, <1>6, <1>7 DEF Inv, RunsSelected, Alive, NoChild

LEMMA SettleStep ==
  ASSUME Inv, Settle  PROVE Inv'
<1>1. /\ at = "settle" /\ mem = Reopened(disk) /\ mem \in Journal /\ disk \in Journal /\ ~Alive
      /\ mem.tx.phase \notin {"requested", "committed", "switching"}
      /\ staged \subseteq Release /\ damaged \subseteq staged /\ selected \in staged
  BY DEF Settle, Inv, TypeOK, Placed
<1>2. CASE ~Loadable(selected)
  BY <1>1, <1>2, PlaceStep DEF Settle, Stop, Inv, TypeOK, release, bounds, Proving
<1>3. CASE Loadable(selected)
  <2>1. /\ Save(mem) /\ staged' = Pruned(staged, mem) /\ boot' = [NoBoot EXCEPT !.release = selected]
        /\ at' \in {"boot", "closing"} /\ (at' = "boot" => Saved(mem)) /\ opening' \in BOOLEAN /\ retried' = retried
        /\ UNCHANGED <<selected, damaged, work, child, calls, history, bounds>>
    BY <1>3 DEF Settle, Stop, Save, Inv, TypeOK
  <2>2. /\ mem' \in Journal /\ disk' \in Journal /\ faults' \in 0..MaxFaults
        /\ mem'.tx = mem.tx /\ mem'.offer = mem.offer /\ disk' \in {disk, mem}
    BY <1>1, <2>1, SaveWrites DEF Inv
  <2>3. staged' \subseteq Release /\ damaged \subseteq staged' /\ selected \in staged'
    BY <1>1, <2>1, PrunedKeeps
  <2>4. TypeOK' /\ IsFiniteSet(calls)'
    <3>1. boot' \in Boots
      BY <2>1 DEF Inv, TypeOK, NoBoot, Boots
    <3> QED
      BY <2>1, <2>2, <2>3, <3>1 DEF Inv, TypeOK, history, bounds
  <2>5. Fitting'
    (* Memory and file differ at most in whether the Bot was asked.         *)
    <3>1. \A t \in Known : /\ t.offer = mem.tx.offer /\ t.previous = mem.tx.previous
                           /\ t.phase # mem.tx.phase => t.phase = "requested" /\ mem.tx.phase = "waiting"
      BY <1>1, ReopenedOf DEF Known
    <3>2. \A t \in Known : Fits(t)
      BY DEF Inv, Fitting
    <3>3. \A t \in Known : Fits(t)'
      <4> SUFFICES ASSUME NEW t \in Known  PROVE Fits(t)'
        OBVIOUS
      <4>1. t.phase \in Forward => t.offer \in staged'
        BY <1>1, <2>1, <3>1, <3>2, PrunedKeeps DEF Fits, Active, Forward
      <4>2. Active(t) /\ t.phase # "unknown" => t.previous \in staged'
        BY <1>1, <2>1, <3>1, <3>2, PrunedKeeps DEF Fits, Active
      <4> QED
        BY <2>1, <3>2, <4>1, <4>2 DEF Fits, history, Active
    <3>4. \A t \in {mem.tx} : Fits(t)'
      BY <3>3 DEF Known
    <3> QED
      BY <1>1, <2>1, <3>3, <3>4, SaveFits DEF Inv
  <2>6. Placed'
    BY <1>1, <2>1, <2>2 DEF Placed, Alive
  <2>7. Working'
    <3>1. work # "none" => disk'.tx = mem'.tx
      BY <2>2 DEF Inv, Working
    <3> QED
      BY <2>1, <2>2, <3>1 DEF Inv, Working, history
  <2>8. Proving'
    BY <2>1, <2>2 DEF Proving, Spent, NoBoot
  <2> QED
    BY <1>1, <2>1, <2>3, <2>4, <2>5, <2>6, <2>7, <2>8 DEF Inv, RunsSelected, Alive
<1> QED
  BY <1>2, <1>3

(* There is a name for a boot that no request under way has.               *)
LEMMA FreshIsNew ==
  ASSUME Inv
  PROVE  Fresh \in Nat \ {0} /\ Fresh \notin Used
<1> DEFINE N == Cardinality(calls) + 2
           Names == {c.boot : c \in calls}
<1>1. IsFiniteSet(calls) /\ Cardinality(calls) \in Nat
  BY FS_CardinalityType DEF Inv
<1>2. IsFiniteSet(Names) /\ Cardinality(Names) <= Cardinality(calls)
  <2> DEFINE f == [c \in calls |-> c.boot]
  <2>1. f \in Surjection(calls, Names)
    BY DEF Surjection
  <2> QED
    BY <1>1, <2>1, FS_Surjection
<1>3. IsFiniteSet(Used) /\ Cardinality(Used) <= Cardinality(calls) + 1
  <2>1. Used = Names \cup {boot.id}
    BY DEF Used
  <2>2. /\ IsFiniteSet(Names \cup {boot.id}) /\ Cardinality(Names) \in Nat
        /\ Cardinality(Names \cup {boot.id}) \in {Cardinality(Names), Cardinality(Names) + 1}
    BY <1>2, FS_AddElement, FS_CardinalityType
  <2> QED
    BY <1>1, <1>2, <2>1, <2>2
<1>4. IsFiniteSet(1..N) /\ Cardinality(1..N) = N
  BY <1>1, FS_Interval
<1>5. \E n \in 1..N : n \notin Used
  <2> SUFFICES ASSUME 1..N \subseteq Used  PROVE FALSE
    OBVIOUS
  <2>1. Cardinality(1..N) <= Cardinality(Used)
    BY <1>3, FS_Subset
  <2>2. Cardinality(Used) \in Nat
    BY <1>3, FS_CardinalityType
  <2> QED
    BY <1>1, <1>3, <1>4, <2>1, <2>2
<1>6. Fresh \in 1..N /\ Fresh \notin Used
  BY <1>5 DEF Fresh
<1> QED
  BY <1>1, <1>6

LEMMA StartStep ==
  ASSUME Inv, Start  PROVE Inv'
<1>1. /\ at = "boot" /\ at' = "publish"
      /\ child' = [boot |-> Fresh, release |-> selected, stage |-> "new", tx |-> 0]
      /\ UNCHANGED <<mem, disk, release, work, boot, calls, history, faults, bounds, opening, retried>>
  BY DEF Start, Goto
<1>2. Fresh \in Nat \ {0} /\ Fresh # boot.id /\ \A c \in calls : c.boot # Fresh
  BY FreshIsNew DEF Used
<1>3. TypeOK' /\ IsFiniteSet(calls)'
  BY <1>1, <1>2 DEF Inv, TypeOK, release, history, bounds
<1>4. Fitting'
  BY <1>1, FitsUnmoved DEF Fitting, Known, release
<1>5. Placed'
  BY <1>1, <1>2 DEF Inv, Placed, Alive, release
<1>6. Working' /\ Proving'
  BY <1>1, <1>2 DEF Inv, Working, Proving, Spent, history
<1> QED
  BY <1>1, <1>3, <1>4, <1>5, <1>6 DEF Inv, RunsSelected, release

LEMMA StartFailsStep ==
  ASSUME Inv, StartFails  PROVE Inv'
<1>1. at = "boot" /\ ~Alive /\ (mem.tx.phase = "switched" => Spent)
  BY DEF StartFails, Inv, Placed, Proving
<1>2. deaths' \in 0..MaxDeaths
  BY ConstantsOK DEF StartFails, Inv, TypeOK
<1>3. at' = "closing" \/ (at' = "revert" /\ mem.tx.phase = "switched")
  BY DEF StartFails, Stop, Goto
<1> QED
  BY <1>1, <1>2, <1>3, PlaceStep DEF StartFails, Stop, Goto

LEMMA PublishStep ==
  ASSUME Inv, Publish  PROVE Inv'
<1>1. /\ at = "publish" /\ at' = "running"
      /\ boot' = [NoBoot EXCEPT !.id = child.boot, !.release = child.release, !.timer = "armed"]
      /\ calls' \subseteq calls
      /\ UNCHANGED <<mem, disk, release, work, child, history, faults, bounds, opening, retried>>
  BY DEF Publish, Goto
<1>0. boot' \in Boots /\ boot'.id = child.boot
  BY <1>1 DEF NoBoot, Boots, Inv, TypeOK
<1>2. TypeOK' /\ IsFiniteSet(calls)'
  BY <1>0, <1>1, FS_Subset DEF Inv, TypeOK, release, history, bounds
<1>3. Fitting'
  BY <1>1, FitsUnmoved DEF Fitting, Known, release
<1>4. Placed'
  BY <1>0, <1>1 DEF Inv, Placed, Alive, release
<1>5. Working' /\ Proving'
  BY <1>0, <1>1 DEF Inv, Working, Proving, Placed, Spent, history
<1> QED
  BY <1>1, <1>2, <1>3, <1>4, <1>5 DEF Inv, RunsSelected, Alive, release

LEMMA HealthExpiresStep ==
  ASSUME Inv, HealthExpires  PROVE Inv'
<1>1. /\ at = "running" /\ boot'.id = boot.id /\ boot'.ready = boot.ready
      /\ boot' \in Boots
      /\ UNCHANGED <<mem, disk, release, work, launch, child, calls, history, faults, bounds>>
  BY DEF HealthExpires, Inv, TypeOK, Boots
<1>2. TypeOK' /\ IsFiniteSet(calls)'
  BY <1>1 DEF Inv, TypeOK, release, launch, history, bounds
<1>3. Fitting'
  BY <1>1, FitsUnmoved DEF Fitting, Known, release
<1>4. Placed' /\ Working' /\ Proving'
  BY <1>1 DEF Inv, Placed, Working, Proving, Alive, Spent, release, launch, history
<1> QED
  BY <1>1, <1>2, <1>3, <1>4 DEF Inv, RunsSelected, Alive, release

LEMMA KillStep ==
  ASSUME Inv, Kill  PROVE Inv'
<1>1. /\ at = "running" /\ boot'.id = boot.id /\ boot'.ready = boot.ready
      /\ boot' \in Boots
      /\ child'.boot = child.boot /\ child'.stage = "dead"
      /\ child' \in [boot : Nat, release : {0} \cup Release, tx : {0} \cup Transaction,
                     stage : {"none", "new", "serving", "handoff", "exiting", "dead"}]
      /\ UNCHANGED <<mem, disk, release, work, launch, calls, history, faults, bounds>>
  BY DEF Kill, Inv, TypeOK, Boots
<1>2. TypeOK' /\ IsFiniteSet(calls)'
  BY <1>1 DEF Inv, TypeOK, release, launch, history, bounds
<1>3. Fitting'
  BY <1>1, FitsUnmoved DEF Fitting, Known, release
<1>4. Placed' /\ Working' /\ Proving'
  BY <1>1 DEF Inv, Placed, Working, Proving, Alive, Spent, release, launch, history
<1> QED
  BY <1>1, <1>2, <1>3, <1>4 DEF Inv, RunsSelected, Alive, release

LEMMA ChildEndedStep ==
  ASSUME Inv, ChildEnded  PROVE Inv'
<1>1. /\ at = "running" /\ ~Alive /\ child' = NoChild /\ mem \in Journal /\ Fits(mem.tx)
      /\ UNCHANGED <<release, work, boot, calls, history, bounds, opening>>
  <2>1. child.stage = "dead" /\ child' = NoChild /\ at = "running" /\ opening' = opening
    BY DEF ChildEnded, Goto, Stop
  <2> QED
    BY <2>1 DEF ChildEnded, Alive, Inv, TypeOK, Fitting, Known
<1>2. CASE UNCHANGED <<mem, disk, faults>> /\ retried' = retried /\ at' \in {"closing", "switch", "revert"}
           /\ (at' = "closing" => mem.tx.phase # "switched") /\ (at' = "switch" => mem.tx.phase = "committed")
           /\ (at' = "revert" => mem.tx.phase = "switched")
  BY <1>1, <1>2, PlaceStep DEF bounds, Inv, TypeOK
<1>3. CASE mem.tx.phase = "rolling_back" /\ Save(State(Phase(mem, "unknown"), "unknown"))
           /\ at' = "closing" /\ retried' = retried
  <2> DEFINE j == State(Phase(mem, "unknown"), "unknown")
  <2>1. j \in Journal /\ j.tx.id = mem.tx.id /\ j.tx.phase = "unknown"
    BY <1>1, <1>3, PhaseOf, StateOf DEF Phases, States
  <2>2. \A t \in {j.tx} : Fits(t)'
    BY <1>1, <1>3, <2>1 DEF Fits, Active, Begun, Forward, release, history
  <2> QED
    BY <1>1, <1>3, <2>1, <2>2, PhaseStep DEF Inv, TypeOK, Active
<1>4. CASE mem.tx.phase \in {"requested", "cancelled", "unknown"} /\ Save(Reopened(mem)) /\ retried' \in BOOLEAN
           /\ (at' = "closing" \/ (at' = "boot" /\ Saved(Reopened(mem))))
  <2> DEFINE j == Reopened(mem)
  <2>1. /\ j \in Journal /\ j.tx.id = mem.tx.id /\ j.tx.offer = mem.tx.offer /\ j.tx.previous = mem.tx.previous
        /\ j.tx.phase \in {"waiting", "cancelled", "unknown"}
        /\ mem.tx.phase = "requested" => j.tx.phase = "waiting"
        /\ mem.tx.phase # "requested" => j = mem
    BY <1>1, <1>4, ReopenedOf
  <2>2. \A t \in {j.tx} : Fits(t)'
    BY <1>1, <1>4, <2>1 DEF Fits, Active, Begun, Forward, release, history
  <2>3. Active(mem.tx) \/ j = mem
    BY <2>1 DEF Active
  <2> HIDE DEF j
  <2> QED
    BY <1>1, <1>4, <2>1, <2>2, <2>3, PhaseStep DEF j
<1>5. \/ /\ UNCHANGED <<mem, disk, faults>> /\ retried' = retried /\ at' \in {"closing", "switch", "revert"}
         /\ (at' = "closing" => mem.tx.phase # "switched") /\ (at' = "switch" => mem.tx.phase = "committed")
         /\ (at' = "revert" => mem.tx.phase = "switched")
      \/ /\ mem.tx.phase = "rolling_back" /\ Save(State(Phase(mem, "unknown"), "unknown"))
         /\ at' = "closing" /\ retried' = retried
      \/ /\ mem.tx.phase \in {"requested", "cancelled", "unknown"} /\ Save(Reopened(mem)) /\ retried' \in BOOLEAN
         /\ (at' = "closing" \/ (at' = "boot" /\ Saved(Reopened(mem))))
  BY DEF ChildEnded, Restartable, Goto, Stop, Save, Inv, TypeOK
<1> QED
  BY <1>2, <1>3, <1>4, <1>5

LEMMA EndedStep ==
  ASSUME Inv, at # "down", Ended, UNCHANGED <<disk, release, child, history, faults, deaths, damages>>,
         crashes' \in 0..MaxCrashes
  PROVE  Inv'
<1>1. /\ at' = "down" /\ opening' = FALSE /\ retried' = FALSE /\ mem' = disk /\ work' = "none"
      /\ boot' = NoBoot /\ calls' = {}
      /\ UNCHANGED <<disk, selected, staged, damaged, child, history, faults, deaths, damages>>
  BY DEF Ended, release
<1>2. TypeOK'
  BY <1>1 DEF Inv, TypeOK, NoBoot, Boots, history
<1>3. IsFiniteSet(calls)'
  BY <1>1, FS_EmptySet
<1>4. Fitting'
  <2>1. \A t \in Known : Fits(t)'
    BY <1>1, FitsUnmoved
  <2> QED
    BY <1>1, <2>1 DEF Fitting, Known
<1>5. Placed' /\ Working' /\ Proving'
  BY <1>1 DEF Inv, Placed, Alive, Working, Proving, history
<1> QED
  BY <1>1, <1>2, <1>3, <1>4, <1>5 DEF Inv, RunsSelected, Alive

LEMMA ClosedStep ==
  ASSUME Inv, Closed  PROVE Inv'
BY EndedStep DEF Closed, bounds, Inv, TypeOK

LEMMA CrashStep ==
  ASSUME Inv, Crash  PROVE Inv'
<1>1. crashes' \in 0..MaxCrashes
  BY ConstantsOK DEF Crash, Inv, TypeOK
<1> QED
  BY <1>1, EndedStep DEF Crash

-----------------------------------------------------------------------------
LEMMA InitInv == Init => Inv
<1> SUFFICES ASSUME Init  PROVE Inv
  OBVIOUS
<1>1. mem = [state |-> "idle", offer |-> 0, tx |-> NoTx] /\ disk = mem /\ mem \in Journal
  BY DEF Init, Journal, States, Tx
<1>2. 1 \in Release
  BY ConstantsOK DEF Release
<1>3. boot = NoBoot /\ child = NoChild
  BY DEF Init
<1>4. TypeOK /\ IsFiniteSet(calls)
  <2>1. boot \in Boots
    BY <1>3 DEF NoBoot, Boots
  <2>2. child \in [boot : Nat, release : {0} \cup Release, tx : {0} \cup Transaction,
                  stage : {"none", "new", "serving", "handoff", "exiting", "dead"}]
    BY <1>3 DEF NoChild
  <2>3. /\ selected \in Release /\ staged \subseteq Release /\ damaged \subseteq staged
        /\ calls = {} /\ closed = {} /\ cancelled = {}
    BY <1>2 DEF Init
  <2>4. made \in 0..MaxInstalls /\ crashes \in 0..MaxCrashes /\ deaths \in 0..MaxDeaths
        /\ faults \in 0..MaxFaults /\ damages \in 0..MaxDamage
    BY ConstantsOK DEF Init
  <2> QED
    BY <1>1, <2>1, <2>2, <2>3, <2>4, FS_EmptySet DEF Init, TypeOK
<1>5. Fitting
  BY <1>1 DEF Init, Fitting, Known, Fits, Active, NoTx, Begun, Forward
<1>6. Placed /\ Working /\ Proving /\ RunsSelected /\ selected \in staged
  BY <1>1, <1>3 DEF Init, Placed, Working, Proving, RunsSelected, Alive, NoChild
<1> QED
  BY <1>4, <1>5, <1>6 DEF Inv

LEMMA UnchangedInv ==
  ASSUME Inv, UNCHANGED vars  PROVE Inv'
<1>1. UNCHANGED <<mem, disk, selected, staged, damaged, work, at, opening, retried, boot, child, calls>>
  BY DEF vars
<1>2. UNCHANGED <<made, closed, cancelled, proved, belated, crashes, deaths, faults, damages>>
  BY DEF vars
<1>3. TypeOK' /\ IsFiniteSet(calls)' /\ RunsSelected'
  BY <1>1, <1>2 DEF Inv, TypeOK, RunsSelected, Alive
<1>4. Fitting'
  BY <1>1, <1>2, FitsUnmoved DEF Fitting, Known, history
<1>5. Placed' /\ Working' /\ Proving'
  BY <1>1, <1>2 DEF Inv, Placed, Alive, Working, Proving, Spent
<1> QED
  BY <1>1, <1>3, <1>4, <1>5 DEF Inv

LEMMA NextInv == Inv /\ [Next]_vars => Inv'
<1> SUFFICES ASSUME Inv, [Next]_vars  PROVE Inv'
  OBVIOUS
<1>1. CASE User
  BY <1>1, TouchStep, StartCheckStep, StartDownloadStep, InstallStep, LocalUpgradeStep, CancelStep DEF User
<1>2. CASE Worker
  BY <1>2, CheckedStep, DownloadedStep DEF Worker
<1>3. CASE Requests
  BY <1>3, ReadyStep, FinishHandoffStep DEF Requests
<1>4. CASE Launcher
  BY <1>4, SwitchStep, SelectStep, ConfirmStep, RevertStep, ReselectStep, ReconfirmStep, OpenStep, SettleStep,
     StartStep, StartFailsStep, PublishStep, KillStep, ChildEndedStep, ClosedStep DEF Launcher
<1>5. CASE HealthExpires \/ SendReady \/ SendFailure \/ Report \/ GivesUp \/ Handoff \/ Busy \/ CloseCore \/ Exits \/ Dies
  BY <1>5, HealthExpiresStep, SendReadyStep, SendFailureStep, ReportStep, GivesUpStep, HandoffStep, BusyStep, CloseCoreStep, ExitsStep, DiesStep
<1>6. CASE Crash \/ Damage
  BY <1>6, CrashStep, DamageStep
<1>7. CASE UNCHANGED vars
  BY <1>7, UnchangedInv
<1> QED
  BY <1>1, <1>2, <1>3, <1>4, <1>5, <1>6, <1>7 DEF Next

THEOREM Safety == Spec => []Inv
BY InitInv, NextInv, PTL DEF Spec

(* Every variable keeps its type: the journal in memory and in the file is  *)
(* one the program writes, and damage is of releases that are there.        *)
THEOREM Typing == Spec => []TypeOK
<1>1. Inv => TypeOK
  BY DEF Inv
<1> QED
  BY <1>1, Safety, PTL

(* "Only confirmed old-owner Close can commit" and no cancelled install     *)
(* takes place, over every crash, lost answer and failed write              *)
(* (Manager.Handoff, commandLocked, Open).                                  *)
THEOREM OnlyCloseCommits == Spec => []OnlyClosed
<1>1. Inv => OnlyClosed
  BY DEF Inv, Fitting, Fits, OnlyClosed, Begun
<1> QED
  BY <1>1, Safety, PTL

(* Only an observed exit of the Bot allows its replacement: no selection    *)
(* changes under a Bot that is alive (switchRelease, rollback, Open).       *)
THEOREM NothingReplacedAlive == Spec => []RunsSelected
<1>1. Inv => RunsSelected
  BY DEF Inv
<1> QED
  BY <1>1, Safety, PTL

(* Only the word of a Bot makes an update healthy: that of one of the       *)
(* selected release, or the late changed report of one that had been ready  *)
(* before it closed; never a first report of another Bot, a restart or a    *)
(* selected path (Manager.Ready, recoverSelection).                         *)
THEOREM OnlyReadyIsHealthy == Spec => []HealthyTrue
<1>1. Inv => HealthyTrue
  BY DEF Inv, Fitting, Fits, HealthyTrue
<1> QED
  BY <1>1, Safety, PTL

(* Retention never takes a release that recovery may need (prune, Open,     *)
(* selectRelease).                                                          *)
THEOREM RetentionKeeps == Spec => []Recoverable
<1>1. Inv => Recoverable
  BY DEF Inv, Fitting, Fits, Recoverable, Forward
<1> QED
  BY <1>1, Safety, PTL
=============================================================================
