------------------------ MODULE SystemDeliveryProofs ------------------------
(***************************************************************************)
(* Proofs about SystemDelivery, for every set of messages, contents,       *)
(* Runtimes and readers.                                                   *)
(***************************************************************************)
EXTENDS SystemDelivery, FiniteSetTheorems, TLAPS

(***************************************************************************)
(* Types.                                                                  *)
(***************************************************************************)
LEMMA TypeInit == Init => TypeOK
BY Names DEF Init, TypeOK, Log, Record, Absent, Outcome, Owner, Fingerprint, Reading, NotReading,
   NotSubmitting, NativeState, Terminal, ReadingState, SubState

(* What was told stays a set of receipts.                                  *)
LEMMA TellType ==
  ASSUME told \in [Message -> SUBSET (Fingerprint \X Terminal)],
         NEW m \in Message, NEW c \in Fingerprint, NEW outcome, Tell(m, c, outcome)
  PROVE  told' \in [Message -> SUBSET (Fingerprint \X Terminal)]
<1>1. {<<c, o>> : o \in {outcome} \cap Terminal} \in SUBSET (Fingerprint \X Terminal)
  OBVIOUS
<1> QED
  BY <1>1 DEF Tell

(* A log with another outcome for one message is a log.                    *)
LEMMA OutcomeType ==
  ASSUME NEW s \in Log, NEW m \in Message, NEW o \in Outcome
  PROVE  /\ [s EXCEPT ![m].outcome = o] \in Log
         /\ [s EXCEPT ![m].outcome = o][m].outcome = o
         /\ \A n \in Message : n # m => [s EXCEPT ![m].outcome = o][n] = s[n]
BY DEF Log, Record

LEMMA ForType ==
  ASSUME TypeOK, NEW x \in Reading PROVE For(x) \in Fingerprint
BY DEF TypeOK, For, SubState, NotSubmitting, Fingerprint

LEMMA WriteType ==
  ASSUME TypeOK, NEW s \in Log, Saved(s) \/ Unsaved(s)
  PROVE  mem' \in Log /\ disk' \in Log /\ faults' \in Nat
BY DEF TypeOK, Saved, Unsaved

LEMMA TypeReceipts == TypeOK /\ (Receipts \/ \E x \in Reading : RecheckOld(x)) => TypeOK'
<1> SUFFICES ASSUME TypeOK, Receipts \/ \E x \in Reading : RecheckOld(x) PROVE TypeOK'
  OBVIOUS
<1>1. ASSUME NEW m \in Message, ReadSettled(m) PROVE TypeOK'
  <2>1. Nobody \in Fingerprint
    BY DEF Fingerprint
  <2>2. told' \in [Message -> SUBSET (Fingerprint \X Terminal)]
    BY <1>1, <2>1, TellType DEF ReadSettled, TypeOK
  <2> QED
    BY <1>1, <2>2 DEF ReadSettled, TypeOK, world, counters
<1>2. ASSUME NEW x \in Reader, NEW m \in Message, ReadStart(x, m) PROVE TypeOK'
  BY <1>2 DEF ReadStart, StartRead, TypeOK, world, counters, ReadingState, Reading
<1>3. ASSUME NEW x \in Reading, Ask(x) PROVE TypeOK'
  <2>1. reading[x] \in [at : {"native"}, msg : Message, from : Provider, seen : {"unknown"}, old : BOOLEAN]
    BY <1>3 DEF Ask, TypeOK, ReadingState, NotReading
  <2>2. reading' \in [Reading -> ReadingState]
    BY <1>3, <2>1 DEF Ask, TypeOK, ReadingState
  <2> QED
    BY <1>3, <2>2 DEF Ask, TypeOK, world, counters
<1>4. ASSUME NEW x \in Reading, Recheck(x) \/ RecheckOld(x) PROVE TypeOK'
  <2> DEFINE m == reading[x].msg
  <2>1. m \in Message /\ reading[x].seen \in Terminal
    BY <1>4 DEF Recheck, RecheckOld, TypeOK, ReadingState, NotReading
  <2>2. reading' \in [Reading -> ReadingState]
    BY <1>4 DEF Recheck, RecheckOld, TypeOK, ReadingState
  <2>3. For(x) \in Fingerprint /\ Nobody \in Fingerprint
    BY ForType DEF Fingerprint
  <2>4. reading[x].seen \in Outcome
    BY <2>1 DEF Outcome
  <2>5. told' \in [Message -> SUBSET (Fingerprint \X Terminal)]
    BY <1>4, <2>1, <2>3, TellType DEF Recheck, RecheckOld, TypeOK
  <2>6. CASE Recheck(x)
    <3>1. [mem EXCEPT ![m].outcome = reading[x].seen] \in Log
      BY <2>1, <2>4, OutcomeType DEF TypeOK
    <3>2. mem' \in Log /\ disk' \in Log /\ faults' \in Nat
      BY <2>6, <3>1, WriteType DEF Recheck, TypeOK
    <3> QED
      BY <2>6, <2>2, <2>5, <3>2 DEF Recheck, TypeOK, world, counters
  <2>7. CASE RecheckOld(x)
    <3>1. [stale EXCEPT ![m].outcome = reading[x].seen] \in Log
      BY <2>1, <2>4, OutcomeType DEF TypeOK
    <3>2. stale' \in Log /\ disk' \in Log
      BY <2>7, <3>1 DEF RecheckOld, TypeOK
    <3> QED
      BY <2>7, <2>2, <2>5, <3>2 DEF RecheckOld, TypeOK, world, counters
  <2> QED
    BY <1>4, <2>6, <2>7
<1> QED
  BY <1>1, <1>2, <1>3, <1>4 DEF Receipts

LEMMA TypeSubmission == TypeOK /\ Submission => TypeOK'
<1> SUFFICES ASSUME TypeOK, Submission PROVE TypeOK'
  OBVIOUS
<1>0. NotSubmitting \in SubState /\ NotReading \in ReadingState
  BY DEF SubState, ReadingState
<1>1. ASSUME NEW m \in Message, NEW c \in Content, Begin(m, c) PROVE TypeOK'
  <2>1. told' \in [Message -> SUBSET (Fingerprint \X Terminal)]
    <3>1. c \in Fingerprint
      BY DEF Fingerprint
    <3> QED
      BY <1>1, <3>1, TellType DEF Begin, TypeOK
  <2>2. reading' \in [Reading -> ReadingState]
    <3>1. reading' = reading \/ StartRead(Submitter, m)
      BY <1>1 DEF Begin
    <3>2. [at |-> "native", msg |-> m, from |-> provider, seen |-> "unknown", old |-> FALSE] \in ReadingState
      BY DEF TypeOK, ReadingState
    <3>3. Submitter \in Reading
      BY DEF Reading
    <3> QED
      BY <3>1, <3>2, <3>3 DEF StartRead, TypeOK
  <2>3. sub' \in SubState
    BY <1>1 DEF Begin, TypeOK, SubState
  <2> QED
    BY <1>1, <2>1, <2>2, <2>3 DEF Begin, TypeOK, world, counters
<1>2. CASE NotAdmitted
  BY <1>0, <1>2 DEF NotAdmitted, TypeOK, world, counters
<1>3. CASE Fence
  <2>1. sub \in [at : {"reconcile", "dispatch", "flight", "settle"}, msg : Message, content : Content,
                 answer : {"unknown", "mismatch", "deferred"} \cup Terminal]
    BY <1>3 DEF Fence, Reconciled, TypeOK, SubState, NotSubmitting
  <2> DEFINE s == [mem EXCEPT ![sub.msg] =
                     [outcome |-> "unknown", owner |-> provider, content |-> sub.content]]
  <2>2. s \in Log
    BY <2>1 DEF TypeOK, Log, Record, Outcome, Owner, Fingerprint
  <2>3. mem' \in Log /\ disk' \in Log /\ faults' \in Nat
    BY <1>3, <2>2, WriteType DEF Fence
  <2>4. sub' \in SubState
    BY <1>0, <1>3, <2>1 DEF Fence, SubState
  <2> QED
    BY <1>3, <2>3, <2>4 DEF Fence, TypeOK, world, counters
<1>4. ASSUME Settling PROVE sub.msg \in Message /\ sub.content \in Fingerprint /\ sub' \in SubState
  BY <1>0, <1>4 DEF Settling, TypeOK, SubState, NotSubmitting, Fingerprint
<1>5. CASE SettledMeanwhile
  <2>1. Settling
    BY <1>5 DEF SettledMeanwhile
  <2>2. told' \in [Message -> SUBSET (Fingerprint \X Terminal)]
    BY <1>4, <1>5, <2>1, TellType DEF SettledMeanwhile, TypeOK
  <2> QED
    BY <1>4, <1>5, <2>1, <2>2 DEF SettledMeanwhile, TypeOK, world, counters
<1>6. CASE Mismatched
  BY <1>4, <1>6 DEF Mismatched, TypeOK, world, counters
<1>7. CASE Release
  <2>1. Settling
    BY <1>7 DEF Release
  <2>2. [mem EXCEPT ![sub.msg] = Absent] \in Log
    BY <1>4, <2>1 DEF TypeOK, Log, Record, Absent, Outcome, Owner, Fingerprint
  <2>3. mem' \in Log /\ disk' \in Log /\ faults' \in Nat
    BY <1>7, <2>2, WriteType DEF Release
  <2> QED
    BY <1>4, <1>7, <2>1, <2>3 DEF Release, TypeOK, world, counters
<1>8. CASE Conclude
  <2>1. Settling /\ sub.answer \in Outcome
    BY <1>8 DEF Conclude, Outcome
  <2>2. [mem EXCEPT ![sub.msg].outcome = sub.answer] \in Log
    BY <1>4, <2>1, OutcomeType DEF TypeOK
  <2>3. mem' \in Log /\ disk' \in Log /\ faults' \in Nat
    BY <1>8, <2>2, WriteType DEF Conclude
  <2>4. told' \in [Message -> SUBSET (Fingerprint \X Terminal)]
    BY <1>4, <1>8, <2>1, TellType DEF Conclude, TypeOK
  <2> QED
    BY <1>4, <1>8, <2>1, <2>3, <2>4 DEF Conclude, TypeOK, world, counters
<1> QED
  BY <1>1, <1>2, <1>3, <1>5, <1>6, <1>7, <1>8 DEF Submission

(* The answer of an adapter to the message it was given.                   *)
LEMMA AnswerType ==
  ASSUME TypeOK, sub.at # "idle",
         NEW a \in {"unknown", "mismatch", "deferred"} \cup Terminal, Answer(a)
  PROVE  sub' \in SubState
<1>1. sub \in [at : {"reconcile", "dispatch", "flight", "settle"}, msg : Message, content : Content,
               answer : {"unknown", "mismatch", "deferred"} \cup Terminal]
  BY DEF TypeOK, SubState, NotSubmitting
<1>2. sub' = [sub EXCEPT !.at = "settle", !.answer = a]
  BY DEF Answer
<1> QED
  BY <1>1, <1>2 DEF SubState

LEMMA TypeAdapter == TypeOK /\ (Adapter \/ NativeKnows) => TypeOK'
<1> SUFFICES ASSUME TypeOK, Adapter \/ NativeKnows PROVE TypeOK'
  OBVIOUS
<1>1. ASSUME sub.at # "idle" PROVE sub.msg \in Message /\ sub.content \in Content /\ Here \in NativeState
  BY <1>1 DEF TypeOK, SubState, NotSubmitting, Here
<1>2. CASE NativeDefers
  BY <1>2, AnswerType DEF NativeDefers, TypeOK, world, Terminal
<1>3. CASE NativeRefuses
  BY <1>3, AnswerType DEF NativeRefuses, TypeOK, world, counters, Terminal
<1>4. CASE NativeKnows
  <2> DEFINE a == IF Here = "open" THEN "unknown" ELSE Here
  <2>1. a \in {"unknown", "mismatch", "deferred"} \cup Terminal
    BY <1>1, <1>4 DEF NativeKnows, NativeState
  <2>2. sub' \in SubState
    BY <1>4, <2>1, AnswerType DEF NativeKnows
  <2> QED
    BY <1>4, <2>2 DEF NativeKnows, TypeOK, world, counters
<1>5. CASE NativeCreates
  <2>1. sub.at = "dispatch"
    BY <1>5 DEF NativeCreates
  <2>2. native' \in [Provider -> [Message -> NativeState]]
    BY <1>5 DEF NativeCreates, TypeOK, NativeState
  <2>3. given' \in [Message -> Nat] /\ body' \in [Message -> Fingerprint]
    BY <1>1, <1>5, <2>1 DEF NativeCreates, TypeOK, Fingerprint
  <2>4. sub' \in SubState
    BY <1>5, <2>1 DEF NativeCreates, TypeOK, SubState, NotSubmitting
  <2> QED
    BY <1>5, <2>2, <2>3, <2>4 DEF NativeCreates, TypeOK, counters
<1>6. CASE NativeReturns
  <2>1. sub' \in SubState
    BY <1>6, AnswerType DEF NativeReturns
  <2> QED
    BY <1>6, <2>1 DEF NativeReturns, TypeOK, world, counters
<1>7. ASSUME NEW p \in Provider, NEW m \in Message, NEW outcome \in Terminal,
             NativeSettles(p, m, outcome)
      PROVE  TypeOK'
  <2>1. native' \in [Provider -> [Message -> NativeState]]
    BY <1>7 DEF NativeSettles, TypeOK, NativeState
  <2> QED
    BY <1>7, <2>1 DEF NativeSettles, TypeOK, counters
<1> QED
  BY <1>2, <1>3, <1>4, <1>5, <1>6, <1>7 DEF Adapter

LEMMA TypeLifecycle == TypeOK /\ (Lifecycle \/ \E p \in Provider : SwitchAway(p)) => TypeOK'
<1> SUFFICES ASSUME TypeOK, Lifecycle \/ \E p \in Provider : SwitchAway(p) PROVE TypeOK'
  OBVIOUS
<1>0. NotSubmitting \in SubState /\ NotReading \in ReadingState
  BY DEF SubState, ReadingState
<1>1. CASE Restart
  BY <1>0, <1>1 DEF Restart, TypeOK, world
<1>2. ASSUME NEW p \in Provider, Switch(p) \/ SwitchAway(p) PROVE TypeOK'
  <2>1. ASSUME NEW x \in Reading, reading[x].at # "idle"
        PROVE  [reading[x] EXCEPT !.old = TRUE] \in ReadingState
    <3>1. CASE reading[x] \in [at : {"native"}, msg : Message, from : Provider, seen : {"unknown"}, old : BOOLEAN]
      BY <3>1 DEF ReadingState
    <3>2. CASE reading[x] \in [at : {"recheck"}, msg : Message, from : Provider, seen : Terminal, old : BOOLEAN]
      BY <3>2 DEF ReadingState
    <3> QED
      BY <2>1, <3>1, <3>2 DEF TypeOK, ReadingState, NotReading
  <2>2. reading' \in [Reading -> ReadingState]
    BY <1>0, <1>2, <2>1 DEF Switch, SwitchAway, TypeOK
  <2> QED
    BY <1>2, <2>2 DEF Switch, SwitchAway, ToRuntime, TypeOK, world
<1>3. ASSUME NEW m \in Legacy, Import(m) PROVE TypeOK'
  <2>1. m \in Message /\ LegacyOutcome[m] \in Outcome
    BY Names DEF Outcome, Terminal
  <2>2. [mem EXCEPT ![m].outcome = LegacyOutcome[m]] \in Log
    BY <2>1, OutcomeType DEF TypeOK
  <2>3. mem' \in Log /\ disk' \in Log /\ faults' \in Nat
    BY <1>3, <2>2, WriteType DEF Import
  <2> QED
    BY <1>3, <2>3 DEF Import, TypeOK, world, counters
<1> QED
  BY <1>1, <1>2, <1>3 DEF Lifecycle

LEMMA TypeStep == TypeOK /\ [Next \/ Outlived]_vars => TypeOK'
<1>1. TypeOK /\ UNCHANGED vars => TypeOK'
  BY DEF TypeOK, vars
<1> QED
  BY <1>1, TypeReceipts, TypeSubmission, TypeAdapter, TypeLifecycle DEF Next, Outlived

(* Every log has its shape, that of a replaced resident included.          *)
THEOREM LingeringTyping == LingeringSpec => []TypeOK
BY TypeInit, TypeStep, PTL DEF LingeringSpec

(* Every log has its shape.                                                *)
THEOREM Typing == Spec => []TypeOK
<1>1. TypeOK /\ [Next]_vars => TypeOK'
  BY TypeStep
<1> QED
  BY TypeInit, <1>1, PTL DEF Spec

(***************************************************************************)
(* Safety.  What one write changes, and what it keeps.                     *)
(***************************************************************************)
LEMMA TellAdds ==
  ASSUME TypeOK, NEW m \in Message, NEW c, NEW o, Tell(m, c, o)
  PROVE  /\ \A n \in Message : n # m => told'[n] = told[n]
         /\ \A t \in told'[m] : t \in told[m] \/ (t[2] = o /\ o \in Terminal)
BY DEF Tell, TypeOK

LEMMA WriteEffect ==
  ASSUME TypeOK, NEW m \in Message, NEW s \in Log,
         \A n \in Message : n # m => s[n] = mem[n],
         Saved(s) \/ Unsaved(s)
  PROVE  /\ \A n \in Message : n # m => mem'[n] = mem[n] /\ disk'[n] \in {disk[n], mem[n]}
         /\ mem'[m] \in {mem[m], s[m]} /\ disk'[m] \in {disk[m], s[m]}
         /\ Saved(s) => mem'[m] = s[m] /\ disk'[m] = s[m]
         /\ Unsaved(s) => mem'[m] = mem[m]
BY DEF Saved, Unsaved

(* A write keeps every fence that an operation needs.                      *)
LEMMA WriteFenced ==
  ASSUME TypeOK, Fenced, NEW m \in Message, NEW s \in Log,
         \A n \in Message : n # m => s[n] = mem[n],
         s[m].outcome = "none" => given[m] = 0,
         Saved(s) \/ Unsaved(s), UNCHANGED <<given, native>>
  PROVE  Fenced'
<1> SUFFICES ASSUME NEW n \in Message, n \notin Legacy, given[n] = 1
             PROVE  mem'[n].outcome # "none" /\ disk'[n].outcome # "none"
  BY DEF Fenced
<1>1. mem[n].outcome # "none" /\ disk[n].outcome # "none"
  BY DEF Fenced
<1> QED
  BY <1>1, WriteEffect

(* A write settles what was not settled, and what is told agrees with it.  *)
LEMMA WriteDurable ==
  ASSUME TypeOK, Durable, NEW m \in Message, NEW s \in Log,
         \A n \in Message : n # m => s[n] = mem[n],
         mem[m].outcome \notin Terminal,
         \/ Saved(s) /\ (UNCHANGED told \/ \E c \in Fingerprint : Tell(m, c, s[m].outcome))
         \/ Unsaved(s) /\ UNCHANGED told
  PROVE  Durable'
<1>1. told[m] = {}
  BY DEF Durable, TypeOK
<1>2. ASSUME NEW n \in Message, n # m
      PROVE  /\ mem'[n].outcome \in Terminal => disk'[n].outcome = mem'[n].outcome
             /\ \A t \in told'[n] : t[2] = mem'[n].outcome
  <2>1. told'[n] = told[n]
    BY <1>2, TellAdds
  <2> QED
    BY <1>2, <2>1, WriteEffect DEF Durable
<1>3. mem'[m].outcome \in Terminal => disk'[m].outcome = mem'[m].outcome
  BY WriteEffect
<1>4. \A t \in told'[m] : t[2] = mem'[m].outcome
  BY <1>1, WriteEffect, TellAdds
<1> QED
  BY <1>2, <1>3, <1>4 DEF Durable

(* Telling what the log says keeps the receipts final.                     *)
LEMMA TellDurable ==
  ASSUME TypeOK, Durable, NEW m \in Message, NEW c, Tell(m, c, mem[m].outcome),
         UNCHANGED <<mem, disk>>
  PROVE  Durable'
BY TellAdds DEF Durable

LEMMA SafeInit == Init => Safe
BY Names DEF Init, Safe, Fenced, Submitting, Reads, Durable, Absent, NotReading, NotSubmitting, Terminal

(* A reader that proved something asks about a message that was created.   *)
LEMMA SafeReceipts == TypeOK /\ Safe /\ Receipts => Safe'
<1> SUFFICES ASSUME TypeOK, Safe, Receipts PROVE Safe'
  OBVIOUS
<1> USE DEF Safe
<1>1. ASSUME NEW m \in Message, ReadSettled(m) PROVE Safe'
  <2>1. Durable'
    BY <1>1, TellDurable DEF ReadSettled
  <2> QED
    BY <1>1, <2>1 DEF ReadSettled, Fenced, Submitting, Reads, world
<1>2. ASSUME NEW x \in Reader, NEW m \in Message, ReadStart(x, m) PROVE Safe'
  <2>1. Reads'
    BY <1>2 DEF ReadStart, StartRead, Reads, world, TypeOK
  <2> QED
    BY <1>2, <2>1 DEF ReadStart, Fenced, Submitting, Durable, world
<1>3. ASSUME NEW x \in Reading, Ask(x) PROVE Safe'
  <2>1. reading[x] \in [at : {"native"}, msg : Message, from : Provider, seen : {"unknown"}, old : BOOLEAN]
    BY <1>3 DEF Ask, TypeOK, ReadingState, NotReading
  <2>2. native[reading[x].from][reading[x].msg] \in Terminal => given[reading[x].msg] = 1
    BY <2>1 DEF Fenced, Terminal
  <2>3. Reads'
    BY <1>3, <2>1, <2>2 DEF Ask, Reads, NotReading, world, TypeOK
  <2> QED
    BY <1>3, <2>3 DEF Ask, Fenced, Submitting, Durable, world
<1>4. ASSUME NEW x \in Reading, Recheck(x) PROVE Safe'
  <2> DEFINE m == reading[x].msg
             s == [mem EXCEPT ![m].outcome = reading[x].seen]
  <2>1. m \in Message /\ reading[x].seen \in Terminal /\ reading[x].seen \in Outcome /\ given[m] = 1
    BY <1>4 DEF Recheck, TypeOK, ReadingState, NotReading, Reads, Outcome
  <2>2. UNCHANGED <<given, native, sub>>
    BY <1>4 DEF Recheck, world
  <2>3. Reads'
    BY <1>4, <2>2 DEF Recheck, Reads, NotReading, TypeOK
  <2>4. CASE UNCHANGED <<mem, disk>> /\ Tell(m, For(x), mem[m].outcome)
    <3>1. Durable'
      BY <2>1, <2>4, TellDurable
    <3> QED
      BY <2>2, <2>3, <2>4, <3>1 DEF Fenced, Submitting
  <2>5. CASE /\ mem[m].outcome \notin Terminal
             /\ \/ Saved(s) /\ Tell(m, For(x), reading[x].seen)
                \/ Unsaved(s) /\ UNCHANGED told
    <3>1. /\ s \in Log /\ s[m].outcome = reading[x].seen
          /\ \A n \in Message : n # m => s[n] = mem[n]
      BY <2>1, OutcomeType DEF TypeOK
    <3>2. Fenced'
      BY <2>1, <2>2, <2>5, <3>1, WriteFenced DEF Terminal
    <3>3. Durable'
      BY <2>1, <2>5, <3>1, ForType, WriteDurable
    <3>4. Submitting'
      <4>1. ASSUME sub.at = "dispatch" PROVE sub.msg \in Message /\ sub.msg # m
        BY <2>1, <4>1 DEF Submitting, TypeOK, SubState, NotSubmitting
      <4>2. ASSUME sub.at = "dispatch"
            PROVE mem'[sub.msg].outcome = "unknown" /\ disk'[sub.msg].outcome = "unknown"
        BY <2>1, <2>5, <3>1, <4>1, <4>2, WriteEffect DEF Submitting
      <4>3. ASSUME sub.at # "idle", sub.msg \in Legacy
            PROVE sub.at = "reconcile" /\ mem'[sub.msg].outcome # "none"
        <5>1. sub.msg \in Message /\ sub.at = "reconcile" /\ mem[sub.msg].outcome # "none"
          BY <4>3, Names DEF Submitting
        <5>2. mem'[sub.msg] \in {mem[sub.msg], s[sub.msg]} /\ (sub.msg # m => s[sub.msg] = mem[sub.msg])
          <6> HIDE DEF s
          <6> QED
            BY <2>5, <3>1, <5>1 DEF Saved, Unsaved
        <5>3. sub.msg = m => s[sub.msg].outcome # "none"
          BY <2>1, <3>1 DEF Terminal
        <5> HIDE DEF s, m
        <5> QED
          BY <5>1, <5>2, <5>3
      <4> QED
        BY <2>2, <4>2, <4>3 DEF Submitting
    <3> QED
      BY <2>3, <3>2, <3>3, <3>4
  <2>6. \/ UNCHANGED <<mem, disk>> /\ Tell(m, For(x), mem[m].outcome)
        \/ /\ mem[m].outcome \notin Terminal
           /\ \/ Saved(s) /\ Tell(m, For(x), reading[x].seen)
              \/ Unsaved(s) /\ UNCHANGED told
    BY <1>4 DEF Recheck
  <2> QED
    BY <2>4, <2>5, <2>6
<1> QED
  BY <1>1, <1>2, <1>3, <1>4 DEF Receipts

(* While a message is being settled, an uncertain receipt is its fence.    *)
LEMMA SafeSubmission == TypeOK /\ Safe /\ Submission => Safe'
<1> SUFFICES ASSUME TypeOK, Safe, Submission PROVE Safe'
  OBVIOUS
<1> USE DEF Safe
<1>0. Submitter \in Reading
  BY DEF Reading
<1>1. ASSUME NEW m \in Message, NEW c \in Content, Begin(m, c) PROVE Safe'
  <2>1. CASE mem[m].outcome \in Terminal /\ Tell(m, c, mem[m].outcome) /\ UNCHANGED <<reading, sub>>
    <3>1. Durable'
      BY <1>1, <2>1, TellDurable DEF Begin
    <3> QED
      BY <1>1, <2>1, <3>1 DEF Begin, Fenced, Submitting, Reads, world
  <2>2. CASE /\ StartRead(Submitter, m) /\ UNCHANGED told
             /\ sub' = [at |-> "reconcile", msg |-> m, content |-> c, answer |-> "unknown"]
    <3>1. Submitting'
      BY <1>1, <2>2 DEF Begin, Submitting
    <3>2. Reads'
      BY <1>0, <1>1, <2>2 DEF Begin, StartRead, Reads, world, TypeOK
    <3> QED
      BY <1>1, <2>2, <3>1, <3>2 DEF Begin, Fenced, Durable, world
  <2> QED
    BY <1>1, <2>1, <2>2 DEF Begin
<1>2. ASSUME sub' = NotSubmitting, UNCHANGED <<mem, disk, reading, world, told>> PROVE Safe'
  BY <1>2 DEF NotSubmitting, Fenced, Submitting, Reads, Durable, world
<1>3. CASE NotAdmitted
  BY <1>2, <1>3 DEF NotAdmitted
<1>4. CASE Fence
  <2> DEFINE m == sub.msg
             s == [mem EXCEPT ![m] =
                     [outcome |-> "unknown", owner |-> provider, content |-> sub.content]]
  <2>1. sub \in [at : {"reconcile", "dispatch", "flight", "settle"}, msg : Message, content : Content,
                 answer : {"unknown", "mismatch", "deferred"} \cup Terminal]
    BY <1>4 DEF Fence, Reconciled, TypeOK, SubState, NotSubmitting
  <2>2. m \in Message /\ m \notin Legacy /\ mem[m].outcome = "none"
    BY <1>4, <2>1 DEF Fence, Reconciled, Submitting
  <2>3. given[m] = 0
    BY <2>2 DEF Fenced
  <2>4. /\ s \in Log /\ s[m].outcome = "unknown"
        /\ \A n \in Message : n # m => s[n] = mem[n]
    BY <2>1 DEF TypeOK, Log, Record, Outcome, Owner, Fingerprint
  <2>5. Saved(s) \/ Unsaved(s)
    BY <1>4 DEF Fence
  <2>6. UNCHANGED <<given, native, told, reading>>
    BY <1>4 DEF Fence, world
  <2>7. Fenced'
    BY <2>2, <2>4, <2>5, <2>6, WriteFenced
  <2>8. Durable'
    BY <2>2, <2>4, <2>5, <2>6, WriteDurable DEF Terminal
  <2>9. Submitting'
    <3>1. CASE Saved(s) /\ sub' = [sub EXCEPT !.at = "dispatch"]
      <4>1. sub'.msg = m /\ sub'.at = "dispatch"
        BY <2>1, <3>1
      <4>2. mem'[m].outcome = "unknown" /\ disk'[m].outcome = "unknown"
        BY <2>2, <2>4, <2>5, <3>1, WriteEffect
      <4> QED
        BY <2>2, <2>3, <2>6, <4>1, <4>2 DEF Submitting
    <3>2. CASE sub' = NotSubmitting
      BY <3>2 DEF Submitting, NotSubmitting
    <3> QED
      BY <1>4, <3>1, <3>2 DEF Fence
  <2>10. Reads'
    BY <2>6 DEF Reads
  <2> QED
    BY <2>7, <2>8, <2>9, <2>10
<1>5. ASSUME Settling
      PROVE  /\ sub.msg \in Message /\ sub.msg \notin Legacy /\ sub.content \in Fingerprint
             /\ Submitting'
  BY <1>5 DEF Settling, TypeOK, SubState, NotSubmitting, Submitting, Fingerprint
<1>6. CASE SettledMeanwhile
  <2>1. Durable'
    BY <1>5, <1>6, TellDurable DEF SettledMeanwhile
  <2> QED
    BY <1>5, <1>6, <2>1 DEF SettledMeanwhile, Fenced, Reads, world
<1>7. CASE Mismatched
  BY <1>2, <1>7 DEF Mismatched, Settling
<1>8. CASE Release
  <2> DEFINE m == sub.msg
             s == [mem EXCEPT ![m] = Absent]
  <2>1. m \in Message /\ Submitting' /\ mem[m].outcome = "unknown"
    BY <1>5, <1>8 DEF Release, Meanwhile
  <2>2. given[m] = 0
    BY <1>8 DEF Release, Settling, Submitting
  <2>3. s \in Log /\ (\A n \in Message : n # m => s[n] = mem[n])
    BY <2>1 DEF TypeOK, Log, Record, Absent, Outcome, Owner, Fingerprint
  <2>4. (Saved(s) \/ Unsaved(s)) /\ UNCHANGED <<given, native, told, reading>>
    BY <1>8 DEF Release, world
  <2>5. Fenced'
    BY <2>1, <2>2, <2>3, <2>4, WriteFenced
  <2>6. Durable'
    BY <2>1, <2>3, <2>4, WriteDurable DEF Terminal
  <2> QED
    BY <2>1, <2>4, <2>5, <2>6 DEF Reads
<1>9. CASE Conclude
  <2> DEFINE m == sub.msg
             s == [mem EXCEPT ![m].outcome = sub.answer]
  <2>1. m \in Message /\ sub.content \in Fingerprint /\ Submitting' /\ mem[m].outcome = "unknown"
    BY <1>5, <1>9 DEF Conclude, Meanwhile
  <2>2. sub.answer \in Outcome /\ sub.answer # "none"
    BY <1>9 DEF Conclude, Outcome, Terminal
  <2>3. s \in Log /\ s[m].outcome = sub.answer /\ (\A n \in Message : n # m => s[n] = mem[n])
    <3>1. mem \in Log
      BY DEF TypeOK
    <3> QED
      BY <2>1, <2>2, <3>1, OutcomeType
  <2>4. /\ \/ Saved(s) /\ Tell(m, sub.content, sub.answer)
           \/ Unsaved(s) /\ UNCHANGED told
        /\ UNCHANGED <<given, native, reading>>
    BY <1>9 DEF Conclude, world
  <2>5. Fenced'
    BY <2>1, <2>2, <2>3, <2>4, WriteFenced
  <2>6. Durable'
    BY <2>1, <2>3, <2>4, WriteDurable DEF Terminal
  <2> QED
    BY <2>1, <2>4, <2>5, <2>6 DEF Reads
<1> QED
  BY <1>1, <1>3, <1>4, <1>6, <1>7, <1>8, <1>9 DEF Submission

(* An operation is created once, behind the fence that memory and disk     *)
(* hold; then a Runtime that still has none can no longer be asked.        *)
LEMMA SafeAdapter == TypeOK /\ Safe /\ Adapter => Safe'
<1> SUFFICES ASSUME TypeOK, Safe, Adapter PROVE Safe'
  OBVIOUS
<1> USE DEF Safe
<1>1. ASSUME sub.at \in {"dispatch", "flight"}
      PROVE  /\ sub \in [at : {"reconcile", "dispatch", "flight", "settle"}, msg : Message, content : Content,
                         answer : {"unknown", "mismatch", "deferred"} \cup Terminal]
             /\ sub.msg \notin Legacy
             /\ Here # "none" => given[sub.msg] = 1
  BY <1>1 DEF TypeOK, SubState, NotSubmitting, Here, Submitting, Fenced
<1>2. ASSUME UNCHANGED <<mem, disk, reading, world, told>>, Submitting' PROVE Safe'
  BY <1>2 DEF Fenced, Reads, Durable, world
<1>3. ASSUME sub.at \in {"dispatch", "flight"}, NEW a, Answer(a), UNCHANGED given,
             a = "deferred" => given[sub.msg] = 0, a = "accepted" => given[sub.msg] = 1
      PROVE  Submitting'
  BY <1>1, <1>3 DEF Answer, Submitting
<1>4. CASE NativeDefers
  BY <1>2, <1>3, <1>4 DEF NativeDefers, Submitting, world
<1>5. CASE NativeRefuses
  BY <1>2, <1>3, <1>5 DEF NativeRefuses, world
<1>7. CASE NativeCreates
  <2> DEFINE m == sub.msg
  <2>1. /\ m \in Message /\ given[m] = 0
        /\ mem[m].outcome = "unknown" /\ disk[m].outcome = "unknown"
    BY <1>1, <1>7 DEF NativeCreates, Submitting
  <2>2. given' = [given EXCEPT ![m] = 1]
    BY <1>7, <2>1 DEF NativeCreates, TypeOK
  <2>3. UNCHANGED <<mem, disk, reading, told>>
    BY <1>7 DEF NativeCreates
  <2>4. \A p \in Provider, n \in Message : n # m => native'[p][n] = native[p][n]
    BY <1>7 DEF NativeCreates, TypeOK
  <2>5. Fenced'
    <3>1. ASSUME NEW n \in Message, n # m
          PROVE  given'[n] = given[n] /\ \A p \in Provider : native'[p][n] = native[p][n]
      BY <2>2, <2>4, <3>1 DEF TypeOK
    <3>2. given'[m] = 1
      BY <2>1, <2>2 DEF TypeOK
    <3> QED
      BY <2>1, <2>3, <3>1, <3>2 DEF Fenced
  <2>6. Submitting'
    BY <1>1, <1>7, <2>1, <2>2 DEF NativeCreates, Submitting, TypeOK
  <2>7. Reads'
    BY <2>1, <2>2, <2>3 DEF Reads, TypeOK
  <2> QED
    BY <2>3, <2>5, <2>6, <2>7 DEF Durable
<1>8. CASE NativeReturns
  <2>1. sub.at = "flight" /\ given[sub.msg] = 1
    BY <1>8 DEF NativeReturns, Submitting
  <2>2. Submitting'
    BY <1>3, <1>8, <2>1 DEF NativeReturns, Terminal, world
  <2> QED
    BY <1>2, <1>8, <2>2 DEF NativeReturns
<1>9. ASSUME NEW p \in Provider, NEW m \in Message, NEW outcome \in Terminal,
             NativeSettles(p, m, outcome)
      PROVE  Safe'
  <2>1. \A q \in Provider, n \in Message : native'[q][n] # "none" => native[q][n] # "none"
    BY <1>9 DEF NativeSettles, TypeOK, Terminal
  <2> QED
    BY <1>9, <2>1 DEF NativeSettles, Fenced, Submitting, Reads, Durable
<1> QED
  BY <1>4, <1>5, <1>7, <1>8, <1>9 DEF Adapter

(* The file is never behind a terminal receipt, so loading it loses none.  *)
LEMMA SafeLifecycle == TypeOK /\ Safe /\ Lifecycle => Safe'
<1> SUFFICES ASSUME TypeOK, Safe, Lifecycle PROVE Safe'
  OBVIOUS
<1> USE DEF Safe
<1>1. ASSUME mem' = disk, UNCHANGED <<disk, told>> PROVE Durable'
  <2>1. \A m \in Message : \A t \in told[m] : t[2] \in Terminal
    BY DEF TypeOK
  <2> QED
    BY <1>1, <2>1 DEF Durable
<1>2. CASE Restart
  BY <1>1, <1>2 DEF Restart, Fenced, Submitting, Reads, NotReading, NotSubmitting, world
<1>3. ASSUME NEW p \in Provider, Switch(p) PROVE Safe'
  BY <1>1, <1>3 DEF Switch, ToRuntime, Fenced, Submitting, Reads, world
<1>4. ASSUME NEW m \in Legacy, Import(m) PROVE Safe'
  <2> DEFINE s == [mem EXCEPT ![m].outcome = LegacyOutcome[m]]
  <2>1. m \in Message /\ LegacyOutcome[m] \in Outcome /\ LegacyOutcome[m] # "none"
    BY Names DEF Outcome, Terminal
  <2>2. s \in Log /\ s[m].outcome = LegacyOutcome[m] /\ (\A n \in Message : n # m => s[n] = mem[n])
    <3>1. mem \in Log
      BY DEF TypeOK
    <3> QED
      BY <2>1, <3>1, OutcomeType
  <2>3. mem[m].outcome \notin Terminal /\ (Saved(s) \/ Unsaved(s))
    BY <1>4 DEF Import, Terminal
  <2>4. UNCHANGED <<given, native, told, reading, sub>>
    BY <1>4 DEF Import, world
  <2>5. Fenced'
    BY <2>1, <2>2, <2>3, <2>4, WriteFenced
  <2>6. Durable'
    BY <2>1, <2>2, <2>3, <2>4, WriteDurable
  <2>7. Submitting'
    <3>1. ASSUME sub.at = "dispatch" PROVE sub.msg \in Message /\ sub.msg # m
      BY <3>1 DEF Submitting, TypeOK, SubState, NotSubmitting
    <3>2. ASSUME sub.at = "dispatch"
          PROVE mem'[sub.msg].outcome = "unknown" /\ disk'[sub.msg].outcome = "unknown"
      BY <2>1, <2>2, <2>3, <3>1, <3>2, WriteEffect DEF Submitting
    <3>3. ASSUME sub.at # "idle", sub.msg \in Legacy
          PROVE sub.at = "reconcile" /\ mem'[sub.msg].outcome # "none"
      <4>1. sub.msg \in Message /\ sub.at = "reconcile" /\ mem[sub.msg].outcome # "none" /\ sub.msg # m
        BY <1>4, <3>3, Names DEF Submitting, Import
      <4>2. mem'[sub.msg] = mem[sub.msg]
        <5> HIDE DEF s
        <5> QED
          BY <2>2, <2>3, <4>1 DEF Saved, Unsaved
      <4> QED
        BY <4>1, <4>2
    <3> QED
      BY <2>4, <3>2, <3>3 DEF Submitting
  <2> QED
    BY <2>4, <2>5, <2>6, <2>7 DEF Reads
<1> QED
  BY <1>2, <1>3, <1>4 DEF Lifecycle

(* What the log rests on holds throughout, when no reader outlives the     *)
(* resident that it asked.                                                 *)
THEOREM Safety == Spec => []Safe
<1>1. TypeOK /\ Safe /\ UNCHANGED vars => Safe'
  BY DEF vars, Safe, Fenced, Submitting, Reads, Durable
<1>2. TypeOK /\ Safe /\ [Next]_vars => Safe'
  BY <1>1, SafeReceipts, SafeSubmission, SafeAdapter, SafeLifecycle DEF Next
<1> QED
  BY SafeInit, Typing, <1>2, PTL DEF Spec

(* No original creates two native operations: in every state an operation  *)
(* exists only behind the fence, and the fence is taken from "none" only.  *)
THEOREM AtMostOnce == Spec => []AtMostOneOperation
<1>1. Safe => AtMostOneOperation
  BY DEF Safe, Fenced, AtMostOneOperation
<1> QED
  BY Safety, <1>1, PTL

(* A terminal receipt that anyone was given agrees with memory and disk,   *)
(* and so with every later one.                                            *)
THEOREM Final == Spec => []ReceiptsFinal
<1>1. TypeOK /\ Safe => ReceiptsFinal
  <2> SUFFICES ASSUME TypeOK, Durable, NEW m \in Message, NEW t \in told[m]
               PROVE  t[2] = mem[m].outcome /\ mem[m].outcome = disk[m].outcome
    BY DEF Safe, ReceiptsFinal
  <2>1. t[2] \in Terminal
    BY DEF TypeOK
  <2> QED
    BY <2>1 DEF Durable
<1> QED
  BY Typing, Safety, <1>1, PTL

(***************************************************************************)
(* The log implements OneDelivery.                                         *)
(***************************************************************************)
LEMMA ImplInit == TypeOK /\ Safe /\ Init => OneAhead /\ Promise!Init
<1>1. Init => OneAhead
  BY DEF Init, OneAhead, Ahead
<1>2. TypeOK /\ Safe /\ Init => Promise!Init
  BY DEF Init, Promise!Init, Safe, Fenced, Absent, TypeOK
<1> QED
  BY <1>1, <1>2

(* A step of the promise, or none; and the receipts that may follow m's.   *)
Promised == Promise!Next \/ UNCHANGED <<[m \in Message |-> mem[m].outcome], given>>
Allowed(m, o) ==
  \/ o = mem[m].outcome
  \/ mem[m].outcome = "none" /\ o = "unknown"
  \/ mem[m].outcome = "unknown" /\ o = "none" /\ given[m] = 0
  \/ /\ mem[m].outcome = "unknown" \/ (mem[m].outcome = "none" /\ m \in Legacy)
     /\ o \in Terminal /\ (o = "accepted" => given[m] = 1)

LEMMA ImplSame ==
  ASSUME OneAhead, UNCHANGED <<mem, disk, given>> PROVE OneAhead' /\ Promised
BY DEF OneAhead, Ahead, Promised

(* One receipt that changes as allowed is a step of the promise.           *)
LEMMA ReceiptStep ==
  ASSUME NEW m \in Message, \A n \in Message : n # m => mem'[n].outcome = mem[n].outcome,
         UNCHANGED given, Allowed(m, mem'[m].outcome)
  PROVE  Promised
<1> SUFFICES ASSUME NEW o, o = mem'[m].outcome PROVE Promised
  OBVIOUS
<1> DEFINE receipt == [n \in Message |-> mem[n].outcome]
<1>1. receipt' = [receipt EXCEPT ![m] = o] /\ receipt[m] = mem[m].outcome
  OBVIOUS
<1>2. CASE o = mem[m].outcome
  BY <1>1, <1>2 DEF Promised
<1>3. CASE mem[m].outcome = "none" /\ o = "unknown"
  BY <1>1, <1>3 DEF Promised, Promise!Next, Promise!Fence
<1>4. CASE mem[m].outcome = "unknown" /\ o = "none" /\ given[m] = 0
  BY <1>1, <1>4 DEF Promised, Promise!Next, Promise!Release
<1>5. CASE /\ mem[m].outcome = "unknown" \/ (mem[m].outcome = "none" /\ m \in Legacy)
           /\ o \in Terminal /\ (o = "accepted" => given[m] = 1)
  <2>1. Promise!Settle(m, o)
    BY <1>1, <1>5 DEF Promise!Settle
  <2>2. o \in Promise!Terminal
    BY <1>5 DEF Terminal, Promise!Terminal
  <2> QED
    BY <2>1, <2>2 DEF Promised, Promise!Next
<1> QED
  BY <1>2, <1>3, <1>4, <1>5 DEF Allowed

(* A write that failed leaves the file one allowed step ahead of memory,   *)
(* or where it was.                                                        *)
LEMMA ImplWrite ==
  ASSUME TypeOK, OneAhead, NEW m \in Message, NEW s \in Log,
         \A n \in Message : n # m => s[n] = mem[n],
         Saved(s) \/ Unsaved(s), UNCHANGED given, Allowed(m, s[m].outcome)
  PROVE  OneAhead' /\ Promised
<1>1. CASE mem' = s /\ disk' = s
  <2>1. OneAhead'
    BY <1>1 DEF OneAhead
  <2> QED
    BY <1>1, <2>1, ReceiptStep
<1>2. CASE mem' = mem /\ disk' = disk
  BY <1>2, ImplSame
<1>3. CASE mem' = mem /\ disk' = s
  BY <1>3 DEF OneAhead, Ahead, Allowed, Promised
<1> QED
  BY <1>1, <1>2, <1>3 DEF Saved, Unsaved

LEMMA ImplReceipts == TypeOK /\ Safe /\ OneAhead /\ Receipts => OneAhead' /\ Promised
<1> SUFFICES ASSUME TypeOK, Safe, OneAhead, Receipts PROVE OneAhead' /\ Promised
  OBVIOUS
<1>1. ASSUME NEW x \in Reading, Recheck(x) PROVE OneAhead' /\ Promised
  <2> DEFINE m == reading[x].msg
             s == [mem EXCEPT ![m].outcome = reading[x].seen]
  <2>1. m \in Message /\ reading[x].seen \in Terminal /\ reading[x].seen \in Outcome /\ given[m] = 1
    BY <1>1 DEF Recheck, TypeOK, ReadingState, NotReading, Safe, Reads, Outcome
  <2>2. CASE UNCHANGED <<mem, disk>>
    BY <1>1, <2>2, ImplSame DEF Recheck, world
  <2>3. CASE mem[m].outcome \notin Terminal /\ (Saved(s) \/ Unsaved(s))
    <3>1. mem \in Log
      BY DEF TypeOK
    <3>2. s \in Log /\ s[m].outcome = reading[x].seen /\ (\A n \in Message : n # m => s[n] = mem[n])
      BY <2>1, <3>1, OutcomeType
    <3>3. mem[m].outcome = "unknown" \/ (mem[m].outcome = "none" /\ m \in Legacy)
      BY <2>1, <2>3, <3>1 DEF Safe, Fenced, Log, Record, Outcome
    <3>4. UNCHANGED given
      BY <1>1 DEF Recheck, world
    <3> QED
      BY <2>1, <2>3, <3>2, <3>3, <3>4, ImplWrite DEF Allowed
  <2> QED
    BY <1>1, <2>2, <2>3 DEF Recheck
<1> QED
  BY <1>1, ImplSame DEF Receipts, ReadSettled, ReadStart, Ask, world

LEMMA ImplSubmission == TypeOK /\ Safe /\ OneAhead /\ Submission => OneAhead' /\ Promised
<1> SUFFICES ASSUME TypeOK, Safe, OneAhead, Submission PROVE OneAhead' /\ Promised
  OBVIOUS
<1>0. mem \in Log
  BY DEF TypeOK
<1>1. CASE Fence
  <2> DEFINE m == sub.msg
             s == [mem EXCEPT ![m] =
                     [outcome |-> "unknown", owner |-> provider, content |-> sub.content]]
  <2>1. sub \in [at : {"reconcile", "dispatch", "flight", "settle"}, msg : Message, content : Content,
                 answer : {"unknown", "mismatch", "deferred"} \cup Terminal]
    BY <1>1 DEF Fence, Reconciled, TypeOK, SubState, NotSubmitting
  <2>2. /\ s \in Log /\ s[m].outcome = "unknown"
        /\ \A n \in Message : n # m => s[n] = mem[n]
    BY <2>1 DEF TypeOK, Log, Record, Outcome, Owner, Fingerprint
  <2>3. mem[m].outcome = "none" /\ (Saved(s) \/ Unsaved(s)) /\ UNCHANGED given
    BY <1>1 DEF Fence, world
  <2> QED
    BY <2>1, <2>2, <2>3, ImplWrite DEF Allowed
<1>2. ASSUME Settling PROVE sub.msg \in Message
  BY <1>2 DEF Settling, TypeOK, SubState, NotSubmitting
<1>3. CASE Release
  <2> DEFINE m == sub.msg
             s == [mem EXCEPT ![m] = Absent]
  <2>1. m \in Message /\ mem[m].outcome = "unknown" /\ given[m] = 0
    BY <1>2, <1>3 DEF Release, Settling, Meanwhile, Safe, Submitting
  <2>2. s \in Log /\ s[m].outcome = "none" /\ (\A n \in Message : n # m => s[n] = mem[n])
    BY <1>0, <2>1 DEF Log, Record, Absent, Outcome, Owner, Fingerprint
  <2>3. (Saved(s) \/ Unsaved(s)) /\ UNCHANGED given
    BY <1>3 DEF Release, world
  <2> QED
    BY <2>1, <2>2, <2>3, ImplWrite DEF Allowed
<1>4. CASE Conclude
  <2> DEFINE m == sub.msg
             s == [mem EXCEPT ![m].outcome = sub.answer]
  <2>1. m \in Message /\ mem[m].outcome = "unknown" /\ (sub.answer = "accepted" => given[m] = 1)
    BY <1>2, <1>4 DEF Conclude, Settling, Meanwhile, Safe, Submitting
  <2>2. sub.answer \in Outcome /\ sub.answer \in {"unknown"} \cup Terminal
    BY <1>4 DEF Conclude, Outcome
  <2>3. s \in Log /\ s[m].outcome = sub.answer /\ (\A n \in Message : n # m => s[n] = mem[n])
    BY <1>0, <2>1, <2>2, OutcomeType
  <2>4. (Saved(s) \/ Unsaved(s)) /\ UNCHANGED given
    BY <1>4 DEF Conclude, world
  <2> QED
    BY <2>1, <2>2, <2>3, <2>4, ImplWrite DEF Allowed
<1> QED
  BY <1>1, <1>3, <1>4, ImplSame
  DEF Submission, Begin, NotAdmitted, SettledMeanwhile, Mismatched, world

LEMMA ImplAdapter == TypeOK /\ Safe /\ OneAhead /\ Adapter => OneAhead' /\ Promised
<1> SUFFICES ASSUME TypeOK, Safe, OneAhead, Adapter PROVE OneAhead' /\ Promised
  OBVIOUS
<1>1. CASE NativeCreates
  <2> DEFINE m == sub.msg
  <2>1. mem[m].outcome = disk[m].outcome /\ \A n \in Message : n # m => given'[n] = given[n]
    BY <1>1 DEF NativeCreates, Safe, Submitting, TypeOK
  <2>2. mem' = mem /\ disk' = disk
    BY <1>1 DEF NativeCreates
  <2>3. \A n \in Message : disk[n].outcome # mem[n].outcome => n # m /\ (Ahead(n) => Ahead(n)')
    BY <2>1, <2>2 DEF Ahead
  <2>4. OneAhead'
    BY <2>2, <2>3 DEF OneAhead
  <2>5. m \in Message /\ mem[m].outcome = "unknown" /\ given[m] = 0
    BY <1>1 DEF NativeCreates, Safe, Submitting, TypeOK, SubState, NotSubmitting
  <2>6. given' = [given EXCEPT ![m] = 1]
    BY <1>1, <2>5 DEF NativeCreates, TypeOK
  <2>7. Promise!Give(m)
    BY <2>2, <2>5, <2>6 DEF Promise!Give
  <2> QED
    BY <2>4, <2>5, <2>7 DEF Promised, Promise!Next
<1> QED
  BY <1>1, ImplSame DEF Adapter, NativeDefers, NativeRefuses, NativeReturns, NativeSettles, world

LEMMA ImplLifecycle == TypeOK /\ Safe /\ OneAhead /\ Lifecycle => OneAhead' /\ Promised
<1> SUFFICES ASSUME TypeOK, Safe, OneAhead, Lifecycle PROVE OneAhead' /\ Promised
  OBVIOUS
<1>1. CASE mem' = disk /\ UNCHANGED <<disk, given>>
  <2>1. OneAhead'
    BY <1>1 DEF OneAhead
  <2>2. CASE \A m \in Message : disk[m].outcome = mem[m].outcome
    BY <1>1, <2>1, <2>2 DEF Promised
  <2>3. ASSUME NEW m \in Message, disk[m].outcome # mem[m].outcome PROVE Promised
    <3>1. Allowed(m, mem'[m].outcome)
      BY <1>1, <2>3 DEF OneAhead, Ahead, Allowed
    <3>2. \A n \in Message : n # m => mem'[n].outcome = mem[n].outcome
      BY <1>1, <2>3 DEF OneAhead
    <3> QED
      BY <1>1, <3>1, <3>2, ReceiptStep
  <2> QED
    BY <2>1, <2>2, <2>3
<1>2. ASSUME NEW m \in Legacy, Import(m) PROVE OneAhead' /\ Promised
  <2> DEFINE s == [mem EXCEPT ![m].outcome = LegacyOutcome[m]]
  <2>1. /\ m \in Message /\ LegacyOutcome[m] \in Outcome /\ LegacyOutcome[m] \in {"accepted", "unknown"}
        /\ LegacyOutcome[m] = "accepted" => given[m] = 1
    BY Names DEF Outcome, Terminal, Safe, Fenced
  <2>2. mem \in Log
    BY DEF TypeOK
  <2>3. s \in Log /\ s[m].outcome = LegacyOutcome[m] /\ (\A n \in Message : n # m => s[n] = mem[n])
    BY <2>1, <2>2, OutcomeType
  <2>4. mem[m].outcome = "none" /\ (Saved(s) \/ Unsaved(s)) /\ UNCHANGED given
    BY <1>2 DEF Import, world
  <2> QED
    BY <2>1, <2>3, <2>4, ImplWrite DEF Allowed, Terminal
<1> QED
  BY <1>1, <1>2 DEF Lifecycle, Restart, Switch, ToRuntime, world

(* Every step of the log is one of the promise, the loads and the writes   *)
(* that failed included.                                                   *)
THEOREM Implements == Spec => Refines
<1>1. TypeOK /\ Safe /\ OneAhead /\ [Next]_vars => OneAhead' /\ Promised
  BY ImplReceipts, ImplSubmission, ImplAdapter, ImplLifecycle, ImplSame DEF Next, vars
<1>2. TypeOK /\ Safe /\ OneAhead /\ [Next]_vars
      => OneAhead' /\ [Promise!Next]_<<[m \in Message |-> mem[m].outcome], given>>
  BY <1>1 DEF Promised
<1> QED
  BY <1>2, ImplInit, Typing, Safety, PTL DEF Refines, Promise!Spec, Spec

(***************************************************************************)
(* "accepted" is the truth, lingering readers included.                    *)
(***************************************************************************)
LEMMA TruthInit == Init => Truthful
BY Names DEF Init, Truthful, Absent, NotReading, NotSubmitting, Accepted

(* A step without a write, and one that only tells what somebody holds.    *)
LEMMA TruthSame ==
  ASSUME Truthful, UNCHANGED <<mem, disk, stale, native, told>>,
         \A x \in Reading :
           reading'[x].at = "recheck" /\ reading'[x].seen = "accepted" => Accepted(reading'[x].msg),
         sub'.at = "settle" /\ sub'.answer = "accepted" => Accepted(sub'.msg)
  PROVE  Truthful'
BY DEF Truthful, Accepted

LEMMA TruthTold ==
  ASSUME TypeOK, Truthful, NEW m \in Message, NEW c, NEW o, Tell(m, c, o), UNCHANGED native,
         o = "accepted" => Accepted(m)
  PROVE  \A n \in Message : \A t \in told'[n] : t[2] = "accepted" => Accepted(n)'
<1>1. \A n \in Message : Accepted(n)' = Accepted(n)
  BY DEF Accepted
<1> QED
  BY <1>1, TellAdds DEF Truthful

LEMMA TruthWrite ==
  ASSUME TypeOK, Truthful, NEW m \in Message, NEW s \in Log,
         \A n \in Message : n # m => s[n] = mem[n],
         Saved(s) \/ Unsaved(s), s[m].outcome = "accepted" => Accepted(m),
         UNCHANGED <<native, stale>>
  PROVE  \A n \in Message :
           "accepted" \in {mem'[n].outcome, disk'[n].outcome, stale'[n].outcome} => Accepted(n)'
<1>1. \A n \in Message : Accepted(n)' = Accepted(n)
  BY DEF Accepted
<1>2. \A n \in Message : s[n].outcome = "accepted" => Accepted(n)
  BY DEF Truthful
<1> QED
  BY <1>1, <1>2 DEF Saved, Unsaved, Truthful

LEMMA TruthReceipts ==
  TypeOK /\ Truthful /\ (Receipts \/ \E x \in Reading : RecheckOld(x)) => Truthful'
<1> SUFFICES ASSUME TypeOK, Truthful, Receipts \/ \E x \in Reading : RecheckOld(x) PROVE Truthful'
  OBVIOUS
<1>0. ASSUME UNCHANGED native PROVE \A m : Accepted(m)' = Accepted(m)
  BY <1>0 DEF Accepted
<1>1. ASSUME NEW m \in Message, ReadSettled(m) PROVE Truthful'
  <2>1. UNCHANGED <<mem, disk, stale, reading, sub, native>>
    BY <1>1 DEF ReadSettled, world
  <2>2. \A n \in Message : \A t \in told'[n] : t[2] = "accepted" => Accepted(n)'
    BY <1>1, <2>1, TruthTold DEF ReadSettled, Truthful
  <2> QED
    BY <1>0, <2>1, <2>2 DEF Truthful
<1>2. ASSUME NEW x \in Reader, NEW m \in Message, ReadStart(x, m) PROVE Truthful'
  <2>1. \A y \in Reading : reading'[y].at = "recheck" => reading'[y] = reading[y]
    BY <1>2 DEF ReadStart, StartRead, TypeOK
  <2> QED
    BY <1>2, <2>1, TruthSame DEF ReadStart, Truthful, world
<1>3. ASSUME NEW x \in Reading, Ask(x) PROVE Truthful'
  <2>1. reading[x] \in [at : {"native"}, msg : Message, from : Provider, seen : {"unknown"}, old : BOOLEAN]
    BY <1>3 DEF Ask, TypeOK, ReadingState, NotReading
  <2>2. native[reading[x].from][reading[x].msg] = "accepted" => Accepted(reading[x].msg)
    BY <2>1 DEF Accepted
  <2>3. \A y \in Reading :
          reading'[y].at = "recheck" /\ reading'[y].seen = "accepted" => Accepted(reading'[y].msg)
    BY <1>3, <2>1, <2>2 DEF Ask, NotReading, TypeOK, Truthful
  <2> QED
    BY <1>3, <2>3, TruthSame DEF Ask, Truthful, world
<1>4. ASSUME NEW x \in Reading, Recheck(x) \/ RecheckOld(x) PROVE Truthful'
  <2> DEFINE m == reading[x].msg
             s == [mem EXCEPT ![m].outcome = reading[x].seen]
             z == [stale EXCEPT ![m].outcome = reading[x].seen]
  <2>1. /\ m \in Message /\ reading[x].seen \in Outcome
        /\ reading[x].seen = "accepted" => Accepted(m)
    BY <1>4 DEF Recheck, RecheckOld, TypeOK, ReadingState, NotReading, Outcome, Truthful
  <2>2. UNCHANGED <<native, sub>> /\ \A y \in Reading : reading'[y].at = "recheck" => reading'[y] = reading[y]
    BY <1>4 DEF Recheck, RecheckOld, TypeOK, NotReading, world
  <2>3. /\ s \in Log /\ s[m].outcome = reading[x].seen
        /\ \A n \in Message : n # m => s[n] = mem[n]
    BY <2>1, OutcomeType DEF TypeOK
  <2>4. /\ z \in Log /\ z[m].outcome = reading[x].seen
        /\ \A n \in Message : n # m => z[n] = stale[n]
    BY <2>1, OutcomeType DEF TypeOK
  <2>5. \A n \in Message : \A t \in told'[n] : t[2] = "accepted" => Accepted(n)'
    <3>1. CASE UNCHANGED told
      BY <1>0, <2>2, <3>1 DEF Truthful
    <3>2. CASE \/ Tell(m, For(x), mem[m].outcome) \/ Tell(m, For(x), reading[x].seen)
               \/ Tell(m, Nobody, stale[m].outcome) \/ Tell(m, Nobody, reading[x].seen)
      BY <2>1, <2>2, <3>2, TruthTold DEF Truthful
    <3> QED
      BY <1>4, <3>1, <3>2 DEF Recheck, RecheckOld
  <2>6. \A n \in Message :
          "accepted" \in {mem'[n].outcome, disk'[n].outcome, stale'[n].outcome} => Accepted(n)'
    <3>1. CASE UNCHANGED <<mem, disk, stale>>
      BY <1>0, <2>2, <3>1 DEF Truthful
    <3>2. CASE (Saved(s) \/ Unsaved(s)) /\ UNCHANGED stale
      BY <2>1, <2>2, <2>3, <3>2, TruthWrite
    <3>3. CASE stale' = z /\ disk' = z /\ UNCHANGED mem
      BY <1>0, <2>1, <2>2, <2>4, <3>3 DEF Truthful
    <3>4. CASE Recheck(x)
      BY <3>1, <3>2, <3>4 DEF Recheck
    <3>5. CASE RecheckOld(x)
      BY <3>1, <3>3, <3>5 DEF RecheckOld
    <3> QED
      BY <1>4, <3>4, <3>5
  <2> QED
    BY <1>0, <2>2, <2>5, <2>6 DEF Truthful
<1> QED
  BY <1>1, <1>2, <1>3, <1>4 DEF Receipts

LEMMA TruthSubmission == TypeOK /\ Truthful /\ Submission => Truthful'
<1> SUFFICES ASSUME TypeOK, Truthful, Submission PROVE Truthful'
  OBVIOUS
<1>0. ASSUME UNCHANGED native PROVE \A m : Accepted(m)' = Accepted(m)
  BY <1>0 DEF Accepted
<1>1. ASSUME NEW m \in Message, NEW c \in Content, Begin(m, c) PROVE Truthful'
  <2>1. /\ UNCHANGED <<mem, disk, stale, native>>
        /\ sub'.at = "settle" => sub' = sub
        /\ \A y \in Reading : reading'[y].at = "recheck" => reading'[y] = reading[y]
    BY <1>1 DEF Begin, StartRead, TypeOK, world
  <2>2. \A n \in Message : \A t \in told'[n] : t[2] = "accepted" => Accepted(n)'
    <3>1. CASE UNCHANGED told
      BY <1>0, <2>1, <3>1 DEF Truthful
    <3>2. CASE Tell(m, c, mem[m].outcome)
      BY <2>1, <3>2, TruthTold DEF Truthful
    <3> QED
      BY <1>1, <3>1, <3>2 DEF Begin
  <2> QED
    BY <1>0, <2>1, <2>2 DEF Truthful
<1>2. ASSUME sub' = NotSubmitting, UNCHANGED <<native, reading>>,
             \A n \in Message :
               "accepted" \in {mem'[n].outcome, disk'[n].outcome, stale'[n].outcome} => Accepted(n)',
             \A n \in Message : \A t \in told'[n] : t[2] = "accepted" => Accepted(n)'
      PROVE  Truthful'
  BY <1>0, <1>2 DEF Truthful, NotSubmitting
<1>3. CASE NotAdmitted \/ Mismatched
  BY <1>3, TruthSame DEF NotAdmitted, Mismatched, Settling, NotSubmitting, Truthful, world
<1>4. CASE Fence
  <2> DEFINE m == sub.msg
             s == [mem EXCEPT ![m] =
                     [outcome |-> "unknown", owner |-> provider, content |-> sub.content]]
  <2>1. sub \in [at : {"reconcile", "dispatch", "flight", "settle"}, msg : Message, content : Content,
                 answer : {"unknown", "mismatch", "deferred"} \cup Terminal]
    BY <1>4 DEF Fence, Reconciled, TypeOK, SubState, NotSubmitting
  <2>2. /\ s \in Log /\ s[m].outcome = "unknown"
        /\ \A n \in Message : n # m => s[n] = mem[n]
    BY <2>1 DEF TypeOK, Log, Record, Outcome, Owner, Fingerprint
  <2>3. (Saved(s) \/ Unsaved(s)) /\ UNCHANGED <<native, stale, reading, told>> /\ sub'.at # "settle"
    BY <1>4, <2>1 DEF Fence, world, NotSubmitting
  <2>4. \A n \in Message :
          "accepted" \in {mem'[n].outcome, disk'[n].outcome, stale'[n].outcome} => Accepted(n)'
    BY <2>1, <2>2, <2>3, TruthWrite
  <2> QED
    BY <1>0, <2>3, <2>4 DEF Truthful
<1>5. ASSUME Settling PROVE sub.msg \in Message /\ sub' = NotSubmitting
  BY <1>5 DEF Settling, TypeOK, SubState, NotSubmitting
<1>6. CASE SettledMeanwhile
  <2>1. UNCHANGED <<mem, disk, stale, native, reading>> /\ Settling
    BY <1>6 DEF SettledMeanwhile, world
  <2>2. \A n \in Message : \A t \in told'[n] : t[2] = "accepted" => Accepted(n)'
    BY <1>5, <1>6, <2>1, TruthTold DEF SettledMeanwhile, Truthful
  <2> QED
    BY <1>0, <1>2, <1>5, <2>1, <2>2 DEF Truthful
<1>7. CASE Release
  <2> DEFINE m == sub.msg
             s == [mem EXCEPT ![m] = Absent]
  <2>1. m \in Message /\ sub' = NotSubmitting /\ (Saved(s) \/ Unsaved(s))
        /\ UNCHANGED <<native, stale, reading, told>>
    BY <1>5, <1>7 DEF Release, Settling, world
  <2>2. s \in Log /\ s[m].outcome = "none" /\ (\A n \in Message : n # m => s[n] = mem[n])
    BY <2>1 DEF TypeOK, Log, Record, Absent, Outcome, Owner, Fingerprint
  <2>3. \A n \in Message :
          "accepted" \in {mem'[n].outcome, disk'[n].outcome, stale'[n].outcome} => Accepted(n)'
    BY <2>1, <2>2, TruthWrite
  <2> QED
    BY <1>0, <1>2, <2>1, <2>3 DEF Truthful
<1>8. CASE Conclude
  <2> DEFINE m == sub.msg
             s == [mem EXCEPT ![m].outcome = sub.answer]
  <2>1. /\ m \in Message /\ sub' = NotSubmitting /\ sub.answer \in Outcome
        /\ (sub.answer = "accepted" => Accepted(m)) /\ UNCHANGED <<native, stale, reading>>
        /\ (Saved(s) /\ Tell(m, sub.content, sub.answer)) \/ (Unsaved(s) /\ UNCHANGED told)
    BY <1>5, <1>8 DEF Conclude, Settling, Outcome, Truthful, world
  <2>2. mem \in Log
    BY DEF TypeOK
  <2>3. s \in Log /\ s[m].outcome = sub.answer /\ (\A n \in Message : n # m => s[n] = mem[n])
    BY <2>1, <2>2, OutcomeType
  <2>4. \A n \in Message :
          "accepted" \in {mem'[n].outcome, disk'[n].outcome, stale'[n].outcome} => Accepted(n)'
    BY <2>1, <2>3, TruthWrite
  <2>5. \A n \in Message : \A t \in told'[n] : t[2] = "accepted" => Accepted(n)'
    BY <1>0, <2>1, TruthTold DEF Truthful
  <2> QED
    BY <1>2, <2>1, <2>4, <2>5
<1> QED
  BY <1>1, <1>3, <1>4, <1>6, <1>7, <1>8 DEF Submission

(* An operation that was accepted stays accepted.                          *)
LEMMA TruthAdapter ==
  TypeOK /\ Truthful /\ (Adapter \/ NativeKnows) => Truthful'
<1> SUFFICES ASSUME TypeOK, Truthful, Adapter \/ NativeKnows PROVE Truthful'
  OBVIOUS
<1>1. /\ UNCHANGED <<mem, disk, stale, reading, told>>
      /\ \A p \in Provider, m \in Message : native[p][m] = "accepted" => native'[p][m] = "accepted"
  BY DEF Adapter, NativeDefers, NativeRefuses, NativeKnows, NativeCreates, NativeReturns,
         NativeSettles, Here, TypeOK, world
<1>2. \A m \in Message : Accepted(m) => Accepted(m)'
  BY <1>1 DEF Accepted
<1>3. (sub.at = "settle" /\ sub.answer = "accepted" => Accepted(sub.msg))'
  <2>1. sub.at # "idle" => sub.msg \in Message /\ (Here = "accepted" => Accepted(sub.msg))
    BY DEF TypeOK, SubState, NotSubmitting, Here, Accepted
  <2>2. CASE UNCHANGED sub
    BY <1>1, <2>1, <2>2 DEF Truthful, Accepted, TypeOK, SubState, NotSubmitting
  <2>3. ASSUME NEW a, Answer(a), sub.at # "idle", a = "accepted" => Here = "accepted"
        PROVE  (sub.at = "settle" /\ sub.answer = "accepted" => Accepted(sub.msg))'
    <3>1. sub'.msg = sub.msg /\ sub'.answer = a
      BY <2>3 DEF Answer, TypeOK, SubState, NotSubmitting
    <3> QED
      BY <1>1, <2>1, <2>3, <3>1 DEF Accepted
  <2>4. CASE NativeCreates
    BY <2>4 DEF NativeCreates, TypeOK, SubState, NotSubmitting
  <2> QED
    BY <2>2, <2>3, <2>4 DEF Adapter, NativeDefers, NativeRefuses, NativeKnows, NativeReturns, NativeSettles
<1>4. \A x \in Reading :
        (reading[x].at = "recheck" /\ reading[x].seen = "accepted" => Accepted(reading[x].msg))'
  <2>1. \A x \in Reading : reading[x].at = "recheck" => reading[x].msg \in Message
    BY DEF TypeOK, ReadingState, NotReading
  <2> QED
    BY <1>1, <2>1 DEF Truthful, Accepted
<1> QED
  BY <1>1, <1>2, <1>3, <1>4, Names DEF Truthful

LEMMA TruthLifecycle ==
  TypeOK /\ Truthful /\ (Lifecycle \/ \E p \in Provider : SwitchAway(p)) => Truthful'
<1> SUFFICES ASSUME TypeOK, Truthful, Lifecycle \/ \E p \in Provider : SwitchAway(p) PROVE Truthful'
  OBVIOUS
<1>0. ASSUME UNCHANGED native PROVE \A m : Accepted(m)' = Accepted(m)
  BY <1>0 DEF Accepted
<1>1. CASE Restart
  BY <1>0, <1>1 DEF Restart, Truthful, NotReading, NotSubmitting, world
<1>2. ASSUME NEW p \in Provider, Switch(p) \/ SwitchAway(p) PROVE Truthful'
  <2>1. \A x \in Reading : reading'[x].at = "recheck" =>
          reading[x].at = "recheck" /\ reading'[x].seen = reading[x].seen /\ reading'[x].msg = reading[x].msg
    BY <1>2 DEF Switch, SwitchAway, NotReading, TypeOK, ReadingState
  <2> QED
    BY <1>0, <1>2, <2>1 DEF Switch, SwitchAway, ToRuntime, Truthful, world
<1>3. ASSUME NEW m \in Legacy, Import(m) PROVE Truthful'
  <2> DEFINE s == [mem EXCEPT ![m].outcome = LegacyOutcome[m]]
  <2>1. /\ m \in Message /\ LegacyOutcome[m] \in Outcome
        /\ LegacyOutcome[m] = "accepted" => Accepted(m)
    BY Names DEF Outcome, Terminal, Truthful
  <2>2. mem \in Log
    BY DEF TypeOK
  <2>3. s \in Log /\ s[m].outcome = LegacyOutcome[m] /\ (\A n \in Message : n # m => s[n] = mem[n])
    BY <2>1, <2>2, OutcomeType
  <2>4. (Saved(s) \/ Unsaved(s)) /\ UNCHANGED <<native, told, reading, sub, stale>>
    BY <1>3 DEF Import, world
  <2>5. \A n \in Message :
          "accepted" \in {mem'[n].outcome, disk'[n].outcome, stale'[n].outcome} => Accepted(n)'
    BY <2>1, <2>3, <2>4, TruthWrite
  <2> QED
    BY <1>0, <2>4, <2>5 DEF Truthful
<1> QED
  BY <1>1, <1>2, <1>3 DEF Lifecycle

LEMMA TruthStep == TypeOK /\ Truthful /\ [Next \/ Outlived]_vars => Truthful'
<1>1. TypeOK /\ Truthful /\ UNCHANGED vars => Truthful'
  BY DEF vars, Truthful, Accepted
<1> QED
  BY <1>1, TruthReceipts, TruthSubmission, TruthAdapter, TruthLifecycle DEF Next, Outlived

LEMMA TruthMeans == Truthful => AcceptedTrue
BY DEF Truthful, AcceptedTrue, Accepted

(* Nobody is told "accepted" of a message that no Runtime accepted,        *)
(* lingering readers included: every holder of the word has it from a      *)
(* Runtime, and a Runtime never takes it back.                             *)
THEOREM Truth == LingeringSpec => []AcceptedTrue
BY TruthInit, LingeringTyping, TruthStep, TruthMeans, PTL DEF LingeringSpec
(***************************************************************************)
(* A producer is told "accepted" of its own content only.                  *)
(***************************************************************************)
LEMMA OwnedInit == Init => Owned /\ OwnContent
BY Names DEF Init, Owned, Kept, Naming, OwnContent, Absent, NotReading, NotSubmitting, Reading

(* An accepted receipt is one of an operation, whose content is recorded.  *)
LEMMA AcceptedBody ==
  ASSUME TypeOK, Safe, Truthful, Owned, NEW m \in Message \ Legacy, mem[m].outcome = "accepted"
  PROVE  given[m] = 1 /\ mem[m].content = body[m] /\ mem[m].content \in Content
<1>1. given[m] = 1
  BY DEF Truthful, Accepted, Safe, Fenced
<1> QED
  BY <1>1 DEF Owned, Kept

(* A write that keeps or replaces the content of a record rightly.         *)
LEMMA WriteKept ==
  ASSUME TypeOK, Kept, NEW m \in Message, NEW s \in Log,
         \A n \in Message : n # m => s[n] = mem[n],
         m \notin Legacy => /\ s[m].outcome # "none" => s[m].content \in Content
                            /\ given[m] = 1 => s[m].content = body[m],
         Saved(s) \/ Unsaved(s), UNCHANGED <<given, body>>
  PROVE  Kept'
<1> SUFFICES ASSUME NEW n \in Message \ Legacy
             PROVE  /\ mem'[n].outcome # "none" => mem'[n].content \in Content
                    /\ disk'[n].outcome # "none" => disk'[n].content \in Content
                    /\ given[n] = 1 => mem'[n].content = body[n] /\ disk'[n].content = body[n]
  BY DEF Kept
<1>1. mem'[n] \in {mem[n], s[n]} /\ disk'[n] \in {disk[n], s[n]}
  BY DEF Saved, Unsaved
<1>2. s[n] = mem[n] \/ n = m
  OBVIOUS
<1> QED
  BY <1>1, <1>2 DEF Kept

(* Another outcome keeps the contents, in memory and on disk.              *)
LEMMA OutcomeKept ==
  ASSUME TypeOK, Owned, NEW m \in Message, NEW o \in Outcome,
         m \notin Legacy => mem[m].outcome # "none",
         LET s == [mem EXCEPT ![m].outcome = o] IN Saved(s) \/ Unsaved(s),
         UNCHANGED <<given, body>>
  PROVE  /\ Kept'
         /\ \A n \in Message : /\ mem'[n].content = mem[n].content
                               /\ disk'[n].content \in {disk[n].content, mem[n].content}
                               /\ n # m => mem'[n].outcome = mem[n].outcome
<1> DEFINE s == [mem EXCEPT ![m].outcome = o]
<1>1. s \in Log /\ (\A n \in Message : n # m => s[n] = mem[n]) /\ (Saved(s) \/ Unsaved(s))
  BY OutcomeType DEF TypeOK
<1>2. \A n \in Message : s[n].content = mem[n].content
  BY DEF TypeOK, Log, Record
<1>3. Kept'
  <2>1. m \notin Legacy => /\ s[m].content \in Content
                           /\ given[m] = 1 => s[m].content = body[m]
    BY <1>2 DEF Owned, Kept
  <2> QED
    BY <1>1, <2>1, WriteKept DEF Owned
<1>4. \A n \in Message : /\ mem'[n] \in {mem[n], s[n]}
                         /\ disk'[n] \in {disk[n], s[n]}
  BY <1>1 DEF Saved, Unsaved
<1> QED
  BY <1>1, <1>2, <1>3, <1>4

(* What is told besides is of the recorded content of an operation.        *)
Due(m, c) == IF m \in Legacy THEN Nobody ELSE c
LEMMA TellOwn ==
  ASSUME TypeOK, OwnContent, NEW m \in Message, NEW c \in Fingerprint, NEW o, Tell(m, c, o),
         c \in Content /\ o = "accepted" => body[m] = Due(m, c), UNCHANGED body
  PROVE  OwnContent'
<1> USE DEF Due
<1> SUFFICES ASSUME NEW n \in Message, NEW d \in Content, <<d, "accepted">> \in told'[n]
             PROVE  body[n] = Due(n, d)
  BY DEF OwnContent
<1>1. <<d, "accepted">> \in told[n] \/ (n = m /\ d = c /\ o = "accepted")
  BY DEF Tell, TypeOK
<1> QED
  BY <1>1 DEF OwnContent

LEMMA OwnedReceipts ==
  TypeOK /\ Safe /\ Truthful /\ Owned /\ OwnContent /\ Receipts => Owned' /\ OwnContent'
<1> SUFFICES ASSUME TypeOK, Safe, Truthful, Owned, OwnContent, Receipts PROVE Owned' /\ OwnContent'
  OBVIOUS
<1>0. Nobody \in Fingerprint /\ Nobody \notin Content /\ Submitter \notin Reader /\ Submitter \in Reading
  BY Names DEF Fingerprint, Reading
<1>1. ASSUME NEW m \in Message, ReadSettled(m) PROVE Owned' /\ OwnContent'
  <2>1. OwnContent'
    BY <1>0, <1>1, TellOwn DEF ReadSettled, world
  <2> QED
    BY <1>1, <2>1 DEF ReadSettled, Owned, Kept, Naming, world
<1>2. ASSUME NEW x \in Reader, NEW m \in Message, ReadStart(x, m) PROVE Owned' /\ OwnContent'
  <2>1. reading'[Submitter] = reading[Submitter]
    BY <1>0, <1>2 DEF ReadStart, StartRead, TypeOK
  <2> QED
    BY <1>2, <2>1 DEF ReadStart, Owned, Kept, Naming, OwnContent, world
<1>3. ASSUME NEW x \in Reading, Ask(x) PROVE Owned' /\ OwnContent'
  <2>1. reading'[Submitter].at # "idle"
          => reading[Submitter].at # "idle" /\ reading'[Submitter].msg = reading[Submitter].msg
    <3>1. CASE x # Submitter
      BY <1>0, <1>3, <3>1 DEF Ask, TypeOK
    <3>2. CASE x = Submitter
      <4>1. reading[x] \in [at : {"native"}, msg : Message, from : Provider, seen : {"unknown"}, old : BOOLEAN]
        BY <1>3 DEF Ask, TypeOK, ReadingState, NotReading
      <4> QED
        BY <1>0, <1>3, <3>2, <4>1 DEF Ask, TypeOK, NotReading
    <3> QED
      BY <3>1, <3>2
  <2> QED
    BY <1>3, <2>1 DEF Ask, Owned, Kept, Naming, OwnContent, world
<1>4. ASSUME NEW x \in Reading, Recheck(x) PROVE Owned' /\ OwnContent'
  <2> DEFINE m == reading[x].msg
             o == reading[x].seen
             s == [mem EXCEPT ![m].outcome = o]
  <2>1. m \in Message /\ o \in Outcome /\ given[m] = 1 /\ (o = "accepted" => Accepted(m))
    BY <1>4 DEF Recheck, TypeOK, ReadingState, NotReading, Outcome, Safe, Reads, Truthful
  <2>2. UNCHANGED <<given, body, sub>> /\ (m \notin Legacy => mem[m].outcome # "none")
    BY <1>4, <2>1 DEF Recheck, world, Safe, Fenced
  <2>3. For(x) \in Content => body[m] = Due(m, For(x))
    <3>1. SUFFICES ASSUME For(x) \in Content PROVE body[m] = Due(m, For(x))
      OBVIOUS
    <3>2. x = Submitter /\ For(x) = sub.content
      BY <1>0, <3>1 DEF For
    <3>3. sub.at = "reconcile" /\ m = sub.msg
      BY <1>4, <3>2 DEF Recheck, Owned, Naming
    <3>4. CASE m \in Legacy
      BY <3>4 DEF Owned, Kept, Due
    <3>5. CASE m \notin Legacy
      <4>1. mem[m].content = sub.content
        BY <1>4, <2>2, <3>2, <3>3, <3>5 DEF Recheck, Owned, Naming
      <4> QED
        BY <2>1, <3>2, <3>5, <4>1 DEF Owned, Kept, Due
    <3> QED
      BY <3>4, <3>5
  <2>4. OwnContent'
    <3>1. CASE UNCHANGED told
      BY <2>2, <3>1 DEF OwnContent
    <3>2. CASE Tell(m, For(x), mem[m].outcome)
      BY <2>1, <2>2, <2>3, <3>2, TellOwn, ForType
    <3>3. CASE Tell(m, For(x), o)
      BY <2>1, <2>2, <2>3, <3>3, TellOwn, ForType
    <3> QED
      BY <1>4, <3>1, <3>2, <3>3 DEF Recheck
  <2>5. Kept' /\ \A n \in Message : /\ mem'[n].content = mem[n].content
                                    /\ disk'[n].content \in {disk[n].content, mem[n].content}
                                    /\ n # m => mem'[n].outcome = mem[n].outcome
    <3>1. CASE UNCHANGED <<mem, disk>>
      BY <2>2, <3>1 DEF Owned, Kept
    <3>2. CASE Saved(s) \/ Unsaved(s)
      BY <2>1, <2>2, <3>2, OutcomeKept
    <3> QED
      BY <1>4, <3>1, <3>2 DEF Recheck
  <2>6. Naming'
    <3>1. reading'[Submitter].at # "idle" => reading'[Submitter] = reading[Submitter]
      BY <1>0, <1>4 DEF Recheck, TypeOK, NotReading
    <3>2. sub.at # "idle" => sub.msg \in Message
      BY DEF TypeOK, SubState, NotSubmitting
    <3>3. sub.msg = m /\ m \notin Legacy => mem[m].outcome # "none"
      BY <2>2
    <3> QED
      BY <2>2, <2>5, <3>1, <3>2, <3>3 DEF Owned, Naming
  <2> QED
    BY <2>4, <2>5, <2>6 DEF Owned
<1> QED
  BY <1>1, <1>2, <1>3, <1>4 DEF Receipts

LEMMA OwnedSubmission ==
  TypeOK /\ Safe /\ Truthful /\ Owned /\ OwnContent /\ Submission => Owned' /\ OwnContent'
<1> SUFFICES ASSUME TypeOK, Safe, Truthful, Owned, OwnContent, Submission PROVE Owned' /\ OwnContent'
  OBVIOUS
<1>0. Submitter \in Reading /\ mem \in Log
  BY DEF Reading, TypeOK
<1>1. ASSUME NEW m \in Message, NEW c \in Content, Begin(m, c) PROVE Owned' /\ OwnContent'
  <2>1. mem[m].content \in {Nobody, c} /\ c \in Fingerprint /\ c # Nobody /\ Nobody \notin Content
    BY <1>1, Names DEF Begin, Bound, Fingerprint
  <2>2. m \notin Legacy /\ mem[m].outcome # "none" => mem[m].content = c
    BY <2>1 DEF Owned, Kept
  <2>3. UNCHANGED <<mem, disk, given, body>>
    BY <1>1 DEF Begin, world
  <2>4. CASE mem[m].outcome \in Terminal /\ Tell(m, c, mem[m].outcome) /\ UNCHANGED <<reading, sub>>
    <3>1. mem[m].outcome = "accepted" => body[m] = Due(m, c)
      <4>1. CASE m \in Legacy
        BY <4>1 DEF Owned, Kept, Due
      <4>2. CASE m \notin Legacy
        BY <2>1, <2>2, <4>2, AcceptedBody DEF Due
      <4> QED
        BY <4>1, <4>2
    <3>2. OwnContent'
      BY <2>1, <2>3, <2>4, <3>1, TellOwn
    <3> QED
      BY <2>3, <2>4, <3>2 DEF Owned, Kept, Naming
  <2>5. CASE /\ StartRead(Submitter, m) /\ UNCHANGED told
             /\ sub' = [at |-> "reconcile", msg |-> m, content |-> c, answer |-> "unknown"]
    <3>1. reading'[Submitter].msg = m
      BY <1>0, <2>5 DEF StartRead, TypeOK
    <3> QED
      BY <2>2, <2>3, <2>5, <3>1 DEF Owned, Kept, Naming, OwnContent
  <2> QED
    BY <1>1, <2>4, <2>5 DEF Begin
<1>2. ASSUME sub' = NotSubmitting, Kept', reading[Submitter].at = "idle", UNCHANGED reading
      PROVE  Owned'
  BY <1>2 DEF NotSubmitting, Owned, Naming
<1>3. ASSUME sub.at # "reconcile" \/ Reconciled PROVE reading[Submitter].at = "idle"
  BY <1>3 DEF Reconciled, Owned, Naming
<1>4. CASE NotAdmitted \/ Mismatched
  <2>1. UNCHANGED <<mem, disk, given, body, told, reading>> /\ sub' = NotSubmitting
    BY <1>4 DEF NotAdmitted, Mismatched, Settling, world
  <2>2. Kept' /\ OwnContent'
    BY <2>1 DEF Owned, Kept, OwnContent
  <2> QED
    BY <1>2, <1>3, <1>4, <2>1, <2>2 DEF NotAdmitted, Mismatched, Settling
<1>5. CASE Fence
  <2> DEFINE m == sub.msg
             s == [mem EXCEPT ![m] =
                     [outcome |-> "unknown", owner |-> provider, content |-> sub.content]]
  <2>1. sub \in [at : {"reconcile", "dispatch", "flight", "settle"}, msg : Message, content : Content,
                 answer : {"unknown", "mismatch", "deferred"} \cup Terminal]
    BY <1>5 DEF Fence, Reconciled, TypeOK, SubState, NotSubmitting
  <2>2. m \in Message /\ m \notin Legacy /\ given[m] = 0 /\ reading[Submitter].at = "idle"
    BY <1>3, <1>5, <2>1 DEF Fence, Reconciled, Safe, Submitting, Fenced
  <2>3. /\ s \in Log /\ s[m].content = sub.content /\ sub.content \in Content
        /\ \A n \in Message : n # m => s[n] = mem[n]
    BY <2>1 DEF TypeOK, Log, Record, Outcome, Owner, Fingerprint
  <2>4. UNCHANGED <<given, body, told, reading>>
    BY <1>5 DEF Fence, world
  <2>5. Kept'
    <3>1. Saved(s) \/ Unsaved(s)
      BY <1>5 DEF Fence
    <3>2. m \notin Legacy => /\ s[m].outcome # "none" => s[m].content \in Content
                             /\ given[m] = 1 => s[m].content = body[m]
      BY <2>2, <2>3
    <3> HIDE DEF s
    <3> QED
      BY <2>2, <2>3, <2>4, <3>1, <3>2, WriteKept DEF Owned
  <2>6. OwnContent'
    BY <2>4 DEF OwnContent
  <2>7. CASE Saved(s) /\ sub' = [sub EXCEPT !.at = "dispatch"]
    <3>1. sub'.at = "dispatch" /\ sub'.msg = m /\ sub'.content = sub.content
      BY <2>1, <2>7
    <3>2. mem'[m].content = sub.content /\ disk'[m].content = sub.content
      BY <2>3, <2>7 DEF Saved
    <3> QED
      BY <2>2, <2>4, <2>5, <2>6, <3>1, <3>2 DEF Owned, Naming
  <2> QED
    BY <1>2, <1>5, <2>2, <2>4, <2>5, <2>6, <2>7 DEF Fence
<1>6. ASSUME Settling
      PROVE  /\ sub.msg \in Message \ Legacy /\ sub.content \in Content
             /\ sub' = NotSubmitting /\ reading[Submitter].at = "idle"
             /\ mem[sub.msg].content = sub.content
  BY <1>3, <1>6 DEF Settling, TypeOK, SubState, NotSubmitting, Safe, Submitting, Owned, Naming
<1>7. CASE SettledMeanwhile
  <2>1. Settling /\ Tell(sub.msg, sub.content, mem[sub.msg].outcome)
        /\ UNCHANGED <<mem, disk, given, body, reading>>
    BY <1>7 DEF SettledMeanwhile, world
  <2>2. mem[sub.msg].outcome = "accepted" => body[sub.msg] = Due(sub.msg, sub.content)
    BY <1>6, <2>1, AcceptedBody DEF Due
  <2>3. OwnContent'
    BY <1>6, <2>1, <2>2, TellOwn DEF Fingerprint
  <2>4. Kept'
    BY <2>1 DEF Owned, Kept
  <2> QED
    BY <1>2, <1>6, <2>1, <2>3, <2>4
<1>8. CASE Release
  <2> DEFINE m == sub.msg
             s == [mem EXCEPT ![m] = Absent]
  <2>1. Settling /\ (Saved(s) \/ Unsaved(s)) /\ UNCHANGED <<given, body, told, reading>>
    BY <1>8 DEF Release, world
  <2>2. m \in Message /\ given[m] = 0
    BY <1>6, <1>8, <2>1 DEF Release, Settling, Safe, Submitting
  <2>3. s \in Log /\ s[m].outcome = "none" /\ (\A n \in Message : n # m => s[n] = mem[n])
    BY <1>0, <2>2 DEF Log, Record, Absent, Outcome, Owner, Fingerprint
  <2>4. Kept'
    <3>1. m \notin Legacy => /\ s[m].outcome # "none" => s[m].content \in Content
                             /\ given[m] = 1 => s[m].content = body[m]
      BY <2>2, <2>3
    <3> HIDE DEF s
    <3> QED
      BY <2>1, <2>2, <2>3, <3>1, WriteKept DEF Owned
  <2>5. OwnContent'
    BY <2>1 DEF OwnContent
  <2> QED
    BY <1>2, <1>6, <2>1, <2>4, <2>5
<1>9. CASE Conclude
  <2> DEFINE m == sub.msg
             s == [mem EXCEPT ![m].outcome = sub.answer]
  <2>1. /\ Settling /\ sub.answer \in Outcome /\ mem[m].outcome = "unknown"
        /\ UNCHANGED <<given, body, reading>>
        /\ \/ Saved(s) /\ Tell(m, sub.content, sub.answer)
           \/ Unsaved(s) /\ UNCHANGED told
    BY <1>9 DEF Conclude, Meanwhile, Outcome, world
  <2>2. Kept'
    BY <1>6, <2>1, OutcomeKept
  <2>3. sub.answer = "accepted" => body[m] = Due(m, sub.content)
    BY <1>6, <2>1 DEF Settling, Safe, Submitting, Owned, Kept, Due
  <2>4. OwnContent'
    <3>1. CASE UNCHANGED told
      BY <2>1, <3>1 DEF OwnContent
    <3>2. CASE Tell(m, sub.content, sub.answer)
      BY <1>6, <2>1, <2>3, <3>2, TellOwn DEF Fingerprint
    <3> QED
      BY <2>1, <3>1, <3>2
  <2> QED
    BY <1>2, <1>6, <2>1, <2>2, <2>4
<1> QED
  BY <1>1, <1>4, <1>5, <1>7, <1>8, <1>9 DEF Submission

(* An operation is created with the content of its fence, and nobody was   *)
(* told of it before.                                                      *)
LEMMA OwnedAdapter ==
  TypeOK /\ Safe /\ Truthful /\ Owned /\ OwnContent /\ Adapter => Owned' /\ OwnContent'
<1> SUFFICES ASSUME TypeOK, Safe, Truthful, Owned, OwnContent, Adapter PROVE Owned' /\ OwnContent'
  OBVIOUS
<1>1. UNCHANGED <<mem, disk, reading, told>>
  BY DEF Adapter, NativeDefers, NativeRefuses, NativeCreates, NativeReturns, NativeSettles
<1>2. CASE NativeCreates
  <2> DEFINE m == sub.msg
  <2>1. sub \in [at : {"reconcile", "dispatch", "flight", "settle"}, msg : Message, content : Content,
                 answer : {"unknown", "mismatch", "deferred"} \cup Terminal] /\ sub.at = "dispatch"
    BY <1>2 DEF NativeCreates, TypeOK, SubState, NotSubmitting
  <2>2. /\ m \in Message \ Legacy /\ given[m] = 0
        /\ mem[m].content = sub.content /\ disk[m].content = sub.content
        /\ mem[m].outcome = "unknown" /\ disk[m].outcome = "unknown"
        /\ reading[Submitter].at = "idle"
    BY <2>1 DEF Safe, Submitting, Owned, Naming
  <2>3. /\ body'[m] = sub.content /\ sub' = [sub EXCEPT !.at = "flight"]
        /\ \A n \in Message : n # m => body'[n] = body[n] /\ given'[n] = given[n]
    BY <1>2, <2>2 DEF NativeCreates, TypeOK
  <2>4. Kept'
    <3>1. \A n \in Legacy : body'[n] = Nobody
      BY <2>2, <2>3, Names DEF Owned, Kept
    <3> QED
      BY <1>1, <2>1, <2>2, <2>3, <3>1 DEF Owned, Kept
  <2>5. Naming'
    BY <1>1, <2>1, <2>2, <2>3 DEF Naming
  <2>6. told[m] = {}
    BY <2>2 DEF TypeOK, Safe, Durable, Terminal
  <2> QED
    BY <1>1, <2>3, <2>4, <2>5, <2>6 DEF Owned, OwnContent
<1>3. ASSUME UNCHANGED <<given, body>>,
             \/ UNCHANGED sub
             \/ sub.at \in {"dispatch", "flight"} /\ \E a : Answer(a)
      PROVE  Owned' /\ OwnContent'
  <2>1. CASE UNCHANGED sub
    BY <1>1, <1>3, <2>1 DEF Owned, Kept, Naming, OwnContent
  <2>2. ASSUME NEW a, Answer(a), sub.at \in {"dispatch", "flight"} PROVE Owned' /\ OwnContent'
    <3>1. sub'.at = "settle" /\ sub'.msg = sub.msg /\ sub'.content = sub.content
      BY <2>2 DEF Answer, TypeOK, SubState, NotSubmitting
    <3> QED
      BY <1>1, <1>3, <2>2, <3>1 DEF Owned, Kept, Naming, OwnContent
  <2> QED
    BY <1>3, <2>1, <2>2
<1> QED
  BY <1>2, <1>3 DEF Adapter, NativeDefers, NativeRefuses, NativeReturns, NativeSettles, world

LEMMA OwnedLifecycle ==
  TypeOK /\ Safe /\ Truthful /\ Owned /\ OwnContent /\ Lifecycle => Owned' /\ OwnContent'
<1> SUFFICES ASSUME TypeOK, Safe, Truthful, Owned, OwnContent, Lifecycle PROVE Owned' /\ OwnContent'
  OBVIOUS
<1>0. Submitter \in Reading
  BY DEF Reading
<1>1. CASE Restart
  BY <1>0, <1>1 DEF Restart, Owned, Kept, Naming, OwnContent, NotReading, NotSubmitting, world
<1>2. ASSUME NEW p \in Provider, Switch(p) PROVE Owned' /\ OwnContent'
  BY <1>0, <1>2 DEF Switch, ToRuntime, Owned, Kept, Naming, OwnContent, world
<1>3. ASSUME NEW m \in Legacy, Import(m) PROVE Owned' /\ OwnContent'
  <2>1. m \in Message /\ LegacyOutcome[m] \in Outcome
    BY Names DEF Outcome, Terminal
  <2>2. UNCHANGED <<given, body, told, reading, sub>>
    BY <1>3 DEF Import, world
  <2>3. Kept' /\ \A n \in Message : /\ mem'[n].content = mem[n].content
                                    /\ disk'[n].content \in {disk[n].content, mem[n].content}
                                    /\ n # m => mem'[n].outcome = mem[n].outcome
    BY <1>3, <2>1, <2>2, OutcomeKept DEF Import
  <2>4. sub.at # "idle" => sub.msg \in Message /\ sub.msg # m
    BY <1>3 DEF TypeOK, SubState, NotSubmitting, Safe, Submitting, Import
  <2>5. Naming'
    BY <2>2, <2>3, <2>4 DEF Owned, Naming
  <2> QED
    BY <2>2, <2>3, <2>5 DEF Owned, OwnContent
<1> QED
  BY <1>1, <1>2, <1>3 DEF Lifecycle

(* SystemReceipt and SubmitSystem answer "accepted" to a producer that     *)
(* names a content only when the Runtime got that content: the fence       *)
(* binds the identity to it, in memory and on disk, before the submission. *)
(* A record taken over from before the log binds it to nothing; but no     *)
(* content that was named since has reached a Runtime under that identity. *)
THEOREM Own == Spec => []OwnContent
<1>1. TypeOK /\ Safe /\ Truthful /\ Owned /\ OwnContent /\ UNCHANGED vars => Owned' /\ OwnContent'
  BY DEF vars, Owned, Kept, Naming, OwnContent
<1>2. TypeOK /\ Safe /\ Truthful /\ Owned /\ OwnContent /\ [Next]_vars => Owned' /\ OwnContent'
  BY <1>1, OwnedReceipts, OwnedSubmission, OwnedAdapter, OwnedLifecycle DEF Next
<1>3. TypeOK /\ Truthful /\ [Next]_vars => Truthful'
  BY TruthStep
<1> QED
  BY TruthInit, OwnedInit, Typing, Safety, <1>2, <1>3, PTL DEF Spec

(***************************************************************************)
(* No message has operations at two Runtimes.                              *)
(***************************************************************************)
LEMMA Apart ==
  ASSUME \A m \in Message : \A p, q \in Provider : native[p][m] # "none" /\ native[q][m] # "none" => p = q
  PROVE  OneRuntime
<1> SUFFICES ASSUME NEW m \in Message
             PROVE  Cardinality({p \in Provider : native[p][m] # "none"}) <= 1
  BY DEF OneRuntime
<1> DEFINE there == {p \in Provider : native[p][m] # "none"}
<1>1. CASE there = {}
  <2>1. Cardinality(there) = 0
    BY <1>1, FS_EmptySet
  <2> QED
    BY <2>1
<1>2. ASSUME NEW p \in there PROVE Cardinality(there) <= 1
  <2>1. there = {p}
    BY <1>2
  <2>2. Cardinality(there) = 1
    BY <2>1, FS_Singleton
  <2> HIDE DEF there
  <2> QED
    BY <2>2
<1> QED
  BY <1>1, <1>2

(* The operation is created behind the fence, where no Runtime has one,    *)
(* and the fence outlives restarts and changes of Runtime: an adapter      *)
(* (backend/codex, backend/caelis) is never handed what another one has.   *)
(* It takes a reader that outlives its resident to break this.             *)
THEOREM StaysAtOne == Spec => []OneRuntime
<1> DEFINE J == \A m \in Message : \A p, q \in Provider :
                  native[p][m] # "none" /\ native[q][m] # "none" => p = q
<1>1. Init => J
  BY DEF Init
<1>2. TypeOK /\ Safe /\ J /\ [Next]_vars => J'
  <2> SUFFICES ASSUME TypeOK, Safe, J, [Next]_vars PROVE J'
    OBVIOUS
  <2>1. CASE UNCHANGED native
    BY <2>1
  <2>2. CASE NativeCreates
    <3> DEFINE c == sub.msg
    <3>1. c \in Message /\ given[c] = 0
      BY <2>2 DEF NativeCreates, Safe, Submitting, TypeOK, SubState, NotSubmitting
    <3>2. \A p \in Provider : native[p][c] = "none"
      BY <3>1 DEF Safe, Fenced, TypeOK
    <3>3. \A p \in Provider, m \in Message :
            native'[p][m] # "none" => native[p][m] # "none" \/ (p = provider /\ m = c)
      BY <2>2 DEF NativeCreates, TypeOK
    <3> QED
      BY <3>2, <3>3
  <2>3. ASSUME NEW p \in Provider, NEW m \in Message, NEW outcome \in Terminal,
               NativeSettles(p, m, outcome)
        PROVE  J'
    <3>1. \A q \in Provider, n \in Message : native'[q][n] # "none" => native[q][n] # "none"
      BY <2>3 DEF NativeSettles, TypeOK, Terminal
    <3> QED
      BY <3>1
  <2> QED
    BY <2>1, <2>2, <2>3
    DEF Next, vars, Receipts, Submission, Adapter, Lifecycle, Ask, Recheck, ReadSettled, ReadStart,
        Begin, NotAdmitted, Fence, SettledMeanwhile, Mismatched, Release, Conclude, NativeDefers,
        NativeRefuses, NativeReturns, Restart, Switch, ToRuntime, Import, world
<1>3. J => OneRuntime
  BY Apart
<1> QED
  BY <1>1, <1>2, <1>3, Typing, Safety, PTL DEF Spec
=============================================================================
