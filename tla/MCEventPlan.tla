---------------------------- MODULE MCEventPlan ----------------------------
(***************************************************************************)
(* Small instances of EventPlan.                                           *)
(***************************************************************************)
EXTENDS EventPlan, TLC

CONSTANTS p1, p2, p3, e1, e2, e3, g1, g2, g3

(* Recovery: a one-shot and an interval plan over one shared collector.    *)
(* The clock's unit is an hour: an interval of minutes is 0.               *)
RecoveryKind == p1 :> "after" @@ p2 :> "interval"
SharedEvent == [p \in Plan |-> e1]
OneShots == [p \in Plan |-> "after"]
OwnGrants == [p \in Plan |-> CASE p = p1 -> g1 [] p = p2 -> g2 [] OTHER -> g3]
RecoverySeconds == p1 :> 1 @@ p2 :> 0
AllAnswers == {"match", "nomatch", "nonterminal", "condition_error", "failed", "lost"}
NoImport == <<>>
Everywhere(n) == [p \in Plan |-> n]
Zero == Everywhere(0)
One == Everywhere(1)
Two == Everywhere(2)
Strict == [max |-> 2, gap |-> 1]
Single == [max |-> 1, gap |-> 0]
Prompt == [max |-> 2, gap |-> 0]
OnePolicy == {Strict}
PromptPolicy == {Prompt}
TwoPolicies == {Strict, Single}

(* Settling: the wait for a task's completion and a native arrangement,    *)
(* while the user changes the policy.                                      *)
SettlingKind == p1 :> "completion" @@ p2 :> "native"
SettlingEvent == p1 :> e1 @@ p2 :> e2

(* Native: a live legacy rule and a superseded activation under the same   *)
(* legacy grant, with records that outlive their retention.                *)
NativeKind == Everywhere("native")
NativeEvent == p1 :> e1 @@ p2 :> e2
NativeGrants == Everywhere(g1)
NativeLegacy == p1 :> [live |-> TRUE, saved |-> "pending"]
             @@ p2 :> [live |-> FALSE, saved |-> "unknown_wake"]
NativeOcc == p1 :> 1 @@ p2 :> 2
=============================================================================
