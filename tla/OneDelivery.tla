---------------------------- MODULE OneDelivery ----------------------------
(***************************************************************************)
(* What docs/system-delivery.md promises of resident system input, without *)
(* files, adapters or processes: every original message is given at most   *)
(* once to a Runtime, it is fenced before it is given, only a message that *)
(* was never given loses its fence, and a terminal receipt is final.       *)
(***************************************************************************)
EXTENDS Naturals

CONSTANTS
  Message,  \* original message ids
  Legacy    \* those delivered before receipts were logged

VARIABLES
  receipt,  \* what is known of each message
  given     \* how many native operations each message has created

Terminal == {"accepted", "rejected"}
Receipt == {"none", "unknown"} \cup Terminal

Init ==
  /\ receipt = [m \in Message |-> "none"]
  /\ given \in [Message -> 0..1] /\ \A m \in Message \ Legacy : given[m] = 0

Fence(m) ==
  /\ receipt[m] = "none"
  /\ receipt' = [receipt EXCEPT ![m] = "unknown"]
  /\ UNCHANGED given

(* Only a message that created no operation is forgotten.                  *)
Release(m) ==
  /\ receipt[m] = "unknown" /\ given[m] = 0
  /\ receipt' = [receipt EXCEPT ![m] = "none"]
  /\ UNCHANGED given

Give(m) ==
  /\ receipt[m] = "unknown" /\ given[m] = 0
  /\ given' = [given EXCEPT ![m] = 1]
  /\ UNCHANGED receipt

Settle(m, outcome) ==
  /\ receipt[m] = "unknown" \/ (receipt[m] = "none" /\ m \in Legacy)
  /\ outcome = "accepted" => given[m] = 1
  /\ receipt' = [receipt EXCEPT ![m] = outcome]
  /\ UNCHANGED given

Next == \E m \in Message :
          \/ Fence(m) \/ Release(m) \/ Give(m)
          \/ \E outcome \in Terminal : Settle(m, outcome)

Spec == Init /\ [][Next]_<<receipt, given>>
=============================================================================
