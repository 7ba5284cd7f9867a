-------------------------- MODULE MCSystemDelivery --------------------------
(***************************************************************************)
(* Small instances of SystemDelivery.  Two Runtimes, a submitter and a     *)
(* concurrent reader; m3 was delivered before receipts were logged.        *)
(***************************************************************************)
EXTENDS SystemDelivery, TLC

CONSTANTS m1, m2, m3, codex, caelis, c1, c2

NoLegacy == <<>>
LegacyUnknown == m3 :> "unknown"
=============================================================================
