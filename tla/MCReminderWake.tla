--------------------------- MODULE MCReminderWake ---------------------------
(***************************************************************************)
(* Small instances of ReminderWake: a repeating reminder with a window,    *)
(* and one that fires once.                                                *)
(***************************************************************************)
EXTENDS ReminderWake, TLC

CONSTANTS daily, once, codex, caelis

Slots == daily :> {2, 4} @@ once :> {2}
Windows == daily :> {1, 2, 4} @@ once :> Time
SameOrigin == daily :> 1 @@ once :> 1
=============================================================================
