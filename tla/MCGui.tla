------------------------------- MODULE MCGui -------------------------------
(* Instances of Gui for TLC.                                                *)
EXTENDS Gui
CONSTANTS r1, r2, a1, a2
MCRequests == {r1, r2}
MCAlarms == {a1, a2}
=============================================================================
