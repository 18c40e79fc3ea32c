----------------------------- MODULE MCTerminal -----------------------------
(* Instances of Terminal for TLC.                                           *)
EXTENDS Terminal
CONSTANTS s1, s2, s3
MCSessions == {s1, s2}
MCThree == {s1, s2, s3}
=============================================================================
