---------------------------- MODULE MCSnapCache ----------------------------
(* Instances of SnapCache for TLC.                                          *)
EXTENDS SnapCache
CONSTANTS q1, q2
MCReaders == {q1, q2}
=============================================================================
