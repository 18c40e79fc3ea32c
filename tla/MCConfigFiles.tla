--------------------------- MODULE MCConfigFiles ---------------------------
(* Instances of ConfigFiles for TLC: config.env, the alert webhook as the   *)
(* file whose saves may overlap or, in SeededFiles, excludes.txt, two       *)
(* handlers, one schedule beside "off", one that the parser refuses, and    *)
(* one of which it leaves the check alone.                                  *)
EXTENDS ConfigFiles, TLC

CONSTANTS config, excludes, alert, w1, w2, off, bad, checks, nightly, text, none

MCFiles == {config, alert}
MCSeeded == {config}
MCRemovable == {alert}
SeededFiles == {config, excludes}
MCOverlap == {alert}
NoFiles == {}
MCWriters == {w1, w2}
MCBodies == {off, bad, checks, nightly}
MCRefused == {bad, checks}
MCLists == {text}
=============================================================================
