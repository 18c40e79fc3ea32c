------------------------------- MODULE MCEngine -------------------------------
(* Small instances of Engine: the goroutines of each kind are model values. *)
EXTENDS Engine

CONSTANTS b1, b2, c1, r1, r2, m1, nobody

OneOfEach == {b1, b2, c1, r1, r2, m1}
TwoBackups == {b1, b2}
OneCheck == {c1}
TwoRestores == {r1, r2}
OneMaintenance == {m1}

RestoresOnly == {r1, r2}
NoTasks == {}
AnyStatement == {"insert", "update"}
NoStatement == {}
===============================================================================
