------------------------------ MODULE MCMigration -----------------------------
(* Small instances of Migration: two remotes, and paths of a few characters. *)
EXTENDS Migration

CONSTANTS m1, m2, b1, nobody

OneMigration == {m1}
TwoMigrations == {m1, m2}
OneBackup == {b1}
NoBackup == {}
MovesAndBackup == {m1, m2, b1}
MoveAndBackup == {m1, b1}

G == <<"g">>
H == <<"h">>
HI == <<"h", " ", "i">>
OneRemote == {G}
TwoRemotes == {G, H}
SpacedRemotes == {G, HI}

(* No folder lies in another one. *)
A == <<"a">>
B == <<"b">>
TwoPaths == {A, B}
SpacedPaths == {A, <<"b", " ", "c">>}

(* Two folders in the folder that the first path names. *)
NestedPaths == {A, <<"a", "/", "b">>, <<"a", "/", "c">>}

NoForeign == {}
ForeignAtB == {<<H, B>>}
ForeignTwice == {<<H, B>>, <<G, B>>}
SealedAtHome == {<<G, B>>}

NoFaults == {}
Survivable == {"network", "write", "crash", "sigterm"}
NetworkOnly == {"network"}
BlinkOnly == {"blink"}
SigtermOnly == {"sigterm"}
CrashOnly == {"crash"}
===============================================================================
