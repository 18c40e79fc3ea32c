-------------------------------- MODULE Custody -------------------------------
(***************************************************************************)
(* What moving a backup repository promises: snapshots come into being at  *)
(* some location, are copied, and are discarded from a location only while *)
(* another one holds them all.  Migration.tla is shown to implement it.    *)
(***************************************************************************)

CONSTANTS Locations, Snaps

VARIABLE held      \* per location, the snapshots that can be restored from it

TypeOK == held \in [Locations -> SUBSET Snaps]

Everything == UNION {held[l] : l \in Locations}

Init == TypeOK

Backup(l) ==
    \E s \in Snaps \ Everything : held' = [held EXCEPT ![l] = @ \cup {s}]

(* What can be restored somewhere becomes restorable at m as well, be it     *)
(* copied now or left there by an earlier copy.                              *)
Copy(m) ==
    \E S \in SUBSET Everything : held' = [held EXCEPT ![m] = @ \cup S]

Discard(l, m) ==
    /\ l # m
    /\ held[l] \subseteq held[m]
    /\ \E S \in SUBSET held[l] : held' = [held EXCEPT ![l] = S]

Next ==
    \/ \E l \in Locations : Backup(l) \/ Copy(l)
    \/ \E l, m \in Locations : Discard(l, m)

Spec == Init /\ [][Next]_held

(* Once a snapshot exists, it can always be restored from somewhere. *)
NothingLost == [][Everything \subseteq Everything']_held
===============================================================================
