----------------------------- MODULE SnapCache -----------------------------
(***************************************************************************)
(* The snapshot list behind the dashboard (ListSnapshotsCached of           *)
(* collector.go, handleSnapshots of api.go): a cache with a time to live,   *)
(* filled by concurrent restic runs that may end in any order, and served   *)
(* stale when restic fails.                                                 *)
(*                                                                          *)
(* Time is counted in ticks, and a list is dated by its age: the ticks      *)
(* since the restic run that made it was started, which is when it took the *)
(* repository from the environment (a migration switches it).               *)
(***************************************************************************)
EXTENDS Naturals

CONSTANTS
    Readers,    \* requests of GET /api/snapshots
    Ttl,        \* the ttl that handleSnapshots passes: 15 s
    Limit       \* the timeout of resticJSON: 60 s

ASSUME SnapCacheAssumption == Ttl \in Nat \ {0} /\ Limit \in Nat \ {0}

None == Ttl + Limit + 1     \* no list; and a bound: older ages are not told apart

VARIABLES
    data,       \* age of the list in the cache, None if there is none
    at,         \* ticks since it was stored
    run,        \* reader -> age of its restic run, None if it has none
    answer      \* reader -> how its last request was answered, and the age of the list

vars == <<data, at, run, answer>>

Answer(how, age) == [how |-> how, age |-> age]

Init ==
    /\ data = None /\ at = 0
    /\ run = [r \in Readers |-> None]
    /\ answer = [r \in Readers |-> Answer("none", 0)]

Idle(r) == run[r] = None

\* under snapCache.mu
Hit(r) ==
    /\ Idle(r)
    /\ data # None /\ at < Ttl
    /\ answer' = [answer EXCEPT ![r] = Answer("cached", data)]
    /\ UNCHANGED <<data, at, run>>

\* fresh=1 always misses.  The mutex is released and restic is started.
Miss(r) ==
    /\ Idle(r)
    /\ run' = [run EXCEPT ![r] = 0]
    /\ UNCHANGED <<data, at, answer>>

\* restic has answered: whatever is in the cache by now is replaced
Store(r) ==
    /\ ~Idle(r)
    /\ data' = run[r] /\ at' = 0
    /\ answer' = [answer EXCEPT ![r] = Answer("listed", run[r])]
    /\ run' = [run EXCEPT ![r] = None]

RunFailsBlank(r) ==
    /\ ~Idle(r)
    /\ answer' = [answer EXCEPT ![r] = Answer("error", 0)]
    /\ run' = [run EXCEPT ![r] = None]
    /\ UNCHANGED <<data, at>>

RunFailsRestamps(r) ==
    /\ ~Idle(r)
    /\ answer' = [answer EXCEPT ![r] = IF data # None THEN Answer("stale", data)
                                       ELSE Answer("error", 0)]
    /\ run' = [run EXCEPT ![r] = None]
    /\ at' = 0
    /\ UNCHANGED data

\* restic fails, is killed at the limit, or the browser goes away
RunFails(r) ==
    /\ ~Idle(r)
    /\ answer' = [answer EXCEPT ![r] = IF data # None THEN Answer("stale", data)
                                       ELSE Answer("error", 0)]
    /\ run' = [run EXCEPT ![r] = None]
    /\ UNCHANGED <<data, at>>

Older(age, cap) == IF age < cap THEN age + 1 ELSE cap

\* no run outlives its limit
Tick ==
    /\ \A r \in Readers : Idle(r) \/ run[r] < Limit
    /\ data' = IF data = None THEN None ELSE Older(data, None - 1)
    /\ at' = Older(at, Ttl)
    /\ run' = [r \in Readers |-> IF Idle(r) THEN None ELSE run[r] + 1]
    /\ UNCHANGED answer

Next ==
    \/ \E r \in Readers : Hit(r) \/ Miss(r) \/ Store(r) \/ RunFails(r)
    \/ Tick

Spec == Init /\ [][Next]_vars

----------------------------------------------------------------------------
(* Properties                                                               *)

Hows == {"none", "cached", "listed", "stale", "error"}
TypeOK ==
    /\ data \in 0 .. None /\ at \in 0 .. Ttl
    /\ run \in [Readers -> 0 .. Limit \cup {None}]
    /\ answer \in [Readers -> [how : Hows, age : 0 .. None - 1]]

(* A list that is not served because of an error is less than Ttl + Limit   *)
(* old, also when a slow fill overwrites the list of a faster one: it says  *)
(* nothing older of the repository, and names no repository that was left   *)
(* longer ago (collector.go:74, "cached briefly").                          *)
AnswersAreRecent ==
    \A r \in Readers :
        answer[r].how \in {"cached", "listed"} => answer[r].age < Ttl + Limit

(* Once some request has been answered with a list, no later one is         *)
(* answered with an error (collector.go:75, "a transient Drive blip doesn't *)
(* blank the UI").                                                          *)
Listed == \E q \in Readers : answer[q].how \in {"cached", "listed", "stale"}
NeverBlankAgain ==
    [][\A r \in Readers : Listed /\ ~Idle(r) /\ Idle(r)' => answer'[r].how # "error"]_vars
=============================================================================
