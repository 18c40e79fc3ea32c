-------------------------- MODULE SnapCacheProofs ---------------------------
(***************************************************************************)
(* Theorems about SnapCache, for any requests, time to live and limit.      *)
(***************************************************************************)
EXTENDS SnapCache, TLAPS

(* The list in the cache is at most Limit older than its store while it may *)
(* be served without restic; and the cache keeps a list once it had one.    *)
AgeInv == data # None /\ at < Ttl => data <= at + Limit
KeptInv == Listed => data # None
CacheInv == AgeInv /\ KeptInv /\ AnswersAreRecent

(* Every variable keeps its type.                                           *)
THEOREM CacheTypeCorrect == Spec => []TypeOK
<1> USE SnapCacheAssumption
<1>1. Init => TypeOK
  BY DEF Init, TypeOK, Answer, Hows, None
<1>2. TypeOK /\ [Next]_vars => TypeOK'
  <2> SUFFICES ASSUME TypeOK, [Next]_vars PROVE TypeOK'
    OBVIOUS
  <2> USE DEF TypeOK, Answer, Hows, Idle
  <2>1. CASE UNCHANGED vars
    BY <2>1 DEF vars
  <2>2. ASSUME NEW r \in Readers, Hit(r) PROVE TypeOK'
    BY <2>2 DEF Hit, None
  <2>3. ASSUME NEW r \in Readers, Miss(r) PROVE TypeOK'
    BY <2>3 DEF Miss
  <2>4. ASSUME NEW r \in Readers, Store(r) PROVE TypeOK'
    BY <2>4 DEF Store, None
  <2>5. ASSUME NEW r \in Readers, RunFails(r) PROVE TypeOK'
    BY <2>5 DEF RunFails, None
  <2>6. CASE Tick
    BY <2>6 DEF Tick, Older, None
  <2> QED
    BY <2>1, <2>2, <2>3, <2>4, <2>5, <2>6 DEF Next
<1> QED
  BY <1>1, <1>2, PTL DEF Spec

LEMMA CacheStep == TypeOK /\ CacheInv /\ [Next]_vars => CacheInv'
<1> SUFFICES ASSUME TypeOK, CacheInv, [Next]_vars PROVE CacheInv'
  OBVIOUS
<1> USE SnapCacheAssumption DEF TypeOK, CacheInv, AgeInv, KeptInv, AnswersAreRecent, Listed, Idle
<1>1. CASE UNCHANGED vars
  BY <1>1 DEF vars
<1>2. ASSUME NEW r \in Readers, Hit(r) PROVE CacheInv'
  <2>1. /\ data # None /\ UNCHANGED <<data, at>>
        /\ answer'[r].how = "cached" /\ answer'[r].age < Ttl + Limit
        /\ \A q \in Readers \ {r} : answer'[q] = answer[q]
    BY <1>2 DEF Hit, Answer, None
  <2> QED
    BY <2>1
<1>3. ASSUME NEW r \in Readers, Miss(r) PROVE CacheInv'
  BY <1>3 DEF Miss
<1>4. ASSUME NEW r \in Readers, Store(r) PROVE CacheInv'
  <2>1. /\ data' \in 0 .. Limit /\ at' = 0
        /\ answer'[r].how = "listed" /\ answer'[r].age < Ttl + Limit
        /\ \A q \in Readers \ {r} : answer'[q] = answer[q]
    BY <1>4 DEF Store, Answer
  <2>2. data' # None
    BY <2>1 DEF None
  <2> QED
    BY <2>1, <2>2
<1>5. ASSUME NEW r \in Readers, RunFails(r) PROVE CacheInv'
  <2>1. /\ UNCHANGED <<data, at>>
        /\ answer'[r].how \in {"stale", "error"}
        /\ answer'[r].how = "stale" => data # None
        /\ \A q \in Readers \ {r} : answer'[q] = answer[q]
    BY <1>5 DEF RunFails, Answer
  <2> QED
    BY <2>1
<1>6. CASE Tick
  <2>1. /\ data = None => data' = None
        /\ data # None => data' # None /\ data' <= data + 1
        /\ at' < Ttl => at' = at + 1 /\ at < Ttl
        /\ data' \in Nat /\ at' \in Nat
        /\ UNCHANGED answer
    BY <1>6 DEF Tick, Older, None
  <2>2. AgeInv'
    BY <2>1 DEF None
  <2>3. KeptInv' /\ AnswersAreRecent'
    BY <2>1
  <2> QED
    BY <2>2, <2>3
<1> QED
  BY <1>1, <1>2, <1>3, <1>4, <1>5, <1>6 DEF Next

LEMMA AlwaysCached == Spec => [](TypeOK /\ CacheInv)
<1>1. Init => CacheInv
  BY DEF Init, Answer, CacheInv, AgeInv, KeptInv, AnswersAreRecent, Listed
<1> QED
  BY <1>1, CacheStep, CacheTypeCorrect, PTL DEF Spec

(* No answer but one given for an error is older than the time to live and  *)
(* one restic run together, in whatever order the fills end                 *)
(* (AnswersAreRecent): ListSnapshotsCached.                                 *)
THEOREM ListsAreRecent == Spec => []AnswersAreRecent
<1>1. CacheInv => AnswersAreRecent
  BY DEF CacheInv
<1> QED
  BY <1>1, AlwaysCached, PTL

(* A failing restic never blanks a list that was shown (NeverBlankAgain):   *)
(* the stale answer of ListSnapshotsCached.                                 *)
THEOREM ListsAreNeverBlankedAgain == Spec => NeverBlankAgain
<1> DEFINE Good == \A r \in Readers : Listed /\ ~Idle(r) /\ Idle(r)' => answer'[r].how # "error"
<1>1. TypeOK /\ CacheInv /\ [Next]_vars => [Good]_vars
  <2> SUFFICES ASSUME TypeOK, CacheInv, Next, NEW r \in Readers, Listed, ~Idle(r), Idle(r)'
               PROVE  answer'[r].how # "error"
    BY DEF vars
  <2> USE SnapCacheAssumption DEF TypeOK, Idle
  <2>1. data # None
    BY DEF CacheInv, KeptInv
  <2>2. PICK q \in Readers : Store(q) \/ RunFails(q) \/ Hit(q) \/ Miss(q) \/ Tick
    BY DEF Next
  <2>3. CASE Store(q) \/ RunFails(q)
    BY <2>1, <2>3 DEF Store, RunFails, Answer
  <2>4. CASE Hit(q) \/ Miss(q)
    BY <2>4 DEF Hit, Miss
  <2>5. CASE Tick
    BY <2>5 DEF Tick, None
  <2> QED
    BY <2>2, <2>3, <2>4, <2>5
<1> QED
  BY <1>1, AlwaysCached, PTL DEF Spec, NeverBlankAgain
=============================================================================
