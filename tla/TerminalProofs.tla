--------------------------- MODULE TerminalProofs ---------------------------
(***************************************************************************)
(* Theorems about Terminal: for any number of sessions and slots, as long   *)
(* as docker rm works, a terminal that runs belongs to a session that holds *)
(* a slot, and so the cap on sessions is a cap on containers.               *)
(***************************************************************************)
EXTENDS Terminal, FiniteSetTheorems, TLAPS

(* Every variable keeps its type (the state of handleTerminalWS).           *)
THEOREM TerminalTypeCorrect == Spec => []TypeOK
<1>1. Init => TypeOK
  BY DEF Init, TypeOK
<1>2. TypeOK /\ [Next]_vars => TypeOK'
  <2> SUFFICES ASSUME TypeOK, [Next]_vars PROVE TypeOK'
    OBVIOUS
  <2> USE DEF TypeOK
  <2>1. CASE UNCHANGED vars
    BY <2>1 DEF vars
  <2>2. ASSUME NEW s \in Sessions, Handler(s) PROVE TypeOK'
    <3>1. CASE EngineEnv(s) \/ NoSlot(s) \/ PtyStart(s)
      BY <3>1 DEF EngineEnv, NoSlot, PtyStart, Step, Return
    <3>2. CASE TakeSlot(s) \/ ReadFails(s) \/ ReadTimesOut(s)
      BY <3>2 DEF TakeSlot, ReadFails, ReadTimesOut, Step
    <3>3. CASE CloseClient(s)
      BY <3>3 DEF CloseClient, Step, Killed
    <3>4. CASE RemoveBox(s) \/ Release(s)
      BY <3>4 DEF RemoveBox, Release, Step, Return
    <3> QED
      BY <2>2, <3>1, <3>2, <3>3, <3>4 DEF Handler
  <2>3. ASSUME NEW s \in Sessions, Open(s) \/ PumpEnds(s) \/ TtlKills(s) PROVE TypeOK'
    BY <2>3 DEF Open, PumpEnds, TtlKills, Step, Killed
  <2>4. ASSUME NEW s \in Sessions, Docker(s) PROVE TypeOK'
    BY <2>4 DEF Docker, Create, StartBox
  <2>5. ASSUME NEW s \in Sessions, WizardEnds(s) \/ StopTyping(s) \/ Leave(s) PROVE TypeOK'
    BY <2>5 DEF WizardEnds, StopTyping, Leave
  <2>6. CASE Crash
    BY <2>6 DEF Crash
  <2>7. CASE Boot \/ Reconcile
    BY <2>7 DEF Boot, Reconcile
  <2> QED
    BY <2>1, <2>2, <2>3, <2>4, <2>5, <2>6, <2>7 DEF Next
<1> QED
  BY <1>1, <1>2, PTL DEF Spec

----------------------------------------------------------------------------
(* The inductive invariant.                                                 *)

\* the slot is held from the select to the deferred receive
SlotInv(s) == slot[s] <=> pc[s] \in {"start", "open", "close", "rm", "release"}

\* a docker client lives only while its handler does
ClientInv(s) == cli[s] \in {"create", "start"} => pc[s] \in {"open", "close"}

\* a container that runs, or that a request in flight will start, is one that
\* the handler has yet to remove
BoxInv(s) ==
    engine = "up" /\ (box[s] = "running" \/ (box[s] = "created" /\ cli[s] \in {"start", "lateStart"}))
        => pc[s] \in {"open", "close", "rm"}

CapInv == Cardinality(Taken) <= termMaxConc

SessionInv == \A s \in Sessions : SlotInv(s) /\ ClientInv(s) /\ BoxInv(s)

(* Each session keeps its own three facts whatever any session does.        *)
LEMMA SessionStep ==
    ASSUME RmFaults = FALSE, TypeOK, SessionInv, [Next]_vars
    PROVE  SessionInv'
<1> SUFFICES ASSUME NEW t \in Sessions PROVE SlotInv(t)' /\ ClientInv(t)' /\ BoxInv(t)'
  BY DEF SessionInv
<1>0. SlotInv(t) /\ ClientInv(t) /\ BoxInv(t)
  BY DEF SessionInv
<1> USE <1>0 DEF TypeOK, SlotInv, ClientInv, BoxInv
<1>1. CASE UNCHANGED vars
  BY <1>1 DEF vars
<1>2. ASSUME NEW s \in Sessions, Handler(s) PROVE SlotInv(t)' /\ ClientInv(t)' /\ BoxInv(t)'
  <2>1. CASE EngineEnv(s)
    BY <2>1 DEF EngineEnv, Step, Return
  <2>2. CASE TakeSlot(s)
    BY <2>2 DEF TakeSlot, Step
  <2>3. CASE NoSlot(s)
    BY <2>3 DEF NoSlot, Step, Return
  <2>4. CASE PtyStart(s)
    BY <2>4 DEF PtyStart, Step
  <2>5. CASE ReadFails(s) \/ ReadTimesOut(s)
    BY <2>5 DEF ReadFails, ReadTimesOut, Step
  <2>6. CASE CloseClient(s)
    BY <2>6 DEF CloseClient, Step, Killed
  <2>7. CASE RemoveBox(s)
    BY <2>7 DEF RemoveBox, Step
  <2>8. CASE Release(s)
    BY <2>8 DEF Release, Step, Return
  <2> QED
    BY <1>2, <2>1, <2>2, <2>3, <2>4, <2>5, <2>6, <2>7, <2>8 DEF Handler
<1>3. ASSUME NEW s \in Sessions, Open(s) PROVE SlotInv(t)' /\ ClientInv(t)' /\ BoxInv(t)'
  BY <1>3 DEF Open, Step
<1>4. ASSUME NEW s \in Sessions, PumpEnds(s) PROVE SlotInv(t)' /\ ClientInv(t)' /\ BoxInv(t)'
  BY <1>4 DEF PumpEnds
<1>5. ASSUME NEW s \in Sessions, TtlKills(s) PROVE SlotInv(t)' /\ ClientInv(t)' /\ BoxInv(t)'
  BY <1>5 DEF TtlKills, Killed
<1>6. ASSUME NEW s \in Sessions, Docker(s) PROVE SlotInv(t)' /\ ClientInv(t)' /\ BoxInv(t)'
  BY <1>6 DEF Docker, Create, StartBox
<1>7. ASSUME NEW s \in Sessions, WizardEnds(s) \/ StopTyping(s) \/ Leave(s)
      PROVE  SlotInv(t)' /\ ClientInv(t)' /\ BoxInv(t)'
  BY <1>7 DEF WizardEnds, StopTyping, Leave
<1>8. CASE Crash \/ Boot \/ Reconcile
  BY <1>8 DEF Crash, Boot, Reconcile
<1> QED
  BY <1>1, <1>2, <1>3, <1>4, <1>5, <1>6, <1>7, <1>8 DEF Next

(* Only TakeSlot adds to the slots taken, and it looks at their number.     *)
LEMMA CapStep ==
    ASSUME TypeOK, CapInv, [Next]_vars
    PROVE  CapInv'
<1>0. IsFiniteSet(Taken) /\ termMaxConc \in Nat /\ Cardinality(Taken) \in Nat
  BY TerminalAssumption, FS_Subset, FS_CardinalityType DEF Taken
<1>1. ASSUME Taken' \subseteq Taken PROVE CapInv'
  <2>1. Cardinality(Taken') \in Nat /\ Cardinality(Taken') <= Cardinality(Taken)
    BY <1>0, <1>1, FS_Subset, FS_CardinalityType
  <2> QED
    BY <2>1, <1>0 DEF CapInv
<1>2. ASSUME NEW s \in Sessions, TakeSlot(s) PROVE CapInv'
  <2>1. Taken' = Taken \cup {s}
    BY <1>2 DEF TakeSlot, Taken, TypeOK
  <2>2. Cardinality(Taken') = Cardinality(Taken) \/ Cardinality(Taken') = Cardinality(Taken) + 1
    BY <2>1, <1>0, FS_AddElement
  <2> QED
    BY <2>2, <1>0, <1>2 DEF CapInv, TakeSlot
<1>3. ASSUME NEW s \in Sessions, Handler(s), ~TakeSlot(s) PROVE Taken' \subseteq Taken
  BY <1>3 DEF Handler, EngineEnv, NoSlot, PtyStart, ReadFails, ReadTimesOut, CloseClient,
              RemoveBox, Release, Taken, TypeOK
<1>4. ASSUME NEW s \in Sessions,
             Open(s) \/ PumpEnds(s) \/ TtlKills(s) \/ Docker(s) \/ WizardEnds(s) \/ StopTyping(s)
                \/ Leave(s)
      PROVE  Taken' \subseteq Taken
  BY <1>4 DEF Open, PumpEnds, TtlKills, Docker, Create, StartBox, WizardEnds, StopTyping, Leave, Taken
<1>5. CASE Crash \/ Boot \/ Reconcile \/ UNCHANGED vars
  <2>1. Taken' \subseteq Taken
    BY <1>5 DEF Crash, Boot, Reconcile, vars, Taken
  <2> QED
    BY <2>1, <1>1
<1> QED
  BY <1>1, <1>2, <1>3, <1>4, <1>5 DEF Next

(* The inductive invariant holds in every reachable state.                  *)
LEMMA AlwaysInv == RmFaults = FALSE /\ Spec => [](SessionInv /\ CapInv)
<1> SUFFICES ASSUME RmFaults = FALSE PROVE Spec => [](SessionInv /\ CapInv)
  OBVIOUS
<1>1. Init => SessionInv
  BY DEF Init, SessionInv, SlotInv, ClientInv, BoxInv
<1>2. Init => CapInv
  <2> SUFFICES ASSUME Init PROVE CapInv
    OBVIOUS
  <2>1. Taken = {}
    BY DEF Init, Taken
  <2> QED
    BY <2>1, FS_EmptySet, TerminalAssumption DEF CapInv
<1>3. TypeOK /\ SessionInv /\ [Next]_vars => SessionInv'
  BY SessionStep
<1>4. TypeOK /\ CapInv /\ [Next]_vars => CapInv'
  BY CapStep
<1> QED
  BY <1>1, <1>2, <1>3, <1>4, TerminalTypeCorrect, PTL DEF Spec

(* A terminal that runs belongs to a session that holds its slot, also when *)
(* the docker client was killed with its start in flight: the order of the  *)
(* deferred calls of handleTerminalWS.                                      *)
THEOREM RunningTerminalsHoldSlots == RmFaults = FALSE /\ Spec => []RunningHoldsSlot
<1>1. SessionInv => RunningHoldsSlot
  BY DEF SessionInv, SlotInv, BoxInv, RunningHoldsSlot, Running, Taken
<1> QED
  BY <1>1, AlwaysInv, PTL

(* No more containers run than there are slots (terminal.go:30).            *)
THEOREM TerminalsStayCapped == RmFaults = FALSE /\ Spec => []TerminalsAreCapped
<1>1. SessionInv /\ CapInv => TerminalsAreCapped
  <2> SUFFICES ASSUME SessionInv, CapInv, engine = "up"
               PROVE  Cardinality(Running) <= termMaxConc
    BY DEF TerminalsAreCapped
  <2>1. Running \subseteq Taken
    BY DEF SessionInv, SlotInv, BoxInv, Running, Taken
  <2>2. IsFiniteSet(Taken)
    BY TerminalAssumption, FS_Subset DEF Taken
  <2>3. /\ Cardinality(Running) <= Cardinality(Taken)
        /\ Cardinality(Running) \in Nat /\ Cardinality(Taken) \in Nat
    BY <2>1, <2>2, FS_Subset, FS_CardinalityType
  <2> QED
    BY <2>3, TerminalAssumption DEF CapInv
<1> QED
  BY <1>1, AlwaysInv, PTL
=============================================================================
