------------------------------ MODULE GuiProofs ------------------------------
(***************************************************************************)
(* Theorems about Gui: for any number of requests and late timers, as long  *)
(* as docker rm works, a GUI that runs has a deadline and an open gate, or  *)
(* an actor is on its way.                                                  *)
(***************************************************************************)
EXTENDS Gui, TLAPS

(* Every variable keeps its type (the state of rclonegui.go:29-34).         *)
THEOREM GuiTypeCorrect == Spec => []TypeOK
<1>1. Init => TypeOK
  BY DEF Init, TypeOK
<1>2. TypeOK /\ [Next]_vars => TypeOK'
  <2> SUFFICES ASSUME TypeOK, [Next]_vars PROVE TypeOK'
    OBVIOUS
  <2>1. CASE UNCHANGED vars
    BY <2>1 DEF TypeOK, vars
  <2>2. ASSUME NEW r \in Requests, Start(r) \/ Stop(r) PROVE TypeOK'
    BY <2>2 DEF TypeOK, Start, Stop, Step, Actors
  <2>3. ASSUME NEW a \in Actors, Work(a) PROVE TypeOK'
    BY <2>3 DEF TypeOK, Work, Step, EngineEnv, RemoveOld, DockerRun, DockerRunFails, Clean,
                Arm, Disarm, Remove, Removes, RmFails
  <2>4. ASSUME NEW a \in Alarms, Ring(a) PROVE TypeOK'
    BY <2>4 DEF TypeOK, Ring, Step, Actors
  <2>5. CASE GuiExits \/ Crash \/ Boot \/ BootReconcile
    BY <2>5 DEF TypeOK, GuiExits, Crash, Boot, BootReconcile, Removes, RmFails
  <2> QED
    BY <2>1, <2>2, <2>3, <2>4, <2>5 DEF Next
<1> QED
  BY <1>1, <1>2, PTL DEF Spec

\* What makes both properties inductive: outside the hands of an actor, a GUI
\* runs with its timer pending and its gate open.
Watched == engine = "up" /\ box = "running" => InHand \/ (rgTimer /\ rgActive)

(* An actor that does not go through one of the critical statements leaves  *)
(* the others where they are.                                               *)
LEMMA StillInHand ==
    ASSUME TypeOK, InHand, NEW a \in Actors, pc[a] \notin {"arm", "clean", "disarm", "remove"},
           NEW to, pc' = [pc EXCEPT ![a] = to]
    PROVE  InHand'
<1>1. PICK b \in Actors : pc[b] \in {"arm", "clean", "disarm", "remove"}
  BY DEF InHand
<1>2. a # b /\ pc'[b] = pc[b]
  BY <1>1 DEF TypeOK
<1> QED
  BY <1>1, <1>2 DEF InHand

(* An actor that arrives at one of them is in hand.                         *)
LEMMA NowInHand ==
    ASSUME TypeOK, NEW a \in Actors, NEW to \in {"arm", "clean", "disarm", "remove"},
           pc' = [pc EXCEPT ![a] = to]
    PROVE  InHand'
<1>1. pc'[a] = to
  BY DEF TypeOK
<1> QED
  BY <1>1 DEF InHand

(* No step leaves a running GUI unwatched.                                  *)
LEMMA WatchedStep ==
    ASSUME RmFaults = FALSE, TypeOK, Watched, [Next]_vars
    PROVE  Watched'
<1>1. CASE UNCHANGED vars
  BY <1>1 DEF Watched, InHand, vars
<1>2. ASSUME NEW r \in Requests, Start(r) PROVE Watched'
  <2>1. r \in Actors
    BY DEF Actors
  <2>2. InHand => InHand'
    BY <1>2, <2>1, StillInHand DEF Start, Step
  <2> QED
    BY <1>2, <2>2 DEF Watched, Start
<1>3. ASSUME NEW r \in Requests, Stop(r) PROVE Watched'
  <2>1. r \in Actors
    BY DEF Actors
  <2> QED
    BY <1>3, <2>1, NowInHand DEF Stop, Step, Watched
<1>4. ASSUME NEW a \in Alarms, Ring(a) PROVE Watched'
  <2>1. a \in Actors
    BY DEF Actors
  <2> QED
    BY <1>4, <2>1, NowInHand DEF Ring, Step, Watched
<1>5. ASSUME NEW a \in Actors, Work(a) PROVE Watched'
  <2>1. CASE EngineEnv(a)
    <3>1. InHand => InHand'
      BY <2>1, StillInHand DEF EngineEnv, Step
    <3> QED
      BY <2>1, <3>1 DEF EngineEnv, Watched
  <2>2. CASE RemoveOld(a) \/ Clean(a) \/ Remove(a)
    <3>1. box' = "none"
      BY <2>2 DEF RemoveOld, Clean, Remove, Removes, RmFails
    <3> QED
      BY <3>1 DEF Watched
  <2>3. CASE DockerRun(a)
    BY <2>3, NowInHand DEF DockerRun, Step, Watched
  <2>4. CASE DockerRunFails(a)
    BY <2>4, NowInHand DEF DockerRunFails, Step, Watched
  <2>5. CASE Arm(a)
    BY <2>5 DEF Arm, Watched
  <2>6. CASE Disarm(a)
    BY <2>6, NowInHand DEF Disarm, Step, Watched
  <2> QED
    BY <1>5, <2>1, <2>2, <2>3, <2>4, <2>5, <2>6 DEF Work
<1>6. CASE GuiExits \/ Crash \/ Boot \/ BootReconcile
  BY <1>6 DEF Watched, GuiExits, Crash, Boot, BootReconcile, Removes, RmFails
<1> QED
  BY <1>1, <1>2, <1>3, <1>4, <1>5, <1>6 DEF Next

(* The inductive invariant holds in every reachable state.                  *)
LEMMA AlwaysWatched == RmFaults = FALSE /\ Spec => []Watched
<1> SUFFICES ASSUME RmFaults = FALSE PROVE Spec => []Watched
  OBVIOUS
<1>1. Init => Watched
  BY DEF Init, Watched
<1>2. TypeOK /\ Watched /\ [Next]_vars => Watched'
  BY WatchedStep
<1> QED
  BY <1>1, <1>2, GuiTypeCorrect, PTL DEF Spec

(* No interleaving of starts, stops and timers leaves a GUI without a       *)
(* deadline: startRcloneGUI and stopRcloneGUI (rclonegui.go:213-264).       *)
THEOREM EveryGuiHasDeadline == RmFaults = FALSE /\ Spec => []GuiHasDeadline
<1>1. Watched => GuiHasDeadline
  BY DEF Watched, GuiHasDeadline
<1> QED
  BY <1>1, AlwaysWatched, PTL

(* The gate of the proxy is never shut before a GUI that runs, except while *)
(* an actor is on its way (rcloneGUIActive, rclonegui.go:91-96).            *)
THEOREM ShutGateMeansNoGui == RmFaults = FALSE /\ Spec => []ClosedMeansStopped
<1>1. Watched => ClosedMeansStopped
  BY DEF Watched, ClosedMeansStopped
<1> QED
  BY <1>1, AlwaysWatched, PTL
=============================================================================
