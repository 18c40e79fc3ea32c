-------------------------------- MODULE Gui --------------------------------
(***************************************************************************)
(* The rclone GUI: one sibling container of a fixed name, started and       *)
(* stopped by requests, stopped by a timer after rgTTL, and removed by the  *)
(* next start of the engine (rclonegui.go, handleRcloneGUI of api.go).      *)
(*                                                                          *)
(* rgMu guards rgActive and rgTimer only: every docker command runs outside *)
(* it, so the steps of concurrent starts, stops and timers interleave.      *)
(***************************************************************************)
CONSTANTS
    Requests,   \* handlers of POST /api/rclone-gui
    Alarms,     \* goroutines of timers that have fired (a bound on those alive at once)
    RunFaults,  \* TRUE: engineEnv and docker run may fail
    RmFaults    \* TRUE: docker rm may fail

ASSUME GuiAssumption ==
    /\ Requests \cap Alarms = {}
    /\ RunFaults \in BOOLEAN /\ RmFaults \in BOOLEAN

Actors == Requests \cup Alarms

VARIABLES
    box,        \* the container of the name rgName: "none", "dead" or "running"
    rgActive,   \* the proxy lets requests through
    rgTimer,    \* TRUE while a timer is pending
    pc,         \* actor -> where it is in startRcloneGUI or stopRcloneGUI
    engine      \* "down", "booting" or "up"

vars == <<box, rgActive, rgTimer, pc, engine>>

Init ==
    /\ box = "none" /\ rgActive = FALSE /\ rgTimer = FALSE
    /\ pc = [a \in Actors |-> "idle"] /\ engine = "up"

Step(a, from, to) ==
    /\ pc[a] = from
    /\ pc' = [pc EXCEPT ![a] = to]

\* docker rm -f
Removes == box' = "none"
\* it fails: the daemon leaves the container as it is
RmFails == RmFaults /\ box' = box

----------------------------------------------------------------------------
(* startRcloneGUI                                                           *)

Start(r) ==
    /\ engine = "up"
    /\ Step(r, "idle", "env")
    /\ UNCHANGED <<box, rgActive, rgTimer, engine>>

EngineEnv(r) ==
    /\ \/ Step(r, "env", "rm")
       \/ RunFaults /\ Step(r, "env", "idle")
    /\ UNCHANGED <<box, rgActive, rgTimer, engine>>

\* the error of this removal is dropped
RemoveOld(r) ==
    /\ Step(r, "rm", "run")
    /\ Removes \/ RmFails
    /\ UNCHANGED <<rgActive, rgTimer, engine>>

DockerRun(r) ==
    /\ Step(r, "run", "arm")
    /\ box = "none" /\ box' = "running"
    /\ UNCHANGED <<rgActive, rgTimer, engine>>

\* the name is taken, or the container cannot be created or started
DockerRunFails(r) ==
    /\ Step(r, "run", "clean")
    /\ \/ box # "none" /\ box' = box
       \/ RunFaults /\ box = "none" /\ box' \in {"none", "dead"}
    /\ UNCHANGED <<rgActive, rgTimer, engine>>

\* the removal after a failed run takes whatever container has the name
Clean(r) ==
    /\ Step(r, "clean", "idle")
    /\ Removes \/ RmFails
    /\ UNCHANGED <<rgActive, rgTimer, engine>>

ArmTimerOnly(r) ==
    /\ Step(r, "arm", "idle")
    /\ rgTimer' = TRUE
    /\ UNCHANGED <<box, rgActive, engine>>

\* under rgMu: the earlier timer is stopped, a new one started
Arm(r) ==
    /\ Step(r, "arm", "idle")
    /\ rgActive' = TRUE
    /\ rgTimer' = TRUE
    /\ UNCHANGED <<box, engine>>

----------------------------------------------------------------------------
(* stopRcloneGUI, called by a request, by a timer and by main               *)

Stop(r) ==
    /\ engine = "up"
    /\ Step(r, "idle", "disarm")
    /\ UNCHANGED <<box, rgActive, rgTimer, engine>>

\* time.AfterFunc runs the function in a goroutine of its own
Ring(a) ==
    /\ rgTimer
    /\ rgTimer' = FALSE
    /\ Step(a, "idle", "disarm")
    /\ UNCHANGED <<box, rgActive, engine>>

\* under rgMu: stops the pending timer, whoever started it
Disarm(a) ==
    /\ Step(a, "disarm", "remove")
    /\ rgTimer' = FALSE
    /\ rgActive' = FALSE
    /\ UNCHANGED <<box, engine>>

RemoveIfActive(a) ==
    /\ Step(a, "remove", "idle")
    /\ IF rgActive THEN Removes ELSE box' = box
    /\ UNCHANGED <<rgActive, rgTimer, engine>>

Remove(a) ==
    /\ Step(a, "remove", "idle")
    /\ Removes \/ RmFails
    /\ UNCHANGED <<rgActive, rgTimer, engine>>

----------------------------------------------------------------------------
\* rclone rcd ends by itself; the container stays, --restart no
GuiExits ==
    /\ box = "running"
    /\ box' = "dead"
    /\ UNCHANGED <<rgActive, rgTimer, pc, engine>>

\* the engine dies or is stopped; the sibling container stays
Crash ==
    /\ engine # "down"
    /\ engine' = "down"
    /\ rgActive' = FALSE /\ rgTimer' = FALSE
    /\ pc' = [a \in Actors |-> "idle"]
    /\ UNCHANGED box

Boot ==
    /\ engine = "down"
    /\ engine' = "booting"
    /\ UNCHANGED <<box, rgActive, rgTimer, pc>>

BootWithoutReconcile ==
    /\ engine = "booting"
    /\ engine' = "up"
    /\ UNCHANGED <<box, rgActive, rgTimer, pc>>

\* main: stopRcloneGUI before the server listens; a failure is only logged
BootReconcile ==
    /\ engine = "booting"
    /\ Removes \/ RmFails
    /\ engine' = "up"
    /\ UNCHANGED <<rgActive, rgTimer, pc>>

Work(a) ==
    \/ EngineEnv(a) \/ RemoveOld(a) \/ DockerRun(a) \/ DockerRunFails(a) \/ Clean(a)
    \/ Arm(a) \/ Disarm(a) \/ Remove(a)

Next ==
    \/ \E r \in Requests : Start(r) \/ Stop(r)
    \/ \E a \in Actors : Work(a)
    \/ \E a \in Alarms : Ring(a)
    \/ GuiExits \/ Crash \/ Boot \/ BootReconcile

Spec == Init /\ [][Next]_vars

\* Docker commands return and timers fire; docker restarts the engine
\* (restart: unless-stopped in docker-compose.yml), and some start gets as
\* far as the removal.
FairSpec ==
    /\ Spec
    /\ \A a \in Actors : WF_vars(Work(a))
    /\ WF_vars(\E a \in Alarms : Ring(a))
    /\ WF_vars(Boot) /\ SF_vars(BootReconcile)

----------------------------------------------------------------------------
(* Properties                                                               *)

TypeOK ==
    /\ box \in {"none", "dead", "running"}
    /\ rgActive \in BOOLEAN /\ rgTimer \in BOOLEAN
    /\ pc \in [Actors -> {"idle", "env", "rm", "run", "arm", "clean", "disarm", "remove"}]
    /\ engine \in {"down", "booting", "up"}

(* An actor that is about to arm the timer or to remove the container.      *)
InHand == \E a \in Actors : pc[a] \in {"arm", "clean", "disarm", "remove"}

(* While the engine serves, no interleaving of starts, stops and timers     *)
(* leaves a GUI running that nothing will ever stop: either its timer is    *)
(* pending, or an actor is about to arm it or to remove the container       *)
(* (rclonegui.go:23, "A 30m TTL and boot reconcile clean up").              *)
GuiHasDeadline == engine = "up" /\ box = "running" => rgTimer \/ InHand

(* The proxy never refuses a GUI that runs, except while a handler or a     *)
(* timer is on its way: rcloneGUIActive reports whether the GUI is running  *)
(* (rclonegui.go:91), and of the two directions this is the one the code    *)
(* keeps.                                                                   *)
ClosedMeansStopped == engine = "up" /\ ~rgActive /\ ~InHand => box # "running"

(* Every GUI ends, also one that a dead engine has left behind.             *)
GuiIsTemporary == box = "running" ~> box # "running"

(* The other direction of rclonegui.go:91: once nothing is under way, the   *)
(* gate is open only if a container is there.  A start and a stop at once,  *)
(* or two starts, break it: one removes what the other has run.             *)
ActiveMeansStarted ==
    engine = "up" /\ rgActive /\ (\A a \in Actors : pc[a] = "idle") => box # "none"
=============================================================================
