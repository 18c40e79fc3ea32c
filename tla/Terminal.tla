------------------------------ MODULE Terminal ------------------------------
(***************************************************************************)
(* The web terminal: each WebSocket session runs rclone config in a         *)
(* container of its own through a docker client on a PTY, holds one of the  *)
(* slots, and gives both back when it ends (terminal.go).                   *)
(*                                                                          *)
(* The docker client first asks the daemon to create the container, then to *)
(* start it.  Killing the client does not undo the request it has in        *)
(* flight, and does not stop a container that runs.                         *)
(***************************************************************************)
EXTENDS Naturals, FiniteSets

CONSTANTS
    Sessions,   \* WebSocket sessions, each with a container name of its own
    termMaxConc,\* the slots
    RunFaults,  \* TRUE: engineEnv and pty.Start may fail
    RmFaults    \* TRUE: docker rm may fail

ASSUME TerminalAssumption ==
    /\ IsFiniteSet(Sessions) /\ termMaxConc \in Nat \ {0}
    /\ RunFaults \in BOOLEAN /\ RmFaults \in BOOLEAN

VARIABLES
    pc,         \* session -> where handleTerminalWS is
    slot,       \* session -> TRUE while it holds a slot
    box,        \* session -> its container: "none", "created" or "running"
    cli,        \* session -> its docker client: "none", "create" or "start" (the
                \* request it is about to make), "attached", "dead"; "lateCreate",
                \* "lateStart": dead with that request in flight
    web,        \* session -> the browser: "typing", "silent" (answers pings),
                \* "gone" (the connection is closed) or "lost" (no answer at all)
    done,       \* session -> TRUE once stop() has ended the pings
    engine      \* "down", "booting" or "up"

vars == <<pc, slot, box, cli, web, done, engine>>

Init ==
    /\ pc = [s \in Sessions |-> "idle"] /\ slot = [s \in Sessions |-> FALSE]
    /\ box = [s \in Sessions |-> "none"] /\ cli = [s \in Sessions |-> "none"]
    /\ web = [s \in Sessions |-> "gone"] /\ done = [s \in Sessions |-> FALSE]
    /\ engine = "up"

Step(s, from, to) ==
    /\ pc[s] = from
    /\ pc' = [pc EXCEPT ![s] = to]

\* the handler returns, and conn.Close with it
Return(s, from) ==
    /\ Step(s, from, "idle")
    /\ web' = [web EXCEPT ![s] = "gone"]

Taken == {s \in Sessions : slot[s]}
Running == {s \in Sessions : box[s] = "running"}

\* what remains of a docker client that is killed
Killed(c) ==
    CASE c = "create" -> "lateCreate"
      [] c = "start" -> "lateStart"
      [] c = "attached" -> "dead"
      [] OTHER -> c

----------------------------------------------------------------------------
(* handleTerminalWS                                                         *)

\* names are random: a session whose container was left behind is not reused
Open(s) ==
    /\ engine = "up" /\ box[s] = "none" /\ cli[s] \in {"none", "dead"}
    /\ Step(s, "idle", "env")
    /\ cli' = [cli EXCEPT ![s] = "none"]
    /\ web' = [web EXCEPT ![s] = "typing"]
    /\ done' = [done EXCEPT ![s] = FALSE]
    /\ UNCHANGED <<slot, box, engine>>

EngineEnv(s) ==
    /\ \/ Step(s, "env", "slot") /\ UNCHANGED web
       \/ RunFaults /\ Return(s, "env")
    /\ UNCHANGED <<slot, box, cli, done, engine>>

TakeSlotTooMany(s) ==
    /\ Cardinality(Taken) <= termMaxConc
    /\ Step(s, "slot", "start")
    /\ slot' = [slot EXCEPT ![s] = TRUE]
    /\ UNCHANGED <<box, cli, web, done, engine>>

TakeSlot(s) ==
    /\ Cardinality(Taken) < termMaxConc
    /\ Step(s, "slot", "start")
    /\ slot' = [slot EXCEPT ![s] = TRUE]
    /\ UNCHANGED <<box, cli, web, done, engine>>

NoSlot(s) ==
    /\ Cardinality(Taken) >= termMaxConc
    /\ Return(s, "slot")
    /\ UNCHANGED <<slot, box, cli, done, engine>>

\* pty.Start; a failure returns through the deferred calls
PtyStart(s) ==
    /\ \/ Step(s, "start", "open") /\ cli' = [cli EXCEPT ![s] = "create"]
       \/ RunFaults /\ Step(s, "start", "rm") /\ UNCHANGED cli
    /\ UNCHANGED <<slot, box, web, done, engine>>

\* ReadMessage fails because the connection is closed
ReadFails(s) ==
    /\ web[s] = "gone"
    /\ Step(s, "open", "close")
    /\ UNCHANGED <<slot, box, cli, web, done, engine>>

\* ... or because nothing has come for termIdle.  Every input and every pong
\* moves the deadline, and pings are sent until done is closed.
ReadTimesOut(s) ==
    /\ web[s] = "lost" \/ (web[s] = "silent" /\ done[s])
    /\ Step(s, "open", "close")
    /\ UNCHANGED <<slot, box, cli, web, done, engine>>

CloseClientAndSlot(s) ==
    /\ Step(s, "close", "rm")
    /\ slot' = [slot EXCEPT ![s] = FALSE]
    /\ done' = [done EXCEPT ![s] = TRUE]
    /\ cli' = [cli EXCEPT ![s] = Killed(@)]
    /\ UNCHANGED <<box, web, engine>>

\* the deferred stop, ptmx.Close and cancel: the client is killed
CloseClient(s) ==
    /\ Step(s, "close", "rm")
    /\ done' = [done EXCEPT ![s] = TRUE]
    /\ cli' = [cli EXCEPT ![s] = Killed(@)]
    /\ UNCHANGED <<slot, box, web, engine>>

\* the deferred docker rm -f
RemoveBox(s) ==
    /\ Step(s, "rm", "release")
    /\ \/ box' = [box EXCEPT ![s] = "none"]
       \/ RmFaults /\ UNCHANGED box
    /\ UNCHANGED <<slot, cli, web, done, engine>>

ReleaseNothing(s) ==
    /\ Return(s, "release")
    /\ UNCHANGED <<slot, box, cli, done, engine>>

\* the deferred receive from termSlots, then conn.Close
Release(s) ==
    /\ Return(s, "release")
    /\ slot' = [slot EXCEPT ![s] = FALSE]
    /\ UNCHANGED <<box, cli, done, engine>>

\* PTY -> WS: the read fails once the client is dead, the write once the
\* connection is; either way stop() ends the pings
PumpEnds(s) ==
    /\ pc[s] = "open" /\ ~done[s]
    /\ cli[s] \in {"dead", "lateCreate", "lateStart"} \/ web[s] \in {"gone", "lost"}
    /\ done' = [done EXCEPT ![s] = TRUE]
    /\ UNCHANGED <<pc, slot, box, cli, web, engine>>

\* the 30 minutes of the context are over: only the client is killed
TtlKills(s) ==
    /\ pc[s] = "open" /\ Killed(cli[s]) # cli[s]
    /\ cli' = [cli EXCEPT ![s] = Killed(@)]
    /\ UNCHANGED <<pc, slot, box, web, done, engine>>

----------------------------------------------------------------------------
(* The docker client and the daemon                                         *)

Create(s) ==
    /\ cli[s] \in {"create", "lateCreate"}
    /\ box' = [box EXCEPT ![s] = "created"]
    /\ cli' = [cli EXCEPT ![s] = IF @ = "create" THEN "start" ELSE "dead"]
    /\ UNCHANGED <<pc, slot, web, done, engine>>

StartBox(s) ==
    /\ cli[s] \in {"start", "lateStart"}
    /\ IF box[s] = "created"
       THEN /\ box' = [box EXCEPT ![s] = "running"]
            /\ cli' = [cli EXCEPT ![s] = IF @ = "start" THEN "attached" ELSE "dead"]
       ELSE /\ cli' = [cli EXCEPT ![s] = "dead"]
            /\ UNCHANGED box
    /\ UNCHANGED <<pc, slot, web, done, engine>>

\* the user ends the wizard: --rm removes the container, the client exits
WizardEnds(s) ==
    /\ box[s] = "running" /\ web[s] = "typing" /\ cli[s] = "attached"
    /\ box' = [box EXCEPT ![s] = "none"]
    /\ cli' = [cli EXCEPT ![s] = "dead"]
    /\ UNCHANGED <<pc, slot, web, done, engine>>

(* The browser                                                              *)

StopTyping(s) ==
    /\ web[s] = "typing"
    /\ web' = [web EXCEPT ![s] = "silent"]
    /\ UNCHANGED <<pc, slot, box, cli, done, engine>>

Leave(s) ==
    /\ web[s] \in {"typing", "silent"}
    /\ \E how \in {"gone", "lost"} : web' = [web EXCEPT ![s] = how]
    /\ UNCHANGED <<pc, slot, box, cli, done, engine>>

----------------------------------------------------------------------------
\* The engine's container stops: handlers and clients end, the terminals stay.
Crash ==
    /\ engine # "down"
    /\ engine' = "down"
    /\ pc' = [s \in Sessions |-> "idle"] /\ slot' = [s \in Sessions |-> FALSE]
    /\ cli' = [s \in Sessions |-> "dead"]
    /\ web' = [s \in Sessions |-> "gone"] /\ done' = [s \in Sessions |-> FALSE]
    /\ UNCHANGED box

Boot ==
    /\ engine = "down"
    /\ engine' = "booting"
    /\ UNCHANGED <<pc, slot, box, cli, web, done>>

ReconcileNothing ==
    /\ engine = "booting"
    /\ engine' = "up"
    /\ UNCHANGED <<pc, slot, box, cli, web, done>>

\* reconcileTermContainers, before the server listens; its errors are dropped
Reconcile ==
    /\ engine = "booting"
    /\ engine' = "up"
    /\ \/ box' = [s \in Sessions |-> "none"]
       \/ RmFaults /\ UNCHANGED box
    /\ UNCHANGED <<pc, slot, cli, web, done>>

Handler(s) ==
    \/ EngineEnv(s) \/ TakeSlot(s) \/ NoSlot(s) \/ PtyStart(s) \/ ReadFails(s)
    \/ ReadTimesOut(s) \/ CloseClient(s) \/ RemoveBox(s) \/ Release(s)

Docker(s) == Create(s) \/ StartBox(s)

Next ==
    \/ \E s \in Sessions : \/ Open(s) \/ Handler(s) \/ PumpEnds(s) \/ TtlKills(s)
                           \/ Docker(s) \/ WizardEnds(s) \/ StopTyping(s) \/ Leave(s)
    \/ Crash \/ Boot \/ Reconcile

Spec == Init /\ [][Next]_vars

\* goroutines run, docker answers, the context and the read deadline expire;
\* docker restarts the engine, and some start gets as far as Reconcile
FairSpec ==
    /\ Spec
    /\ \A s \in Sessions : /\ WF_vars(Handler(s)) /\ WF_vars(PumpEnds(s))
                           /\ WF_vars(TtlKills(s)) /\ WF_vars(Docker(s))
    /\ WF_vars(Boot) /\ SF_vars(Reconcile)

\* ... and nobody types for ever
FairUsers == FairSpec /\ \A s \in Sessions : WF_vars(StopTyping(s))

----------------------------------------------------------------------------
(* Properties                                                               *)

TypeOK ==
    /\ pc \in [Sessions -> {"idle", "env", "slot", "start", "open", "close", "rm", "release"}]
    /\ slot \in [Sessions -> BOOLEAN] /\ done \in [Sessions -> BOOLEAN]
    /\ box \in [Sessions -> {"none", "created", "running"}]
    /\ cli \in [Sessions -> {"none", "create", "start", "attached", "dead",
                             "lateCreate", "lateStart"}]
    /\ web \in [Sessions -> {"typing", "silent", "gone", "lost"}]
    /\ engine \in {"down", "booting", "up"}

(* The cap holds of containers, not only of handlers: while the engine      *)
(* serves, no more than termMaxConc terminals run, whatever clients were    *)
(* killed with a request in flight and whatever an earlier engine left      *)
(* (terminal.go:30, "caps concurrent terminal sessions (one container       *)
(* each)").                                                                 *)
TerminalsAreCapped == engine = "up" => Cardinality(Running) <= termMaxConc

(* A terminal that runs belongs to a session that still holds its slot: the *)
(* deferred removal comes before the deferred release.                      *)
RunningHoldsSlot == engine = "up" => Running \subseteq Taken

(* Every slot comes back: terminal.go:23, "idle + hard TTL, auto-cleanup".  *)
SlotComesBack == \A s \in Sessions : slot[s] ~> ~slot[s]

(* Every terminal stops running, also one that a dead engine has left.      *)
TerminalsEnd == \A s \in Sessions : box[s] = "running" ~> box[s] # "running"
=============================================================================
