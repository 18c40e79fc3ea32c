-------------------------------- MODULE Engine --------------------------------
(***************************************************************************)
(* The engine process of web/main.go with its runner (web/actions.go), its *)
(* history (web/store.go) and the HTTP handlers that start work            *)
(* (web/api.go).  Backups, checks, restores and maintenance run in         *)
(* goroutines of their own, each with a program counter; the steps of two  *)
(* goroutines interleave at every point where the Go code may be           *)
(* preempted between two statements that touch shared state.  The process  *)
(* can be killed at any point and is started again by Docker.              *)
(***************************************************************************)
EXTENDS Runner, Store, FiniteSets

CONSTANTS Backups, Checks, Restores, Maintenances,  \* the goroutines, by kind
          RemoveFails,    \* whether RemoveAll may leave files of the scratch area behind
          MaxRuns         \* bound: runs accepted in one behaviour

ASSUME TasksAssumption ==
    /\ Tasks = Backups \cup Checks \cup Restores \cup Maintenances
    /\ Backups \cap (Checks \cup Restores \cup Maintenances) = {}
    /\ Checks \cap (Restores \cup Maintenances) = {}
    /\ Restores \cap Maintenances = {}
    /\ RemoveFails \in BOOLEAN
    /\ MaxRuns \in Nat

VARIABLES
    life,       \* the process: "down", "up", or "stopping" once SIGTERM arrived
    pc,         \* per task: the next statement of its goroutine
    rowId,      \* per task: the id StartRun returned to it
    outcome,    \* per task: what cmd.Run returned
    runNo,      \* per task: the number of its run (ghost: names its snapshot)
    summary,    \* /state/last-summary.json: the snapshot it names, 0 for none
    scratch,    \* /restore-out: the parts of restores lying there
    accepted,   \* how many runs were accepted (ghost, bounded by MaxRuns)
    lost,       \* rows whose last UPDATE failed (ghost)
    disturbed   \* restores whose scratch area was not emptied when they began, or
                \* that another request cleared or filled (ghost)

engineVars == <<life, pc, rowId, outcome, runNo, summary, scratch,
                accepted, lost, disturbed>>
vars == <<runnerVars, runs, engineVars>>

(* The stages of the scripts, from cmd.Start to the exit. *)
InScript == {"dumping", "uploading", "pruning", "checking", "restoring", "half", "full"}
(* Between the two assignments to the flag ... *)
Working == {"begun", "inserted", "exited", "recorded"} \cup InScript
(* ... and between TryLock and Unlock. *)
Holding == {"locked", "unlocking"} \cup Working
PCs == {"idle", "cleared", "answer"} \cup Holding

Logged == Backups \cup Checks   \* the tasks that go through execBackup
Parts == {1, 2}                 \* a restored tree arrives in two pieces

TypeOK ==
    /\ RunnerTypeOK
    /\ runs \in Seq(Rows)
    /\ life \in {"down", "up", "stopping"}
    /\ pc \in [Tasks -> PCs]
    /\ rowId \in [Tasks -> Nat]
    /\ outcome \in [Tasks -> {"ok", "failed"}]
    /\ runNo \in [Tasks -> Nat]
    /\ summary \in Nat
    /\ scratch \subseteq Restores \X Parts
    /\ accepted \in 0..MaxRuns
    /\ lost \subseteq RowIds
    /\ disturbed \subseteq Restores

Init ==
    /\ RunnerInit
    /\ runs = <<>>
    /\ life = "down"
    /\ pc = [t \in Tasks |-> "idle"]
    /\ rowId = [t \in Tasks |-> 0]
    /\ outcome = [t \in Tasks |-> "failed"]
    /\ runNo = [t \in Tasks |-> 0]
    /\ summary = 0
    /\ scratch = {}
    /\ accepted = 0
    /\ lost = {}
    /\ disturbed = {}

Goto(t, from, to) ==
    /\ pc[t] = from
    /\ pc' = [pc EXCEPT ![t] = to]

-------------------------------------------------------------------------------
(* Life of the process *)

(* main(): OpenStore, ReconcileStuck (its error is ignored), NewRunner. *)
Boot ==
    /\ life = "down"
    /\ life' = "up"
    /\ \/ ReconcileStuckDone /\ UNCHANGED lost
       \/ UpdateFails /\ lost' = {i \in RowIds : Running(i)}
    /\ UNCHANGED <<runnerVars, pc, rowId, outcome, runNo, summary, scratch,
                   accepted, disturbed>>

(* SIGTERM: appCancel().  Handlers and jobs already on their way go on. *)
Shutdown ==
    /\ life = "up"
    /\ life' = "stopping"
    /\ UNCHANGED <<runnerVars, runs, pc, rowId, outcome, runNo, summary, scratch,
                   accepted, lost, disturbed>>

(* The local variables of goroutines that end. *)
LocalsDie(S) ==
    /\ rowId' = [t \in Tasks |-> IF t \in S THEN 0 ELSE rowId[t]]
    /\ outcome' = [t \in Tasks |-> IF t \in S THEN "failed" ELSE outcome[t]]
    /\ runNo' = [t \in Tasks |-> IF t \in S THEN 0 ELSE runNo[t]]

(* main returns, or the process is killed.  Goroutines, the mutex and the  *)
(* scripts (children in the same container) vanish; files stay.            *)
Halt ==
    /\ life # "down"
    /\ life' = "down"
    /\ gate' = Nobody
    /\ running' = FALSE
    /\ pc' = [t \in Tasks |-> "idle"]
    /\ disturbed' = {}
    /\ LocalsDie(Tasks)
    /\ UNCHANGED <<runs, summary, scratch, accepted, lost>>

-------------------------------------------------------------------------------
(* RunBackup, RunCheck, RunRestore, AcquireForMaintenance: taking the gate *)

(* A refused request ends there: nothing changes except a restore's        *)
(* scratch area, which it cleared before it asked (RestoreRefused).        *)
Lock(t) ==
    /\ life # "down"
    /\ accepted < MaxRuns
    /\ Goto(t, IF t \in Restores THEN "cleared" ELSE "idle", "locked")
    /\ TryLock(t)
    /\ accepted' = accepted + 1
    /\ runNo' = [runNo EXCEPT ![t] = accepted + 1]
    /\ UNCHANGED <<runs, life, rowId, outcome, summary, scratch, lost, disturbed>>

(* running.Store(true); the handler answers 202 or the job returns. *)
Begin(t) ==
    /\ Goto(t, "locked", "begun")
    /\ MarkRunning
    /\ UNCHANGED <<runs, life, rowId, outcome, runNo, summary, scratch,
                   accepted, lost, disturbed>>

(* Where the body of the goroutine ends and its deferred function starts. *)
WhenScriptExits(t) == "exited"          \* wrong: FinishRun left for later
LastStage(t) == IF t \in Logged THEN "recorded" ELSE "exited"

(* The deferred function: running.Store(false), then gate.Unlock(). *)
End(t) ==
    /\ pc[t] = LastStage(t)
    /\ pc' = [pc EXCEPT ![t] = "unlocking"]
    /\ MarkIdle
    /\ UNCHANGED <<runs, life, rowId, outcome, runNo, summary, scratch,
                   accepted, lost, disturbed>>

Release(t) ==
    /\ Goto(t, "unlocking", IF t \in Restores THEN "answer" ELSE "idle")
    /\ Unlock
    /\ LocalsDie({t} \ Restores)
    /\ UNCHANGED <<runs, life, summary, scratch, accepted, lost, disturbed>>

-------------------------------------------------------------------------------
(* execBackup: a history row around one run of a script *)

(* StartRun and SetLog; the error of StartRun is ignored and leaves id 0. *)
InsertRow(t) ==
    /\ t \in Logged
    /\ Goto(t, "begun", "inserted")
    /\ \E i \in 0..Len(runs) + 1 :
          /\ StartRun(IF t \in Backups THEN "backup" ELSE "check", i)
          /\ rowId' = [rowId EXCEPT ![t] = i]
    /\ UNCHANGED <<runnerVars, life, outcome, runNo, summary, scratch,
                   accepted, lost, disturbed>>

(* cmd.Run with a live context starts the script ... *)
Launch(t) ==
    /\ life = "up"
    /\ \/ t \in Backups /\ Goto(t, "inserted", "dumping")
       \/ t \in Checks /\ Goto(t, "inserted", "checking")
       \/ t \in Restores /\ Goto(t, "begun", "restoring")
    /\ UNCHANGED <<runnerVars, runs, life, rowId, outcome, runNo, summary, scratch,
                   accepted, lost, disturbed>>

(* ... and with a cancelled one returns at once. *)
LaunchCancelled(t) ==
    /\ life = "stopping"
    /\ Goto(t, IF t \in Logged THEN "inserted" ELSE "begun", "exited")
    /\ t \notin Maintenances
    /\ outcome' = [outcome EXCEPT ![t] = "failed"]
    /\ UNCHANGED <<runnerVars, runs, life, rowId, runNo, summary, scratch,
                   accepted, lost, disturbed>>

(* restic_backup redirects its output to the summary file, truncating it ... *)
StartUpload(t) ==
    /\ Goto(t, "dumping", "uploading")
    /\ summary' = 0
    /\ UNCHANGED <<runnerVars, runs, life, rowId, outcome, runNo, scratch,
                   accepted, lost, disturbed>>

(* ... and the line that names the new snapshot is the last one written. *)
FinishUpload(t) ==
    /\ Goto(t, "uploading", "pruning")
    /\ summary' = runNo[t]
    /\ UNCHANGED <<runnerVars, runs, life, rowId, outcome, runNo, scratch,
                   accepted, lost, disturbed>>

(* The script exits 0 at its end, and otherwise from any stage: an error,  *)
(* or the SIGINT that follows appCancel.                                   *)
ScriptSucceeds(t) ==
    /\ pc[t] \in {"pruning", "checking", "full"}
    /\ pc' = [pc EXCEPT ![t] = "exited"]
    /\ outcome' = [outcome EXCEPT ![t] = "ok"]
    /\ UNCHANGED <<runnerVars, runs, life, rowId, runNo, summary, scratch,
                   accepted, lost, disturbed>>

ScriptFails(t) ==
    /\ pc[t] \in InScript
    /\ pc' = [pc EXCEPT ![t] = "exited"]
    /\ outcome' = [outcome EXCEPT ![t] = "failed"]
    /\ UNCHANGED <<runnerVars, runs, life, rowId, runNo, summary, scratch,
                   accepted, lost, disturbed>>

(* A maintenance task has no script of the runner's; Migration.tla has its work. *)
Maintain(t) ==
    /\ t \in Maintenances
    /\ Goto(t, "begun", "exited")
    /\ UNCHANGED <<runnerVars, runs, life, rowId, outcome, runNo, summary, scratch,
                   accepted, lost, disturbed>>

(* ReadFile of the summary whatever the outcome, then FinishRun. *)
RecordRow(t) ==
    /\ t \in Logged
    /\ Goto(t, "exited", "recorded")
    /\ \/ FinishRunDone(rowId[t], outcome[t], summary) /\ UNCHANGED lost
       \/ UpdateFails /\ lost' = lost \cup ({rowId[t]} \cap RowIds)
    /\ UNCHANGED <<runnerVars, life, rowId, outcome, runNo, summary, scratch,
                   accepted, disturbed>>

-------------------------------------------------------------------------------
(* handleRestore *)

(* What RemoveAll leaves of the scratch area. *)
SameFiles == scratch                    \* wrong: nothing is removed
Emptied == {}

(* RemoveAll and MkdirAll of the scratch area, before the gate is asked for; *)
(* their errors are not looked at.                                           *)
ClearScratch(t) ==
    /\ life # "down"
    /\ t \in Restores
    /\ Goto(t, "idle", "cleared")
    /\ LET others == {u \in Restores \ {t} : pc[u] # "idle"}
       IN  \/ scratch' = Emptied /\ disturbed' = (disturbed \ {t}) \cup others
           \/ /\ RemoveFails
              /\ \E left \in (SUBSET scratch) \ {{}} : scratch' = left
              /\ disturbed' = disturbed \cup {t} \cup others
    /\ UNCHANGED <<runnerVars, runs, life, rowId, outcome, runNo, summary,
                   accepted, lost>>

(* RunRestore answers "busy"; the handler answers 500. *)
RestoreRefused(t) ==
    /\ Goto(t, "cleared", "idle")
    /\ TryLockFails
    /\ disturbed' = disturbed \ {t}
    /\ UNCHANGED <<runnerVars, runs, life, rowId, outcome, runNo, summary, scratch,
                   accepted, lost>>

(* restic restore writes the tree; another request's area is the same one. *)
WritePart(t) ==
    /\ \/ Goto(t, "restoring", "half") /\ scratch' = scratch \cup {<<t, 1>>}
       \/ Goto(t, "half", "full") /\ scratch' = scratch \cup {<<t, 2>>}
    /\ disturbed' = disturbed \cup {u \in Restores \ {t} : pc[u] # "idle"}
    /\ UNCHANGED <<runnerVars, runs, life, rowId, outcome, runNo, summary,
                   accepted, lost>>

(* The gate is free again; the handler answers 200 or 500. *)
Answer(t) ==
    /\ Goto(t, "answer", "idle")
    /\ disturbed' = disturbed \ {t}
    /\ LocalsDie({t})
    /\ UNCHANGED <<runnerVars, runs, life, summary, scratch, accepted, lost>>
-------------------------------------------------------------------------------
(* The steps of a goroutine that nothing outside the engine holds up. *)
Step(t) ==
    \/ Lock(t) \/ Begin(t) \/ InsertRow(t) \/ Launch(t) \/ LaunchCancelled(t)
    \/ StartUpload(t) \/ FinishUpload(t) \/ ScriptSucceeds(t) \/ ScriptFails(t)
    \/ Maintain(t) \/ RecordRow(t) \/ End(t) \/ Release(t)
    \/ ClearScratch(t) \/ RestoreRefused(t) \/ WritePart(t) \/ Answer(t)

(* Every statement after TryLock is executed in its turn, and scripts end. *)
Progress(t) == pc[t] \in Holding /\ Step(t)

Next ==
    \/ Boot \/ Shutdown \/ Halt
    \/ \E t \in Tasks : Step(t)

Spec == Init /\ [][Next]_vars

(* Docker restarts the container (restart: unless-stopped).                *)
FairSpec == Spec /\ WF_vars(Boot) /\ \A t \in Tasks : WF_vars(Progress(t))

-------------------------------------------------------------------------------
(* Properties *)

(* RunBackup, RunCheck, RunRestore and the migrator never overlap between    *)
(* TryLock and Unlock: the gate serialises them (ui/index.html:238).         *)
MutualExclusion ==
    \A t, u \in Tasks : pc[t] \in Holding /\ pc[u] \in Holding => t = u

(* While the engine serves, a row that still says running is the row of the  *)
(* task that holds the gate, unless the database refused its last update:    *)
(* neither a crash, a shutdown nor a later run leaves a row behind.          *)
RunningRowIsTheHolders ==
    life # "down" =>
        \A i \in RowIds \ lost : Running(i) =>
            gate # Nobody /\ gate \in Logged /\ rowId[gate] = i

(* What the dashboard relies on (ui/app.js pollUntilIdle): once Busy()       *)
(* answers false, the history has no run in progress.                        *)
IdleMeansRecorded ==
    life # "down" /\ ~Busy => \A i \in RowIds \ lost : ~Running(i)

(* execBackup reads a file every run shares; still, the row of a successful  *)
(* backup names the snapshot which that very backup made.                    *)
OkRowNamesItsSnapshot ==
    \A t \in Backups :
        pc[t] = "recorded" /\ outcome[t] = "ok" /\ rowId[t] \in RowIds \ lost
            => runs[rowId[t]] = [trigger |-> "backup", status |-> "ok", snap |-> runNo[t]]

(* A restore that met no other restore request, and could empty the scratch  *)
(* area, leaves exactly its own tree, whatever crashed or failed restores    *)
(* left before it (api.go:539).                                              *)
SoloRestoreIsWhole ==
    \A t \in Restores :
        pc[t] = "answer" /\ outcome[t] = "ok" /\ t \notin disturbed
            => scratch = {t} \X Parts

(* A row is never deleted, and once it has an outcome nothing rewrites it:   *)
(* not the reconciliation of the next boot, not another run's FinishRun.     *)
FinalRowsAreFinal ==
    [][\A i \in RowIds : ~Running(i) => i \in DOMAIN runs' /\ runs'[i] = runs[i]]_vars

(* The gate always comes free again: no path of a goroutine forgets Unlock.  *)
GateIsReleased == \A t \in Tasks : gate = t ~> gate # t

(* Every row gets an outcome, from its own run or from the next boot, unless *)
(* the database refused that update.                                         *)
RowsSettle == \A i \in 1..MaxRuns : Running(i) ~> (~Running(i) \/ i \in lost)

-------------------------------------------------------------------------------
(* The inductive invariant behind the safety properties, in named parts. *)

(* The Go mutex has no owner, but the program counters know it. *)
GateInv == \A t \in Tasks : pc[t] \in Holding <=> gate = t

FlagInv == running <=> \E t \in Tasks : pc[t] \in Working

DownInv == life = "down" => \A t \in Tasks : pc[t] = "idle"

(* Which scripts a task of each kind can be in. *)
KindInv ==
    \A t \in Tasks :
        /\ pc[t] \in {"dumping", "uploading", "pruning"} => t \in Backups
        /\ pc[t] = "checking" => t \in Checks
        /\ pc[t] \in {"cleared", "answer", "restoring", "half", "full"} => t \in Restores
        /\ pc[t] \in {"inserted", "recorded"} => t \in Logged

(* Between InsertRow and RecordRow a task's own row, if it got one, is running. *)
Unrecorded == {"inserted", "exited"} \cup InScript
OwnRowInv ==
    \A t \in Logged :
        pc[t] \in Unrecorded /\ rowId[t] \in RowIds
            => runs[rowId[t]].status = "running"

(* A task holds the number of its own row, never that of a later one. *)
RowOriginInv ==
    \A t \in Backups :
        pc[t] \in Unrecorded \cup {"recorded"} /\ rowId[t] \in RowIds
            => runs[rowId[t]].trigger = "backup"

StuckInv ==
    life # "down" =>
        \A i \in RowIds \ lost : Running(i) =>
            \E t \in Logged : rowId[t] = i /\ pc[t] \in Unrecorded

(* The summary file is the running backup's own once its upload is complete. *)
SummaryInv ==
    \A t \in Backups :
        \/ pc[t] = "pruning"
        \/ pc[t] = "exited" /\ outcome[t] = "ok"
        => summary = runNo[t]

(* What lies in the scratch area at each stage of a restore that cleared it  *)
(* and that no other request has touched since.                              *)
Solo(t) ==
    /\ pc[t] \in {"cleared", "locked", "begun", "restoring"} => scratch = {}
    /\ pc[t] = "half" => scratch = {<<t, 1>>}
    /\ pc[t] = "full" => scratch = {t} \X Parts
    /\ pc[t] \in {"exited", "unlocking", "answer"} /\ outcome[t] = "ok"
          => scratch = {t} \X Parts
ScratchInv == \A t \in Restores \ disturbed : Solo(t)

IInv ==
    /\ TypeOK /\ GateInv /\ FlagInv /\ DownInv /\ KindInv
    /\ OwnRowInv /\ RowOriginInv /\ StuckInv /\ SummaryInv /\ OkRowNamesItsSnapshot
    /\ ScratchInv

-------------------------------------------------------------------------------
(* What handleRestore says of its result: a restore that answers 200 leaves  *)
(* only and all of its files for the download (api.go:539).                  *)
RestoreIsExact ==
    \A t \in Restores :
        pc[t] = "answer" /\ outcome[t] = "ok" => scratch = {t} \X Parts
===============================================================================
