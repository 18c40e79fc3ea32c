----------------------------- MODULE EngineProofs -----------------------------
(***************************************************************************)
(* What TLC checks of Engine on six goroutines and three runs, proved for  *)
(* any goroutines and any number of runs.                                  *)
(***************************************************************************)
EXTENDS Engine, SequenceTheorems, TLAPS

(* FinishRun with a status and a snapshot keeps the table a table.         *)
LEMMA FinishKeepsRows ==
    ASSUME runs \in Seq(Rows), NEW i, NEW st \in Statuses, NEW sn \in Nat,
           FinishRunDone(i, st, sn)
    PROVE  /\ runs' \in Seq(Rows)
           /\ DOMAIN runs' = DOMAIN runs
           /\ \A j \in DOMAIN runs : j # i => runs'[j] = runs[j]
           /\ i \in DOMAIN runs => runs'[i] = [trigger |-> runs[i].trigger,
                                               status |-> st, snap |-> sn]
  <1>1. /\ Len(runs) \in Nat /\ DOMAIN runs = 1..Len(runs)
        /\ \A j \in 1..Len(runs) : runs[j] \in Rows
    OBVIOUS
  <1>2. ASSUME NEW j \in 1..Len(runs)
        PROVE  [trigger |-> runs[j].trigger, status |-> st, snap |-> sn] \in Rows
    BY <1>1 DEF Rows
  <1>3. \A j \in 1..Len(runs) : runs'[j] \in Rows
    BY <1>1, <1>2 DEF FinishRunDone, RowIds
  <1>4. runs' \in Seq(Rows)
    BY <1>1, <1>3, SeqDef DEF FinishRunDone, RowIds
  <1> QED
    BY <1>1, <1>2, <1>4 DEF FinishRunDone, RowIds

(* ReconcileStuck keeps the table, and every row that is not running.      *)
LEMMA ReconcileKeepsRows ==
    ASSUME runs \in Seq(Rows), ReconcileStuckDone
    PROVE  /\ runs' \in Seq(Rows)
           /\ DOMAIN runs' = DOMAIN runs
           /\ \A j \in DOMAIN runs : runs'[j].status # "running"
           /\ \A j \in DOMAIN runs : ~Running(j) => runs'[j] = runs[j]
  <1>1. /\ Len(runs) \in Nat /\ DOMAIN runs = 1..Len(runs)
        /\ \A j \in 1..Len(runs) : runs[j] \in Rows
    OBVIOUS
  <1>2. \A j \in DOMAIN runs : [runs[j] EXCEPT !.status = "interrupted"]
              = [trigger |-> runs[j].trigger, status |-> "interrupted", snap |-> runs[j].snap]
    BY <1>1 DEF Rows
  <1>3. \A j \in 1..Len(runs) : runs'[j] \in Rows
    BY <1>1, <1>2 DEF ReconcileStuckDone, RowIds, Rows, Statuses
  <1>4. runs' \in Seq(Rows)
    BY <1>1, <1>3, SeqDef DEF ReconcileStuckDone, RowIds
  <1> QED
    BY <1>1, <1>2, <1>4 DEF ReconcileStuckDone, RowIds, Running

(* StartRun adds a running row at the end, or fails and returns 0.         *)
LEMMA StartKeepsRows ==
    ASSUME runs \in Seq(Rows), NEW tr \in Triggers, NEW i, StartRun(tr, i)
    PROVE  /\ runs' \in Seq(Rows)
           /\ \/ /\ i = Len(runs) + 1
                 /\ DOMAIN runs' = DOMAIN runs \cup {i}
                 /\ i \notin DOMAIN runs
                 /\ runs'[i] = [trigger |-> tr, status |-> "running", snap |-> 0]
                 /\ \A j \in DOMAIN runs : runs'[j] = runs[j]
              \/ i = 0 /\ runs' = runs
  <1>0. [trigger |-> tr, status |-> "running", snap |-> 0] \in Rows
    BY DEF Rows, Statuses
  <1>1. CASE i = Len(runs) + 1 /\ runs' = Append(runs, [trigger |-> tr, status |-> "running", snap |-> 0])
    <2> DEFINE row == [trigger |-> tr, status |-> "running", snap |-> 0]
    <2> HIDE DEF row
    <2>1. runs' = Append(runs, row)
      BY <1>1 DEF row
    <2>2. row \in Rows
      BY <1>0 DEF row
    <2>3. /\ runs' \in Seq(Rows)
          /\ Len(runs) \in Nat /\ Len(runs') = Len(runs) + 1
          /\ DOMAIN runs = 1..Len(runs) /\ DOMAIN runs' = 1..Len(runs')
          /\ runs'[Len(runs) + 1] = row
          /\ \A j \in 1..Len(runs) : runs'[j] = runs[j]
      BY <2>1, <2>2
    <2>4. DOMAIN runs' = DOMAIN runs \cup {Len(runs) + 1} /\ Len(runs) + 1 \notin DOMAIN runs
      BY <2>3
    <2> QED
      BY <1>1, <2>3, <2>4 DEF row
  <1>2. CASE i = 0 /\ runs' = runs
    BY <1>2
  <1> QED
    BY <1>1, <1>2 DEF StartRun
(* Every step keeps the types.  A restore's files are typed by the task that *)
(* writes them, hence KindInv.                                               *)
LEMMA TypeStep ==
    ASSUME TypeOK, KindInv, [Next]_vars
    PROVE  TypeOK'
  <1> USE NobodyAssumption, TasksAssumption
  <1>1. CASE Boot
    <2>1. DOMAIN runs' = DOMAIN runs /\ runs' \in Seq(Rows)
      BY <1>1, ReconcileKeepsRows DEF Boot, UpdateFails, TypeOK
    <2>2. lost' \subseteq RowIds'
      BY <1>1, <2>1 DEF Boot, TypeOK, RowIds, Running
    <2> QED
      BY <1>1, <2>1, <2>2 DEF Boot, TypeOK, RunnerTypeOK, runnerVars
  <1>2. CASE Shutdown
    BY <1>2 DEF Shutdown, TypeOK, RunnerTypeOK, runnerVars, RowIds, PCs, Holding,
       Working, InScript, Parts, KindInv
  <1>3. CASE Halt
    BY <1>3 DEF Halt, LocalsDie, TypeOK, RunnerTypeOK, runnerVars, RowIds, PCs,
       Holding, Working, InScript, Parts, KindInv
  <1>4. ASSUME NEW t \in Tasks, Step(t) PROVE TypeOK'
    <2>1. CASE Lock(t)
      BY <2>1 DEF Lock, Goto, TryLock, TypeOK, RunnerTypeOK, runnerVars, RowIds,
         PCs, Holding, Working, InScript, Parts, KindInv
    <2>2. CASE Begin(t)
      BY <2>2 DEF Begin, Goto, MarkRunning, TypeOK, RunnerTypeOK, runnerVars,
         RowIds, PCs, Holding, Working, InScript, Parts, KindInv
    <2>3. CASE InsertRow(t)
      <3>1. PICK i \in 0..Len(runs) + 1 :
               /\ StartRun(IF t \in Backups THEN "backup" ELSE "check", i)
               /\ rowId' = [rowId EXCEPT ![t] = i]
        BY <2>3 DEF InsertRow
      <3>2. runs' \in Seq(Rows) /\ DOMAIN runs \subseteq DOMAIN runs'
        BY <3>1, StartKeepsRows DEF TypeOK, Triggers
      <3>3. i \in Nat
        BY DEF TypeOK
      <3> QED
        BY <2>3, <3>1, <3>2, <3>3 DEF InsertRow, Goto, TypeOK, RunnerTypeOK,
           runnerVars, RowIds, PCs, Holding, Working, InScript, Parts
    <2>4. CASE Launch(t)
      BY <2>4 DEF Launch, Goto, TypeOK, RunnerTypeOK, runnerVars, RowIds, PCs,
         Holding, Working, InScript, Parts, KindInv
    <2>5. CASE LaunchCancelled(t)
      BY <2>5 DEF LaunchCancelled, Goto, TypeOK, RunnerTypeOK, runnerVars,
         RowIds, PCs, Holding, Working, InScript, Parts, KindInv
    <2>6. CASE StartUpload(t)
      BY <2>6 DEF StartUpload, Goto, TypeOK, RunnerTypeOK, runnerVars, RowIds,
         PCs, Holding, Working, InScript, Parts, KindInv
    <2>7. CASE FinishUpload(t)
      BY <2>7 DEF FinishUpload, Goto, TypeOK, RunnerTypeOK, runnerVars, RowIds,
         PCs, Holding, Working, InScript, Parts, KindInv
    <2>8. CASE ScriptSucceeds(t)
      BY <2>8 DEF ScriptSucceeds, TypeOK, RunnerTypeOK, runnerVars, RowIds, PCs,
         Holding, Working, InScript, Parts, KindInv
    <2>9. CASE ScriptFails(t)
      BY <2>9 DEF ScriptFails, TypeOK, RunnerTypeOK, runnerVars, RowIds, PCs,
         Holding, Working, InScript, Parts, KindInv
    <2>10. CASE Maintain(t)
      BY <2>10 DEF Maintain, Goto, TypeOK, RunnerTypeOK, runnerVars, RowIds, PCs,
         Holding, Working, InScript, Parts, KindInv
    <2>11. CASE RecordRow(t)
      <3>1. outcome[t] \in Statuses /\ summary \in Nat /\ runs \in Seq(Rows)
        BY DEF TypeOK, Statuses
      <3>2. DOMAIN runs' = DOMAIN runs /\ runs' \in Seq(Rows)
        BY <2>11, <3>1, FinishKeepsRows DEF RecordRow, UpdateFails
      <3>3. lost' \subseteq RowIds'
        BY <2>11, <3>2 DEF RecordRow, TypeOK, RowIds
      <3> QED
        BY <2>11, <3>2, <3>3 DEF RecordRow, Goto, TypeOK, RunnerTypeOK,
           runnerVars, PCs, Holding, Working
    <2>12. CASE End(t)
      BY <2>12 DEF End, LastStage, MarkIdle, TypeOK, RunnerTypeOK, runnerVars,
         RowIds, PCs, Holding, Working, InScript, Parts, KindInv
    <2>13. CASE Release(t)
      BY <2>13 DEF Release, Goto, Unlock, LocalsDie, TypeOK, RunnerTypeOK,
         runnerVars, RowIds, PCs, Holding, Working, InScript, Parts, KindInv
    <2>14. CASE ClearScratch(t)
      <3>1. t \in Restores /\ disturbed' \subseteq Restores /\ scratch' \subseteq Restores \X Parts
        BY <2>14 DEF ClearScratch, Emptied, TypeOK
      <3> QED
        BY <2>14, <3>1 DEF ClearScratch, Goto, TypeOK, RunnerTypeOK, runnerVars,
           RowIds, PCs, Holding, Working, InScript
    <2>15. CASE RestoreRefused(t)
      BY <2>15 DEF RestoreRefused, Goto, TypeOK, RunnerTypeOK, runnerVars,
         RowIds, PCs, Holding, Working, InScript, Parts, KindInv
    <2>16. CASE WritePart(t)
      <3>1. t \in Restores /\ scratch' \subseteq Restores \X Parts
        BY <2>16 DEF WritePart, Goto, TypeOK, KindInv, Parts
      <3>2. pc' \in [Tasks -> PCs] /\ disturbed' \subseteq Restores
        BY <2>16 DEF WritePart, Goto, TypeOK, PCs, Holding, Working, InScript
      <3> QED
        BY <2>16, <3>1, <3>2 DEF WritePart, TypeOK, RunnerTypeOK, runnerVars, RowIds
    <2>17. CASE Answer(t)
      BY <2>17 DEF Answer, Goto, LocalsDie, TypeOK, RunnerTypeOK, runnerVars,
         RowIds, PCs, Holding, Working, InScript, Parts, KindInv
    <2> QED
      BY <1>4, <2>1, <2>2, <2>3, <2>4, <2>5, <2>6, <2>7, <2>8, <2>9, <2>10,
         <2>11, <2>12, <2>13, <2>14, <2>15, <2>16, <2>17 DEF Step
  <1>5. CASE UNCHANGED vars
    BY <1>5 DEF vars, engineVars, TypeOK, RunnerTypeOK, runnerVars, RowIds, PCs,
       Holding, Working, InScript, Parts, KindInv
  <1> QED
    BY <1>1, <1>2, <1>3, <1>4, <1>5 DEF Next

(* A task only enters the stages of its own kind.                            *)
LEMMA KindStep ==
    ASSUME TypeOK, KindInv, [Next]_vars
    PROVE  KindInv'
  <1> USE NobodyAssumption, TasksAssumption
  <1>1. CASE Boot
    BY <1>1 DEF Boot, TypeOK, KindInv, Logged, InScript, Working
  <1>2. CASE Shutdown
    BY <1>2 DEF Shutdown, TypeOK, KindInv, Logged, InScript, Working
  <1>3. CASE Halt
    BY <1>3 DEF Halt, LocalsDie, TypeOK, KindInv, Logged, InScript, Working
  <1>4. ASSUME NEW t \in Tasks, Step(t) PROVE KindInv'
    <2>1. CASE Lock(t)
      BY <2>1 DEF Lock, Goto, TryLock, TypeOK, KindInv, Logged, InScript, Working
    <2>2. CASE Begin(t)
      BY <2>2 DEF Begin, Goto, MarkRunning, TypeOK, KindInv, Logged, InScript,
         Working
    <2>3. CASE InsertRow(t)
      BY <2>3 DEF InsertRow, Goto, TypeOK, KindInv, Logged, InScript, Working
    <2>4. CASE Launch(t)
      BY <2>4 DEF Launch, Goto, TypeOK, KindInv, Logged, InScript, Working
    <2>5. CASE LaunchCancelled(t)
      BY <2>5 DEF LaunchCancelled, Goto, TypeOK, KindInv, Logged, InScript, Working
    <2>6. CASE StartUpload(t)
      BY <2>6 DEF StartUpload, Goto, TypeOK, KindInv, Logged, InScript, Working
    <2>7. CASE FinishUpload(t)
      BY <2>7 DEF FinishUpload, Goto, TypeOK, KindInv, Logged, InScript, Working
    <2>8. CASE ScriptSucceeds(t)
      BY <2>8 DEF ScriptSucceeds, TypeOK, KindInv, Logged, InScript, Working
    <2>9. CASE ScriptFails(t)
      BY <2>9 DEF ScriptFails, TypeOK, KindInv, Logged, InScript, Working
    <2>10. CASE Maintain(t)
      BY <2>10 DEF Maintain, Goto, TypeOK, KindInv, Logged, InScript, Working
    <2>11. CASE RecordRow(t)
      BY <2>11 DEF RecordRow, Goto, TypeOK, KindInv, Logged, InScript, Working
    <2>12. CASE End(t)
      BY <2>12 DEF End, LastStage, MarkIdle, TypeOK, KindInv, Logged, InScript,
         Working
    <2>13. CASE Release(t)
      BY <2>13 DEF Release, Goto, Unlock, LocalsDie, TypeOK, KindInv, Logged,
         InScript, Working
    <2>14. CASE ClearScratch(t)
      BY <2>14 DEF ClearScratch, Goto, Emptied, TypeOK, KindInv, Logged,
         InScript, Working
    <2>15. CASE RestoreRefused(t)
      BY <2>15 DEF RestoreRefused, Goto, TypeOK, KindInv, Logged, InScript, Working
    <2>16. CASE WritePart(t)
      BY <2>16 DEF WritePart, Goto, TypeOK, KindInv, Logged, InScript, Working
    <2>17. CASE Answer(t)
      BY <2>17 DEF Answer, Goto, LocalsDie, TypeOK, KindInv, Logged, InScript,
         Working
    <2> QED
      BY <1>4, <2>1, <2>2, <2>3, <2>4, <2>5, <2>6, <2>7, <2>8, <2>9, <2>10,
         <2>11, <2>12, <2>13, <2>14, <2>15, <2>16, <2>17 DEF Step
  <1>5. CASE UNCHANGED vars
    BY <1>5 DEF vars, engineVars, TypeOK, KindInv, Logged, InScript, Working
  <1> QED
    BY <1>1, <1>2, <1>3, <1>4, <1>5 DEF Next

(* The gate's holder is the one task between TryLock and Unlock, the flag is *)
(* up exactly while that task is between its two assignments.                *)
LEMMA GateStep ==
    ASSUME TypeOK, GateInv, FlagInv, DownInv, [Next]_vars
    PROVE  GateInv' /\ FlagInv' /\ DownInv'
  <1> USE NobodyAssumption, TasksAssumption
  <1>1. CASE Boot
    BY <1>1 DEF Boot, TypeOK, RunnerTypeOK, GateInv, FlagInv, DownInv, Holding,
       Working, InScript, PCs, runnerVars
  <1>2. CASE Shutdown
    BY <1>2 DEF Shutdown, TypeOK, RunnerTypeOK, GateInv, FlagInv, DownInv,
       Holding, Working, InScript, PCs, runnerVars
  <1>3. CASE Halt
    BY <1>3 DEF Halt, LocalsDie, TypeOK, RunnerTypeOK, GateInv, FlagInv, DownInv,
       Holding, Working, InScript, PCs, runnerVars
  <1>4. ASSUME NEW t \in Tasks, Step(t) PROVE GateInv' /\ FlagInv' /\ DownInv'
    <2>1. CASE Lock(t)
      BY <2>1 DEF Lock, Goto, TryLock, TypeOK, RunnerTypeOK, GateInv, FlagInv,
         DownInv, Holding, Working, InScript, PCs, runnerVars
    <2>2. CASE Begin(t)
      BY <2>2 DEF Begin, Goto, MarkRunning, TypeOK, RunnerTypeOK, GateInv,
         FlagInv, DownInv, Holding, Working, InScript, PCs, runnerVars
    <2>3. CASE InsertRow(t)
      BY <2>3 DEF InsertRow, Goto, TypeOK, RunnerTypeOK, GateInv, FlagInv,
         DownInv, Holding, Working, InScript, PCs, runnerVars
    <2>4. CASE Launch(t)
      BY <2>4 DEF Launch, Goto, TypeOK, RunnerTypeOK, GateInv, FlagInv, DownInv,
         Holding, Working, InScript, PCs, runnerVars
    <2>5. CASE LaunchCancelled(t)
      BY <2>5 DEF LaunchCancelled, Goto, TypeOK, RunnerTypeOK, GateInv, FlagInv,
         DownInv, Holding, Working, InScript, PCs, runnerVars
    <2>6. CASE StartUpload(t)
      BY <2>6 DEF StartUpload, Goto, TypeOK, RunnerTypeOK, GateInv, FlagInv,
         DownInv, Holding, Working, InScript, PCs, runnerVars
    <2>7. CASE FinishUpload(t)
      BY <2>7 DEF FinishUpload, Goto, TypeOK, RunnerTypeOK, GateInv, FlagInv,
         DownInv, Holding, Working, InScript, PCs, runnerVars
    <2>8. CASE ScriptSucceeds(t)
      BY <2>8 DEF ScriptSucceeds, TypeOK, RunnerTypeOK, GateInv, FlagInv,
         DownInv, Holding, Working, InScript, PCs, runnerVars
    <2>9. CASE ScriptFails(t)
      BY <2>9 DEF ScriptFails, TypeOK, RunnerTypeOK, GateInv, FlagInv, DownInv,
         Holding, Working, InScript, PCs, runnerVars
    <2>10. CASE Maintain(t)
      BY <2>10 DEF Maintain, Goto, TypeOK, RunnerTypeOK, GateInv, FlagInv,
         DownInv, Holding, Working, InScript, PCs, runnerVars
    <2>11. CASE RecordRow(t)
      BY <2>11 DEF RecordRow, Goto, TypeOK, RunnerTypeOK, GateInv, FlagInv,
         DownInv, Holding, Working, InScript, PCs, runnerVars
    <2>12. CASE End(t)
      BY <2>12 DEF End, LastStage, MarkIdle, TypeOK, RunnerTypeOK, GateInv,
         FlagInv, DownInv, Holding, Working, InScript, PCs, runnerVars
    <2>13. CASE Release(t)
      BY <2>13 DEF Release, Goto, Unlock, LocalsDie, TypeOK, RunnerTypeOK,
         GateInv, FlagInv, DownInv, Holding, Working, InScript, PCs, runnerVars
    <2>14. CASE ClearScratch(t)
      BY <2>14 DEF ClearScratch, Goto, Emptied, TypeOK, RunnerTypeOK, GateInv,
         FlagInv, DownInv, Holding, Working, InScript, PCs, runnerVars
    <2>15. CASE RestoreRefused(t)
      BY <2>15 DEF RestoreRefused, Goto, TypeOK, RunnerTypeOK, GateInv, FlagInv,
         DownInv, Holding, Working, InScript, PCs, runnerVars
    <2>16. CASE WritePart(t)
      BY <2>16 DEF WritePart, Goto, TypeOK, RunnerTypeOK, GateInv, FlagInv,
         DownInv, Holding, Working, InScript, PCs, runnerVars
    <2>17. CASE Answer(t)
      BY <2>17 DEF Answer, Goto, LocalsDie, TypeOK, RunnerTypeOK, GateInv,
         FlagInv, DownInv, Holding, Working, InScript, PCs, runnerVars
    <2> QED
      BY <1>4, <2>1, <2>2, <2>3, <2>4, <2>5, <2>6, <2>7, <2>8, <2>9, <2>10,
         <2>11, <2>12, <2>13, <2>14, <2>15, <2>16, <2>17 DEF Step
  <1>5. CASE UNCHANGED vars
    BY <1>5 DEF vars, engineVars, TypeOK, RunnerTypeOK, GateInv, FlagInv,
       DownInv, Holding, Working, InScript, PCs, runnerVars
  <1> QED
    BY <1>1, <1>2, <1>3, <1>4, <1>5 DEF Next

(* A step that leaves the table alone and moves no task into or out of the   *)
(* stretch between InsertRow and RecordRow, the end of the process excepted. *)
Quiet ==
    /\ UNCHANGED <<runs, lost>>
    /\ \A u \in Logged :
          /\ pc'[u] \in Unrecorded => pc[u] \in Unrecorded
          /\ pc'[u] = "recorded" => pc[u] = "recorded"
          /\ pc'[u] \in Unrecorded \cup {"recorded"} => rowId'[u] = rowId[u]
          /\ life' # "down" /\ pc[u] \in Unrecorded => pc'[u] \in Unrecorded
    /\ life' # "down" => life # "down"

(* Quiet steps keep what is known about the rows.                            *)
LEMMA QuietKeepsRows ==
    ASSUME OwnRowInv, RowOriginInv, StuckInv, Quiet
    PROVE  OwnRowInv' /\ RowOriginInv' /\ StuckInv'
  <1>1. OwnRowInv'
    BY DEF OwnRowInv, Quiet, RowIds, Unrecorded, InScript
  <1>2. RowOriginInv'
    BY DEF RowOriginInv, Quiet, RowIds, Unrecorded, InScript, Logged
  <1>3. StuckInv'
    BY DEF StuckInv, Quiet, RowIds, Running, Unrecorded, InScript
  <1> QED
    BY <1>1, <1>2, <1>3

(* A row is running exactly while its task is between InsertRow and          *)
(* RecordRow; everything else that touches the table leaves that alone.      *)
LEMMA RowStep ==
    ASSUME TypeOK, KindInv, GateInv, DownInv, OwnRowInv, RowOriginInv, StuckInv, [Next]_vars
    PROVE  OwnRowInv' /\ RowOriginInv' /\ StuckInv'
  <1> USE NobodyAssumption, TasksAssumption
  <1>1. CASE Boot
    <2>1. DOMAIN runs' = DOMAIN runs
      BY <1>1, ReconcileKeepsRows DEF Boot, UpdateFails, TypeOK
    <2>2. \A t \in Tasks : pc'[t] = "idle"
      BY <1>1 DEF Boot, DownInv
    <2>3. OwnRowInv' /\ RowOriginInv'
      BY <2>2 DEF OwnRowInv, RowOriginInv, Unrecorded, InScript, Logged
    <2>4. \A i \in RowIds' \ lost' : ~Running(i)'
      BY <1>1, <2>1, ReconcileKeepsRows DEF Boot, UpdateFails, TypeOK, RowIds,
         Running
    <2> QED
      BY <2>3, <2>4 DEF StuckInv
  <1>2. CASE Shutdown
    <2>1. Quiet
      BY <1>2 DEF Quiet, Shutdown, TypeOK, KindInv, Unrecorded, InScript, Logged,
         DownInv
    <2> QED
      BY <2>1, QuietKeepsRows
  <1>3. CASE Halt
    <2>1. Quiet
      BY <1>3 DEF Quiet, Halt, LocalsDie, TypeOK, KindInv, Unrecorded, InScript,
         Logged, DownInv
    <2> QED
      BY <2>1, QuietKeepsRows
  <1>4. ASSUME NEW t \in Tasks, Step(t) PROVE OwnRowInv' /\ RowOriginInv' /\ StuckInv'
    <2>1. CASE Lock(t)
      <3>1. Quiet
        BY <2>1 DEF Quiet, Lock, Goto, TryLock, TypeOK, KindInv, Unrecorded,
           InScript, Logged, DownInv
      <3> QED
        BY <3>1, QuietKeepsRows
    <2>2. CASE Begin(t)
      <3>1. Quiet
        BY <2>2 DEF Quiet, Begin, Goto, MarkRunning, TypeOK, KindInv, Unrecorded,
           InScript, Logged, DownInv
      <3> QED
        BY <3>1, QuietKeepsRows
    <2>3. CASE InsertRow(t)
      <3>1. PICK i \in 0..Len(runs) + 1 :
               /\ StartRun(IF t \in Backups THEN "backup" ELSE "check", i)
               /\ rowId' = [rowId EXCEPT ![t] = i]
        BY <2>3 DEF InsertRow
      <3>2. \A u \in Tasks : u # t => pc[u] \notin Holding
        BY <2>3 DEF InsertRow, Goto, GateInv, Holding, Working
      <3>3. pc[t] \notin Unrecorded /\ Unrecorded \subseteq Holding
        BY <2>3 DEF InsertRow, Goto, Unrecorded, Holding, Working, InScript
      <3>4. \A u \in Tasks : pc[u] \notin Unrecorded
        BY <3>2, <3>3
      <3>5. /\ pc' = [pc EXCEPT ![t] = "inserted"]
            /\ t \in Logged /\ UNCHANGED <<life, lost>>
        BY <2>3 DEF InsertRow, Goto
      <3>6. rowId'[t] = i /\ pc'[t] = "inserted" /\ "inserted" \in Unrecorded
        BY <3>1, <3>5 DEF TypeOK, Unrecorded
      <3>7. \A u \in Tasks : u # t => pc'[u] \notin Unrecorded \cup {"recorded"}
        BY <3>2, <3>3, <3>5 DEF TypeOK, Holding, Working
      <3>8. \/ /\ DOMAIN runs' = DOMAIN runs \cup {i} /\ i \notin DOMAIN runs
               /\ runs'[i] = [trigger |-> IF t \in Backups THEN "backup" ELSE "check",
                                status |-> "running", snap |-> 0]
               /\ \A j \in DOMAIN runs : runs'[j] = runs[j]
            \/ i = 0 /\ runs' = runs /\ 0 \notin DOMAIN runs
        <4>1. (IF t \in Backups THEN "backup" ELSE "check") \in Triggers
          BY DEF Triggers
        <4>2. runs \in Seq(Rows) /\ 0 \notin DOMAIN runs
          BY DEF TypeOK
        <4> DEFINE tr == IF t \in Backups THEN "backup" ELSE "check"
        <4>3. StartRun(tr, i) /\ tr \in Triggers
          BY <3>1, <4>1
        <4> HIDE DEF tr
        <4>4. \/ /\ DOMAIN runs' = DOMAIN runs \cup {i} /\ i \notin DOMAIN runs
                 /\ runs'[i] = [trigger |-> tr, status |-> "running", snap |-> 0]
                 /\ \A j \in DOMAIN runs : runs'[j] = runs[j]
              \/ i = 0 /\ runs' = runs
          BY <4>2, <4>3, StartKeepsRows
        <4> QED
          BY <4>2, <4>4 DEF tr
      <3>9. OwnRowInv' /\ RowOriginInv'
        BY <3>6, <3>7, <3>8 DEF OwnRowInv, RowOriginInv, RowIds, Logged
      <3>10. \A j \in RowIds \ lost : life # "down" => ~Running(j)
        BY <3>4 DEF StuckInv, Logged
      <3>11. StuckInv'
        BY <3>5, <3>6, <3>8, <3>10 DEF StuckInv, RowIds, Running, Logged
      <3> QED
        BY <3>9, <3>11
    <2>4. CASE Launch(t)
      <3>1. Quiet
        BY <2>4 DEF Quiet, Launch, Goto, TypeOK, KindInv, Unrecorded, InScript,
           Logged, DownInv
      <3> QED
        BY <3>1, QuietKeepsRows
    <2>5. CASE LaunchCancelled(t)
      <3>1. Quiet
        BY <2>5 DEF Quiet, LaunchCancelled, Goto, TypeOK, KindInv, Unrecorded,
           InScript, Logged, DownInv
      <3> QED
        BY <3>1, QuietKeepsRows
    <2>6. CASE StartUpload(t)
      <3>1. Quiet
        BY <2>6 DEF Quiet, StartUpload, Goto, TypeOK, KindInv, Unrecorded,
           InScript, Logged, DownInv
      <3> QED
        BY <3>1, QuietKeepsRows
    <2>7. CASE FinishUpload(t)
      <3>1. Quiet
        BY <2>7 DEF Quiet, FinishUpload, Goto, TypeOK, KindInv, Unrecorded,
           InScript, Logged, DownInv
      <3> QED
        BY <3>1, QuietKeepsRows
    <2>8. CASE ScriptSucceeds(t)
      <3>1. Quiet
        BY <2>8 DEF Quiet, ScriptSucceeds, TypeOK, KindInv, Unrecorded, InScript,
           Logged, DownInv
      <3> QED
        BY <3>1, QuietKeepsRows
    <2>9. CASE ScriptFails(t)
      <3>1. Quiet
        BY <2>9 DEF Quiet, ScriptFails, TypeOK, KindInv, Unrecorded, InScript,
           Logged, DownInv
      <3> QED
        BY <3>1, QuietKeepsRows
    <2>10. CASE Maintain(t)
      <3>1. Quiet
        BY <2>10 DEF Quiet, Maintain, Goto, TypeOK, KindInv, Unrecorded,
           InScript, Logged, DownInv
      <3> QED
        BY <3>1, QuietKeepsRows
    <2>11. CASE RecordRow(t)
      <3>1. \A u \in Tasks : u # t => pc[u] \notin Holding
        BY <2>11 DEF RecordRow, Goto, GateInv, Holding, Working
      <3>2. /\ pc[t] = "exited" /\ t \in Logged /\ pc' = [pc EXCEPT ![t] = "recorded"]
            /\ UNCHANGED <<life, rowId>>
        BY <2>11 DEF RecordRow, Goto
      <3>3. \A u \in Tasks : pc'[u] \notin Unrecorded /\ (u # t => pc'[u] # "recorded")
        BY <3>1, <3>2 DEF TypeOK, Unrecorded, Holding, Working, InScript
      <3>4. outcome[t] \in Statuses /\ outcome[t] # "running" /\ summary \in Nat /\ runs \in Seq(Rows)
        BY DEF TypeOK, Statuses
      <3>5. /\ DOMAIN runs' = DOMAIN runs
            /\ \A j \in DOMAIN runs : j # rowId[t] => runs'[j] = runs[j]
            /\ rowId[t] \in DOMAIN runs => runs'[rowId[t]].trigger = runs[rowId[t]].trigger
            /\ lost \subseteq lost'
            /\ rowId[t] \in DOMAIN runs \ lost' => runs'[rowId[t]].status # "running"
        <4>1. CASE FinishRunDone(rowId[t], outcome[t], summary) /\ UNCHANGED lost
          <5> DEFINE st == outcome[t]
          <5>1. st \in Statuses /\ st # "running" /\ summary \in Nat /\ runs \in Seq(Rows)
            BY <3>4
          <5>2. FinishRunDone(rowId[t], st, summary)
            BY <4>1
          <5> HIDE DEF st
          <5>3. /\ DOMAIN runs' = DOMAIN runs
                /\ \A j \in DOMAIN runs : j # rowId[t] => runs'[j] = runs[j]
                /\ rowId[t] \in DOMAIN runs =>
                      runs'[rowId[t]] = [trigger |-> runs[rowId[t]].trigger,
                                         status |-> st, snap |-> summary]
            BY <5>1, <5>2, FinishKeepsRows
          <5> QED
            BY <4>1, <5>1, <5>3
        <4>2. CASE UpdateFails /\ lost' = lost \cup ({rowId[t]} \cap RowIds)
          BY <4>2 DEF UpdateFails, RowIds
        <4> QED
          BY <2>11, <4>1, <4>2 DEF RecordRow
      <3>6. OwnRowInv'
        BY <3>3 DEF OwnRowInv, Logged
      <3>7. RowOriginInv'
        BY <3>2, <3>3, <3>5 DEF RowOriginInv, RowIds, Unrecorded
      <3>8. \A j \in RowIds \ lost : life # "down" /\ Running(j) => j = rowId[t]
        BY <3>1, <3>2 DEF StuckInv, Unrecorded, Holding, Working, Logged
      <3>9. StuckInv'
        BY <3>2, <3>5, <3>8 DEF StuckInv, RowIds, Running
      <3> QED
        BY <3>6, <3>7, <3>9
    <2>12. CASE End(t)
      <3>1. Quiet
        BY <2>12 DEF Quiet, End, LastStage, MarkIdle, TypeOK, KindInv,
           Unrecorded, InScript, Logged, DownInv
      <3> QED
        BY <3>1, QuietKeepsRows
    <2>13. CASE Release(t)
      <3>1. Quiet
        BY <2>13 DEF Quiet, Release, Goto, Unlock, LocalsDie, TypeOK, KindInv,
           Unrecorded, InScript, Logged, DownInv
      <3> QED
        BY <3>1, QuietKeepsRows
    <2>14. CASE ClearScratch(t)
      <3>1. Quiet
        BY <2>14 DEF Quiet, ClearScratch, Goto, Emptied, TypeOK, KindInv,
           Unrecorded, InScript, Logged, DownInv
      <3> QED
        BY <3>1, QuietKeepsRows
    <2>15. CASE RestoreRefused(t)
      <3>1. Quiet
        BY <2>15 DEF Quiet, RestoreRefused, Goto, TypeOK, KindInv, Unrecorded,
           InScript, Logged, DownInv
      <3> QED
        BY <3>1, QuietKeepsRows
    <2>16. CASE WritePart(t)
      <3>1. Quiet
        BY <2>16 DEF Quiet, WritePart, Goto, TypeOK, KindInv, Unrecorded,
           InScript, Logged, DownInv
      <3> QED
        BY <3>1, QuietKeepsRows
    <2>17. CASE Answer(t)
      <3>1. Quiet
        BY <2>17 DEF Quiet, Answer, Goto, LocalsDie, TypeOK, KindInv, Unrecorded,
           InScript, Logged, DownInv
      <3> QED
        BY <3>1, QuietKeepsRows
    <2> QED
      BY <1>4, <2>1, <2>2, <2>3, <2>4, <2>5, <2>6, <2>7, <2>8, <2>9, <2>10,
         <2>11, <2>12, <2>13, <2>14, <2>15, <2>16, <2>17 DEF Step
  <1>5. CASE UNCHANGED vars
    BY <1>5 DEF vars, engineVars, TypeOK, KindInv, GateInv, DownInv, OwnRowInv,
       RowOriginInv, StuckInv, Unrecorded, Holding, Working, InScript, RowIds,
       Running, Logged, runnerVars
  <1> QED
    BY <1>1, <1>2, <1>3, <1>4, <1>5 DEF Next

(* The summary file belongs to the task that holds the gate, so what         *)
(* RecordRow reads from it after a success is that task's own snapshot.      *)
LEMMA SummaryStep ==
    ASSUME TypeOK, KindInv, GateInv, DownInv, RowOriginInv, SummaryInv, OkRowNamesItsSnapshot, [Next]_vars
    PROVE  SummaryInv' /\ OkRowNamesItsSnapshot'
  <1> USE NobodyAssumption, TasksAssumption
  <1>1. CASE Boot
    <2>1. \A t \in Tasks : pc'[t] = "idle"
      BY <1>1 DEF Boot, DownInv
    <2> QED
      BY <2>1 DEF SummaryInv, OkRowNamesItsSnapshot
  <1>2. CASE Shutdown
    BY <1>2 DEF Shutdown, TypeOK, KindInv, SummaryInv, OkRowNamesItsSnapshot,
       Unrecorded, Holding, Working, InScript, RowIds, Logged, runnerVars
  <1>3. CASE Halt
    BY <1>3 DEF Halt, LocalsDie, TypeOK, KindInv, SummaryInv,
       OkRowNamesItsSnapshot, Unrecorded, Holding, Working, InScript, RowIds,
       Logged, runnerVars
  <1>4. ASSUME NEW t \in Tasks, Step(t) PROVE SummaryInv' /\ OkRowNamesItsSnapshot'
    <2>1. CASE Lock(t)
      BY <2>1 DEF Lock, Goto, TryLock, TypeOK, KindInv, SummaryInv,
         OkRowNamesItsSnapshot, Unrecorded, Holding, Working, InScript, RowIds,
         Logged, runnerVars
    <2>2. CASE Begin(t)
      BY <2>2 DEF Begin, Goto, MarkRunning, TypeOK, KindInv, SummaryInv,
         OkRowNamesItsSnapshot, Unrecorded, Holding, Working, InScript, RowIds,
         Logged, runnerVars
    <2>3. CASE InsertRow(t)
      <3>1. \A u \in Tasks : u # t => pc[u] \notin Holding
        BY <2>3 DEF InsertRow, Goto, GateInv, Holding, Working
      <3>2. pc' = [pc EXCEPT ![t] = "inserted"]
        BY <2>3 DEF InsertRow, Goto
      <3>3. \A u \in Tasks : pc'[u] \notin {"pruning", "exited", "recorded"}
        BY <3>1, <3>2 DEF TypeOK, Holding, Working, InScript
      <3> QED
        BY <3>3 DEF SummaryInv, OkRowNamesItsSnapshot
    <2>4. CASE Launch(t)
      BY <2>4 DEF Launch, Goto, TypeOK, KindInv, SummaryInv,
         OkRowNamesItsSnapshot, Unrecorded, Holding, Working, InScript, RowIds,
         Logged, runnerVars
    <2>5. CASE LaunchCancelled(t)
      BY <2>5 DEF LaunchCancelled, Goto, TypeOK, KindInv, SummaryInv,
         OkRowNamesItsSnapshot, Unrecorded, Holding, Working, InScript, RowIds,
         Logged, runnerVars
    <2>6. CASE StartUpload(t)
      <3>1. \A u \in Tasks : u # t => pc[u] \notin Holding
        BY <2>6 DEF StartUpload, Goto, GateInv, Holding, Working, InScript
      <3> QED
        BY <2>6, <3>1 DEF StartUpload, Goto, TypeOK, KindInv, SummaryInv,
           OkRowNamesItsSnapshot, Unrecorded, Holding, Working, InScript, RowIds,
           Logged, runnerVars
    <2>7. CASE FinishUpload(t)
      <3>1. \A u \in Tasks : u # t => pc[u] \notin Holding
        BY <2>7 DEF FinishUpload, Goto, GateInv, Holding, Working, InScript
      <3> QED
        BY <2>7, <3>1 DEF FinishUpload, Goto, TypeOK, KindInv, SummaryInv,
           OkRowNamesItsSnapshot, Unrecorded, Holding, Working, InScript, RowIds,
           Logged, runnerVars
    <2>8. CASE ScriptSucceeds(t)
      BY <2>8 DEF ScriptSucceeds, TypeOK, KindInv, SummaryInv,
         OkRowNamesItsSnapshot, Unrecorded, Holding, Working, InScript, RowIds,
         Logged, runnerVars
    <2>9. CASE ScriptFails(t)
      BY <2>9 DEF ScriptFails, TypeOK, KindInv, SummaryInv,
         OkRowNamesItsSnapshot, Unrecorded, Holding, Working, InScript, RowIds,
         Logged, runnerVars
    <2>10. CASE Maintain(t)
      BY <2>10 DEF Maintain, Goto, TypeOK, KindInv, SummaryInv,
         OkRowNamesItsSnapshot, Unrecorded, Holding, Working, InScript, RowIds,
         Logged, runnerVars
    <2>11. CASE RecordRow(t)
      <3>1. \A u \in Tasks : u # t => pc[u] \notin Holding
        BY <2>11 DEF RecordRow, Goto, GateInv, Holding, Working
      <3>2. /\ pc[t] = "exited" /\ pc' = [pc EXCEPT ![t] = "recorded"]
            /\ UNCHANGED <<rowId, outcome, runNo, summary>>
        BY <2>11 DEF RecordRow, Goto
      <3>3. \A u \in Tasks : /\ pc'[u] \notin {"pruning", "exited"}
                             /\ u # t => pc'[u] # "recorded"
        BY <3>1, <3>2 DEF TypeOK, Holding, Working, InScript
      <3>4. t \in Backups /\ outcome[t] = "ok" => summary = runNo[t]
        BY <3>2 DEF SummaryInv
      <3>5. t \in Backups /\ rowId[t] \in RowIds => runs[rowId[t]].trigger = "backup"
        BY <3>2 DEF RowOriginInv, Unrecorded
      <3>6. /\ DOMAIN runs' = DOMAIN runs
            /\ rowId[t] \in DOMAIN runs \ lost' =>
                  runs'[rowId[t]] = [trigger |-> runs[rowId[t]].trigger,
                                     status |-> outcome[t], snap |-> summary]
        <4>1. CASE FinishRunDone(rowId[t], outcome[t], summary) /\ UNCHANGED lost
          BY <4>1 DEF FinishRunDone, RowIds
        <4>2. CASE UpdateFails /\ lost' = lost \cup ({rowId[t]} \cap RowIds)
          BY <4>2 DEF UpdateFails, RowIds
        <4> QED
          BY <2>11, <4>1, <4>2 DEF RecordRow
      <3>7. SummaryInv'
        BY <3>3 DEF SummaryInv
      <3>8. ASSUME t \in Backups, outcome[t] = "ok", rowId[t] \in RowIds' \ lost'
            PROVE  runs'[rowId[t]] = [trigger |-> "backup", status |-> "ok", snap |-> runNo[t]]
        <4>1. rowId[t] \in DOMAIN runs \ lost'
          BY <3>6, <3>8 DEF RowIds
        <4>2. summary = runNo[t] /\ runs[rowId[t]].trigger = "backup"
          BY <3>4, <3>5, <3>8, <4>1 DEF RowIds
        <4> QED
          BY <3>6, <3>8, <4>1, <4>2
      <3>9. OkRowNamesItsSnapshot'
        BY <3>2, <3>3, <3>8 DEF OkRowNamesItsSnapshot
      <3> QED
        BY <3>7, <3>9
    <2>12. CASE End(t)
      BY <2>12 DEF End, LastStage, MarkIdle, TypeOK, KindInv, SummaryInv,
         OkRowNamesItsSnapshot, Unrecorded, Holding, Working, InScript, RowIds,
         Logged, runnerVars
    <2>13. CASE Release(t)
      BY <2>13 DEF Release, Goto, Unlock, LocalsDie, TypeOK, KindInv, SummaryInv,
         OkRowNamesItsSnapshot, Unrecorded, Holding, Working, InScript, RowIds,
         Logged, runnerVars
    <2>14. CASE ClearScratch(t)
      BY <2>14 DEF ClearScratch, Goto, Emptied, TypeOK, KindInv, SummaryInv,
         OkRowNamesItsSnapshot, Unrecorded, Holding, Working, InScript, RowIds,
         Logged, runnerVars
    <2>15. CASE RestoreRefused(t)
      BY <2>15 DEF RestoreRefused, Goto, TypeOK, KindInv, SummaryInv,
         OkRowNamesItsSnapshot, Unrecorded, Holding, Working, InScript, RowIds,
         Logged, runnerVars
    <2>16. CASE WritePart(t)
      BY <2>16 DEF WritePart, Goto, TypeOK, KindInv, SummaryInv,
         OkRowNamesItsSnapshot, Unrecorded, Holding, Working, InScript, RowIds,
         Logged, runnerVars
    <2>17. CASE Answer(t)
      BY <2>17 DEF Answer, Goto, LocalsDie, TypeOK, KindInv, SummaryInv,
         OkRowNamesItsSnapshot, Unrecorded, Holding, Working, InScript, RowIds,
         Logged, runnerVars
    <2> QED
      BY <1>4, <2>1, <2>2, <2>3, <2>4, <2>5, <2>6, <2>7, <2>8, <2>9, <2>10,
         <2>11, <2>12, <2>13, <2>14, <2>15, <2>16, <2>17 DEF Step
  <1>5. CASE UNCHANGED vars
    BY <1>5 DEF vars, engineVars, TypeOK, KindInv, SummaryInv,
       OkRowNamesItsSnapshot, Unrecorded, Holding, Working, InScript, RowIds,
       Logged, runnerVars
  <1> QED
    BY <1>1, <1>2, <1>3, <1>4, <1>5 DEF Next

(* A restore's own stages fill the scratch area, and whoever else fills or   *)
(* clears it marks the restores under way as disturbed.                      *)
LEMMA ScratchStep ==
    ASSUME TypeOK, KindInv, ScratchInv, [Next]_vars
    PROVE  ScratchInv'
  <1> SUFFICES ASSUME NEW u \in Restores, u \notin disturbed' PROVE Solo(u)'
    BY DEF ScratchInv
  <1> USE NobodyAssumption, TasksAssumption
  <1>0. u \in Tasks /\ (u \notin disturbed => Solo(u)) /\ {u} \X Parts = {<<u, 1>>, <<u, 2>>}
    BY DEF ScratchInv, Parts
  <1>1. CASE Boot
    BY <1>0, <1>1 DEF Boot, Solo
  <1>2. CASE Shutdown
    BY <1>0, <1>2 DEF Shutdown, Solo
  <1>3. CASE Halt
    BY <1>0, <1>3 DEF Halt, Solo
  <1>4. ASSUME NEW t \in Tasks, Step(t) PROVE Solo(u)'
    <2> USE <1>0 DEF Solo, TypeOK, KindInv, Logged
    <2>1. CASE Lock(t)
      BY <2>1 DEF Lock, Goto
    <2>2. CASE Begin(t)
      BY <2>2 DEF Begin, Goto
    <2>3. CASE InsertRow(t)
      BY <2>3 DEF InsertRow, Goto
    <2>4. CASE Launch(t)
      BY <2>4 DEF Launch, Goto
    <2>5. CASE LaunchCancelled(t)
      BY <2>5 DEF LaunchCancelled, Goto
    <2>6. CASE StartUpload(t)
      BY <2>6 DEF StartUpload, Goto
    <2>7. CASE FinishUpload(t)
      BY <2>7 DEF FinishUpload, Goto
    <2>8. CASE ScriptSucceeds(t)
      BY <2>8 DEF ScriptSucceeds
    <2>9. CASE ScriptFails(t)
      BY <2>9 DEF ScriptFails, InScript
    <2>10. CASE Maintain(t)
      BY <2>10 DEF Maintain, Goto
    <2>11. CASE RecordRow(t)
      BY <2>11 DEF RecordRow, Goto
    <2>12. CASE End(t)
      BY <2>12 DEF End, LastStage
    <2>13. CASE Release(t)
      BY <2>13 DEF Release, Goto, LocalsDie
    <2>14. CASE ClearScratch(t)
      BY <2>14 DEF ClearScratch, Goto, Emptied
    <2>15. CASE RestoreRefused(t)
      BY <2>15 DEF RestoreRefused, Goto
    <2>16. CASE WritePart(t)
      BY <2>16 DEF WritePart, Goto
    <2>17. CASE Answer(t)
      BY <2>17 DEF Answer, Goto, LocalsDie
    <2> QED
      BY <1>4, <2>1, <2>2, <2>3, <2>4, <2>5, <2>6, <2>7, <2>8, <2>9,
         <2>10, <2>11, <2>12, <2>13, <2>14, <2>15, <2>16, <2>17 DEF Step
  <1>5. CASE UNCHANGED vars
    BY <1>0, <1>5 DEF vars, engineVars, Solo
  <1> QED
    BY <1>1, <1>2, <1>3, <1>4, <1>5 DEF Next

(* The empty history and idle goroutines satisfy every part of IInv.         *)
LEMMA IInvInit == Init => IInv
  <1> SUFFICES ASSUME Init PROVE IInv
    OBVIOUS
  <1>1. TypeOK
    <2>1. runs \in Seq(Rows) /\ lost \subseteq RowIds
      BY DEF Init
    <2>2. accepted \in 0..MaxRuns
      BY TasksAssumption DEF Init
    <2> QED
      BY <2>1, <2>2 DEF Init, RunnerInit, TypeOK, RunnerTypeOK, PCs
  <1>2. ScratchInv
    BY TasksAssumption DEF Init, ScratchInv, Solo
  <1> QED
    BY <1>1, <1>2, NobodyAssumption, TasksAssumption
    DEF Init, RunnerInit, IInv, GateInv, FlagInv, DownInv, KindInv, OwnRowInv, RowOriginInv,
        StuckInv, SummaryInv, OkRowNamesItsSnapshot, Holding, Working, InScript,
        Unrecorded, Logged

(* The lemmas above, put together: no step leaves IInv.                      *)
LEMMA IInvStep == IInv /\ [Next]_vars => IInv'
  BY TypeStep, KindStep, GateStep, RowStep, SummaryStep, ScratchStep DEF IInv

(* IInv holds in every state of every execution, crashes and faults included. *)
THEOREM InductiveInvariant == Spec => []IInv
  BY IInvInit, IInvStep, PTL DEF Spec

(* Type correctness of the engine in every reachable state.                  *)
THEOREM TypeCorrect == Spec => []TypeOK
  BY InductiveInvariant, PTL DEF IInv

(* At most one task is between TryLock and Unlock: ui/index.html:238.        *)
THEOREM GateSerialises == Spec => []MutualExclusion
  <1>1. IInv => MutualExclusion
    BY DEF IInv, GateInv, MutualExclusion
  <1> QED
    BY <1>1, InductiveInvariant, PTL

(* A running row is the row of the task that holds the gate.                 *)
THEOREM RunningRowsAccounted == Spec => []RunningRowIsTheHolders
  <1>1. IInv => RunningRowIsTheHolders
    BY NobodyAssumption, TasksAssumption
    DEF IInv, GateInv, StuckInv, RunningRowIsTheHolders, Unrecorded, Holding, Working,
        InScript, Logged
  <1> QED
    BY <1>1, InductiveInvariant, PTL

(* The dashboard never sees an idle engine with a run still in its history.  *)
THEOREM IdleEngineHasNoOpenRow == Spec => []IdleMeansRecorded
  <1>1. IInv => IdleMeansRecorded
    BY TasksAssumption
    DEF IInv, FlagInv, StuckInv, IdleMeansRecorded, Busy, Unrecorded, Working, InScript, Logged
  <1> QED
    BY <1>1, InductiveInvariant, PTL

(* A successful backup's row names the snapshot that backup made.            *)
THEOREM OkRowsAreAccurate == Spec => []OkRowNamesItsSnapshot
  BY InductiveInvariant, PTL DEF IInv

(* No step rewrites or removes a row that already has its outcome.           *)
LEMMA FinalRowsStep ==
    ASSUME IInv, [Next]_vars, NEW i \in RowIds, ~Running(i)
    PROVE  i \in DOMAIN runs' /\ runs'[i] = runs[i]
  <1>1. CASE Boot
    BY <1>1, ReconcileKeepsRows DEF Boot, UpdateFails, IInv, TypeOK, RowIds
  <1>2. ASSUME NEW t \in Tasks, InsertRow(t) PROVE i \in DOMAIN runs' /\ runs'[i] = runs[i]
    <2>1. PICK j \in 0..Len(runs) + 1 : StartRun(IF t \in Backups THEN "backup" ELSE "check", j)
      BY <1>2 DEF InsertRow
    <2> DEFINE tr == IF t \in Backups THEN "backup" ELSE "check"
    <2>2. tr \in Triggers /\ StartRun(tr, j) /\ runs \in Seq(Rows)
      BY <2>1 DEF Triggers, IInv, TypeOK
    <2> HIDE DEF tr
    <2> QED
      BY <2>2, StartKeepsRows DEF RowIds
  <1>3. ASSUME NEW t \in Tasks, RecordRow(t) PROVE i \in DOMAIN runs' /\ runs'[i] = runs[i]
    <2>1. rowId[t] \in RowIds => Running(rowId[t])
      BY <1>3 DEF RecordRow, Goto, IInv, OwnRowInv, Unrecorded, Running
    <2> QED
      BY <1>3, <2>1 DEF RecordRow, FinishRunDone, UpdateFails, RowIds
  <1>4. CASE UNCHANGED runs
    BY <1>4 DEF RowIds
  <1>5. UNCHANGED runs \/ Boot \/ \E t \in Tasks : InsertRow(t) \/ RecordRow(t)
    BY DEF Next, Step, vars, Shutdown, Halt, Lock, Begin, Launch, LaunchCancelled,
           StartUpload, FinishUpload, ScriptSucceeds, ScriptFails, Maintain, End, Release,
           ClearScratch, RestoreRefused, WritePart, Answer
  <1> QED
    BY <1>1, <1>2, <1>3, <1>4, <1>5

(* The history is append-only but for the outcome of the runs in progress.   *)
THEOREM FinalRowsStayFinal == Spec => FinalRowsAreFinal
  <1>1. IInv /\ [Next]_vars =>
            [\A i \in RowIds : ~Running(i) => i \in DOMAIN runs' /\ runs'[i] = runs[i]]_vars
    BY FinalRowsStep
  <1> QED
    BY <1>1, InductiveInvariant, PTL DEF Spec, FinalRowsAreFinal

(* A restore that met no other one and could empty the scratch area leaves   *)
(* exactly its own tree (SoloRestoreIsWhole), whatever earlier restores left *)
(* there: api.go:539.                                                        *)
THEOREM SoloRestoresAreWhole == Spec => []SoloRestoreIsWhole
  <1>1. IInv => SoloRestoreIsWhole
    BY DEF IInv, ScratchInv, Solo, SoloRestoreIsWhole
  <1> QED
    BY <1>1, InductiveInvariant, PTL

(* Where no two restore requests are ever served and RemoveAll empties the   *)
(* scratch area, every restore that answers 200 leaves exactly its tree      *)
(* (RestoreIsExact, api.go:539): what engine_restore refutes takes a second  *)
(* request, nothing less.                                                    *)
THEOREM LoneRestoresAreExact ==
    (\A t, u \in Restores : t = u) /\ ~RemoveFails /\ Spec => []RestoreIsExact
  <1> SUFFICES ASSUME \A t, u \in Restores : t = u, ~RemoveFails PROVE Spec => []RestoreIsExact
    OBVIOUS
  <1> DEFINE Alone == disturbed = {}
  <1>1. Init => Alone
    BY DEF Init
  <1>2. IInv /\ Alone /\ [Next]_vars => Alone'
    <2> SUFFICES ASSUME IInv, disturbed = {}, [Next]_vars PROVE disturbed' = {}
      OBVIOUS
    <2>1. ASSUME NEW t \in Tasks, ClearScratch(t) PROVE disturbed' = {}
      BY <2>1 DEF ClearScratch
    <2>2. ASSUME NEW t \in Tasks, WritePart(t) PROVE disturbed' = {}
      <3>1. t \in Restores
        BY <2>2 DEF WritePart, Goto, IInv, KindInv
      <3> QED
        BY <2>2, <3>1 DEF WritePart
    <2>3. ASSUME NEW t \in Tasks, Step(t), ~ClearScratch(t), ~WritePart(t)
          PROVE  disturbed' \subseteq disturbed
      BY <2>3 DEF Step, Lock, Begin, InsertRow, Launch, LaunchCancelled, StartUpload, FinishUpload,
         ScriptSucceeds, ScriptFails, Maintain, RecordRow, End, Release, RestoreRefused, Answer
    <2>4. CASE Boot \/ Shutdown \/ Halt \/ UNCHANGED vars
      BY <2>4 DEF Boot, Shutdown, Halt, vars, engineVars
    <2> QED
      BY <2>1, <2>2, <2>3, <2>4 DEF Next
  <1>3. IInv /\ Alone => RestoreIsExact
    BY DEF IInv, ScratchInv, Solo, RestoreIsExact
  <1> HIDE DEF Alone
  <1> QED
    BY <1>1, <1>2, <1>3, InductiveInvariant, PTL DEF Spec
===============================================================================
