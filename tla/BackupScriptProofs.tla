-------------------------- MODULE BackupScriptProofs --------------------------
(***************************************************************************)
(* Theorems about BackupScript, for any number of scripts, any job files,   *)
(* any containers and whatever fails: what the lock file and the traps keep *)
(* of the staging area, the snapshots and the marks.                        *)
(***************************************************************************)
EXTENDS BackupScript, SequenceTheorems, TLAPS

(* The jobs of a list, and of all lists. *)
Listed(f) == {f[i] : i \in DOMAIN f}
AllJobs == UNION {Listed(f) : f \in JobFiles}

(* Each database has its place: the data path of a job that can be dumped is *)
(* not that of a job of another name, and neither covers nor lies within the *)
(* place where another one keeps its files.                                  *)
OwnPlaces ==
    \A f \in JobFiles : \A j, k \in Listed(f) :
        /\ Dumpable(k)
        /\ j.data = k.data \/ Within(j.raw, k.data) \/ Within(k.data, j.raw)
        => j.name = k.name

(* The dumps are uploaded: SOURCE_PATHS reaches the staging area, and        *)
(* neither the data path of a job that can be dumped nor a pattern of        *)
(* excludes.txt hides any of it.                                             *)
StagingSeen ==
    /\ Reached(Staging)
    /\ \A j \in AllJobs : Dumpable(j) =>
          ~Within(Staging, j.data) /\ j.name \notin ExcludedNames

-------------------------------------------------------------------------------
(* The inductive invariant, in named parts. *)

ShapeInv ==
    /\ jobs \in [Processes -> Seq(AllJobs)]
    /\ list \in [Processes -> Lists]
    /\ excludes \in [Processes -> SUBSET {j.data : j \in AllJobs}]

(* Between acquire_lock and the end of the process the lock is this run's,   *)
(* and no later run has had it.                                              *)
Inside == Trapped \cup {"checking", "leaving"}
CheckPCs == {"idle", "lock", "probe", "checking", "leaving", "closing"}
Locked(p) ==
    /\ lock = p <=> run[p] # 0
    /\ lock = p => run[p] = count
    /\ pc[p] \in Inside => lock = p
    /\ pc[p] \in {"idle", "lock"} => lock # p
    /\ p \in Checks => pc[p] \in CheckPCs
LockInv == \A p \in Processes : Locked(p)

(* What is left of the list comes from the list, and what is excluded is the *)
(* place of a job that could be dumped and, up to the upload, was.           *)
Unread == {"idle", "lock", "clean", "probe", "space", "read"}
Reading(p) ==
    /\ jobs[p] \in Seq(Listed(list[p])) /\ Len(jobs[p]) <= Len(list[p])
    /\ pc[p] \in Unread => list[p] = <<>> /\ jobs[p] = <<>> /\ excludes[p] = {}
    /\ pc[p] = "upload" => jobs[p] = <<>>
ListInv == \A p \in Processes : Reading(p)

ExcludeInv ==
    \A p \in Processes : \A e \in excludes[p] : \E j \in Listed(list[p]) :
        /\ Dumpable(j) /\ j.data = e
        /\ pc[p] \in {"jobs", "upload"} => <<run[p], j.name>> \in staging

(* After Phase 0 the staging area has the dumps of this run alone, and the   *)
(* EXIT trap leaves none.                                                    *)
Cleaned(p) ==
    /\ pc[p] \in {"probe", "space", "read", "jobs", "upload"} =>
          \A d \in staging : d[1] = run[p]
    /\ pc[p] = "closing" /\ lock = p => staging = {}
CleanInv == \A p \in Backups : Cleaned(p)

MarkInv == lastFailure <= count /\ lastSuccess <= count

IInv ==
    /\ TypeOK /\ ShapeInv /\ LockInv /\ ListInv /\ ExcludeInv /\ CleanInv /\ MarkInv
    /\ DumpsAreAccounted /\ FreshDumpsOnly

-------------------------------------------------------------------------------
(* The steps, and what they leave alone. *)

(* A step of one script. *)
Acts(p) ==
    \/ Start(p) \/ Refused(p) \/ AcquireLock(p)
    \/ Clean(p) \/ Probe(p) \/ CheckSpace(p)
    \/ ReadJobs(p) \/ SkipJob(p) \/ DumpJob(p) \/ JobsDone(p)
    \/ Upload(p) \/ Forget(p) \/ Check(p) \/ RecordSuccess(p)
    \/ Leave(p) \/ Close(p) \/ Interrupt(p) \/ Kill(p)

LEMMA Steps == Next <=> \E p \in Processes : Acts(p)
  BY DEF Next, Acts

LEMMA Shapes ==
    /\ Backups \subseteq Processes /\ Checks \subseteq Processes
    /\ \A p \in Processes : p \in Backups <=> p \notin Checks
    /\ Nobody \notin Processes
  BY ScriptAssumption DEF Processes

LEMMA OfItself ==
    ASSUME NEW S, NEW s \in Seq(S)
    PROVE  s \in Seq(Listed(s))
<1>1. Len(s) \in Nat /\ DOMAIN s = 1 .. Len(s) /\ s = [i \in 1 .. Len(s) |-> s[i]]
  OBVIOUS
<1>2. \A i \in 1 .. Len(s) : s[i] \in Listed(s)
  BY <1>1 DEF Listed
<1> QED
  BY <1>1, <1>2

(* The first rows of a file are jobs of that file. *)
LEMMA Prefixes ==
    ASSUME NEW f \in JobFiles, NEW n \in 0 .. Len(f)
    PROVE  LET l == SubSeq(f, 1, n)
           IN  l \in Seq(Listed(l)) /\ Listed(l) \subseteq Listed(f) /\ l \in Lists
<1> DEFINE l == SubSeq(f, 1, n)
<1>1. f \in Seq(Listed(f))
  BY ScriptAssumption DEF Listed
<1>2. Len(f) \in Nat /\ DOMAIN f = 1 .. Len(f) /\ n \in Int
  BY <1>1
<1>3. \A i \in 1 .. n : f[i] \in Listed(f)
  BY <1>2 DEF Listed
<1>4. l \in Seq(Listed(f))
  BY <1>2, <1>3, SubSeqProperties
<1>5. Len(l) \in Nat /\ DOMAIN l = 1 .. Len(l)
  BY <1>4
<1>6. \A i \in DOMAIN l : l[i] \in Listed(f)
  BY <1>4, <1>5
<1>7. Listed(l) \subseteq Listed(f)
  BY <1>6 DEF Listed
<1>8. l \in Seq(Listed(l))
  BY <1>4, OfItself
<1>9. l \in Lists
  BY DEF Lists
<1> QED
  BY <1>7, <1>8, <1>9

(* The jobs of a list are jobs of one file. *)
LEMMA Files ==
    /\ <<>> \in Lists
    /\ \A l \in Lists : /\ l \in Seq(Listed(l)) /\ Listed(l) \subseteq AllJobs
                        /\ l = <<>> \/ \E f \in JobFiles : Listed(l) \subseteq Listed(f)
    /\ \A j \in AllJobs : j.name \in DOMAIN Containers
<1>1. \A f \in JobFiles : \A j \in Listed(f) : IsJob(j)
  BY ScriptAssumption DEF Listed
<1>2. \A f \in JobFiles : Listed(f) \subseteq AllJobs
  BY DEF AllJobs
<1>3. <<>> \in Seq(Listed(<<>>)) /\ Listed(<<>>) = {} /\ <<>> \in Lists
  BY DEF Listed, Lists
<1>4. ASSUME NEW l \in Lists, l # <<>>
      PROVE  l \in Seq(Listed(l)) /\ \E f \in JobFiles : Listed(l) \subseteq Listed(f)
  <2>1. PICK f \in JobFiles : \E n \in 0 .. Len(f) : l = SubSeq(f, 1, n)
    BY <1>4 DEF Lists
  <2>2. PICK n \in 0 .. Len(f) : l = SubSeq(f, 1, n)
    BY <2>1
  <2> QED
    BY <2>2, Prefixes
<1>5. \A j \in AllJobs : IsJob(j)
  BY <1>1 DEF AllJobs
<1> QED
  BY <1>2, <1>3, <1>4, <1>5 DEF IsJob

(* What read takes from a list that is not empty. *)
LEMMA OneJob ==
    ASSUME NEW S, NEW s \in Seq(S), s # <<>>
    PROVE  /\ Head(s) \in S /\ Tail(s) \in Seq(S)
           /\ Len(s) \in Nat /\ Len(Tail(s)) = Len(s) - 1
  BY EmptySeq, HeadTailProperties

(* The values that any list, or any part of one, has.                       *)
LEMMA SeqsInSets ==
    ASSUME NEW S, NEW T, S \subseteq T, NEW s \in Seq(S)
    PROVE  s \in Seq(T)
  OBVIOUS

(* A script keeps to its own variables.                                     *)
LEMMA OthersKeep ==
    ASSUME TypeOK, ShapeInv, NEW p \in Processes, Acts(p), NEW q \in Processes \ {p}
    PROVE  /\ pc'[q] = pc[q] /\ run'[q] = run[q] /\ jobs'[q] = jobs[q]
           /\ list'[q] = list[q] /\ excludes'[q] = excludes[q]
<1> USE DEF TypeOK, ShapeInv, locals
<1>1. CASE Start(p)
  BY <1>1 DEF Start, Goto
<1>2. CASE Refused(p)
  BY <1>2 DEF Refused, Goto
<1>3. CASE AcquireLock(p)
  BY <1>3 DEF AcquireLock, Goto
<1>4. CASE Clean(p)
  BY <1>4 DEF Clean, Goto
<1>5. CASE Probe(p)
  BY <1>5 DEF Probe, Trip, ExitTrapped, Alert
<1>6. CASE CheckSpace(p)
  BY <1>6 DEF CheckSpace, ExitTrapped, Alert
<1>7. CASE ReadJobs(p)
  BY <1>7 DEF ReadJobs, Goto, Alert
<1>8. CASE SkipJob(p)
  BY <1>8 DEF SkipJob
<1>9. CASE DumpJob(p)
  BY <1>9 DEF DumpJob, Die, Trip, ExitTrapped, Alert
<1>10. CASE JobsDone(p)
  BY <1>10 DEF JobsDone, Goto
<1>11. CASE Upload(p)
  BY <1>11 DEF Upload, Trip, ExitTrapped, Alert
<1>12. CASE Forget(p)
  BY <1>12 DEF Forget, Trip, ExitTrapped, Alert
<1>13. CASE Check(p)
  BY <1>13 DEF Check, Trip, ExitTrapped, Alert
<1>14. CASE RecordSuccess(p)
  BY <1>14 DEF RecordSuccess, Goto
<1>15. CASE Leave(p)
  BY <1>15 DEF Leave, Goto
<1>16. CASE Close(p)
  BY <1>16 DEF Close, Goto, Fresh
<1>17. CASE Interrupt(p)
  BY <1>17 DEF Interrupt, Die, ExitTrapped
<1>18. CASE Kill(p)
  BY <1>18 DEF Kill, Fresh
<1> QED
  BY <1>1, <1>2, <1>3, <1>4, <1>5, <1>6, <1>7, <1>8, <1>9, <1>10, <1>11, <1>12, <1>13, <1>14, <1>15, <1>16, <1>17, <1>18 DEF Acts

LEMMA LockStart == Init => LockInv
  BY Shapes DEF Init, LockInv, Locked, Inside, Trapped, CheckPCs

LEMMA LockStep ==
    ASSUME TypeOK, ShapeInv, LockInv, NEW p \in Processes, Acts(p)
    PROVE  LockInv'
<1> SUFFICES ASSUME NEW q \in Processes PROVE Locked(q)'
  BY DEF LockInv
<1> Locked(p) /\ Locked(q)
  BY DEF LockInv
<1> USE Shapes, ScriptAssumption DEF Locked, TypeOK, ShapeInv, Inside, Trapped, CheckPCs, locals, marks, ghosts
<1>1. CASE Start(p)
  BY <1>1 DEF Start, Goto
<1>2. CASE Refused(p)
  BY <1>2 DEF Refused, Goto
<1>3. CASE AcquireLock(p)
  BY <1>3 DEF AcquireLock, Goto
<1>4. CASE Clean(p)
  BY <1>4 DEF Clean, Goto
<1>5. CASE Probe(p)
  BY <1>5 DEF Probe, Trip, ExitTrapped, Alert
<1>6. CASE CheckSpace(p)
  BY <1>6 DEF CheckSpace, ExitTrapped, Alert
<1>7. CASE ReadJobs(p)
  BY <1>7 DEF ReadJobs, Goto, Alert
<1>8. CASE SkipJob(p)
  BY <1>8 DEF SkipJob
<1>9. CASE DumpJob(p)
  BY <1>9 DEF DumpJob, Die, Trip, ExitTrapped, Alert
<1>10. CASE JobsDone(p)
  BY <1>10 DEF JobsDone, Goto
<1>11. CASE Upload(p)
  BY <1>11 DEF Upload, Trip, ExitTrapped, Alert
<1>12. CASE Forget(p)
  BY <1>12 DEF Forget, Trip, ExitTrapped, Alert
<1>13. CASE Check(p)
  BY <1>13 DEF Check, Trip, ExitTrapped, Alert
<1>14. CASE RecordSuccess(p)
  BY <1>14 DEF RecordSuccess, Goto
<1>15. CASE Leave(p)
  BY <1>15 DEF Leave, Goto
<1>16. CASE Close(p)
  BY <1>16 DEF Close, Goto, Fresh
<1>17. CASE Interrupt(p)
  BY <1>17 DEF Interrupt, Die, ExitTrapped
<1>18. CASE Kill(p)
  BY <1>18 DEF Kill, Fresh
<1> QED
  BY <1>1, <1>2, <1>3, <1>4, <1>5, <1>6, <1>7, <1>8, <1>9, <1>10, <1>11, <1>12, <1>13, <1>14, <1>15, <1>16, <1>17, <1>18 DEF Acts

-------------------------------------------------------------------------------
(* Types and lists *)

LEMMA ShapeStart == Init => ShapeInv /\ ListInv /\ TypeOK
<1> SUFFICES ASSUME Init PROVE ShapeInv /\ ListInv /\ TypeOK
  OBVIOUS
<1> USE ScriptAssumption DEF Init
<1>1. <<>> \in Seq(AllJobs) /\ <<>> \in Seq(Listed(<<>>)) /\ Len(<<>>) = 0 /\ <<>> \in Lists
  BY Files
<1>2. ShapeInv
  BY <1>1 DEF ShapeInv
<1>3. ListInv
  BY <1>1 DEF ListInv, Reading
<1>4. TypeOK
  BY <1>1 DEF TypeOK, PCs
<1> QED
  BY <1>2, <1>3, <1>4

(* A read of the list leaves a part of it. *)
LEMMA NextJob ==
    ASSUME TypeOK, ShapeInv, ListInv, NEW p \in Processes, jobs[p] # <<>>
    PROVE  /\ Head(jobs[p]) \in Listed(list[p]) /\ Head(jobs[p]) \in AllJobs
           /\ Tail(jobs[p]) \in Seq(Listed(list[p])) /\ Tail(jobs[p]) \in Seq(AllJobs)
           /\ Len(Tail(jobs[p])) <= Len(list[p])
           /\ Head(jobs[p]).name \in DOMAIN Containers
<1>1. jobs[p] \in Seq(Listed(list[p])) /\ jobs[p] \in Seq(AllJobs) /\ Len(jobs[p]) <= Len(list[p])
  BY DEF ListInv, Reading, ShapeInv
<1>2. list[p] \in Seq(AllJobs)
  BY Files, SeqsInSets DEF ShapeInv
<1>3. Len(list[p]) \in Nat
  BY <1>2
<1>4. /\ Head(jobs[p]) \in Listed(list[p]) /\ Tail(jobs[p]) \in Seq(Listed(list[p]))
      /\ Len(jobs[p]) \in Nat /\ Len(Tail(jobs[p])) = Len(jobs[p]) - 1
  BY <1>1, OneJob
<1>5. Head(jobs[p]) \in AllJobs /\ Tail(jobs[p]) \in Seq(AllJobs)
  BY <1>1, OneJob
<1> QED
  BY <1>1, <1>3, <1>4, <1>5, Files

LEMMA ShapeStep ==
    ASSUME TypeOK, ShapeInv, ListInv, NEW p \in Processes, Acts(p)
    PROVE  ShapeInv'
<1> USE DEF ShapeInv, locals
<1>0. <<>> \in Lists /\ \A l \in Lists : l \in Seq(AllJobs)
  BY Files, SeqsInSets
<1>1. CASE Start(p)
  BY <1>1 DEF Start, Goto
<1>2. CASE Refused(p)
  BY <1>2 DEF Refused, Goto
<1>3. CASE AcquireLock(p)
  BY <1>3 DEF AcquireLock, Goto
<1>4. CASE Clean(p)
  BY <1>4 DEF Clean, Goto
<1>5. CASE Probe(p)
  BY <1>5 DEF Probe, Trip, ExitTrapped, Alert
<1>6. CASE CheckSpace(p)
  BY <1>6 DEF CheckSpace, ExitTrapped, Alert
<1>7. CASE ReadJobs(p)
  <2>f. PICK f \in JobFiles : \E n \in 0 .. Len(f) :
           /\ list' = [list EXCEPT ![p] = SubSeq(f, 1, n)]
           /\ jobs' = [jobs EXCEPT ![p] = SubSeq(f, 1, n)]
    BY <1>7 DEF ReadJobs
  <2>1. PICK n \in 0 .. Len(f) :
           /\ list' = [list EXCEPT ![p] = SubSeq(f, 1, n)]
           /\ jobs' = [jobs EXCEPT ![p] = SubSeq(f, 1, n)]
    BY <2>f
  <2>2. SubSeq(f, 1, n) \in Lists
    BY Prefixes
  <2> HIDE DEF ShapeInv
  <2>3. UNCHANGED excludes
    BY <1>7 DEF ReadJobs
  <2> QED
    BY <1>0, <2>1, <2>2, <2>3 DEF ShapeInv
<1>8. CASE SkipJob(p)
  BY <1>8, NextJob DEF SkipJob
<1>9. CASE DumpJob(p)
  <2>1. CASE UNCHANGED <<jobs, list, excludes>>
    BY <2>1
  <2>2. CASE ~UNCHANGED <<jobs, list, excludes>>
    <3> DEFINE j == Head(jobs[p])
    <3>1. /\ jobs[p] # <<>> /\ Dumpable(j) /\ UNCHANGED list
          /\ excludes' = [excludes EXCEPT ![p] = @ \cup {j.data}]
          /\ jobs' = [jobs EXCEPT ![p] = Tail(@)]
      BY <1>9, <2>2 DEF DumpJob, Die, Trip
    <3>2. j \in AllJobs /\ Tail(jobs[p]) \in Seq(AllJobs)
      BY <3>1, NextJob
    <3> QED
      BY <3>1, <3>2
  <2> QED
    BY <2>1, <2>2
<1>10. CASE JobsDone(p)
  BY <1>10 DEF JobsDone, Goto
<1>11. CASE Upload(p)
  BY <1>11 DEF Upload, Trip, ExitTrapped, Alert
<1>12. CASE Forget(p)
  BY <1>12 DEF Forget, Trip, ExitTrapped, Alert
<1>13. CASE Check(p)
  BY <1>13 DEF Check, Trip, ExitTrapped, Alert
<1>14. CASE RecordSuccess(p)
  BY <1>14 DEF RecordSuccess, Goto
<1>15. CASE Leave(p)
  BY <1>15 DEF Leave, Goto
<1>16. CASE Close(p)
  BY <1>0, <1>16 DEF Close, Fresh
<1>17. CASE Interrupt(p)
  BY <1>17 DEF Interrupt, Die, ExitTrapped
<1>18. CASE Kill(p)
  BY <1>0, <1>18 DEF Kill, Fresh
<1> QED
  BY <1>1, <1>2, <1>3, <1>4, <1>5, <1>6, <1>7, <1>8, <1>9, <1>10, <1>11, <1>12, <1>13, <1>14, <1>15, <1>16, <1>17, <1>18 DEF Acts

LEMMA ListStep ==
    ASSUME TypeOK, ShapeInv, ListInv, NEW p \in Processes, Acts(p)
    PROVE  ListInv'
<1> SUFFICES Reading(p)'
  BY OthersKeep DEF ListInv, Reading
<1> Reading(p)
  BY DEF ListInv
<1> USE DEF Reading, TypeOK, ShapeInv, Unread, locals
<1>0. <<>> \in Seq(Listed(<<>>)) /\ Len(<<>>) = 0
  OBVIOUS
<1>1. CASE Start(p)
  BY <1>1 DEF Start, Goto
<1>2. CASE Refused(p)
  BY <1>2 DEF Refused, Goto
<1>3. CASE AcquireLock(p)
  BY <1>3 DEF AcquireLock, Goto
<1>4. CASE Clean(p)
  BY <1>4 DEF Clean, Goto
<1>5. CASE Probe(p)
  BY <1>5 DEF Probe, Trip, ExitTrapped, Alert
<1>6. CASE CheckSpace(p)
  BY <1>6 DEF CheckSpace, ExitTrapped, Alert
<1>7. CASE ReadJobs(p)
  <2>f. PICK f \in JobFiles : \E n \in 0 .. Len(f) :
           /\ list' = [list EXCEPT ![p] = SubSeq(f, 1, n)]
           /\ jobs' = [jobs EXCEPT ![p] = SubSeq(f, 1, n)]
    BY <1>7 DEF ReadJobs
  <2>1. PICK n \in 0 .. Len(f) :
           /\ list' = [list EXCEPT ![p] = SubSeq(f, 1, n)]
           /\ jobs' = [jobs EXCEPT ![p] = SubSeq(f, 1, n)]
    BY <2>f
  <2> DEFINE l == SubSeq(f, 1, n)
  <2>2. l \in Seq(Listed(l))
    BY Prefixes
  <2>3. list'[p] = l /\ jobs'[p] = l /\ pc'[p] = "jobs"
    BY <1>7, <2>1 DEF ReadJobs, Goto
  <2> HIDE DEF l
  <2>4. Len(l) \in Nat
    BY <2>2
  <2> QED
    BY <2>2, <2>3, <2>4
<1>8. CASE SkipJob(p)
  BY <1>8, NextJob DEF SkipJob
<1>9. CASE DumpJob(p)
  <2>1. /\ jobs'[p] \in {jobs[p], Tail(jobs[p])} /\ list'[p] = list[p]
        /\ pc'[p] \notin Unread \cup {"upload"}
    BY <1>9 DEF DumpJob, Die, Trip, ExitTrapped, Alert
  <2>2. jobs'[p] \in Seq(Listed(list[p])) /\ Len(jobs'[p]) <= Len(list[p])
    BY <1>9, <2>1, NextJob DEF DumpJob
  <2> QED
    BY <2>1, <2>2
<1>10. CASE JobsDone(p)
  BY <1>10 DEF JobsDone, Goto
<1>11. CASE Upload(p)
  BY <1>11 DEF Upload, Trip, ExitTrapped, Alert
<1>12. CASE Forget(p)
  BY <1>12 DEF Forget, Trip, ExitTrapped, Alert
<1>13. CASE Check(p)
  BY <1>13 DEF Check, Trip, ExitTrapped, Alert
<1>14. CASE RecordSuccess(p)
  BY <1>14 DEF RecordSuccess, Goto
<1>15. CASE Leave(p)
  BY <1>15 DEF Leave, Goto
<1>16. CASE Close(p)
  BY <1>0, <1>16 DEF Close, Fresh
<1>17. CASE Interrupt(p)
  BY <1>17 DEF Interrupt, Die, ExitTrapped
<1>18. CASE Kill(p)
  BY <1>0, <1>18 DEF Kill, Fresh
<1> QED
  BY <1>1, <1>2, <1>3, <1>4, <1>5, <1>6, <1>7, <1>8, <1>9, <1>10, <1>11, <1>12, <1>13, <1>14, <1>15, <1>16, <1>17, <1>18 DEF Acts

(* A script inside the lock has a number, which the next one will exceed.    *)
LEMMA Numbered ==
    ASSUME TypeOK, LockInv, NEW p \in Processes, lock = p
    PROVE  run[p] \in 1 .. MaxRuns /\ run[p] = count
  BY ScriptAssumption DEF TypeOK, LockInv, Locked

LEMMA TypeStep ==
    ASSUME TypeOK, ShapeInv, ListInv, LockInv, NEW p \in Processes, Acts(p)
    PROVE  TypeOK'
<1> USE ScriptAssumption, Shapes
<1>a. /\ \A q \in Processes : list'[q] \in Lists /\ Len(jobs'[q]) <= Len(list'[q])
      /\ Locked(p) /\ run[p] \in 0 .. MaxRuns /\ (lock = p => run[p] \in 1 .. MaxRuns)
  BY ShapeStep, ListStep, Numbered DEF ShapeInv, ListInv, Reading, LockInv, TypeOK
<1> USE <1>a DEF TypeOK, Locked, Inside, Trapped, PCs, locals, marks, ghosts
<1>1. CASE Start(p)
  BY <1>1 DEF Start, Goto
<1>2. CASE Refused(p)
  BY <1>2 DEF Refused, Goto
<1>3. CASE AcquireLock(p)
  BY <1>3 DEF AcquireLock, Goto
<1>4. CASE Clean(p)
  BY <1>4 DEF Clean, Goto
<1>5. CASE Probe(p)
  BY <1>5 DEF Probe, Trip, ExitTrapped, Alert
<1>6. CASE CheckSpace(p)
  BY <1>6 DEF CheckSpace, ExitTrapped, Alert
<1>7. CASE ReadJobs(p)
  BY <1>7 DEF ReadJobs, Goto, Alert
<1>8. CASE SkipJob(p)
  BY <1>8 DEF SkipJob
<1>9. CASE DumpJob(p)
  <2>1. staging' \subseteq Dumps
    <3>1. jobs[p] # <<>> /\ run[p] \in 1 .. MaxRuns
      BY <1>9 DEF DumpJob
    <3>2. <<run[p], Head(jobs[p]).name>> \in Dumps
      BY <3>1, NextJob DEF Dumps
    <3> QED
      BY <1>9, <3>2 DEF DumpJob, Die, Trip
  <2> QED
    BY <1>9, <2>1 DEF DumpJob, Die, Trip, ExitTrapped, Alert
<1>10. CASE JobsDone(p)
  BY <1>10 DEF JobsDone, Goto
<1>11. CASE Upload(p)
  <2>1. snapshots' \subseteq Snapshots
    <3>1. run[p] \in 1 .. MaxRuns
      BY <1>11 DEF Upload
    <3>2. /\ excludes[p] \subseteq {j.data : j \in AllJobs} /\ list[p] \in Lists
          /\ Uploaded(HiddenPaths(p)) \subseteq Dumps
      BY DEF ShapeInv, Uploaded
    <3>3. [run |-> run[p], list |-> list[p], hidden |-> HiddenPaths(p),
           dumps |-> Uploaded(HiddenPaths(p))] \in Snapshots
      BY <3>1, <3>2 DEF Snapshots, HiddenPaths, AllJobs, Listed
    <3> QED
      BY <1>11, <3>3 DEF Upload, Trip
  <2> QED
    BY <1>11, <2>1 DEF Upload, Trip, ExitTrapped, Alert
<1>12. CASE Forget(p)
  BY <1>12 DEF Forget, Trip, ExitTrapped, Alert
<1>13. CASE Check(p)
  BY <1>13 DEF Check, Trip, ExitTrapped, Alert
<1>14. CASE RecordSuccess(p)
  BY <1>14 DEF RecordSuccess, Goto
<1>15. CASE Leave(p)
  BY <1>15 DEF Leave, Goto
<1>16. CASE Close(p)
  BY <1>16 DEF Close, Goto, Fresh
<1>17. CASE Interrupt(p)
  BY <1>17 DEF Interrupt, Die, ExitTrapped
<1>18. CASE Kill(p)
  <2>1. killed' \subseteq 1 .. MaxRuns
    BY <1>18 DEF Kill
  <2> QED
    BY <1>18, <2>1 DEF Kill, Fresh
<1> QED
  BY <1>1, <1>2, <1>3, <1>4, <1>5, <1>6, <1>7, <1>8, <1>9, <1>10, <1>11, <1>12, <1>13, <1>14, <1>15, <1>16, <1>17, <1>18 DEF Acts

-------------------------------------------------------------------------------
(* The staging area *)

(* Who does not hold the lock leaves the staging area, the snapshots and the *)
(* marks alone: it can only ask, be refused, end or be killed.               *)
LEMMA Outsiders ==
    ASSUME TypeOK, ShapeInv, LockInv, NEW p \in Processes, Acts(p), lock # p
    PROVE  UNCHANGED <<staging, snapshots, marks>>
<1> Locked(p)
  BY DEF LockInv
<1> USE DEF Locked, TypeOK, Inside, Trapped, locals, marks, ghosts
<1>1. CASE Start(p)
  BY <1>1 DEF Start, Goto
<1>2. CASE Refused(p)
  BY <1>2 DEF Refused, Goto
<1>3. CASE AcquireLock(p)
  BY <1>3 DEF AcquireLock, Goto
<1>4. CASE Clean(p)
  BY <1>4 DEF Clean, Goto
<1>5. CASE Probe(p)
  BY <1>5 DEF Probe, Trip, ExitTrapped, Alert
<1>6. CASE CheckSpace(p)
  BY <1>6 DEF CheckSpace, ExitTrapped, Alert
<1>7. CASE ReadJobs(p)
  BY <1>7 DEF ReadJobs, Goto, Alert
<1>8. CASE SkipJob(p)
  BY <1>8 DEF SkipJob
<1>9. CASE DumpJob(p)
  BY <1>9 DEF DumpJob, Die, Trip, ExitTrapped, Alert
<1>10. CASE JobsDone(p)
  BY <1>10 DEF JobsDone, Goto
<1>11. CASE Upload(p)
  BY <1>11 DEF Upload, Trip, ExitTrapped, Alert
<1>12. CASE Forget(p)
  BY <1>12 DEF Forget, Trip, ExitTrapped, Alert
<1>13. CASE Check(p)
  BY <1>13 DEF Check, Trip, ExitTrapped, Alert
<1>14. CASE RecordSuccess(p)
  BY <1>14 DEF RecordSuccess, Goto
<1>15. CASE Leave(p)
  BY <1>15 DEF Leave, Goto
<1>16. CASE Close(p)
  BY <1>16 DEF Close, Goto, Fresh
<1>17. CASE Interrupt(p)
  BY <1>17 DEF Interrupt, Die, ExitTrapped
<1>18. CASE Kill(p)
  BY <1>18 DEF Kill, Fresh
<1> QED
  BY <1>1, <1>2, <1>3, <1>4, <1>5, <1>6, <1>7, <1>8, <1>9, <1>10, <1>11, <1>12, <1>13, <1>14, <1>15, <1>16, <1>17, <1>18 DEF Acts

(* A script that reads its list or uploads holds the lock.                   *)
LEMMA ReadersHold ==
    ASSUME LockInv, NEW p \in Processes,
           pc[p] \in {"clean", "probe", "space", "read", "jobs", "upload"}
    PROVE  lock = p
  BY DEF LockInv, Locked, Inside, Trapped

LEMMA ExcludeStep ==
    ASSUME TypeOK, ShapeInv, ListInv, LockInv, ExcludeInv, NEW p \in Processes, Acts(p)
    PROVE  ExcludeInv'
<1> SUFFICES ASSUME NEW q \in Processes, NEW e \in excludes'[q]
             PROVE  \E j \in Listed(list'[q]) :
                       /\ Dumpable(j) /\ j.data = e
                       /\ pc'[q] \in {"jobs", "upload"} => <<run'[q], j.name>> \in staging'
  BY DEF ExcludeInv, Dumpable, ReadsEnabled
<1>a. CASE q # p
  <2>1. pc'[q] = pc[q] /\ run'[q] = run[q] /\ list'[q] = list[q] /\ excludes'[q] = excludes[q]
    BY <1>a, OthersKeep
  <2>2. pc[q] \in {"jobs", "upload"} => staging' = staging
    BY <1>a, ReadersHold, Outsiders
  <2> QED
    BY <2>1, <2>2 DEF ExcludeInv
<1>b. CASE q = p
  <2> USE <1>b DEF TypeOK, ShapeInv, locals
  <2>1. CASE e \notin excludes[p]
    <3> DEFINE h == Head(jobs[p])
    <3>1. /\ DumpJob(p) /\ e = h.data /\ Dumpable(h) /\ jobs[p] # <<>>
          /\ staging' = staging \cup {<<run[p], h.name>>} /\ run' = run /\ list' = list
      <4>1. CASE Start(p)
        BY <2>1, <4>1 DEF Start, Goto
      <4>2. CASE Refused(p)
        BY <2>1, <4>2 DEF Refused, Goto
      <4>3. CASE AcquireLock(p)
        BY <2>1, <4>3 DEF AcquireLock, Goto
      <4>4. CASE Clean(p)
        BY <2>1, <4>4 DEF Clean, Goto
      <4>5. CASE Probe(p)
        BY <2>1, <4>5 DEF Probe, Trip, ExitTrapped, Alert
      <4>6. CASE CheckSpace(p)
        BY <2>1, <4>6 DEF CheckSpace, ExitTrapped, Alert
      <4>7. CASE ReadJobs(p)
        BY <2>1, <4>7 DEF ReadJobs, Goto, Alert
      <4>8. CASE SkipJob(p)
        BY <2>1, <4>8 DEF SkipJob
      <4>9. CASE DumpJob(p)
        BY <2>1, <4>9 DEF DumpJob, Die, Trip, ExitTrapped, Alert
      <4>10. CASE JobsDone(p)
        BY <2>1, <4>10 DEF JobsDone, Goto
      <4>11. CASE Upload(p)
        BY <2>1, <4>11 DEF Upload, Trip, ExitTrapped, Alert
      <4>12. CASE Forget(p)
        BY <2>1, <4>12 DEF Forget, Trip, ExitTrapped, Alert
      <4>13. CASE Check(p)
        BY <2>1, <4>13 DEF Check, Trip, ExitTrapped, Alert
      <4>14. CASE RecordSuccess(p)
        BY <2>1, <4>14 DEF RecordSuccess, Goto
      <4>15. CASE Leave(p)
        BY <2>1, <4>15 DEF Leave, Goto
      <4>16. CASE Close(p)
        BY <2>1, <4>16 DEF Close, Goto, Fresh
      <4>17. CASE Interrupt(p)
        BY <2>1, <4>17 DEF Interrupt, Die, ExitTrapped
      <4>18. CASE Kill(p)
        BY <2>1, <4>18 DEF Kill, Fresh
      <4> QED
        BY <4>1, <4>2, <4>3, <4>4, <4>5, <4>6, <4>7, <4>8, <4>9, <4>10, <4>11, <4>12, <4>13, <4>14, <4>15, <4>16, <4>17, <4>18 DEF Acts
    <3>2. h \in Listed(list[p])
      BY <3>1, NextJob
    <3> QED
      BY <3>1, <3>2
  <2>2. CASE e \in excludes[p]
    <3>1. PICK j \in Listed(list[p]) :
             /\ Dumpable(j) /\ j.data = e
             /\ pc[p] \in {"jobs", "upload"} => <<run[p], j.name>> \in staging
      BY <2>2 DEF ExcludeInv
    <3>2. excludes[p] # {} /\ pc[p] \notin Unread
      BY <2>2 DEF ListInv, Reading
    <3>3. list'[p] = list[p] /\ excludes'[p] # {}
      <4>1. ~Close(p) /\ ~Kill(p)
        BY DEF Close, Kill, Fresh
      <4>2. ~ReadJobs(p)
        BY <3>2 DEF ReadJobs, Goto, Unread
      <4> QED
        BY <4>1, <4>2 DEF Acts, Start, Refused, AcquireLock, Clean, Probe, CheckSpace, SkipJob, DumpJob,
              JobsDone, Upload, Forget, Check, RecordSuccess, Leave, Interrupt, Die, Trip
    <3>4. pc'[p] \in {"jobs", "upload"} =>
             /\ pc[p] \in {"jobs", "upload"} /\ run'[p] = run[p] /\ staging \subseteq staging'
      <4> USE <3>2 DEF Unread
      <4>1. CASE Start(p)
        BY <4>1 DEF Start, Goto
      <4>2. CASE Refused(p)
        BY <4>2 DEF Refused, Goto
      <4>3. CASE AcquireLock(p)
        BY <4>3 DEF AcquireLock, Goto
      <4>4. CASE Clean(p)
        BY <4>4 DEF Clean, Goto
      <4>5. CASE Probe(p)
        BY <4>5 DEF Probe, Trip, ExitTrapped, Alert
      <4>6. CASE CheckSpace(p)
        BY <4>6 DEF CheckSpace, ExitTrapped, Alert
      <4>7. CASE ReadJobs(p)
        BY <4>7 DEF ReadJobs, Goto, Alert
      <4>8. CASE SkipJob(p)
        BY <4>8 DEF SkipJob
      <4>9. CASE DumpJob(p)
        BY <4>9 DEF DumpJob, Die, Trip, ExitTrapped, Alert
      <4>10. CASE JobsDone(p)
        BY <4>10 DEF JobsDone, Goto
      <4>11. CASE Upload(p)
        BY <4>11 DEF Upload, Trip, ExitTrapped, Alert
      <4>12. CASE Forget(p)
        BY <4>12 DEF Forget, Trip, ExitTrapped, Alert
      <4>13. CASE Check(p)
        BY <4>13 DEF Check, Trip, ExitTrapped, Alert
      <4>14. CASE RecordSuccess(p)
        BY <4>14 DEF RecordSuccess, Goto
      <4>15. CASE Leave(p)
        BY <4>15 DEF Leave, Goto
      <4>16. CASE Close(p)
        BY <4>16 DEF Close, Goto, Fresh
      <4>17. CASE Interrupt(p)
        BY <4>17 DEF Interrupt, Die, ExitTrapped
      <4>18. CASE Kill(p)
        BY <4>18 DEF Kill, Fresh
      <4> QED
        BY <4>1, <4>2, <4>3, <4>4, <4>5, <4>6, <4>7, <4>8, <4>9, <4>10, <4>11, <4>12, <4>13, <4>14, <4>15, <4>16, <4>17, <4>18 DEF Acts
    <3> QED
      BY <3>1, <3>3, <3>4
  <2> QED
    BY <2>1, <2>2
<1> QED
  BY <1>a, <1>b

(* Only the script itself takes the lock for it or gives it back.            *)
LEMMA LockMoves ==
    ASSUME TypeOK, LockInv, NEW p \in Processes, Acts(p)
    PROVE  /\ lock # Nobody /\ lock # p => lock' = lock
           /\ lock' \in {lock, p, Nobody}
           /\ lock = p => \/ lock' = p /\ run'[p] = run[p] /\ killed' = killed
                          \/ lock' = Nobody /\ Close(p)
                          \/ lock' = Nobody /\ Kill(p) /\ killed' = killed \cup {run[p]}
           /\ killed \subseteq killed'
<1> Locked(p)
  BY DEF LockInv
<1> USE Shapes DEF Locked, TypeOK, locals, marks, ghosts
<1>1. CASE Start(p)
  BY <1>1 DEF Start, Goto
<1>2. CASE Refused(p)
  BY <1>2 DEF Refused, Goto
<1>3. CASE AcquireLock(p)
  BY <1>3 DEF AcquireLock, Goto
<1>4. CASE Clean(p)
  BY <1>4 DEF Clean, Goto
<1>5. CASE Probe(p)
  BY <1>5 DEF Probe, Trip, ExitTrapped, Alert
<1>6. CASE CheckSpace(p)
  BY <1>6 DEF CheckSpace, ExitTrapped, Alert
<1>7. CASE ReadJobs(p)
  BY <1>7 DEF ReadJobs, Goto, Alert
<1>8. CASE SkipJob(p)
  BY <1>8 DEF SkipJob
<1>9. CASE DumpJob(p)
  BY <1>9 DEF DumpJob, Die, Trip, ExitTrapped, Alert
<1>10. CASE JobsDone(p)
  BY <1>10 DEF JobsDone, Goto
<1>11. CASE Upload(p)
  BY <1>11 DEF Upload, Trip, ExitTrapped, Alert
<1>12. CASE Forget(p)
  BY <1>12 DEF Forget, Trip, ExitTrapped, Alert
<1>13. CASE Check(p)
  BY <1>13 DEF Check, Trip, ExitTrapped, Alert
<1>14. CASE RecordSuccess(p)
  BY <1>14 DEF RecordSuccess, Goto
<1>15. CASE Leave(p)
  BY <1>15 DEF Leave, Goto
<1>16. CASE Close(p)
  BY <1>16 DEF Close, Goto, Fresh
<1>17. CASE Interrupt(p)
  BY <1>17 DEF Interrupt, Die, ExitTrapped
<1>18. CASE Kill(p)
  BY <1>18 DEF Kill, Fresh
<1> QED
  BY <1>1, <1>2, <1>3, <1>4, <1>5, <1>6, <1>7, <1>8, <1>9, <1>10, <1>11, <1>12, <1>13, <1>14, <1>15, <1>16, <1>17, <1>18 DEF Acts

LEMMA CleanStep ==
    ASSUME TypeOK, ShapeInv, LockInv, CleanInv, NEW p \in Processes, Acts(p)
    PROVE  CleanInv'
<1> SUFFICES ASSUME NEW q \in Backups PROVE Cleaned(q)'
  BY DEF CleanInv
<1>a. CASE q # p
  <2>1. q \in Processes /\ pc'[q] = pc[q] /\ run'[q] = run[q]
    BY <1>a, OthersKeep, Shapes
  <2>2. pc[q] \in {"probe", "space", "read", "jobs", "upload"} => staging' = staging
    BY <1>a, <2>1, ReadersHold, Outsiders
  <2>3. lock' = q => lock = q /\ staging' = staging
    BY <1>a, <2>1, LockMoves, Outsiders, Shapes
  <2> QED
    BY <2>1, <2>2, <2>3 DEF CleanInv, Cleaned
<1>b. CASE q = p
  <2> USE <1>b
  <2>a. Cleaned(p) /\ Locked(p)
    BY DEF CleanInv, LockInv
  <2>b. \A x : <<run[p], x>>[1] = run[p]
    OBVIOUS
  <2> USE <2>a, <2>b, Shapes DEF Cleaned, Locked, TypeOK, ShapeInv, Inside, Trapped, locals, marks, ghosts
  <2>1. CASE Start(p)
    BY <2>1 DEF Start, Goto
  <2>2. CASE Refused(p)
    BY <2>2 DEF Refused, Goto
  <2>3. CASE AcquireLock(p)
    BY <2>3 DEF AcquireLock, Goto
  <2>4. CASE Clean(p)
    BY <2>4 DEF Clean, Goto
  <2>5. CASE Probe(p)
    BY <2>5 DEF Probe, Trip, ExitTrapped, Alert
  <2>6. CASE CheckSpace(p)
    BY <2>6 DEF CheckSpace, ExitTrapped, Alert
  <2>7. CASE ReadJobs(p)
    BY <2>7 DEF ReadJobs, Goto, Alert
  <2>8. CASE SkipJob(p)
    BY <2>8 DEF SkipJob
  <2>9. CASE DumpJob(p)
    BY <2>9 DEF DumpJob, Die, Trip, ExitTrapped, Alert
  <2>10. CASE JobsDone(p)
    BY <2>10 DEF JobsDone, Goto
  <2>11. CASE Upload(p)
    BY <2>11 DEF Upload, Trip, ExitTrapped, Alert
  <2>12. CASE Forget(p)
    BY <2>12 DEF Forget, Trip, ExitTrapped, Alert
  <2>13. CASE Check(p)
    BY <2>13 DEF Check, Trip, ExitTrapped, Alert
  <2>14. CASE RecordSuccess(p)
    BY <2>14 DEF RecordSuccess, Goto
  <2>15. CASE Leave(p)
    BY <2>15 DEF Leave, Goto
  <2>16. CASE Close(p)
    BY <2>16 DEF Close, Goto, Fresh
  <2>17. CASE Interrupt(p)
    BY <2>17 DEF Interrupt, Die, ExitTrapped
  <2>18. CASE Kill(p)
    BY <2>18 DEF Kill, Fresh
  <2> QED
    BY <2>1, <2>2, <2>3, <2>4, <2>5, <2>6, <2>7, <2>8, <2>9, <2>10, <2>11, <2>12, <2>13, <2>14, <2>15, <2>16, <2>17, <2>18 DEF Acts
<1> QED
  BY <1>a, <1>b

(* Every dump in the staging area is of a killed run or of the holder's.     *)
LEMMA AccountStep ==
    ASSUME TypeOK, ShapeInv, LockInv, CleanInv, DumpsAreAccounted,
           NEW p \in Processes, Acts(p)
    PROVE  DumpsAreAccounted'
<1> SUFFICES ASSUME NEW d \in staging'
             PROVE  d[1] \in killed' \/ (lock' \in Backups /\ run'[lock'] = d[1])
  BY DEF DumpsAreAccounted
<1>1. killed \subseteq killed'
  BY LockMoves
<1>2. CASE lock # p
  <2>1. d \in staging
    BY <1>2, Outsiders
  <2>2. CASE d[1] \in killed
    BY <1>1, <2>2
  <2>3. CASE lock \in Backups /\ run[lock] = d[1]
    <3>1. lock # Nobody /\ lock \in Processes \ {p}
      BY <1>2, <2>3, Shapes
    <3>2. lock' = lock /\ run'[lock] = run[lock]
      BY <3>1, LockMoves, OthersKeep
    <3> QED
      BY <2>3, <3>2
  <2> QED
    BY <2>1, <2>2, <2>3 DEF DumpsAreAccounted
<1>3. CASE lock = p /\ p \notin Backups
  <2>1. d \in staging
    <3> pc[p] \in CheckPCs
      BY <1>3, Shapes DEF LockInv, Locked
    <3> USE <1>3 DEF CheckPCs, locals
    <3>1. CASE Start(p)
      BY <3>1 DEF Start, Goto
    <3>2. CASE Refused(p)
      BY <3>2 DEF Refused, Goto
    <3>3. CASE AcquireLock(p)
      BY <3>3 DEF AcquireLock, Goto
    <3>4. CASE Clean(p)
      BY <3>4 DEF Clean, Goto
    <3>5. CASE Probe(p)
      BY <3>5 DEF Probe, Trip, ExitTrapped, Alert
    <3>6. CASE CheckSpace(p)
      BY <3>6 DEF CheckSpace, ExitTrapped, Alert
    <3>7. CASE ReadJobs(p)
      BY <3>7 DEF ReadJobs, Goto, Alert
    <3>8. CASE SkipJob(p)
      BY <3>8 DEF SkipJob
    <3>9. CASE DumpJob(p)
      BY <3>9 DEF DumpJob, Die, Trip, ExitTrapped, Alert
    <3>10. CASE JobsDone(p)
      BY <3>10 DEF JobsDone, Goto
    <3>11. CASE Upload(p)
      BY <3>11 DEF Upload, Trip, ExitTrapped, Alert
    <3>12. CASE Forget(p)
      BY <3>12 DEF Forget, Trip, ExitTrapped, Alert
    <3>13. CASE Check(p)
      BY <3>13 DEF Check, Trip, ExitTrapped, Alert
    <3>14. CASE RecordSuccess(p)
      BY <3>14 DEF RecordSuccess, Goto
    <3>15. CASE Leave(p)
      BY <3>15 DEF Leave, Goto
    <3>16. CASE Close(p)
      BY <3>16 DEF Close, Goto, Fresh
    <3>17. CASE Interrupt(p)
      BY <3>17 DEF Interrupt, Die, ExitTrapped
    <3>18. CASE Kill(p)
      BY <3>18 DEF Kill, Fresh
    <3> QED
      BY <3>1, <3>2, <3>3, <3>4, <3>5, <3>6, <3>7, <3>8, <3>9, <3>10, <3>11, <3>12, <3>13, <3>14, <3>15, <3>16, <3>17, <3>18 DEF Acts
  <2> QED
    BY <1>1, <1>3, <2>1 DEF DumpsAreAccounted
<1>4. CASE lock = p /\ p \in Backups
  <2>1. d \in staging \/ d[1] = run[p]
    <3> USE DEF locals
    <3>1. CASE Start(p)
      BY <3>1 DEF Start, Goto
    <3>2. CASE Refused(p)
      BY <3>2 DEF Refused, Goto
    <3>3. CASE AcquireLock(p)
      BY <3>3 DEF AcquireLock, Goto
    <3>4. CASE Clean(p)
      BY <3>4 DEF Clean, Goto
    <3>5. CASE Probe(p)
      BY <3>5 DEF Probe, Trip, ExitTrapped, Alert
    <3>6. CASE CheckSpace(p)
      BY <3>6 DEF CheckSpace, ExitTrapped, Alert
    <3>7. CASE ReadJobs(p)
      BY <3>7 DEF ReadJobs, Goto, Alert
    <3>8. CASE SkipJob(p)
      BY <3>8 DEF SkipJob
    <3>9. CASE DumpJob(p)
      BY <3>9 DEF DumpJob, Die, Trip, ExitTrapped, Alert
    <3>10. CASE JobsDone(p)
      BY <3>10 DEF JobsDone, Goto
    <3>11. CASE Upload(p)
      BY <3>11 DEF Upload, Trip, ExitTrapped, Alert
    <3>12. CASE Forget(p)
      BY <3>12 DEF Forget, Trip, ExitTrapped, Alert
    <3>13. CASE Check(p)
      BY <3>13 DEF Check, Trip, ExitTrapped, Alert
    <3>14. CASE RecordSuccess(p)
      BY <3>14 DEF RecordSuccess, Goto
    <3>15. CASE Leave(p)
      BY <3>15 DEF Leave, Goto
    <3>16. CASE Close(p)
      BY <3>16 DEF Close, Goto, Fresh
    <3>17. CASE Interrupt(p)
      BY <3>17 DEF Interrupt, Die, ExitTrapped
    <3>18. CASE Kill(p)
      BY <3>18 DEF Kill, Fresh
    <3> QED
      BY <3>1, <3>2, <3>3, <3>4, <3>5, <3>6, <3>7, <3>8, <3>9, <3>10, <3>11, <3>12, <3>13, <3>14, <3>15, <3>16, <3>17, <3>18 DEF Acts
  <2>2. d \in staging => d[1] \in killed \/ d[1] = run[p]
    BY <1>4 DEF DumpsAreAccounted
  <2>3. ~Close(p)
    BY <1>4 DEF Close, Goto, CleanInv, Cleaned
  <2> QED
    BY <1>1, <1>4, <2>1, <2>2, <2>3, LockMoves
<1> QED
  BY <1>2, <1>3, <1>4

-------------------------------------------------------------------------------
(* Snapshots and marks *)

(* A snapshot has the dumps of its own run: only a backup uploads, and after *)
(* Phase 0 the staging area has no others.                                   *)
LEMMA FreshStep ==
    ASSUME TypeOK, LockInv, CleanInv, FreshDumpsOnly, NEW p \in Processes, Acts(p)
    PROVE  FreshDumpsOnly'
<1>1. CASE UNCHANGED snapshots
  BY <1>1 DEF FreshDumpsOnly
<1>2. CASE ~UNCHANGED snapshots
  <2>1. Upload(p)
    BY <1>2 DEF Acts, Start, Refused, AcquireLock, Clean, Probe, CheckSpace, ReadJobs, SkipJob, DumpJob,
          JobsDone, Forget, Check, RecordSuccess, Leave, Close, Interrupt, Kill, Die, Trip
  <2> DEFINE s == [run |-> run[p], list |-> list[p], hidden |-> HiddenPaths(p),
                   dumps |-> Uploaded(HiddenPaths(p))]
  <2>2. snapshots' = snapshots \cup {s} /\ pc[p] = "upload"
    BY <1>2, <2>1 DEF Upload, Trip
  <2>3. p \in Backups
    BY <2>2, Shapes DEF LockInv, Locked, CheckPCs
  <2>4. \A d \in s.dumps : d[1] = s.run
    BY <2>2, <2>3 DEF CleanInv, Cleaned, Uploaded
  <2> HIDE DEF s
  <2> QED
    BY <2>2, <2>4 DEF FreshDumpsOnly
<1> QED
  BY <1>1, <1>2

(* Marks are written by the holder of the lock, with its own number.         *)
LEMMA MarksStep ==
    ASSUME TypeOK, LockInv, MarkInv, NEW p \in Processes, Acts(p)
    PROVE  /\ MarkInv'
           /\ lastFailure' # lastFailure =>
                 lastFailure' = count \/ (lastFailure' = 0 /\ lastSuccess' = count)
           /\ lastSuccess' \in {lastSuccess, count}
<1>0. Locked(p) /\ run[p] \in Nat /\ count \in Nat /\ lastFailure \in Nat /\ lastSuccess \in Nat
  BY ScriptAssumption DEF LockInv, TypeOK
<1> USE <1>0 DEF Locked, MarkInv, Inside, Trapped, locals, marks, ghosts
<1>1. CASE Start(p)
  BY <1>1 DEF Start, Goto
<1>2. CASE Refused(p)
  BY <1>2 DEF Refused, Goto
<1>3. CASE AcquireLock(p)
  BY <1>3 DEF AcquireLock, Goto
<1>4. CASE Clean(p)
  BY <1>4 DEF Clean, Goto
<1>5. CASE Probe(p)
  BY <1>5 DEF Probe, Trip, ExitTrapped, Alert
<1>6. CASE CheckSpace(p)
  BY <1>6 DEF CheckSpace, ExitTrapped, Alert
<1>7. CASE ReadJobs(p)
  BY <1>7 DEF ReadJobs, Goto, Alert
<1>8. CASE SkipJob(p)
  BY <1>8 DEF SkipJob
<1>9. CASE DumpJob(p)
  BY <1>9 DEF DumpJob, Die, Trip, ExitTrapped, Alert
<1>10. CASE JobsDone(p)
  BY <1>10 DEF JobsDone, Goto
<1>11. CASE Upload(p)
  BY <1>11 DEF Upload, Trip, ExitTrapped, Alert
<1>12. CASE Forget(p)
  BY <1>12 DEF Forget, Trip, ExitTrapped, Alert
<1>13. CASE Check(p)
  BY <1>13 DEF Check, Trip, ExitTrapped, Alert
<1>14. CASE RecordSuccess(p)
  BY <1>14 DEF RecordSuccess, Goto
<1>15. CASE Leave(p)
  BY <1>15 DEF Leave, Goto
<1>16. CASE Close(p)
  BY <1>16 DEF Close, Goto, Fresh
<1>17. CASE Interrupt(p)
  BY <1>17 DEF Interrupt, Die, ExitTrapped
<1>18. CASE Kill(p)
  BY <1>18 DEF Kill, Fresh
<1> QED
  BY <1>1, <1>2, <1>3, <1>4, <1>5, <1>6, <1>7, <1>8, <1>9, <1>10, <1>11, <1>12, <1>13, <1>14, <1>15, <1>16, <1>17, <1>18 DEF Acts

-------------------------------------------------------------------------------
(* The theorems *)

LEMMA InvStart == Init => IInv
<1> SUFFICES ASSUME Init PROVE IInv
  OBVIOUS
<1>1. TypeOK /\ ShapeInv /\ ListInv
  BY ShapeStart
<1>2. LockInv
  BY LockStart
<1>3. ExcludeInv /\ CleanInv /\ MarkInv /\ DumpsAreAccounted /\ FreshDumpsOnly
  BY Shapes DEF Init, ExcludeInv, CleanInv, Cleaned, MarkInv, DumpsAreAccounted, FreshDumpsOnly
<1> QED
  BY <1>1, <1>2, <1>3 DEF IInv

LEMMA InvStep == IInv /\ [Next]_vars => IInv'
<1> SUFFICES ASSUME IInv, [Next]_vars PROVE IInv'
  OBVIOUS
<1> USE DEF IInv
<1>1. ASSUME NEW p \in Processes, Acts(p) PROVE IInv'
  <2>1. TypeOK' /\ ShapeInv' /\ ListInv' /\ LockInv'
    BY <1>1, TypeStep, ShapeStep, ListStep, LockStep
  <2>2. ExcludeInv' /\ CleanInv' /\ DumpsAreAccounted'
    BY <1>1, ExcludeStep, CleanStep, AccountStep
  <2>3. FreshDumpsOnly' /\ MarkInv'
    BY <1>1, FreshStep, MarksStep
  <2> QED
    BY <2>1, <2>2, <2>3
<1>2. CASE UNCHANGED vars
  <2> USE <1>2 DEF vars, locals, marks, ghosts
  <2>1. TypeOK'
    BY DEF TypeOK
  <2>2. ShapeInv' /\ ListInv' /\ LockInv'
    BY DEF ShapeInv, ListInv, Reading, LockInv, Locked
  <2>3. ExcludeInv' /\ CleanInv' /\ MarkInv'
    BY DEF ExcludeInv, Dumpable, ReadsEnabled, CleanInv, Cleaned, MarkInv
  <2>4. DumpsAreAccounted' /\ FreshDumpsOnly'
    BY DEF DumpsAreAccounted, FreshDumpsOnly
  <2> QED
    BY <2>1, <2>2, <2>3, <2>4
<1> QED
  BY <1>1, <1>2, Steps

LEMMA AlwaysInv == Spec => []IInv
  BY InvStart, InvStep, PTL DEF Spec

(* The variables always have their types. *)
THEOREM ScriptTypeCorrect == Spec => []TypeOK
  BY AlwaysInv, PTL DEF IInv

(* No two scripts are between acquire_lock and their last statement          *)
(* (common.sh:17-21): the lock file serialises them.                         *)
OneInside == \A p, q \in Processes : pc[p] \in Inside /\ pc[q] \in Inside => p = q

THEOREM OneScriptAtATime == Spec => []OneInside
<1>1. IInv => OneInside
  BY DEF IInv, OneInside, LockInv, Locked
<1> QED
  BY <1>1, AlwaysInv, PTL

(* A script that does not hold the lock, refused or killed or ending, leaves *)
(* the staging area, the snapshots and the marks of the one that does alone. *)
THEOREM OutsidersTouchNothing ==
    Spec => [][\A p \in Processes : Acts(p) /\ lock # p => UNCHANGED <<staging, snapshots, marks>>]_vars
<1>1. IInv => \A p \in Processes : Acts(p) /\ lock # p => UNCHANGED <<staging, snapshots, marks>>
  BY Outsiders DEF IInv
<1> QED
  BY <1>1, AlwaysInv, PTL DEF Spec

(* A place is hidden only for a dump (OwnDumpsSurvive without a hypothesis   *)
(* on the file): up to the upload, each excluded place is that of a listed   *)
(* job whose dump lies in the staging area.                                  *)
THEOREM ExcludedIsDumped == Spec => []ExcludeInv
  BY AlwaysInv, PTL DEF IInv

(* Nobody takes a run's dumps away before its upload (OwnDumpsSurvive).      *)
THEOREM OwnDumpsAreKept == OwnPlaces /\ Spec => []OwnDumpsSurvive
<1> SUFFICES ASSUME OwnPlaces PROVE Spec => []OwnDumpsSurvive
  OBVIOUS
<1>1. IInv => OwnDumpsSurvive
  <2> SUFFICES ASSUME IInv, NEW p \in Backups, pc[p] \in {"jobs", "upload"},
                      NEW i \in DOMAIN list[p], list[p][i].data \in excludes[p]
               PROVE  <<run[p], list[p][i].name>> \in staging
    BY DEF OwnDumpsSurvive
  <2>1. p \in Processes /\ list[p][i] \in Listed(list[p]) /\ list[p] \in Lists
    BY Shapes DEF Listed, IInv, ShapeInv
  <2>2. PICK k \in Listed(list[p]) :
           Dumpable(k) /\ k.data = list[p][i].data /\ <<run[p], k.name>> \in staging
    BY <2>1 DEF IInv, ExcludeInv
  <2>a. list[p] # <<>>
    BY <2>1 DEF Listed
  <2>3. PICK f \in JobFiles : Listed(list[p]) \subseteq Listed(f)
    BY <2>1, <2>a, Files
  <2>4. list[p][i].name = k.name
    BY <2>1, <2>2, <2>3 DEF OwnPlaces
  <2> QED
    BY <2>2, <2>4
<1> QED
  BY <1>1, AlwaysInv, PTL

(* A snapshot has no dumps but its own run's (FreshDumpsOnly), however       *)
(* earlier runs ended.                                                       *)
THEOREM SnapshotsAreFresh == Spec => []FreshDumpsOnly
  BY AlwaysInv, PTL DEF IInv

(* The dump of a hidden place is uploaded. *)
LEMMA DumpIsUploaded ==
    ASSUME StagingSeen, IInv, NEW p \in Processes, pc[p] = "upload",
           NEW k \in AllJobs, Dumpable(k), <<run[p], k.name>> \in staging
    PROVE  <<run[p], k.name>> \in Uploaded(HiddenPaths(p))
<1>1. ASSUME NEW e \in HiddenPaths(p) PROVE ~Within(Staging, e)
  <2>1. PICK j \in Listed(list[p]) : Dumpable(j) /\ j.data = e
    BY <1>1 DEF IInv, ExcludeInv, HiddenPaths
  <2>2. j \in AllJobs
    BY Files DEF IInv, ShapeInv
  <2> QED
    BY <2>1, <2>2 DEF StagingSeen
<1> QED
  BY <1>1 DEF StagingSeen, Uploaded

(* The upload of a run names in hidden only places whose dumps go with it.   *)
LEMMA UploadMissesNothing ==
    ASSUME OwnPlaces, StagingSeen, IInv, NothingFallsThrough, [Next]_vars
    PROVE  NothingFallsThrough'
<1>1. CASE UNCHANGED snapshots
  BY <1>1 DEF NothingFallsThrough, Reached
<1>2. CASE ~UNCHANGED snapshots
  <2>1. PICK p \in Processes : Acts(p)
    BY <1>2, Steps DEF vars
  <2>2. Upload(p)
    BY <1>2, <2>1 DEF Acts, Start, Refused, AcquireLock, Clean, Probe, CheckSpace, ReadJobs, SkipJob, DumpJob,
          JobsDone, Forget, Check, RecordSuccess, Leave, Close, Interrupt, Kill, Die, Trip
  <2> DEFINE s == [run |-> run[p], list |-> list[p], hidden |-> HiddenPaths(p),
                   dumps |-> Uploaded(HiddenPaths(p))]
  <2>3. snapshots' = snapshots \cup {s} /\ pc[p] = "upload"
    BY <1>2, <2>2 DEF Upload, Trip
  <2>4. ASSUME NEW i \in DOMAIN list[p], NEW e \in HiddenPaths(p),
               Within(list[p][i].raw, e) \/ Within(e, list[p][i].raw)
        PROVE  <<run[p], list[p][i].name>> \in Uploaded(HiddenPaths(p))
    <3>1. list[p][i] \in Listed(list[p]) /\ list[p] \in Lists
      BY DEF Listed, IInv, ShapeInv
    <3>2. PICK k \in Listed(list[p]) :
             Dumpable(k) /\ k.data = e /\ <<run[p], k.name>> \in staging
      BY <2>3, <2>4 DEF IInv, ExcludeInv, HiddenPaths
    <3>a. list[p] # <<>>
      BY <3>1 DEF Listed
    <3>3. PICK f \in JobFiles : Listed(list[p]) \subseteq Listed(f)
      BY <3>1, <3>a, Files
    <3>4. list[p][i].name = k.name
      BY <2>4, <3>1, <3>2, <3>3 DEF OwnPlaces
    <3>5. k \in AllJobs
      BY <3>1, Files
    <3> QED
      BY <2>3, <3>2, <3>4, <3>5, DumpIsUploaded
  <2>5. \A i \in DOMAIN s.list :
           \/ \A e \in s.hidden : ~Within(s.list[i].raw, e) /\ ~Within(e, s.list[i].raw)
           \/ <<s.run, s.list[i].name>> \in s.dumps
    BY <2>4
  <2> HIDE DEF s
  <2>6. ASSUME NEW t \in snapshots', NEW i \in DOMAIN t.list
        PROVE  \/ ~Reached(t.list[i].raw)
               \/ \A e \in t.hidden : ~Within(t.list[i].raw, e) /\ ~Within(e, t.list[i].raw)
               \/ <<t.run, t.list[i].name>> \in t.dumps
    BY <2>3, <2>5 DEF NothingFallsThrough
  <2> QED
    BY <2>6 DEF NothingFallsThrough, Reached
<1> QED
  BY <1>1, <1>2

(* Switching dumps on never makes a snapshot poorer (NothingFallsThrough),   *)
(* while the dumps are uploaded and no data path covers another's files.     *)
THEOREM NothingIsMissed ==
    OwnPlaces /\ StagingSeen /\ Spec => []NothingFallsThrough
<1> SUFFICES ASSUME OwnPlaces, StagingSeen PROVE Spec => []NothingFallsThrough
  OBVIOUS
<1>1. Init => NothingFallsThrough
  BY DEF Init, NothingFallsThrough
<1>2. IInv /\ NothingFallsThrough /\ [Next]_vars => NothingFallsThrough'
  BY UploadMissesNothing
<1> QED
  BY <1>1, <1>2, AlwaysInv, PTL DEF Spec

(* Plain-text dumps lie about only for the run that has the lock, or after a *)
(* kill (DumpsAreAccounted).                                                 *)
THEOREM DumpsHaveAnOwner == Spec => []DumpsAreAccounted
  BY AlwaysInv, PTL DEF IInv

(* Neither mark goes back to an earlier run, and a failure goes away only    *)
(* for a later failure or a success (MarksMoveForward).                      *)
THEOREM MarksNeverGoBack == Spec => MarksMoveForward
<1> DEFINE Forward ==
        /\ lastFailure # 0 /\ lastFailure' # lastFailure =>
              lastFailure' > lastFailure \/ lastSuccess' >= lastFailure
        /\ lastSuccess' >= lastSuccess
<1>1. IInv /\ [Next]_vars => [Forward]_vars
  <2> SUFFICES ASSUME IInv, [Next]_vars, vars' # vars PROVE Forward
    OBVIOUS
  <2>1. PICK p \in Processes : Acts(p)
    BY Steps
  <2>2. /\ lastFailure \in Nat /\ lastSuccess \in Nat /\ count \in Nat
        /\ lastFailure <= count /\ lastSuccess <= count
    BY ScriptAssumption DEF IInv, TypeOK, MarkInv
  <2>3. /\ lastFailure' # lastFailure =>
              lastFailure' = count \/ (lastFailure' = 0 /\ lastSuccess' = count)
        /\ lastSuccess' \in {lastSuccess, count}
    BY <2>1, MarksStep DEF IInv
  <2> QED
    BY <2>2, <2>3
<1> QED
  BY <1>1, AlwaysInv, PTL DEF Spec, MarksMoveForward

-------------------------------------------------------------------------------
(* When the documents are right: a job whose database runs is dumped unless  *)
(* its data column is blank, and a run that had the lock announces its       *)
(* failure unless it ended by die or by a signal.                            *)

NoBlanks == \A j \in AllJobs : j.enabled => j.data # NoPath

(* A job that no condition of the script passes over. *)
Due(j) == j.enabled /\ j.type \in KnownTypes /\ Containers[j.name] = {"running"}

DueInv ==
    \A p \in Processes : pc[p] \in {"jobs", "upload"} =>
        \A j \in Listed(list[p]) :
            Due(j) => j \in Listed(jobs[p]) \/ <<run[p], j.name>> \in staging

LEMMA HeadAndTail ==
    ASSUME NEW S, NEW s \in Seq(S), s # <<>>
    PROVE  Listed(s) \subseteq {Head(s)} \cup Listed(Tail(s))
<1> SUFFICES ASSUME NEW i \in DOMAIN s PROVE s[i] = Head(s) \/ s[i] \in Listed(Tail(s))
  BY DEF Listed
<1>1. /\ Len(s) \in Nat /\ DOMAIN s = 1 .. Len(s) /\ Head(s) = s[1]
      /\ Tail(s) \in Seq(S) /\ Len(Tail(s)) = Len(s) - 1
      /\ \A k \in 1 .. Len(s) - 1 : Tail(s)[k] = s[k + 1]
  BY EmptySeq, HeadTailProperties
<1>2. CASE i = 1
  BY <1>1, <1>2
<1>3. CASE i # 1
  <2>1. i - 1 \in 1 .. Len(s) - 1 /\ (i - 1) + 1 = i
    BY <1>1, <1>3
  <2>2. i - 1 \in DOMAIN Tail(s) /\ Tail(s)[i - 1] = s[i]
    BY <1>1, <2>1
  <2> QED
    BY <2>2 DEF Listed
<1> QED
  BY <1>2, <1>3

LEMMA DueStep ==
    ASSUME NoBlanks, IInv, DueInv, NEW p \in Processes, Acts(p)
    PROVE  DueInv'
<1> USE DEF IInv
<1> SUFFICES ASSUME NEW q \in Processes, pc'[q] \in {"jobs", "upload"},
                    NEW j \in Listed(list'[q]), Due(j)
             PROVE  j \in Listed(jobs'[q]) \/ <<run'[q], j.name>> \in staging'
  BY DEF DueInv, Due
<1>a. CASE q # p
  <2>1. pc'[q] = pc[q] /\ run'[q] = run[q] /\ list'[q] = list[q] /\ jobs'[q] = jobs[q]
    BY <1>a, OthersKeep
  <2>2. staging' = staging
    BY <1>a, <2>1, ReadersHold, Outsiders
  <2> QED
    BY <2>1, <2>2 DEF DueInv
<1>b. CASE q = p
  <2>a. pc'[p] \in {"jobs", "upload"}
    BY <1>b
  <2>b. SkipJob(p) \/ DumpJob(p) \/ JobsDone(p) \/ ReadJobs(p)
    <3> USE <2>a DEF TypeOK
    <3>1. CASE Start(p)
      BY <3>1 DEF Start, Goto
    <3>2. CASE Refused(p)
      BY <3>2 DEF Refused, Goto
    <3>3. CASE AcquireLock(p)
      BY <3>3 DEF AcquireLock, Goto
    <3>4. CASE Clean(p)
      BY <3>4 DEF Clean, Goto
    <3>5. CASE Probe(p)
      BY <3>5 DEF Probe, Trip, ExitTrapped, Alert
    <3>6. CASE CheckSpace(p)
      BY <3>6 DEF CheckSpace, ExitTrapped, Alert
    <3>7. CASE ReadJobs(p)
      BY <3>7 DEF ReadJobs, Goto, Alert
    <3>8. CASE SkipJob(p)
      BY <3>8 DEF SkipJob
    <3>9. CASE DumpJob(p)
      BY <3>9 DEF DumpJob, Die, Trip, ExitTrapped, Alert
    <3>10. CASE JobsDone(p)
      BY <3>10 DEF JobsDone, Goto
    <3>11. CASE Upload(p)
      BY <3>11 DEF Upload, Trip, ExitTrapped, Alert
    <3>12. CASE Forget(p)
      BY <3>12 DEF Forget, Trip, ExitTrapped, Alert
    <3>13. CASE Check(p)
      BY <3>13 DEF Check, Trip, ExitTrapped, Alert
    <3>14. CASE RecordSuccess(p)
      BY <3>14 DEF RecordSuccess, Goto
    <3>15. CASE Leave(p)
      BY <3>15 DEF Leave, Goto
    <3>16. CASE Close(p)
      BY <3>16 DEF Close, Goto, Fresh
    <3>17. CASE Interrupt(p)
      BY <3>17 DEF Interrupt, Die, ExitTrapped
    <3>18. CASE Kill(p)
      BY <3>18 DEF Kill, Fresh
    <3> QED
      BY <3>1, <3>2, <3>3, <3>4, <3>5, <3>6, <3>7, <3>8, <3>9, <3>10, <3>11, <3>12, <3>13, <3>14, <3>15, <3>16, <3>17, <3>18 DEF Acts
  <2>1. CASE SkipJob(p)
    <3>1. /\ pc[p] = "jobs" /\ UNCHANGED <<list, run, staging>>
          /\ jobs[p] # <<>> /\ jobs'[p] = Tail(jobs[p]) /\ Skips(Head(jobs[p]))
      BY <2>1 DEF SkipJob, ShapeInv
    <3>2. Head(jobs[p]) \in AllJobs /\ Listed(jobs[p]) \subseteq {Head(jobs[p])} \cup Listed(Tail(jobs[p]))
      BY <3>1, NextJob, HeadAndTail DEF ShapeInv
    <3>3. ~Due(Head(jobs[p]))
      BY <3>1, <3>2 DEF Due, Skips, ReadsEnabled, NoBlanks
    <3> QED
      BY <1>b, <3>1, <3>2, <3>3 DEF DueInv
  <2>2. CASE DumpJob(p)
    <3>1. /\ pc[p] = "jobs" /\ UNCHANGED <<list, run>>
          /\ jobs[p] # <<>> /\ jobs'[p] = Tail(jobs[p])
          /\ staging' = staging \cup {<<run[p], Head(jobs[p]).name>>}
      BY <2>a, <2>2 DEF DumpJob, ShapeInv, TypeOK, Die, Trip, ExitTrapped
    <3>2. Listed(jobs[p]) \subseteq {Head(jobs[p])} \cup Listed(Tail(jobs[p]))
      BY <3>1, HeadAndTail DEF ShapeInv
    <3> QED
      BY <1>b, <3>1, <3>2 DEF DueInv
  <2>3. CASE JobsDone(p)
    BY <1>b, <2>3 DEF JobsDone, Goto, locals, DueInv
  <2>4. CASE ReadJobs(p)
    <3>1. list'[p] = jobs'[p]
      BY <2>4 DEF ReadJobs, ShapeInv
    <3> QED
      BY <1>b, <3>1
  <2> QED
    BY <2>b, <2>1, <2>2, <2>3, <2>4
<1> QED
  BY <1>a, <1>b

LEMMA UploadHasTheDue ==
    ASSUME NoBlanks, StagingSeen, IInv, DueInv, EnabledJobsAreDumped, [Next]_vars
    PROVE  EnabledJobsAreDumped'
<1>1. CASE UNCHANGED snapshots
  BY <1>1 DEF EnabledJobsAreDumped
<1>2. CASE ~UNCHANGED snapshots
  <2>1. PICK p \in Processes : Acts(p)
    BY <1>2, Steps DEF vars
  <2>2. Upload(p)
    BY <1>2, <2>1 DEF Acts, Start, Refused, AcquireLock, Clean, Probe, CheckSpace, ReadJobs, SkipJob, DumpJob,
          JobsDone, Forget, Check, RecordSuccess, Leave, Close, Interrupt, Kill, Die, Trip
  <2> DEFINE s == [run |-> run[p], list |-> list[p], hidden |-> HiddenPaths(p),
                   dumps |-> Uploaded(HiddenPaths(p))]
  <2>3. snapshots' = snapshots \cup {s} /\ pc[p] = "upload"
    BY <1>2, <2>2 DEF Upload, Trip
  <2>4. jobs[p] = <<>>
    BY <2>3 DEF IInv, ListInv, Reading
  <2>5. ASSUME NEW i \in DOMAIN list[p], Due(list[p][i])
        PROVE  <<run[p], list[p][i].name>> \in Uploaded(HiddenPaths(p))
    <3> DEFINE j == list[p][i]
    <3>1. j \in Listed(list[p]) /\ j \in AllJobs
      BY Files DEF Listed, IInv, ShapeInv
    <3>2. <<run[p], j.name>> \in staging
      BY <2>3, <2>4, <2>5, <3>1 DEF DueInv, Listed
    <3>3. Dumpable(j)
      BY <2>5, <3>1 DEF Due, Dumpable, ReadsEnabled, NoBlanks
    <3> HIDE DEF j
    <3>4. <<run[p], j.name>> \in Uploaded(HiddenPaths(p))
      BY <2>3, <3>1, <3>2, <3>3, DumpIsUploaded
    <3> QED
      BY <3>4 DEF j
  <2>6. \A i \in DOMAIN s.list : Due(s.list[i]) => <<s.run, s.list[i].name>> \in s.dumps
    BY <2>5
  <2> HIDE DEF s
  <2> QED
    BY <2>3, <2>6 DEF EnabledJobsAreDumped, Due
<1> QED
  BY <1>1, <1>2

(* The snapshot of an enabled job whose database runs has its dump, wherever *)
(* no enabled job leaves its data column blank and nothing that is excluded  *)
(* covers the staging area (EnabledJobsAreDumped).                           *)
THEOREM DueJobsAreDumped ==
    NoBlanks /\ StagingSeen /\ Spec => []EnabledJobsAreDumped
<1> SUFFICES ASSUME NoBlanks, StagingSeen PROVE Spec => []EnabledJobsAreDumped
  OBVIOUS
<1>1. Init => DueInv /\ EnabledJobsAreDumped
  BY DEF Init, DueInv, EnabledJobsAreDumped
<1>2. IInv /\ DueInv /\ [Next]_vars => DueInv'
  <2> SUFFICES ASSUME IInv, DueInv, [Next]_vars PROVE DueInv'
    OBVIOUS
  <2>1. CASE UNCHANGED vars
    BY <2>1 DEF vars, locals, DueInv, Due
  <2> QED
    BY <2>1, Steps, DueStep
<1>3. IInv /\ DueInv /\ EnabledJobsAreDumped /\ [Next]_vars => EnabledJobsAreDumped'
  BY UploadHasTheDue
<1> QED
  BY <1>1, <1>2, <1>3, AlwaysInv, PTL DEF Spec

(* Up to its EXIT trap a run has not failed, and then its failure has been   *)
(* announced, if it had the lock.                                            *)
Announced(p) ==
    /\ pc[p] \in Trapped \cup {"idle", "lock", "checking"} => result[p] = "ok"
    /\ pc[p] \in {"leaving", "closing"} /\ lock = p /\ result[p] = "failed" => alerted[p]
AnnouncedInv == \A p \in Processes : Announced(p)

LEMMA AnnouncedStep ==
    ASSUME Faults \cap {"dump", "interrupt"} = {}, TypeOK, ShapeInv, LockInv, AnnouncedInv,
           NEW p \in Processes, Acts(p)
    PROVE  AnnouncedInv'
<1> SUFFICES ASSUME NEW q \in Processes PROVE Announced(q)'
  BY DEF AnnouncedInv
<1>a. CASE q # p
  <2>1. pc'[q] = pc[q] /\ (lock' = q => lock = q)
    BY <1>a, OthersKeep, LockMoves, Shapes
  <2>2. result'[q] = result[q] /\ alerted'[q] = alerted[q]
    <3> USE <1>a DEF TypeOK, locals
    <3>1. CASE Start(p)
      BY <3>1 DEF Start, Goto
    <3>2. CASE Refused(p)
      BY <3>2 DEF Refused, Goto
    <3>3. CASE AcquireLock(p)
      BY <3>3 DEF AcquireLock, Goto
    <3>4. CASE Clean(p)
      BY <3>4 DEF Clean, Goto
    <3>5. CASE Probe(p)
      BY <3>5 DEF Probe, Trip, ExitTrapped, Alert
    <3>6. CASE CheckSpace(p)
      BY <3>6 DEF CheckSpace, ExitTrapped, Alert
    <3>7. CASE ReadJobs(p)
      BY <3>7 DEF ReadJobs, Goto, Alert
    <3>8. CASE SkipJob(p)
      BY <3>8 DEF SkipJob
    <3>9. CASE DumpJob(p)
      BY <3>9 DEF DumpJob, Die, Trip, ExitTrapped, Alert
    <3>10. CASE JobsDone(p)
      BY <3>10 DEF JobsDone, Goto
    <3>11. CASE Upload(p)
      BY <3>11 DEF Upload, Trip, ExitTrapped, Alert
    <3>12. CASE Forget(p)
      BY <3>12 DEF Forget, Trip, ExitTrapped, Alert
    <3>13. CASE Check(p)
      BY <3>13 DEF Check, Trip, ExitTrapped, Alert
    <3>14. CASE RecordSuccess(p)
      BY <3>14 DEF RecordSuccess, Goto
    <3>15. CASE Leave(p)
      BY <3>15 DEF Leave, Goto
    <3>16. CASE Close(p)
      BY <3>16 DEF Close, Goto, Fresh
    <3>17. CASE Interrupt(p)
      BY <3>17 DEF Interrupt, Die, ExitTrapped
    <3>18. CASE Kill(p)
      BY <3>18 DEF Kill, Fresh
    <3> QED
      BY <3>1, <3>2, <3>3, <3>4, <3>5, <3>6, <3>7, <3>8, <3>9, <3>10, <3>11, <3>12, <3>13, <3>14, <3>15, <3>16, <3>17, <3>18 DEF Acts
  <2> QED
    BY <2>1, <2>2 DEF AnnouncedInv, Announced
<1>b. CASE q = p
  <2>a. Announced(p) /\ Locked(p)
    BY DEF AnnouncedInv, LockInv
  <2> USE <1>b, <2>a DEF Announced, Locked, TypeOK, Inside, Trapped, locals, marks, ghosts
  <2>1. CASE Start(p)
    BY <2>1 DEF Start, Goto
  <2>2. CASE Refused(p)
    BY <2>2 DEF Refused, Goto
  <2>3. CASE AcquireLock(p)
    BY <2>3 DEF AcquireLock, Goto
  <2>4. CASE Clean(p)
    BY <2>4 DEF Clean, Goto
  <2>5. CASE Probe(p)
    BY <2>5 DEF Probe, Trip, ExitTrapped, Alert
  <2>6. CASE CheckSpace(p)
    BY <2>6 DEF CheckSpace, ExitTrapped, Alert
  <2>7. CASE ReadJobs(p)
    BY <2>7 DEF ReadJobs, Goto, Alert
  <2>8. CASE SkipJob(p)
    BY <2>8 DEF SkipJob
  <2>9. CASE DumpJob(p)
    BY <2>9 DEF DumpJob, Die, Trip, ExitTrapped, Alert
  <2>10. CASE JobsDone(p)
    BY <2>10 DEF JobsDone, Goto
  <2>11. CASE Upload(p)
    BY <2>11 DEF Upload, Trip, ExitTrapped, Alert
  <2>12. CASE Forget(p)
    BY <2>12 DEF Forget, Trip, ExitTrapped, Alert
  <2>13. CASE Check(p)
    BY <2>13 DEF Check, Trip, ExitTrapped, Alert
  <2>14. CASE RecordSuccess(p)
    BY <2>14 DEF RecordSuccess, Goto
  <2>15. CASE Leave(p)
    BY <2>15 DEF Leave, Goto
  <2>16. CASE Close(p)
    BY <2>16 DEF Close, Goto, Fresh
  <2>17. CASE Interrupt(p)
    BY <2>17 DEF Interrupt, Die, ExitTrapped
  <2>18. CASE Kill(p)
    BY <2>18 DEF Kill, Fresh
  <2> QED
    BY <2>1, <2>2, <2>3, <2>4, <2>5, <2>6, <2>7, <2>8, <2>9, <2>10, <2>11, <2>12, <2>13, <2>14, <2>15, <2>16, <2>17, <2>18 DEF Acts
<1> QED
  BY <1>a, <1>b

(* A run that had the lock and ends in failure has sent an alert             *)
(* (README.md:37), unless a dump died or a signal came: what script_alert.cfg*)
(* refutes comes from the die of a dump, a signal or a refused lock alone.   *)
THEOREM OtherFailuresAreAnnounced ==
    Faults \cap {"dump", "interrupt"} = {} /\ Spec =>
        [](\A p \in Processes :
              pc[p] = "closing" /\ result[p] = "failed" /\ lock = p => alerted[p])
<1> SUFFICES ASSUME Faults \cap {"dump", "interrupt"} = {}
             PROVE  Spec => [](\A p \in Processes :
                       pc[p] = "closing" /\ result[p] = "failed" /\ lock = p => alerted[p])
  OBVIOUS
<1>1. Init => AnnouncedInv
  BY DEF Init, AnnouncedInv, Announced
<1>2. IInv /\ AnnouncedInv /\ [Next]_vars => AnnouncedInv'
  <2> SUFFICES ASSUME IInv, AnnouncedInv, [Next]_vars PROVE AnnouncedInv'
    OBVIOUS
  <2>1. CASE UNCHANGED vars
    BY <2>1 DEF vars, locals, AnnouncedInv, Announced
  <2> QED
    BY <2>1, Steps, AnnouncedStep DEF IInv
<1>3. AnnouncedInv => \A p \in Processes :
         pc[p] = "closing" /\ result[p] = "failed" /\ lock = p => alerted[p]
  BY DEF AnnouncedInv, Announced
<1> QED
  BY <1>1, <1>2, <1>3, AlwaysInv, PTL DEF Spec
===============================================================================
