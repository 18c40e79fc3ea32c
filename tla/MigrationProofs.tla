--------------------------- MODULE MigrationProofs ----------------------------
(***************************************************************************)
(* Theorems about Migration, for any remotes, paths, requests and backups:  *)
(* the gate, what a migration carries before it switches, where a restart   *)
(* comes up, and that no snapshot is lost.  Each names what it assumes of   *)
(* the faults and of the locations.                                         *)
(***************************************************************************)
EXTENDS Migration, SequenceTheorems, TLAPS

(* The locations a migration reads and is asked for are locations.          *)
LEMMA Places ==
    ASSUME TypeOK
    PROVE  /\ Here \in Names \X Paths /\ BootLocation \in Locations /\ BootLocation[1] \in Names
           /\ Home \in Remotes \X Paths
           /\ \A l \in Names \X Paths : l \in Locations
           /\ \A l \in Remotes \X Paths :
                 l \in Names \X Paths /\ l \in Locations /\ l[1] \in Remotes /\ l[2] \in Paths
           /\ RepoIds \subseteq Locations /\ NoRepo \notin RepoIds
<1> USE MigrationAssumption DEF TypeOK, Locations, Names
<1>1. Here \in Names \X Paths
  BY DEF Here, CurrentPath
<1>2. BootLocation \in Locations /\ BootLocation[1] \in Names
  BY DEF BootLocation
<1>3. Home \in Remotes \X Paths /\ RepoIds \subseteq Locations /\ NoRepo \notin RepoIds
  BY DEF Home, RepoIds, NoRepo
<1>4. \A l \in Remotes \X Paths :
         l \in Names \X Paths /\ l \in Locations /\ l[1] \in Remotes /\ l[2] \in Paths
  OBVIOUS
<1>5. \A l \in Names \X Paths : l \in Locations
  OBVIOUS
<1> QED
  BY <1>1, <1>2, <1>3, <1>4, <1>5

(* What a copy carries lies at locations, the source's own files among it.  *)
LEMMA Carriages ==
    ASSUME TypeOK, NEW t \in Migrations
    PROVE  /\ job[t].from \in Locations /\ job[t].to \in Locations
           /\ job[t].from \in Subtree[job[t].from] /\ job[t].to \in Subtree[job[t].to]
           /\ \A l \in Locations : Subtree[l] \subseteq Locations
           /\ <<job[t].from, job[t].to>> \in Carriage(job[t].from, job[t].to)
           /\ \A c \in Carriage(job[t].from, job[t].to) :
                 /\ c = <<c[1], c[2]>>
                 /\ c[1] \in Subtree[job[t].from] /\ c[2] \in Subtree[job[t].to]
<1> DEFINE from == job[t].from
           to == job[t].to
<1>1. from \in Names \X Paths /\ to \in Remotes \X Paths
  BY DEF TypeOK, Jobs
<1>2. from \in Locations /\ to \in Locations /\ from[2] \in Seq(STRING) /\ to[2] \in Seq(STRING)
  BY <1>1, Places, MigrationAssumption
<1> HIDE DEF from, to
<1>3. \A l \in Locations : Subtree[l] = {k \in Locations : k[1] = l[1] /\ Within(k[2], l[2])}
  BY DEF Subtree
<1>4. from \in Subtree[from] /\ to \in Subtree[to]
  BY <1>2, <1>3 DEF Within
<1>5. Down(from, from) = <<>> /\ Down(to, to) = <<>>
  <2>1. \A q \in Seq(STRING) : SubSeq(q, Len(q) + 1, Len(q)) = <<>>
    <3> SUFFICES ASSUME NEW q \in Seq(STRING) PROVE SubSeq(q, Len(q) + 1, Len(q)) = <<>>
      OBVIOUS
    <3>1. Len(q) \in Nat
      OBVIOUS
    <3>2. Len(q) \in Int /\ Len(q) + 1 \in Int /\ Len(q) < Len(q) + 1
      BY <3>1
    <3> QED
      BY <3>2, SubSeqEmpty
  <2> QED
    BY <1>2, <2>1 DEF Down
<1>6. Carriage(from, to) =
        {c \in Subtree[from] \X Subtree[to] : Down(from, c[1]) = Down(to, c[2])}
  BY <1>2 DEF Carriage
<1>7. <<from, to>> \in Carriage(from, to)
  BY <1>4, <1>5, <1>6
<1>8. \A c \in Carriage(from, to) :
         c = <<c[1], c[2]>> /\ c[1] \in Subtree[from] /\ c[2] \in Subtree[to]
  BY <1>6
<1>9. \A l \in Locations : Subtree[l] \subseteq Locations
  BY <1>3
<1> QED
  BY <1>2, <1>4, <1>7, <1>8, <1>9 DEF from, to

-------------------------------------------------------------------------------
(* Types *)

(* What SMT needs of the gate.                                              *)
LEMMA Shapes ==
    /\ Migrations \subseteq Tasks /\ Backups \subseteq Tasks /\ Tasks = Migrations \cup Backups
    /\ Migrations \cap Backups = {} /\ Nobody \notin Tasks
  BY MigrationAssumption, NobodyAssumption

LEMMA MigrationTypeStart == Init => TypeOK
<1> SUFFICES ASSUME Init PROVE TypeOK
  OBVIOUS
<1> USE MigrationAssumption, Shapes DEF Init
<1>1. RunnerTypeOK
  BY DEF RunnerInit, RunnerTypeOK
<1>2. repo \in [Locations -> Contents]
  <2>1. ASSUME NEW l \in Locations PROVE repo[l] \in Contents
    <3>1. l \in RepoIds => <<l, 0>> \in Snaps
      BY DEF Snaps
    <3> QED
      BY <3>1 DEF Contents
  <2> QED
    BY <2>1
<1>3. Home \in Locations /\ Home \in RepoIds /\ <<Home, 0>> \in Snaps /\ HomeRemote \in Names
  <2>1. Home \in RepoIds /\ 0 \in 0 .. MaxBackups
    BY DEF RepoIds
  <2> QED
    BY <2>1 DEF Home, Locations, Names, Snaps
<1>4. job \in [Migrations -> Jobs]
  BY MigrationAssumption DEF NoJob, Jobs, Home, Names
<1>5. status \in [active : BOOLEAN, phase : Phases]
  BY DEF IdleStatus, Phases
<1>6. pc \in [Tasks -> PCs]
  BY DEF PCs
<1>7. envRepo \in Locations /\ made \subseteq Snaps /\ chosen \subseteq Locations
      /\ envName \in Names
  BY <1>3
<1>8. starts \in 0 .. MaxStarts
  OBVIOUS
<1> QED
  BY <1>1, <1>2, <1>4, <1>5, <1>6, <1>7, <1>8 DEF TypeOK

(* The actions, grouped by the variables they write.                        *)

\* one of the statements of run() and of the handler around it
Moves(t) ==
    t \in Migrations /\ (ReadLocation(t) \/ Refuse(t) \/ Acquire(t) \/ MigrationStep(t))

\* any step of a goroutine
Acts(t) ==
    \/ Moves(t) \/ Mark(t) \/ End(t) \/ Release(t)
    \/ t \in Backups /\ (StartBackup(t) \/ RunBackup(t))

LEMMA PhaseIs ==
    ASSUME NEW ph \in Phases, SetPhase(ph)
    PROVE  status' \in [active : BOOLEAN, phase : Phases] /\ status'.phase = ph
  BY DEF SetPhase

(* A step moves one program counter, or none.                               *)
LEMMA OneMoves ==
    ASSUME NEW t \in Tasks, Acts(t)
    PROVE  UNCHANGED pc \/ \E there \in PCs : pc' = [pc EXCEPT ![t] = there]
<1> USE DEF PCs, Holding, Moving
<1>1. CASE ReadLocation(t) \/ Refuse(t) \/ Acquire(t)
  BY <1>1 DEF ReadLocation, Refuse, Acquire, Goto
<1>2. CASE Mark(t) \/ End(t) \/ Release(t) \/ StartBackup(t) \/ RunBackup(t)
  BY <1>2 DEF Mark, End, Release, StartBackup, RunBackup, Goto
<1>3. CASE Launch(t) \/ CountSource(t) \/ SetName(t) \/ SetRepo(t) \/ Purge(t) \/ Finish(t)
  BY <1>3 DEF Launch, CountSource, SetName, SetRepo, Purge, Finish, Goto, AfterSwitch
<1>4. CASE CopyFile(t)
  BY <1>4 DEF CopyFile
<1>5. CASE ProbeRemote(t)
  BY <1>5 DEF ProbeRemote, Fail
<1>6. CASE ProbeTarget(t)
  BY <1>6 DEF ProbeTarget
<1>7. CASE ProbeSource(t)
  BY <1>7 DEF ProbeSource
<1>8. CASE CopyEnds(t)
  BY <1>8 DEF CopyEnds, Fail
<1>9. CASE Verify(t)
  BY <1>9 DEF Verify, Fail
<1>10. CASE Recount(t)
  BY <1>10 DEF Recount, Fail
<1>11. CASE WriteName(t)
  BY <1>11 DEF WriteName, Fail
<1>12. CASE WritePath(t)
  BY <1>12 DEF WritePath, Fail
<1> QED
  BY <1>1, <1>2, <1>3, <1>4, <1>5, <1>6, <1>7, <1>8, <1>9, <1>10, <1>11, <1>12 DEF Acts, Moves, MigrationStep

(* A step sets the phase or leaves the status alone.                        *)
LEMMA OnePhase ==
    ASSUME NEW t \in Tasks, Acts(t)
    PROVE  UNCHANGED status \/ \E ph \in Phases : SetPhase(ph)
<1> USE DEF Phases
<1>1. CASE ReadLocation(t) \/ Refuse(t) \/ Acquire(t)
  BY <1>1 DEF ReadLocation, Refuse, Acquire, Goto
<1>2. CASE Mark(t) \/ End(t) \/ Release(t) \/ StartBackup(t) \/ RunBackup(t)
  BY <1>2 DEF Mark, End, Release, StartBackup, RunBackup, Goto
<1>3. CASE Launch(t) \/ CountSource(t) \/ SetName(t) \/ SetRepo(t) \/ Purge(t) \/ Finish(t)
  BY <1>3 DEF Launch, CountSource, SetName, SetRepo, Purge, Finish, Goto, AfterSwitch
<1>4. CASE CopyFile(t)
  BY <1>4 DEF CopyFile
<1>5. CASE ProbeRemote(t)
  BY <1>5 DEF ProbeRemote, Fail
<1>6. CASE ProbeTarget(t)
  BY <1>6 DEF ProbeTarget
<1>7. CASE ProbeSource(t)
  BY <1>7 DEF ProbeSource
<1>8. CASE CopyEnds(t)
  BY <1>8 DEF CopyEnds, Fail
<1>9. CASE Verify(t)
  BY <1>9 DEF Verify, Fail
<1>10. CASE Recount(t)
  BY <1>10 DEF Recount, Fail
<1>11. CASE WriteName(t)
  BY <1>11 DEF WriteName, Fail
<1>12. CASE WritePath(t)
  BY <1>12 DEF WritePath, Fail
<1> QED
  BY <1>1, <1>2, <1>3, <1>4, <1>5, <1>6, <1>7, <1>8, <1>9, <1>10, <1>11, <1>12 DEF Acts, Moves, MigrationStep

(* What a purge takes lies in the folder of the source.                     *)
LEMMA PurgeTakes ==
    ASSUME NEW t \in Migrations, Purge(t)
    PROVE  \E gone \in {Subtree[job[t].from]} :
           \E C \in SUBSET gone, S \in SUBSET {p \in gone \X Snaps : p[2] \in repo[p[1]].snaps} :
              /\ NetworkFails \/ (C = {} /\ S = {})
              /\ repo' = [l \in Locations |->
                    IF l \in gone
                    THEN [config |-> IF l \in C THEN repo[l].config ELSE NoRepo,
                          snaps |-> {s \in repo[l].snaps : <<l, s>> \in S}]
                    ELSE repo[l]]
  BY Zenon DEF Purge

(* What lies at the locations stays of its type.                            *)
LEMMA OneRepo ==
    ASSUME TypeOK, NEW t \in Tasks, Acts(t)
    PROVE  repo' \in [Locations -> Contents] /\ made' \subseteq Snaps
<1> USE DEF TypeOK
<1>0. repo \in [Locations -> Contents] /\ made \subseteq Snaps
  OBVIOUS
<1>1. ASSUME CopyFile(t), t \in Migrations
      PROVE  repo' \in [Locations -> Contents] /\ made' \subseteq Snaps
  <2>1. PICK k \in Locations, m \in Locations : CopyConfig(k, m) \/ CopySnapshot(k, m)
    <3>1. PICK c \in Carriage(job[t].from, job[t].to) :
             CopyConfig(c[1], c[2]) \/ CopySnapshot(c[1], c[2])
      BY <1>1 DEF CopyFile
    <3>2. c[1] \in Locations /\ c[2] \in Locations
      BY <1>1, Carriages
    <3> QED
      BY <3>1, <3>2
  <2>2. repo[k].config \in RepoIds \cup {NoRepo} /\ repo[k].snaps \subseteq Snaps /\ UNCHANGED made
    BY <1>1, <2>1 DEF Contents, CopyFile, ghosts
  <2>3. CASE CopyConfig(k, m)
    BY <2>1, <2>2, <2>3 DEF CopyConfig, Contents
  <2>4. CASE CopySnapshot(k, m)
    <3>1. PICK s \in Snaps : repo' = [repo EXCEPT ![m].snaps = @ \cup {s}]
      BY <2>2, <2>4 DEF CopySnapshot
    <3> QED
      BY <2>1, <2>2, <3>1 DEF Contents
  <2> QED
    BY <2>1, <2>3, <2>4
<1>2. ASSUME Purge(t), t \in Migrations
      PROVE  repo' \in [Locations -> Contents] /\ made' \subseteq Snaps
  <2> DEFINE Left(l, C, S) == [config |-> IF l \in C THEN repo[l].config ELSE NoRepo,
                               snaps |-> {s \in repo[l].snaps : <<l, s>> \in S}]
  <2>0. PICK gone \in {Subtree[job[t].from]} :
        \E C \in SUBSET gone, S \in SUBSET {p \in gone \X Snaps : p[2] \in repo[p[1]].snaps} :
           /\ NetworkFails \/ (C = {} /\ S = {})
           /\ repo' = [l \in Locations |-> IF l \in gone THEN Left(l, C, S) ELSE repo[l]]
    BY <1>2, PurgeTakes, Zenon
  <2>1. PICK C \in SUBSET gone, S \in SUBSET {p \in gone \X Snaps : p[2] \in repo[p[1]].snaps} :
           repo' = [l \in Locations |-> IF l \in gone THEN Left(l, C, S) ELSE repo[l]]
    BY <2>0, Zenon
  <2>2. ASSUME NEW l \in Locations PROVE repo[l] \in Contents /\ Left(l, C, S) \in Contents
    <3> DEFINE files == {s \in repo[l].snaps : <<l, s>> \in S}
               config == IF l \in C THEN repo[l].config ELSE NoRepo
    <3>1. repo[l] \in Contents
      OBVIOUS
    <3>2. repo[l].config \in RepoIds \cup {NoRepo} /\ repo[l].snaps \subseteq Snaps
      BY <3>1 DEF Contents
    <3>3. config \in RepoIds \cup {NoRepo} /\ files \subseteq Snaps
      BY <3>2
    <3>4. Left(l, C, S) = [config |-> config, snaps |-> files]
      OBVIOUS
    <3> HIDE DEF config, files
    <3> QED
      BY <3>1, <3>3, <3>4 DEF Contents
  <2> HIDE DEF Left
  <2>3. UNCHANGED made
    BY <1>2 DEF Purge, ghosts
  <2> QED
    BY <2>1, <2>2, <2>3
<1>3. ASSUME RunBackup(t)
      PROVE  repo' \in [Locations -> Contents] /\ made' \subseteq Snaps
  <2>1. CASE UNCHANGED <<repo, made>>
    BY <2>1
  <2>2. CASE ~UNCHANGED <<repo, made>>
    <3>1. PICK n \in 0 .. MaxBackups :
             /\ Openable(envRepo)
             /\ repo' = [repo EXCEPT ![envRepo].snaps = @ \cup {<<repo[envRepo].config, n>>}]
             /\ made' = made \cup {<<repo[envRepo].config, n>>}
      BY <1>3, <2>2 DEF RunBackup
    <3>2. repo[envRepo].config \in RepoIds
      BY <3>1 DEF Openable, Opens, Contents
    <3>3. <<repo[envRepo].config, n>> \in Snaps
      BY <3>2 DEF Snaps
    <3> QED
      BY <3>1, <3>3 DEF Contents
  <2> QED
    BY <2>1, <2>2
<1>4. ASSUME ~(t \in Migrations /\ CopyFile(t)), ~(t \in Migrations /\ Purge(t)), ~RunBackup(t)
      PROVE  UNCHANGED <<repo, made>>
  <2>1. CASE ReadLocation(t) \/ Refuse(t) \/ Acquire(t) \/ Mark(t) \/ End(t) \/ Release(t)
                \/ StartBackup(t) \/ Launch(t) \/ ProbeRemote(t) \/ ProbeTarget(t) \/ ProbeSource(t)
    BY <2>1 DEF ReadLocation, Refuse, Acquire, Mark, End, Release, StartBackup, Launch, ProbeRemote,
                ProbeTarget, ProbeSource, Fail, ghosts
  <2>2. CASE CountSource(t) \/ CopyEnds(t) \/ Verify(t) \/ Recount(t) \/ WriteName(t)
                \/ WritePath(t) \/ SetName(t) \/ SetRepo(t) \/ Finish(t)
    BY <2>2 DEF CountSource, CopyEnds, Verify, Recount, WriteName, WritePath, SetName, SetRepo, Finish,
                Fail, ghosts
  <2> QED
    BY <1>4, <2>1, <2>2 DEF Acts, Moves, MigrationStep
<1> QED
  BY <1>0, <1>1, <1>2, <1>3, <1>4

(* The files and the environment name a remote and a path.                  *)
LEMMA OneSetting ==
    ASSUME TypeOK, NEW t \in Tasks, Acts(t)
    PROVE  /\ nameFile' \in Remotes \cup {NoFile} /\ pathFile' \in Paths \cup {NoFile}
           /\ envName' \in Names /\ envRepo' \in Locations
<1> USE DEF TypeOK
<1>1. ASSUME t \in Migrations, WriteName(t) \/ WritePath(t) \/ SetName(t) \/ SetRepo(t)
      PROVE  /\ nameFile' \in Remotes \cup {NoFile} /\ pathFile' \in Paths \cup {NoFile}
             /\ envName' \in Names /\ envRepo' \in Locations
  <2>1. job[t].to \in Locations /\ job[t].to[1] \in Remotes /\ job[t].to[2] \in Paths
    BY <1>1, Places DEF Jobs
  <2>2. job[t].to[1] \in Names
    BY <2>1 DEF Names
  <2> QED
    BY <1>1, <2>1, <2>2 DEF WriteName, WritePath, SetName, SetRepo, Fail, settings
<1>2. ASSUME ~(t \in Migrations /\ (WriteName(t) \/ WritePath(t) \/ SetName(t) \/ SetRepo(t)))
      PROVE  UNCHANGED settings
  <2>1. CASE ReadLocation(t) \/ Refuse(t) \/ Acquire(t) \/ Mark(t) \/ End(t) \/ Release(t)
                \/ StartBackup(t) \/ RunBackup(t) \/ Launch(t) \/ ProbeRemote(t) \/ ProbeTarget(t)
    BY <2>1 DEF ReadLocation, Refuse, Acquire, Mark, End, Release, StartBackup, RunBackup, Launch,
                ProbeRemote, ProbeTarget, Fail
  <2>2. CASE ProbeSource(t) \/ CountSource(t) \/ CopyFile(t) \/ CopyEnds(t) \/ Verify(t)
                \/ Recount(t) \/ Purge(t) \/ Finish(t)
    BY <2>2 DEF ProbeSource, CountSource, CopyFile, CopyEnds, Verify, Recount, Purge, Finish, Fail
  <2> QED
    BY <1>2, <2>1, <2>2 DEF Acts, Moves, MigrationStep
<1> QED
  BY <1>1, <1>2 DEF settings

(* What becomes known of a job keeps it a job.                              *)
LEMMA JobUpdates ==
    ASSUME NEW j \in Jobs
    PROVE  /\ \A k \in Names \X Paths, l \in Remotes \X Paths :
                 [j EXCEPT !.from = k, !.to = l] \in Jobs
           /\ \A m \in {"adopt", "move"} : [j EXCEPT !.mode = m] \in Jobs
           /\ \A n \in Nat : [j EXCEPT !.count = n] \in Jobs
           /\ [j EXCEPT !.copied = TRUE] \in Jobs
<1>1. \A k \in Names \X Paths, l \in Remotes \X Paths : [j EXCEPT !.from = k, !.to = l] \in Jobs
  BY DEF Jobs
<1>2. \A m \in {"adopt", "move"} : [j EXCEPT !.mode = m] \in Jobs
  BY DEF Jobs
<1>3. \A n \in Nat : [j EXCEPT !.count = n] \in Jobs
  BY DEF Jobs
<1>4. [j EXCEPT !.copied = TRUE] \in Jobs
  BY DEF Jobs
<1> QED
  BY <1>1, <1>2, <1>3, <1>4

(* What a migration knows stays of its type.                                *)
LEMMA OneJob ==
    ASSUME TypeOK, NEW t \in Tasks, Acts(t)
    PROVE  /\ job' \in [Migrations -> Jobs]
           /\ \A m \in Migrations \ {t} : job'[m] = job[m]
<1> USE DEF TypeOK
<1>1. ASSUME t \in Migrations, ReadLocation(t)
      PROVE  \E l \in Remotes \X Paths : job' = [job EXCEPT ![t].from = Here, ![t].to = l]
  BY <1>1 DEF ReadLocation
<1>2. Here \in Names \X Paths /\ Home \in Names \X Paths /\ Home \in Remotes \X Paths
  BY Places
<1>3. NoJob \in Jobs
  BY <1>2 DEF NoJob, Jobs
<1>4. ASSUME t \in Migrations, ReadLocation(t) \/ Refuse(t)
      PROVE  \E j \in Jobs : job' = [job EXCEPT ![t] = j]
  <2>1. CASE Refuse(t)
    BY <1>3, <2>1 DEF Refuse
  <2>2. CASE ReadLocation(t)
    <3>1. PICK l \in Remotes \X Paths : job' = [job EXCEPT ![t].from = Here, ![t].to = l]
      BY <1>4, <1>1, <2>2
    <3>2. [job[t] EXCEPT !.from = Here, !.to = l] \in Jobs
      BY <1>2, <1>4, JobUpdates
    <3> QED
      BY <3>1, <3>2, <1>4
  <2> QED
    BY <1>4, <2>1, <2>2
<1>5. ASSUME t \in Migrations, ProbeTarget(t) \/ CountSource(t) \/ Recount(t)
      PROVE  UNCHANGED job \/ \E j \in Jobs : job' = [job EXCEPT ![t] = j]
  <2>1. CASE ProbeTarget(t)
    <3>1. \E m \in {"adopt", "move"} : job' = [job EXCEPT ![t].mode = m]
      BY <2>1 DEF ProbeTarget
    <3>2. \A m \in {"adopt", "move"} : [job[t] EXCEPT !.mode = m] \in Jobs
      BY <1>5, JobUpdates
    <3> QED
      BY <3>1, <3>2, <1>5
  <2>2. CASE CountSource(t)
    <3>1. PICK n \in 0 .. Cardinality(Snaps) : job' = [job EXCEPT ![t].count = n]
      BY <2>2 DEF CountSource
    <3>2. n \in Nat
      BY <3>1
    <3>3. [job[t] EXCEPT !.count = n] \in Jobs
      BY <1>5, <3>2, JobUpdates
    <3> QED
      BY <3>1, <3>3, <1>5
  <2>3. CASE Recount(t)
    <3>1. UNCHANGED job \/ job' = [job EXCEPT ![t].copied = TRUE]
      BY <2>3 DEF Recount, Fail
    <3>2. [job[t] EXCEPT !.copied = TRUE] \in Jobs
      BY <1>5, JobUpdates
    <3> QED
      BY <3>1, <3>2, <1>5
  <2> QED
    BY <1>5, <2>1, <2>2, <2>3
<1>6. CASE Release(t)
  BY <1>3, <1>6 DEF Release
<1>7. CASE UNCHANGED job
  BY <1>7
<1>8. ASSUME ~Release(t), ~(t \in Migrations /\ (ReadLocation(t) \/ Refuse(t) \/ ProbeTarget(t)
                                                \/ CountSource(t) \/ Recount(t)))
      PROVE  UNCHANGED job
  <2>1. CASE Acquire(t) \/ Mark(t) \/ End(t) \/ StartBackup(t) \/ RunBackup(t) \/ Launch(t)
                \/ ProbeRemote(t) \/ ProbeSource(t) \/ CopyFile(t)
    BY <2>1 DEF Acquire, Mark, End, StartBackup, RunBackup, Launch, ProbeRemote, ProbeSource,
                CopyFile, Fail
  <2>2. CASE CopyEnds(t) \/ Verify(t) \/ WriteName(t) \/ WritePath(t) \/ SetName(t) \/ SetRepo(t)
                \/ Purge(t) \/ Finish(t)
    BY <2>2 DEF CopyEnds, Verify, WriteName, WritePath, SetName, SetRepo, Purge, Finish, Fail
  <2> QED
    BY <1>8, <2>1, <2>2 DEF Acts, Moves, MigrationStep
<1>9. ASSUME NEW j \in Jobs, t \in Migrations, job' = [job EXCEPT ![t] = j]
      PROVE  /\ job' \in [Migrations -> Jobs]
             /\ \A m \in Migrations \ {t} : job'[m] = job[m]
  BY <1>9
<1> QED
  BY <1>4, <1>5, <1>6, <1>7, <1>8, <1>9

-------------------------------------------------------------------------------
(* The gate *)

Working == {"preflight", "copy", "verify", "switch", "cleanup"}

\* the statements of run() that go on, and those that end it
RunsOn(t) ==
    /\ pc[t] \in Moving /\ (UNCHANGED pc \/ \E there \in Moving : pc' = [pc EXCEPT ![t] = there])
    /\ UNCHANGED status \/ \E ph \in Working : SetPhase(ph)
RunEnds(t) ==
    /\ pc[t] \in Moving /\ pc' = [pc EXCEPT ![t] = "ending"]
    /\ SetPhase("done") \/ SetPhase("failed")

LEMMA RunShape ==
    ASSUME TypeOK, NEW t \in Migrations, MigrationStep(t)
    PROVE  /\ UNCHANGED <<runnerVars, up, cancelled, starts, chosen, made>>
           /\ \/ Goto(t, "marked", "preflight") /\ SetPhase("preflight")
              \/ RunsOn(t) \/ RunEnds(t)
<1> USE DEF Moving, Working, RunsOn, RunEnds, Goto, Fail, ghosts
<1>1. CASE Launch(t)
  BY <1>1 DEF Launch
<1>2. CASE ProbeRemote(t)
  BY <1>2 DEF ProbeRemote
<1>3. CASE ProbeTarget(t)
  BY <1>3 DEF ProbeTarget
<1>4. CASE ProbeSource(t)
  BY <1>4 DEF ProbeSource
<1>5. CASE CountSource(t)
  BY <1>5 DEF CountSource
<1>6. CASE CopyFile(t)
  BY <1>6 DEF CopyFile
<1>7. CASE CopyEnds(t)
  BY <1>7 DEF CopyEnds
<1>8. CASE Verify(t)
  BY <1>8 DEF Verify
<1>9. CASE Recount(t)
  BY <1>9 DEF Recount
<1>10. CASE WriteName(t)
  BY <1>10 DEF WriteName
<1>11. CASE WritePath(t)
  BY <1>11 DEF WritePath
<1>12. CASE SetName(t)
  BY <1>12 DEF SetName
<1>13. CASE SetRepo(t)
  BY <1>13 DEF SetRepo, AfterSwitch
<1>14. CASE Purge(t)
  BY <1>14 DEF Purge
<1>15. CASE Finish(t)
  BY <1>15 DEF Finish
<1> QED
  BY <1>1, <1>2, <1>3, <1>4, <1>5, <1>6, <1>7, <1>8, <1>9, <1>10, <1>11, <1>12, <1>13, <1>14, <1>15
     DEF MigrationStep

\* the gate is held by the goroutine that is under it, and the status is
\* active exactly while a migration is between its launch and its end
GateInv ==
    /\ \A t \in Tasks : pc[t] \in Holding => gate = t
    /\ gate # Nobody => pc[gate] \in Holding
    /\ \A t \in Backups : pc[t] \notin Moving \cup {"marked", "read"}
    /\ \A t \in Tasks : pc[t] \in Moving \cup {"marked", "backup", "ending"} => running
    /\ ~up => \A t \in Tasks : pc[t] = "idle"
    /\ status.phase \in {"idle", "done", "failed"} => ~status.active
    /\ status.active => \E t \in Migrations : pc[t] \in Moving
    /\ \A t \in Migrations : pc[t] \in Moving => status.active

(* SetPhase switches the status on, or off at the end.                      *)
LEMMA PhaseOn ==
    ASSUME NEW ph \in Working, SetPhase(ph)
    PROVE  status' = [active |-> TRUE, phase |-> ph]
<1>1. (ph \notin {"done", "failed"}) = TRUE
  BY DEF Working
<1> QED
  BY <1>1 DEF SetPhase

LEMMA PhaseOff ==
    ASSUME NEW ph \in {"done", "failed"}, SetPhase(ph)
    PROVE  status' = [active |-> FALSE, phase |-> ph]
<1>1. (ph \notin {"done", "failed"}) = FALSE
  OBVIOUS
<1> QED
  BY <1>1 DEF SetPhase

LEMMA GateStepMove ==
    ASSUME TypeOK, GateInv, NEW t \in Tasks, Acts(t)
    PROVE  GateInv'
<1> USE Shapes DEF TypeOK, RunnerTypeOK
<1>0. \A q \in Tasks \ {t} : pc'[q] = pc[q]
  BY OneMoves
<1>1. ASSUME t \in Migrations, MigrationStep(t) PROVE GateInv'
  <2>1. /\ UNCHANGED <<gate, running, up>> /\ gate = t /\ running
        /\ pc[t] \in Moving \cup {"marked"} /\ pc'[t] \in Moving \cup {"ending"}
    BY <1>1, RunShape DEF RunsOn, RunEnds, Goto, runnerVars, Moving, Holding, GateInv
  <2>2. \A q \in Tasks \ {t} : pc[q] \notin Holding
    BY <2>1 DEF GateInv
  <2>3. \/ pc'[t] \in Moving /\ \E ph \in Working : status' = [active |-> TRUE, phase |-> ph]
        \/ pc'[t] \in Moving /\ pc[t] \in Moving /\ UNCHANGED status
        \/ pc'[t] = "ending" /\ \E ph \in {"done", "failed"} : status' = [active |-> FALSE, phase |-> ph]
    <3>1. CASE Goto(t, "marked", "preflight") /\ SetPhase("preflight")
      BY <3>1, PhaseOn DEF Goto, Moving, Working
    <3>2. CASE RunsOn(t)
      BY <3>2, PhaseOn DEF RunsOn
    <3>3. CASE RunEnds(t)
      BY <3>3, PhaseOff DEF RunEnds
    <3> QED
      BY <1>1, <3>1, <3>2, <3>3, RunShape
  <2>4. "ending" \notin Moving /\ "ending" \in Holding /\ Moving \subseteq Holding
    BY DEF Moving, Holding
  <2>5. \A q \in Tasks \ {t} : pc'[q] \notin Moving
    BY <1>0, <2>2, <2>4
  <2>6. /\ status'.phase \in {"idle", "done", "failed"} => ~status'.active
        /\ status'.active => pc'[t] \in Moving
        /\ pc'[t] \in Moving => status'.active
    <3>1. ASSUME NEW ph \in Working, status' = [active |-> TRUE, phase |-> ph]
          PROVE  status'.active /\ status'.phase \notin {"idle", "done", "failed"}
      <4>1. status'.active = TRUE /\ status'.phase = ph
        BY <3>1
      <4> QED
        BY <4>1 DEF Working
    <3>2. ASSUME NEW ph \in {"done", "failed"}, status' = [active |-> FALSE, phase |-> ph]
          PROVE  ~status'.active
      <4>1. status'.active = FALSE
        BY <3>2
      <4> QED
        BY <4>1
    <3>3. CASE pc'[t] \in Moving /\ \E ph \in Working : status' = [active |-> TRUE, phase |-> ph]
      BY <3>1, <3>3
    <3>4. CASE pc'[t] \in Moving /\ pc[t] \in Moving /\ UNCHANGED status
      BY <3>4, <1>1 DEF GateInv
    <3>5. CASE pc'[t] = "ending" /\ \E ph \in {"done", "failed"} : status' = [active |-> FALSE, phase |-> ph]
      BY <3>2, <3>5, <2>4
    <3> QED
      BY <2>3, <3>3, <3>4, <3>5
  <2>7. /\ \A q \in Tasks : pc'[q] \in Holding => gate' = q
        /\ gate' # Nobody => pc'[gate'] \in Holding
    BY <1>0, <2>1, <2>2, <2>4
  <2>8. \A q \in Backups : pc'[q] \notin Moving \cup {"marked", "read"}
    BY <1>0, <1>1 DEF GateInv
  <2>9. up' /\ running'
    <3>1. pc[t] # "idle"
      BY <2>1 DEF Moving
    <3>2. up
      BY <3>1 DEF GateInv
    <3> QED
      BY <2>1, <3>2
  <2> QED
    BY <2>5, <2>6, <2>7, <2>8, <2>9, <1>1 DEF GateInv
<1>2. ASSUME t \in Migrations, ReadLocation(t) \/ Refuse(t) PROVE GateInv'
  <2>1. /\ pc[t] \in {"idle", "read"} /\ pc'[t] \in {"idle", "read"} /\ (pc'[t] = "read" => up)
        /\ UNCHANGED <<gate, running, up, status>>
    BY <1>2 DEF ReadLocation, Refuse, Goto, runnerVars
  <2> QED
    BY <1>0, <1>2, <2>1 DEF GateInv, Moving, Holding
<1>3. ASSUME Acquire(t) \/ StartBackup(t) PROVE GateInv'
  <2>1. /\ pc[t] \in {"idle", "read"} /\ pc'[t] = "locked" /\ gate = Nobody /\ gate' = t
        /\ UNCHANGED <<running, up, status>>
    BY <1>3 DEF Acquire, StartBackup, Goto, TryLock
  <2>2. up
    BY <1>3, <2>1 DEF GateInv, StartBackup, Acquire, Goto
  <2> QED
    BY <1>0, <2>1, <2>2 DEF GateInv, Moving, Holding
<1>4. ASSUME Mark(t) PROVE GateInv'
  <2>1. /\ pc[t] = "locked" /\ pc'[t] = IF t \in Migrations THEN "marked" ELSE "backup"
        /\ running' = TRUE /\ UNCHANGED <<gate, up, status>>
    BY <1>4 DEF Mark, Goto, MarkRunning
  <2> QED
    BY <1>0, <2>1 DEF GateInv, Moving, Holding
<1>5. ASSUME RunBackup(t) PROVE GateInv'
  <2>1. /\ pc[t] = "backup" /\ pc'[t] = "ending" /\ UNCHANGED <<gate, running, up, status>>
    BY <1>5 DEF RunBackup, Goto, runnerVars
  <2> QED
    BY <1>0, <2>1 DEF GateInv, Moving, Holding
<1>6. ASSUME End(t) PROVE GateInv'
  <2>1. /\ pc[t] = "ending" /\ pc'[t] = "unlocking" /\ UNCHANGED <<gate, up, status>>
    BY <1>6 DEF End, Goto, MarkIdle
  <2>2. gate = t /\ \A q \in Tasks \ {t} : pc[q] \notin Holding
    BY <2>1 DEF GateInv, Holding
  <2> QED
    BY <1>0, <2>1, <2>2 DEF GateInv, Moving, Holding
<1>7. ASSUME Release(t) PROVE GateInv'
  <2>1. /\ pc[t] = "unlocking" /\ pc'[t] = "idle" /\ gate' = Nobody
        /\ UNCHANGED <<running, up, status>>
    BY <1>7 DEF Release, Goto, Unlock
  <2>2. \A q \in Tasks \ {t} : pc[q] \notin Holding
    BY <2>1 DEF GateInv, Holding
  <2> QED
    BY <1>0, <2>1, <2>2 DEF GateInv, Moving, Holding
<1> QED
  BY <1>1, <1>2, <1>3, <1>4, <1>5, <1>6, <1>7 DEF Acts, Moves

(* The gate, the flags and the counters stay of their types.                *)
LEMMA OneFlag ==
    ASSUME TypeOK, NEW t \in Tasks, Acts(t)
    PROVE  /\ RunnerTypeOK' /\ UNCHANGED <<up, cancelled>>
           /\ starts' \in 0 .. MaxStarts /\ chosen' \subseteq Locations
<1> USE Shapes DEF TypeOK, RunnerTypeOK
<1>1. ASSUME t \in Migrations, MigrationStep(t)
      PROVE  UNCHANGED <<runnerVars, up, cancelled, starts, chosen>>
  BY <1>1, RunShape
<1>2. CASE ReadLocation(t) \/ Refuse(t) \/ RunBackup(t)
  BY <1>2 DEF ReadLocation, Refuse, RunBackup, runnerVars, ghosts
<1>3. CASE Mark(t) \/ End(t) \/ Release(t) \/ StartBackup(t)
  BY <1>3 DEF Mark, End, Release, StartBackup, MarkRunning, MarkIdle, Unlock, TryLock, ghosts
<1>4. ASSUME t \in Migrations, Acquire(t)
      PROVE  /\ RunnerTypeOK' /\ UNCHANGED <<up, cancelled>>
             /\ starts' \in 0 .. MaxStarts /\ chosen' \subseteq Locations
  <2>1. job[t].to \in Locations
    BY <1>4, Places DEF Jobs
  <2> QED
    BY <1>4, <2>1, MigrationAssumption DEF Acquire, TryLock
<1> QED
  BY <1>1, <1>2, <1>3, <1>4 DEF Acts, Moves, runnerVars

LEMMA MigrationTypeMove ==
    ASSUME TypeOK, NEW t \in Tasks, Acts(t)
    PROVE  TypeOK'
<1>1. pc' \in [Tasks -> PCs]
  BY OneMoves DEF TypeOK
<1>2. status' \in [active : BOOLEAN, phase : Phases]
  BY OnePhase, PhaseIs DEF TypeOK
<1>3. up' \in BOOLEAN /\ cancelled' \in BOOLEAN
  <2>1. up \in BOOLEAN /\ cancelled \in BOOLEAN /\ up' = up /\ cancelled' = cancelled
    BY OneFlag DEF TypeOK
  <2> QED
    BY <2>1
<1> QED
  BY <1>1, <1>2, <1>3, OneRepo, OneSetting, OneJob, OneFlag DEF TypeOK

(* SIGTERM, the end of the process, and the next start.                     *)
LEMMA MigrationTypeEngine ==
    ASSUME TypeOK, Sigterm \/ Stop \/ Boot
    PROVE  TypeOK'
<1>1. Home \in Remotes \X Paths /\ NoJob \in Jobs /\ IdleStatus \in [active : BOOLEAN, phase : Phases]
      /\ "idle" \in PCs
  <2>1. Home \in Remotes \X Paths /\ Home \in Names \X Paths
    BY Places
  <2> QED
    BY <2>1 DEF NoJob, Jobs, IdleStatus, Phases, PCs
<1>2. CASE Sigterm
  <2>1. cancelled' \in BOOLEAN /\ up' \in BOOLEAN
    BY <1>2 DEF Sigterm, TypeOK
  <2>2. UNCHANGED <<gate, running, repo, nameFile, pathFile, envName, envRepo, status, pc, job,
                    starts, made, chosen>>
    BY <1>2 DEF Sigterm, runnerVars, settings, ghosts
  <2> QED
    BY <2>1, <2>2 DEF TypeOK, RunnerTypeOK
<1>3. CASE Stop
  <2>1. up' \in BOOLEAN /\ cancelled' \in BOOLEAN /\ running' \in BOOLEAN /\ gate' = Nobody
    BY <1>3 DEF Stop, TypeOK
  <2>2. status' = IdleStatus /\ pc' = [t \in Tasks |-> "idle"] /\ job' = [t \in Migrations |-> NoJob]
        /\ UNCHANGED <<repo, nameFile, pathFile, envName, envRepo, starts, made, chosen>>
    BY <1>3 DEF Stop, settings, ghosts
  <2>3. status' \in [active : BOOLEAN, phase : Phases]
    BY <1>1, <2>2
  <2> QED
    BY <1>1, <2>1, <2>2, <2>3 DEF TypeOK, RunnerTypeOK
<1>4. CASE Boot
  <2>1. up' \in BOOLEAN /\ cancelled' \in BOOLEAN
    BY <1>4 DEF Boot
  <2>2. envName' \in Names /\ envRepo' \in Locations
    BY <1>4, Places DEF Boot
  <2>3. UNCHANGED <<gate, running, repo, nameFile, pathFile, status, pc, job, starts, made, chosen>>
    BY <1>4 DEF Boot, runnerVars, ghosts
  <2> QED
    BY <2>1, <2>2, <2>3 DEF TypeOK, RunnerTypeOK
<1> QED
  BY <1>2, <1>3, <1>4

(* Every step is a goroutine's, or the engine's.                            *)
LEMMA Steps ==
    ASSUME [Next]_vars
    PROVE  (\E t \in Tasks : Acts(t)) \/ Sigterm \/ Stop \/ Boot \/ UNCHANGED vars
  BY Shapes DEF Next, GateStep, Acts, Moves

LEMMA MigrationTypeKept == TypeOK /\ [Next]_vars => TypeOK'
<1> SUFFICES ASSUME TypeOK, [Next]_vars PROVE TypeOK'
  OBVIOUS
<1>1. CASE UNCHANGED vars
  BY <1>1 DEF vars, runnerVars, settings, ghosts, TypeOK, RunnerTypeOK
<1> QED
  BY <1>1, Steps, MigrationTypeMove, MigrationTypeEngine

(* Every variable keeps its type.                                           *)
THEOREM MigrationTypeCorrect == Spec => []TypeOK
  BY MigrationTypeStart, MigrationTypeKept, PTL DEF Spec

LEMMA GateEngine ==
    ASSUME TypeOK, GateInv, Sigterm \/ Stop \/ Boot \/ UNCHANGED vars
    PROVE  GateInv'
<1>1. CASE Sigterm \/ UNCHANGED vars
  <2>1. UNCHANGED <<gate, running, status, pc, up>>
    BY <1>1 DEF Sigterm, vars, runnerVars
  <2> QED
    BY <2>1 DEF GateInv
<1>2. CASE Stop
  <2>1. /\ gate' = Nobody /\ \A t \in Tasks : pc'[t] = "idle"
        /\ status'.active = FALSE
    BY <1>2 DEF Stop, IdleStatus
  <2>2. "idle" \notin Holding /\ Moving \cup {"marked", "backup", "ending"} \subseteq Holding
    BY DEF Holding, Moving
  <2> QED
    BY <2>1, <2>2, Shapes DEF GateInv
<1>3. CASE Boot
  <2>1. UNCHANGED <<gate, running, status, pc>> /\ up' = TRUE
    BY <1>3 DEF Boot, runnerVars
  <2> QED
    BY <2>1 DEF GateInv
<1> QED
  BY <1>1, <1>2, <1>3

LEMMA AlwaysGated == Spec => [](TypeOK /\ GateInv)
<1>1. Init => GateInv
  <2> SUFFICES ASSUME Init PROVE GateInv
    OBVIOUS
  <2>1. /\ gate = Nobody /\ \A t \in Tasks : pc[t] = "idle"
        /\ status.active = FALSE
    BY DEF Init, RunnerInit, IdleStatus
  <2>2. "idle" \notin Holding /\ Moving \cup {"marked", "backup", "ending"} \subseteq Holding
    BY DEF Holding, Moving
  <2> QED
    BY <2>1, <2>2, Shapes DEF GateInv
<1>2. TypeOK /\ GateInv /\ [Next]_vars => GateInv'
  BY Steps, GateStepMove, GateEngine
<1> QED
  BY <1>1, <1>2, MigrationTypeCorrect, PTL DEF Spec

(* The status that refuses a second migration never outlives the hold of    *)
(* the first one on the gate (ActiveHoldsGate): Start, run and              *)
(* ReleaseMaintenance of migrate.go and actions.go.                         *)
THEOREM ActiveStatusHoldsGate == Spec => []ActiveHoldsGate
<1>1. TypeOK /\ GateInv => ActiveHoldsGate
  <2> SUFFICES ASSUME TypeOK, GateInv, status.active PROVE gate \in Migrations /\ running
    BY DEF ActiveHoldsGate
  <2>1. PICK t \in Migrations : pc[t] \in Moving
    BY DEF GateInv
  <2>2. pc[t] \in Holding
    BY <2>1 DEF Holding
  <2> QED
    BY <2>1, <2>2, Shapes DEF GateInv
<1> QED
  BY <1>1, AlwaysGated, PTL

(* The settings move by four statements of run() only.                      *)
LEMMA SettingsStay ==
    ASSUME NEW t \in Tasks, Acts(t),
           ~(t \in Migrations /\ (WriteName(t) \/ WritePath(t) \/ SetName(t) \/ SetRepo(t)))
    PROVE  UNCHANGED settings
<1>1. CASE ReadLocation(t) \/ Refuse(t) \/ Acquire(t) \/ Mark(t) \/ End(t) \/ Release(t)
              \/ StartBackup(t) \/ RunBackup(t) \/ Launch(t) \/ ProbeRemote(t) \/ ProbeTarget(t)
  BY <1>1 DEF ReadLocation, Refuse, Acquire, Mark, End, Release, StartBackup, RunBackup, Launch,
              ProbeRemote, ProbeTarget, Fail
<1>2. CASE ProbeSource(t) \/ CountSource(t) \/ CopyFile(t) \/ CopyEnds(t) \/ Verify(t)
              \/ Recount(t) \/ Purge(t) \/ Finish(t)
  BY <1>2 DEF ProbeSource, CountSource, CopyFile, CopyEnds, Verify, Recount, Purge, Finish, Fail
<1> QED
  BY <1>1, <1>2 DEF Acts, Moves, MigrationStep

-------------------------------------------------------------------------------
(* What a migration knows, and what it leaves behind *)

Switching == {"name", "path", "setname", "setrepo"}

\* a migration that copied is past its verification
JobInv(t) ==
    /\ pc[t] # "idle" => job[t].from # job[t].to
    /\ job[t].copied => pc[t] \in Switching \cup {"cleanup", "finish", "ending", "unlocking"}
    /\ pc[t] = "cleanup" => job[t].copied

\* how far the switch has come
SwitchInv(t) ==
    /\ pc[t] \in {"path", "setname", "setrepo", "cleanup", "finish"} => nameFile = job[t].to[1]
    /\ pc[t] \in {"setname", "setrepo", "cleanup", "finish"} => pathFile = job[t].to[2]
    /\ pc[t] \in {"setrepo", "cleanup", "finish"} => envName = job[t].to[1]
    /\ pc[t] \in {"cleanup", "finish"} => envRepo = job[t].to

\* everything of the source lies at the target, under the same key
Carried(t) == Landed(job[t].from, job[t].to)

CarryInv(t) ==
    /\ pc[t] \in {"verify", "recount"} => Carried(t)
    /\ pc[t] \in Switching \cup {"cleanup"} /\ job[t].copied => Carried(t)
    /\ pc[t] \in Switching /\ job[t].mode = "move" /\ ~cancelled /\ "blink" \notin Faults =>
          Readable(job[t].from) \subseteq Readable(job[t].to)

\* "done" stands for a location the files and the environment agree on
DoneInv ==
    /\ status.phase = "done" =>
          \E l \in Remotes \X Paths :
              nameFile = l[1] /\ pathFile = l[2] /\ envName = l[1] /\ envRepo = l
    /\ ~up => status.phase = "idle"

MoveInv(t) == JobInv(t) /\ SwitchInv(t) /\ CarryInv(t)

LEMMA CarriedIsReadable ==
    ASSUME NEW t, Carried(t)
    PROVE  Readable(job[t].from) \subseteq Readable(job[t].to)
  BY DEF Carried, Landed, Readable, Restorable, Opens

(* Whoever is not under the gate is not disturbed by one who is.            *)
LEMMA OthersUndisturbed ==
    ASSUME TypeOK, GateInv, NEW t \in Tasks, Acts(t), NEW q \in Migrations \ {t}, MoveInv(q)
    PROVE  MoveInv(q)'
<1>1. pc'[q] = pc[q] /\ job'[q] = job[q] /\ UNCHANGED cancelled
  BY OneMoves, OneJob, OneFlag, Shapes DEF TypeOK
<1>2. CASE UNCHANGED <<repo, settings>>
  BY <1>1, <1>2 DEF MoveInv, JobInv, SwitchInv, CarryInv, Carried, Landed, Readable, Restorable, settings
<1>3. CASE pc[q] \notin Holding
  BY <1>1, <1>3 DEF MoveInv, JobInv, SwitchInv, CarryInv, Holding, Moving, Switching
<1>4. UNCHANGED <<repo, settings>> \/ pc[t] \in Holding
  <2>1. CASE ReadLocation(t) \/ Refuse(t) \/ Acquire(t) \/ StartBackup(t)
    BY <2>1 DEF ReadLocation, Refuse, Acquire, StartBackup
  <2>2. CASE Mark(t) \/ End(t) \/ Release(t) \/ RunBackup(t)
    BY <2>2 DEF Mark, End, Release, RunBackup, Goto, Holding
  <2>3. ASSUME t \in Migrations, MigrationStep(t) PROVE pc[t] \in Holding
    BY <2>3, RunShape DEF RunsOn, RunEnds, Goto, Holding
  <2> QED
    BY <2>1, <2>2, <2>3 DEF Acts, Moves
<1> QED
  BY <1>2, <1>3, <1>4, Shapes DEF GateInv

(* An update of a job leaves its other fields alone.                        *)
LEMMA JobFields ==
    ASSUME NEW j \in Jobs
    PROVE  /\ \A m : /\ [j EXCEPT !.mode = m].from = j.from /\ [j EXCEPT !.mode = m].to = j.to
                     /\ [j EXCEPT !.mode = m].copied = j.copied
           /\ \A n : /\ [j EXCEPT !.count = n].from = j.from /\ [j EXCEPT !.count = n].to = j.to
                     /\ [j EXCEPT !.count = n].mode = j.mode
                     /\ [j EXCEPT !.count = n].copied = j.copied
           /\ [j EXCEPT !.copied = TRUE].from = j.from /\ [j EXCEPT !.copied = TRUE].to = j.to
           /\ [j EXCEPT !.copied = TRUE].mode = j.mode
<1>1. \A m : /\ [j EXCEPT !.mode = m].from = j.from /\ [j EXCEPT !.mode = m].to = j.to
             /\ [j EXCEPT !.mode = m].copied = j.copied
  BY DEF Jobs
<1>2. \A n : /\ [j EXCEPT !.count = n].from = j.from /\ [j EXCEPT !.count = n].to = j.to
             /\ [j EXCEPT !.count = n].mode = j.mode
             /\ [j EXCEPT !.count = n].copied = j.copied
  BY DEF Jobs
<1>3. /\ [j EXCEPT !.copied = TRUE].from = j.from /\ [j EXCEPT !.copied = TRUE].to = j.to
      /\ [j EXCEPT !.copied = TRUE].mode = j.mode
  BY DEF Jobs
<1> QED
  BY <1>1, <1>2, <1>3

(* What the three probes leave of a job.                                    *)
LEMMA JobLearns ==
    ASSUME TypeOK, NEW t \in Migrations
    PROVE  /\ ProbeTarget(t) => /\ job'[t].from = job[t].from /\ job'[t].to = job[t].to
                                /\ job'[t].copied = job[t].copied
           /\ CountSource(t) => /\ job'[t].from = job[t].from /\ job'[t].to = job[t].to
                                /\ job'[t].mode = job[t].mode /\ job'[t].copied = job[t].copied
           /\ Recount(t) => /\ job'[t].from = job[t].from /\ job'[t].to = job[t].to
                            /\ job'[t].mode = job[t].mode
<1>1. job[t] \in Jobs /\ job \in [Migrations -> Jobs]
  BY DEF TypeOK
<1>2. ASSUME ProbeTarget(t)
      PROVE  /\ job'[t].from = job[t].from /\ job'[t].to = job[t].to
             /\ job'[t].copied = job[t].copied
  <2>1. PICK m : job' = [job EXCEPT ![t].mode = m]
    BY <1>2 DEF ProbeTarget
  <2>2. job'[t] = [job[t] EXCEPT !.mode = m]
    BY <1>1, <2>1
  <2> QED
    BY <1>1, <2>2, JobFields
<1>3. ASSUME CountSource(t)
      PROVE  /\ job'[t].from = job[t].from /\ job'[t].to = job[t].to
             /\ job'[t].mode = job[t].mode /\ job'[t].copied = job[t].copied
  <2>1. PICK n : job' = [job EXCEPT ![t].count = n]
    BY <1>3 DEF CountSource
  <2>2. job'[t] = [job[t] EXCEPT !.count = n]
    BY <1>1, <2>1
  <2> QED
    BY <1>1, <2>2, JobFields
<1>4. ASSUME Recount(t)
      PROVE  /\ job'[t].from = job[t].from /\ job'[t].to = job[t].to
             /\ job'[t].mode = job[t].mode
  <2>1. UNCHANGED job \/ job' = [job EXCEPT ![t].copied = TRUE]
    BY <1>4 DEF Recount, Fail
  <2>2. job'[t] = job[t] \/ job'[t] = [job[t] EXCEPT !.copied = TRUE]
    BY <1>1, <2>1
  <2> QED
    BY <1>1, <2>2, JobFields
<1> QED
  BY <1>2, <1>3, <1>4

(* A migration learns its job as far as its goroutine has come.             *)
LEMMA JobMove ==
    ASSUME TypeOK, NEW t \in Migrations, Acts(t), JobInv(t)
    PROVE  JobInv(t)'
<1> USE Shapes DEF TypeOK, JobInv, Goto
<1>1. CASE ReadLocation(t)
  <2>1. PICK l \in Remotes \X Paths : l # Here /\ job' = [job EXCEPT ![t].from = Here, ![t].to = l]
    BY <1>1 DEF ReadLocation
  <2>2. job[t] \in Jobs /\ pc[t] = "idle" /\ pc'[t] = "read"
    BY <1>1 DEF ReadLocation
  <2>3. job'[t].from = Here /\ job'[t].to = l /\ job'[t].copied = job[t].copied
    BY <2>1, <2>2 DEF Jobs
  <2>4. ~job[t].copied
    BY <2>2 DEF Switching
  <2> QED
    BY <2>1, <2>2, <2>3, <2>4
<1>2. CASE Refuse(t) \/ Release(t)
  <2>1. pc'[t] = "idle" /\ job'[t] = NoJob
    BY <1>2 DEF Refuse, Release
  <2>2. NoJob.copied = FALSE
    BY DEF NoJob
  <2> QED
    BY <2>1, <2>2
<1>3. CASE Acquire(t) \/ Mark(t) \/ End(t)
  BY <1>3 DEF Acquire, Mark, End, Switching
<1>4. CASE Launch(t) \/ CopyFile(t) \/ Finish(t) \/ Purge(t) \/ SetName(t)
  BY <1>4 DEF Launch, CopyFile, Finish, Purge, SetName, Switching
<1>5. CASE ProbeRemote(t) \/ ProbeSource(t)
  BY <1>5 DEF ProbeRemote, ProbeSource, Fail, Switching
<1>6. CASE CopyEnds(t) \/ Verify(t)
  BY <1>6 DEF CopyEnds, Verify, Fail, Switching
<1>7. CASE WriteName(t) \/ WritePath(t)
  BY <1>7 DEF WriteName, WritePath, Fail, Switching
<1>8. CASE SetRepo(t)
  BY <1>8 DEF SetRepo, AfterSwitch, Switching
<1>9. CASE ProbeTarget(t) \/ CountSource(t)
  <2>1. /\ job[t] \in Jobs /\ pc[t] \in {"target", "count"} /\ pc'[t] # "cleanup" /\ pc'[t] # "idle"
        /\ job'[t].from = job[t].from /\ job'[t].to = job[t].to /\ job'[t].copied = job[t].copied
    <3>1. pc[t] \in {"target", "count"} /\ pc'[t] # "cleanup" /\ pc'[t] # "idle"
      BY <1>9 DEF ProbeTarget, CountSource
    <3> QED
      BY <1>9, <3>1, JobLearns
  <2>2. ~job[t].copied
    BY <2>1 DEF Switching
  <2> QED
    BY <2>1, <2>2
<1>10. CASE Recount(t)
  <2>1. pc[t] = "recount" /\ pc'[t] \in {"name", "ending"}
    BY <1>10 DEF Recount, Fail
  <2>2. job'[t].from = job[t].from /\ job'[t].to = job[t].to
    BY <1>10, JobLearns
  <2> QED
    BY <2>1, <2>2 DEF Switching
<1> QED
  BY <1>1, <1>2, <1>3, <1>4, <1>5, <1>6, <1>7, <1>8, <1>9, <1>10 DEF Acts, Moves, MigrationStep

(* The job of a migration is what it was when the gate was asked for.       *)
LEMMA JobTarget ==
    ASSUME TypeOK, NEW t \in Migrations, Acts(t), pc'[t] \notin {"idle", "read"}
    PROVE  /\ job'[t].from = job[t].from /\ job'[t].to = job[t].to
           /\ ~ProbeTarget(t) => job'[t].mode = job[t].mode
           /\ ~Recount(t) => job'[t].copied = job[t].copied
<1> USE Shapes DEF TypeOK
<1>1. ASSUME ReadLocation(t) \/ Refuse(t) \/ Release(t) PROVE FALSE
  BY <1>1 DEF ReadLocation, Refuse, Release, Goto
<1>2. CASE ProbeTarget(t)
  <2>1. ~Recount(t)
    BY <1>2 DEF ProbeTarget, Recount
  <2> QED
    BY <1>2, <2>1, JobLearns
<1>3. CASE CountSource(t)
  BY <1>3, JobLearns
<1>4. CASE Recount(t)
  BY <1>4, JobLearns
<1>5. CASE Acquire(t) \/ Mark(t) \/ End(t) \/ Launch(t) \/ CopyFile(t) \/ Finish(t) \/ Purge(t)
              \/ SetName(t) \/ SetRepo(t)
  BY <1>5 DEF Acquire, Mark, End, Launch, CopyFile, Finish, Purge, SetName, SetRepo
<1>6. CASE ProbeRemote(t) \/ ProbeSource(t) \/ CopyEnds(t) \/ Verify(t) \/ WriteName(t) \/ WritePath(t)
  BY <1>6 DEF ProbeRemote, ProbeSource, CopyEnds, Verify, WriteName, WritePath, Fail
<1> QED
  BY <1>1, <1>2, <1>3, <1>4, <1>5, <1>6 DEF Acts, Moves, MigrationStep

(* The switch goes name file, path file, environment.                       *)
LEMMA SwitchMove ==
    ASSUME TypeOK, NEW t \in Migrations, Acts(t), SwitchInv(t)
    PROVE  SwitchInv(t)'
<1> USE Shapes DEF TypeOK
<1>1. ASSUME pc'[t] \notin {"path", "setname", "setrepo", "cleanup", "finish"} PROVE SwitchInv(t)'
  BY <1>1 DEF SwitchInv
<1>2. ASSUME pc'[t] \in {"path", "setname", "setrepo", "cleanup", "finish"} PROVE SwitchInv(t)'
  <2>1. WriteName(t) \/ WritePath(t) \/ SetName(t) \/ SetRepo(t) \/ Purge(t)
    <3>1. ~(ReadLocation(t) \/ Refuse(t) \/ Acquire(t) \/ Mark(t) \/ End(t) \/ Release(t))
      BY <1>2 DEF ReadLocation, Refuse, Acquire, Mark, End, Release, Goto
    <3>2. ~(Launch(t) \/ ProbeRemote(t) \/ ProbeTarget(t) \/ ProbeSource(t) \/ CountSource(t)
            \/ CopyFile(t))
      BY <1>2 DEF Launch, ProbeRemote, ProbeTarget, ProbeSource, CountSource, CopyFile, Goto, Fail
    <3>3. ~(CopyEnds(t) \/ Verify(t) \/ Recount(t) \/ Finish(t))
      BY <1>2 DEF CopyEnds, Verify, Recount, Finish, Goto, Fail
    <3> QED
      BY <3>1, <3>2, <3>3 DEF Acts, Moves, MigrationStep
  <2>2. job'[t].to = job[t].to
    BY <1>2, JobTarget
  <2>3. CASE WriteName(t)
    BY <1>2, <2>2, <2>3 DEF WriteName, Fail, SwitchInv
  <2>4. CASE WritePath(t)
    BY <1>2, <2>2, <2>4 DEF WritePath, Fail, SwitchInv
  <2>5. CASE SetName(t)
    BY <2>2, <2>5 DEF SetName, Goto, SwitchInv
  <2>6. CASE SetRepo(t)
    BY <2>2, <2>6 DEF SetRepo, Goto, AfterSwitch, SwitchInv
  <2>7. CASE Purge(t)
    BY <2>2, <2>7 DEF Purge, Goto, settings, SwitchInv
  <2> QED
    BY <2>1, <2>3, <2>4, <2>5, <2>6, <2>7
<1> QED
  BY <1>1, <1>2

(* Where nothing answers as a repository, nothing can be restored.          *)
LEMMA NothingThere ==
    ASSUME NEW l, ~Openable(l)
    PROVE  Readable(l) = {}
  BY DEF Openable, Readable, Restorable

LEMMA AdoptedMode ==
    ASSUME TypeOK, NEW t \in Migrations, ProbeTarget(t), pc'[t] = "name"
    PROVE  job'[t].mode = "adopt"
<1>1. job' = [job EXCEPT ![t].mode = "adopt"]
  BY Shapes DEF ProbeTarget, TypeOK
<1>2. \A j \in Jobs : [j EXCEPT !.mode = "adopt"].mode = "adopt"
  BY DEF Jobs
<1> QED
  BY <1>1, <1>2 DEF TypeOK

(* What a copy that ended without an error has carried stays carried until  *)
(* the source is purged; a move whose probe found no source has nothing to  *)
(* carry.                                                                   *)
LEMMA CarryMove ==
    ASSUME TypeOK, NEW t \in Migrations, Acts(t), JobInv(t), CarryInv(t)
    PROVE  CarryInv(t)'
<1> USE Shapes DEF TypeOK
<1> DEFINE Minding == Switching \cup {"verify", "recount", "cleanup"}
<1>1. ASSUME pc'[t] \notin Minding PROVE CarryInv(t)'
  BY <1>1 DEF CarryInv
<1>2. ASSUME pc'[t] \in Minding PROVE CarryInv(t)'
  <2>1. UNCHANGED cancelled
    BY OneFlag
  <2>2. /\ job'[t].from = job[t].from /\ job'[t].to = job[t].to
        /\ ~ProbeTarget(t) => job'[t].mode = job[t].mode
        /\ ~Recount(t) => job'[t].copied = job[t].copied
    BY <1>2, JobTarget DEF Switching
  <2>3. \/ ProbeTarget(t) \/ ProbeSource(t) \/ CopyEnds(t) \/ Verify(t) \/ Recount(t)
        \/ WriteName(t) \/ WritePath(t) \/ SetName(t) \/ SetRepo(t)
    <3>1. ~(ReadLocation(t) \/ Refuse(t) \/ Acquire(t) \/ Mark(t) \/ End(t) \/ Release(t))
      BY <1>2 DEF ReadLocation, Refuse, Acquire, Mark, End, Release, Goto, Switching
    <3>2. ~(Launch(t) \/ ProbeRemote(t) \/ CountSource(t) \/ Purge(t) \/ Finish(t))
      BY <1>2 DEF Launch, ProbeRemote, CountSource, Purge, Finish, Goto, Fail, Switching
    <3>3. ~CopyFile(t)
      BY <1>2 DEF CopyFile, Switching
    <3> QED
      BY <3>1, <3>2, <3>3 DEF Acts, Moves, MigrationStep
  <2>4. UNCHANGED repo
    BY <2>3 DEF ProbeTarget, ProbeSource, CopyEnds, Verify, Recount, WriteName, WritePath, SetName,
                SetRepo, Fail
  <2>5. /\ Carried(t) => Carried(t)'
        /\ Readable(job[t].from) \subseteq Readable(job[t].to) =>
              (Readable(job[t].from) \subseteq Readable(job[t].to))'
    BY <2>2, <2>4 DEF Carried, Landed, Readable, Restorable
  <2>6. CASE ProbeTarget(t)
    <3>1. pc[t] = "target" /\ pc'[t] = "name"
      BY <1>2, <2>6 DEF ProbeTarget, Switching
    <3>2. job'[t].mode = "adopt" /\ ~Recount(t)
      BY <2>6, <3>1, AdoptedMode DEF Recount
    <3>3. ~job'[t].copied
      BY <2>2, <3>1, <3>2 DEF JobInv, Switching
    <3> QED
      BY <3>1, <3>2, <3>3 DEF CarryInv, Switching
  <2>7. CASE ProbeSource(t)
    <3>1. pc[t] = "source" /\ pc'[t] = "name" /\ SaysNo(job[t].from)
      BY <1>2, <2>7 DEF ProbeSource, Switching
    <3>2. ~job'[t].copied
      BY <2>2, <3>1 DEF JobInv, Switching, Recount
    <3>3. ~cancelled /\ "blink" \notin Faults => Readable(job[t].from) = {}
      BY <3>1, NothingThere DEF SaysNo
    <3> QED
      BY <2>1, <2>5, <3>1, <3>2, <3>3 DEF CarryInv, Switching
  <2>8. CASE CopyEnds(t)
    <3>1. pc'[t] = "verify" /\ AllLanded(t)
      BY <1>2, <2>8 DEF CopyEnds, Fail, Switching
    <3>2. Carried(t)
      BY <3>1, Carriages DEF AllLanded, Carried
    <3> QED
      BY <2>5, <3>1, <3>2 DEF CarryInv, Switching
  <2>9. CASE Verify(t) \/ Recount(t)
    <3>1. Carried(t)
      BY <2>9 DEF Verify, Recount, CarryInv
    <3> QED
      BY <2>5, <3>1, CarriedIsReadable DEF CarryInv
  <2>10. CASE WriteName(t) \/ WritePath(t) \/ SetName(t) \/ SetRepo(t)
    <3>1. pc[t] \in Switching /\ ~ProbeTarget(t) /\ ~Recount(t)
      BY <2>10 DEF WriteName, WritePath, SetName, SetRepo, Goto, Switching, ProbeTarget, Recount
    <3>2. pc'[t] \in Switching \cup {"cleanup"}
      BY <1>2, <2>10 DEF WriteName, WritePath, SetName, SetRepo, Goto, AfterSwitch, Fail, Switching
    <3>3. pc'[t] = "cleanup" => job[t].copied
      BY <2>10 DEF WriteName, WritePath, SetName, SetRepo, Goto, AfterSwitch, Fail
    <3> QED
      BY <2>1, <2>2, <2>5, <3>1, <3>2, <3>3 DEF CarryInv, Switching
  <2> QED
    BY <2>3, <2>6, <2>7, <2>8, <2>9, <2>10
<1> QED
  BY <1>1, <1>2

(* "done" is only said where the switch has come to its end, and no setting *)
(* moves until the next migration is under way.                             *)
LEMMA DoneMove ==
    ASSUME TypeOK, GateInv, NEW t \in Tasks, Acts(t), \A m \in Migrations : SwitchInv(m), DoneInv
    PROVE  DoneInv'
<1> USE Shapes DEF TypeOK
<1>0. up /\ UNCHANGED up
  <2>1. pc[t] # "idle" \/ up
    <3>1. CASE ReadLocation(t) \/ StartBackup(t)
      BY <3>1 DEF ReadLocation, StartBackup
    <3>2. CASE Refuse(t) \/ Acquire(t) \/ Mark(t) \/ End(t) \/ Release(t) \/ RunBackup(t)
      BY <3>2 DEF Refuse, Acquire, Mark, End, Release, RunBackup, Goto
    <3>3. ASSUME t \in Migrations, MigrationStep(t) PROVE pc[t] # "idle"
      BY <3>3, RunShape DEF RunsOn, RunEnds, Goto, Moving
    <3> QED
      BY <3>1, <3>2, <3>3 DEF Acts, Moves
  <2> QED
    BY <2>1, OneFlag DEF GateInv
<1>1. CASE t \in Migrations /\ (WriteName(t) \/ WritePath(t) \/ SetName(t) \/ SetRepo(t))
  <2>1. status.active
    BY <1>1 DEF GateInv, WriteName, WritePath, SetName, SetRepo, Goto, Moving
  <2>2. status.phase # "done"
    BY <2>1 DEF GateInv
  <2>3. UNCHANGED status \/ SetPhase("failed") \/ SetPhase("cleanup")
    BY <1>1 DEF WriteName, WritePath, SetName, SetRepo, Fail
  <2>4. "failed" \in Phases /\ "cleanup" \in Phases
    BY DEF Phases
  <2>5. status'.phase # "done"
    BY <2>2, <2>3, <2>4, PhaseIs
  <2> QED
    BY <1>0, <2>5 DEF DoneInv
<1>2. CASE t \in Migrations /\ Finish(t)
  <2>1. pc[t] = "finish" /\ UNCHANGED settings
    BY <1>2 DEF Finish, Goto
  <2>2. job[t].to \in Remotes \X Paths
    BY <1>2 DEF Jobs
  <2>3. /\ nameFile' = job[t].to[1] /\ pathFile' = job[t].to[2]
        /\ envName' = job[t].to[1] /\ envRepo' = job[t].to
    BY <1>2, <2>1 DEF SwitchInv, settings
  <2> QED
    BY <1>0, <2>2, <2>3 DEF DoneInv
<1>3. ASSUME ~(t \in Migrations /\ (WriteName(t) \/ WritePath(t) \/ SetName(t) \/ SetRepo(t))),
             ~(t \in Migrations /\ Finish(t))
      PROVE  DoneInv'
  <2>1. UNCHANGED settings
    BY <1>3, SettingsStay
  <2>2. UNCHANGED status \/ \E ph \in Phases \ {"done"} : SetPhase(ph)
    <3> USE DEF Phases
    <3>1. CASE ReadLocation(t) \/ Refuse(t) \/ Acquire(t) \/ Mark(t) \/ End(t) \/ Release(t)
                  \/ StartBackup(t) \/ RunBackup(t) \/ CopyFile(t) \/ Purge(t)
      BY <3>1 DEF ReadLocation, Refuse, Acquire, Mark, End, Release, StartBackup, RunBackup, CopyFile,
                  Purge
    <3>2. CASE Launch(t) \/ CountSource(t)
      BY <3>2 DEF Launch, CountSource
    <3>3. CASE ProbeRemote(t) \/ ProbeTarget(t) \/ ProbeSource(t)
      BY <3>3 DEF ProbeRemote, ProbeTarget, ProbeSource, Fail
    <3>4. CASE CopyEnds(t) \/ Verify(t) \/ Recount(t)
      BY <3>4 DEF CopyEnds, Verify, Recount, Fail
    <3> QED
      BY <1>3, <3>1, <3>2, <3>3, <3>4 DEF Acts, Moves, MigrationStep
  <2>3. UNCHANGED status \/ status'.phase # "done"
    BY <2>2, PhaseIs
  <2> QED
    BY <1>0, <2>1, <2>3 DEF DoneInv, settings
<1> QED
  BY <1>1, <1>2, <1>3

(* The migrations together with what "done" stands for.                     *)
MovesInv == DoneInv /\ \A t \in Migrations : MoveInv(t)

LEMMA RepoStays ==
    ASSUME NEW t \in Tasks, Acts(t), t \in Migrations => ~CopyFile(t) /\ ~Purge(t),
           t \in Backups => ~RunBackup(t)
    PROVE  UNCHANGED repo
<1>1. CASE ReadLocation(t) \/ Refuse(t) \/ Acquire(t) \/ Mark(t) \/ End(t) \/ Release(t)
              \/ StartBackup(t) \/ Launch(t) \/ ProbeRemote(t) \/ ProbeTarget(t) \/ ProbeSource(t)
  BY <1>1 DEF ReadLocation, Refuse, Acquire, Mark, End, Release, StartBackup, Launch, ProbeRemote,
              ProbeTarget, ProbeSource, Fail
<1>2. CASE CountSource(t) \/ CopyEnds(t) \/ Verify(t) \/ Recount(t) \/ WriteName(t)
              \/ WritePath(t) \/ SetName(t) \/ SetRepo(t) \/ Finish(t)
  BY <1>2 DEF CountSource, CopyEnds, Verify, Recount, WriteName, WritePath, SetName, SetRepo, Finish,
              Fail
<1> QED
  BY <1>1, <1>2 DEF Acts, Moves, MigrationStep

LEMMA CopiesAdd ==
    ASSUME TypeOK, NEW t \in Migrations, CopyFile(t), NEW l \in Locations
    PROVE  repo[l].snaps \subseteq repo'[l].snaps
<1> USE DEF TypeOK
<1>1. PICK c \in Carriage(job[t].from, job[t].to) :
         CopyConfig(c[1], c[2]) \/ CopySnapshot(c[1], c[2])
  BY DEF CopyFile
<1>2. c[2] \in Locations
  BY Carriages
<1>3. CASE CopyConfig(c[1], c[2])
  BY <1>2, <1>3 DEF CopyConfig, Contents
<1>4. CASE CopySnapshot(c[1], c[2])
  BY <1>2, <1>4 DEF CopySnapshot, Contents
<1> QED
  BY <1>1, <1>3, <1>4

LEMMA BackupsAdd ==
    ASSUME TypeOK, NEW t \in Backups, RunBackup(t), NEW l \in Locations
    PROVE  repo[l].snaps \subseteq repo'[l].snaps
<1>1. CASE UNCHANGED repo
  BY <1>1
<1>2. CASE ~UNCHANGED repo
  <2>1. PICK s : repo' = [repo EXCEPT ![envRepo].snaps = @ \cup {s}]
    BY <1>2 DEF RunBackup
  <2> QED
    BY <2>1 DEF TypeOK, Contents
<1> QED
  BY <1>1, <1>2

(* No location lies in the folder of another one: what the theorems on the  *)
(* purge assume, since rclone deletes a folder with all that lies below it. *)
Apart == \A k, l \in Locations : k \in Subtree[l] => k = l

(* Where locations lie apart, a copy goes from the source to the target ... *)
LEMMA CopyIsLocal ==
    ASSUME Apart, TypeOK, NEW t \in Migrations, CopyFile(t)
    PROVE  CopyConfig(job[t].from, job[t].to) \/ CopySnapshot(job[t].from, job[t].to)
<1>1. PICK c \in Carriage(job[t].from, job[t].to) :
         CopyConfig(c[1], c[2]) \/ CopySnapshot(c[1], c[2])
  BY DEF CopyFile
<1>2. c[1] = job[t].from /\ c[2] = job[t].to
  BY Carriages DEF Apart
<1> QED
  BY <1>1, <1>2

(* ... and the purge removes what lies at the source, all of it unless it   *)
(* breaks off.                                                              *)
LEMMA PurgeIsLocal ==
    ASSUME Apart, TypeOK, NEW t \in Migrations, Purge(t)
    PROVE  /\ job[t].from \in Locations
           /\ \E S \in SUBSET repo[job[t].from].snaps, c \in {NoRepo, repo[job[t].from].config} :
                 /\ repo' = [repo EXCEPT ![job[t].from] = [config |-> c, snaps |-> S]]
                 /\ NetworkFails \/ (c = NoRepo /\ S = {})
<1> DEFINE from == job[t].from
<1>1. from \in Locations /\ Subtree[from] = {from}
  <2>1. from \in Locations /\ from \in Subtree[from] /\ Subtree[from] \subseteq Locations
    BY Carriages
  <2>2. \A k \in Subtree[from] : k = from
    BY <2>1 DEF Apart
  <2> HIDE DEF from
  <2> QED
    BY <2>1, <2>2
<1>2. PICK gone \in {Subtree[from]} :
      \E C \in SUBSET gone, S \in SUBSET {p \in gone \X Snaps : p[2] \in repo[p[1]].snaps} :
         /\ NetworkFails \/ (C = {} /\ S = {})
         /\ repo' = [l \in Locations |->
                       IF l \in gone
                       THEN [config |-> IF l \in C THEN repo[l].config ELSE NoRepo,
                             snaps |-> {s \in repo[l].snaps : <<l, s>> \in S}]
                       ELSE repo[l]]
  BY PurgeTakes
<1>5. gone = {from}
  BY <1>1
<1>6. PICK C \in SUBSET gone, S \in SUBSET {p \in gone \X Snaps : p[2] \in repo[p[1]].snaps} :
         /\ NetworkFails \/ (C = {} /\ S = {})
         /\ repo' = [l \in Locations |->
                       IF l \in gone
                       THEN [config |-> IF l \in C THEN repo[l].config ELSE NoRepo,
                             snaps |-> {s \in repo[l].snaps : <<l, s>> \in S}]
                       ELSE repo[l]]
  BY <1>2
<1> HIDE DEF from
<1> DEFINE c == IF from \in C THEN repo[from].config ELSE NoRepo
           T == {s \in repo[from].snaps : <<from, s>> \in S}
<1>3. repo' = [repo EXCEPT ![from] = [config |-> c, snaps |-> T]]
  BY <1>1, <1>5, <1>6 DEF TypeOK
<1>4. /\ T \in SUBSET repo[from].snaps /\ c \in {NoRepo, repo[from].config}
      /\ NetworkFails \/ (c = NoRepo /\ T = {})
  BY <1>5, <1>6
<1> QED
  BY <1>1, <1>3, <1>4 DEF from

LEMMA MovesStart == Init => MovesInv
<1> SUFFICES ASSUME Init PROVE MovesInv
  OBVIOUS
<1>1. /\ \A t \in Migrations : pc[t] = "idle" /\ job[t] = NoJob
      /\ status.phase = "idle"
  BY Shapes DEF Init, IdleStatus
<1>2. NoJob.copied = FALSE
  BY DEF NoJob
<1>3. \A t \in Migrations : ~job[t].copied
  BY <1>1, <1>2
<1> QED
  BY <1>1, <1>3 DEF MovesInv, MoveInv, JobInv, SwitchInv, CarryInv, DoneInv, Switching

LEMMA MovesEngine ==
    ASSUME TypeOK, GateInv, MovesInv, Sigterm \/ Stop \/ Boot \/ UNCHANGED vars
    PROVE  MovesInv'
<1>1. CASE Sigterm
  <2>1. cancelled' /\ UNCHANGED <<up, repo, nameFile, pathFile, envName, envRepo, status, pc, job>>
    BY <1>1 DEF Sigterm, settings
  <2> QED
    BY <2>1 DEF MovesInv, MoveInv, JobInv, SwitchInv, CarryInv, Carried, Landed, DoneInv, Readable, Restorable
<1>2. CASE Stop
  <2>1. /\ \A t \in Migrations : pc'[t] = "idle" /\ job'[t] = NoJob
        /\ status'.phase = "idle" /\ ~up'
    BY <1>2, Shapes DEF Stop, IdleStatus
  <2>2. NoJob.copied = FALSE
    BY DEF NoJob
  <2>3. \A t \in Migrations : ~job'[t].copied
    BY <2>1, <2>2
  <2> QED
    BY <2>1, <2>3 DEF MovesInv, MoveInv, JobInv, SwitchInv, CarryInv, DoneInv, Switching
<1>3. CASE Boot
  <2>1. /\ up' /\ ~up /\ \A t \in Migrations : pc[t] = "idle"
        /\ UNCHANGED <<repo, nameFile, pathFile, status, pc, job>>
    BY <1>3, Shapes DEF Boot, GateInv
  <2>2. DoneInv'
    BY <2>1 DEF MovesInv, DoneInv
  <2> QED
    BY <2>1, <2>2 DEF MovesInv, MoveInv, JobInv, SwitchInv, CarryInv, Switching
<1>4. CASE UNCHANGED vars
  <2>1. UNCHANGED <<up, repo, nameFile, pathFile, envName, envRepo, status, pc, job, cancelled>>
    BY <1>4 DEF vars, settings
  <2> QED
    BY <2>1 DEF MovesInv, MoveInv, JobInv, SwitchInv, CarryInv, Carried, Landed, DoneInv, Readable, Restorable
<1> QED
  BY <1>1, <1>2, <1>3, <1>4

LEMMA AlwaysMoves == Spec => [](TypeOK /\ GateInv /\ MovesInv)
<1>1. TypeOK /\ GateInv /\ MovesInv /\ [Next]_vars => MovesInv'
  <2> SUFFICES ASSUME TypeOK, GateInv, MovesInv, [Next]_vars PROVE MovesInv'
    OBVIOUS
  <2>1. ASSUME NEW t \in Tasks, Acts(t) PROVE MovesInv'
    <3>1. DoneInv'
      BY <2>1, DoneMove DEF MovesInv, MoveInv
    <3>2. ASSUME NEW m \in Migrations PROVE MoveInv(m)'
      <4>1. CASE m = t
        BY <2>1, <4>1, JobMove, SwitchMove, CarryMove DEF MovesInv, MoveInv
      <4>2. CASE m # t
        BY <2>1, <4>2, OthersUndisturbed DEF MovesInv
      <4> QED
        BY <4>1, <4>2
    <3> QED
      BY <3>1, <3>2 DEF MovesInv
  <2> QED
    BY <2>1, Steps, MovesEngine
<1> QED
  BY <1>1, MovesStart, AlwaysGated, PTL DEF Spec

-------------------------------------------------------------------------------
(* A migration that moved makes its target active only when every snapshot  *)
(* of its source can be restored there (MoveCarriesEverything): the order   *)
(* copy, verify, switch of run(), provided the question whether a           *)
(* repository exists is answered while the remote answers at all.           *)
THEOREM MovesCarryEverything == "blink" \notin Faults /\ Spec => []MoveCarriesEverything
<1> SUFFICES ASSUME "blink" \notin Faults PROVE Spec => []MoveCarriesEverything
  OBVIOUS
<1>1. MovesInv => MoveCarriesEverything
  BY DEF MovesInv, MoveInv, CarryInv, MoveCarriesEverything, Switching
<1> QED
  BY <1>1, AlwaysMoves, PTL

(* Where it holds no blank, entrypoint.sh reads back what was written.      *)
LEMMA BootReads ==
    ASSUME NEW l \in Remotes \X Paths, Blankless(l), nameFile = l[1], pathFile = l[2]
    PROVE  BootLocation = l
<1>1. nameFile # NoFile /\ pathFile # NoFile
  BY MigrationAssumption DEF NoFile
<1> QED
  BY <1>1 DEF BootLocation, Blankless

(* Only a migration that copied and verified purges, and only its source;   *)
(* by then a restart would come up at the complete copy (PurgeComesLast).   *)
(* This needs that no location lies in the folder of another one: the purge *)
(* of migrate.go:404 takes the whole folder of the source.                  *)
THEOREM ThePurgeComesLast == Apart /\ Spec => PurgeComesLast
<1> SUFFICES ASSUME Apart PROVE Spec => PurgeComesLast
  OBVIOUS
<1> DEFINE Last == \A l \in Locations :
                      ~(repo[l].snaps \subseteq repo'[l].snaps) /\ Blankless(envRepo) =>
                          /\ BootLocation # l
                          /\ Readable(l) \subseteq Readable(BootLocation)
<1>1. TypeOK /\ GateInv /\ MovesInv /\ [Next]_vars => [Last]_vars
  <2> SUFFICES ASSUME TypeOK, GateInv, MovesInv, Next, NEW l \in Locations,
                      ~(repo[l].snaps \subseteq repo'[l].snaps), Blankless(envRepo)
               PROVE  BootLocation # l /\ Readable(l) \subseteq Readable(BootLocation)
    OBVIOUS
  <2>1. \E t \in Migrations : Purge(t)
    <3>1. ~(Sigterm \/ Stop \/ Boot \/ UNCHANGED vars)
      BY DEF Sigterm, Stop, Boot, vars
    <3>2. PICK t \in Tasks : Acts(t)
      BY <3>1, Steps
    <3>3. t \in Migrations => ~CopyFile(t)
      BY CopiesAdd
    <3>4. t \in Backups => ~RunBackup(t)
      BY BackupsAdd
    <3> QED
      BY <3>2, <3>3, <3>4, RepoStays
  <2>2. PICK t \in Migrations : Purge(t)
    BY <2>1
  <2>3. /\ pc[t] = "cleanup" /\ job[t].from \in Locations
        /\ \E r : repo' = [repo EXCEPT ![job[t].from] = r]
    BY <2>2, PurgeIsLocal DEF Purge, Goto
  <2>4. l = job[t].from
    BY <2>3 DEF TypeOK
  <2>5. /\ job[t].from # job[t].to /\ Carried(t) /\ envRepo = job[t].to
        /\ nameFile = job[t].to[1] /\ pathFile = job[t].to[2]
    BY <2>3 DEF MovesInv, MoveInv, JobInv, SwitchInv, CarryInv
  <2>6. job[t].to \in Remotes \X Paths
    BY DEF TypeOK, Jobs
  <2>7. BootLocation = job[t].to
    BY <2>5, <2>6, BootReads
  <2> QED
    BY <2>4, <2>5, <2>7, CarriedIsReadable
<1> QED
  BY <1>1, AlwaysMoves, PTL DEF Spec, PurgeComesLast

(* After "done" the environment and the next start agree on the location,   *)
(* unless a blank in it is stripped (DoneIsDurable): writeRemoteName,       *)
(* writeRemotePath and os.Setenv of run(), as entrypoint.sh reads them back.*)
THEOREM DoneLastsARestart == Spec => []DoneIsDurable
<1>1. MovesInv => DoneIsDurable
  <2> SUFFICES ASSUME MovesInv, status.phase = "done", Blankless(envRepo)
               PROVE  BootLocation = envRepo /\ envName = envRepo[1]
    BY DEF DoneIsDurable
  <2>1. PICK l \in Remotes \X Paths :
           nameFile = l[1] /\ pathFile = l[2] /\ envName = l[1] /\ envRepo = l
    BY DEF MovesInv, DoneInv
  <2> QED
    BY <2>1, BootReads
<1> QED
  BY <1>1, AlwaysMoves, PTL

-------------------------------------------------------------------------------
(* Custody *)

\* a copy writes where nothing answered, or over what it wrote itself
TargetInv(t) ==
    pc[t] \in {"source", "count", "copy"} /\ ~cancelled =>
        repo[job[t].to].config \in {NoRepo, repo[job[t].from].config} \cup Sealed

\* what lies somewhere unreadable can be restored from elsewhere, unless it is
\* a snapshot of a repository this engine never had the password of
LeftoversInv ==
    \A l \in Locations : \A s \in repo[l].snaps : s[1] \notin Sealed => s \in Keeper!Everything

CustodyInv == LeftoversInv /\ \A t \in Migrations : TargetInv(t)

LEMMA HeldIs ==
    ASSUME TypeOK
    PROVE  /\ Held \in [Locations -> SUBSET Snaps]
           /\ \A l \in Locations : Held[l] = Restorable(repo[l])
           /\ \A s : s \in Keeper!Everything <=> \E l \in Locations : s \in Held[l]
<1>1. \A l \in Locations : Readable(l) \subseteq Snaps
  BY DEF TypeOK, Contents, Readable, Restorable
<1>2. \A l \in Locations : Held[l] = Restorable(repo[l])
  BY DEF Held, Readable
<1>3. Held \in [Locations -> SUBSET Snaps]
  BY <1>1 DEF Held
<1>4. \A s : s \in Keeper!Everything <=> \E l \in Locations : s \in Held[l]
  BY DEF Keeper!Everything
<1> QED
  BY <1>2, <1>3, <1>4

(* The typing of Held, a step later.                                        *)
LEMMA HeldWillBe ==
    ASSUME TypeOK'
    PROVE  /\ Held' \in [Locations -> SUBSET Snaps]
           /\ \A l \in Locations : Held'[l] = Restorable(repo'[l])
           /\ \A s : s \in Keeper!Everything' <=> \E l \in Locations : s \in Held'[l]
<1>1. \A l \in Locations : Readable(l)' \subseteq Snaps
  BY DEF TypeOK, Contents, Readable, Restorable
<1>2. \A l \in Locations : Held'[l] = Restorable(repo'[l])
  BY DEF Held, Readable, Restorable, Opens
<1>3. Held' \in [Locations -> SUBSET Snaps]
  BY <1>1 DEF Held
<1>4. \A s : s \in Keeper!Everything' <=> \E l \in Locations : s \in Held'[l]
  BY DEF Keeper!Everything
<1> QED
  BY <1>2, <1>3, <1>4

(* An update of one field of what lies somewhere.                           *)
LEMMA ContentsUpdates ==
    ASSUME NEW r \in Contents
    PROVE  /\ \A c : [r EXCEPT !.config = c] = [config |-> c, snaps |-> r.snaps]
           /\ \A S : [r EXCEPT !.snaps = S] = [config |-> r.config, snaps |-> S]
  BY DEF Contents

(* What changes at one location changes what is held there.                 *)
LEMMA OneHeld ==
    ASSUME TypeOK, TypeOK', NEW m \in Locations, NEW r \in Contents, repo' = [repo EXCEPT ![m] = r]
    PROVE  Held' = [Held EXCEPT ![m] = Restorable(r)]
<1>1. \A l \in Locations : repo'[l] = IF l = m THEN r ELSE repo[l]
  BY DEF TypeOK
<1>2. \A l \in Locations : Held'[l] = IF l = m THEN Restorable(r) ELSE Held[l]
  <2> SUFFICES ASSUME NEW l \in Locations
               PROVE  Held'[l] = IF l = m THEN Restorable(r) ELSE Held[l]
    OBVIOUS
  <2>1. Held[l] = Restorable(repo[l])
    BY HeldIs
  <2>2. Held'[l] = Restorable(repo'[l])
    BY HeldWillBe
  <2>3. CASE l = m
    BY <1>1, <2>2, <2>3
  <2>4. CASE l # m
    <3>1. repo'[l] = repo[l]
      BY <1>1, <2>4
    <3> QED
      BY <2>1, <2>2, <2>4, <3>1
  <2> QED
    BY <2>3, <2>4
<1> QED
  BY <1>2, HeldIs, HeldWillBe

(* Init of Custody, and what the engine starts with.                        *)
LEMMA CustodyStart == Init => Keeper!Init /\ CustodyInv
<1> SUFFICES ASSUME Init PROVE Keeper!Init /\ CustodyInv
  OBVIOUS
<1>1. TypeOK
  BY MigrationTypeStart
<1>2. Keeper!Init
  BY <1>1, HeldIs DEF Keeper!Init, Keeper!TypeOK
<1>3. LeftoversInv
  <2> SUFFICES ASSUME NEW l \in Locations, NEW s \in repo[l].snaps, s[1] \notin Sealed
               PROVE  s \in Held[l]
    BY <1>1, HeldIs DEF LeftoversInv
  <2>1. l \in RepoIds /\ s = <<l, 0>> /\ repo[l].config = l
    BY DEF Init
  <2>2. Opens(repo[l])
    BY <1>1, <2>1, Places DEF Opens
  <2> QED
    BY <1>1, <2>1, <2>2, HeldIs DEF Restorable
<1>4. \A t \in Migrations : TargetInv(t)
  BY Shapes DEF Init, TargetInv
<1> QED
  BY <1>2, <1>3, <1>4 DEF CustodyInv

(* A copy that found nothing at its target finds nothing else there later.  *)
LEMMA TargetMove ==
    ASSUME "blink" \notin Faults, Apart, TypeOK, NEW t \in Migrations, Acts(t), JobInv(t), TargetInv(t)
    PROVE  TargetInv(t)'
<1> USE Shapes DEF TypeOK
<1>1. ASSUME pc'[t] \notin {"source", "count", "copy"} PROVE TargetInv(t)'
  BY <1>1 DEF TargetInv
<1>2. ASSUME pc'[t] \in {"source", "count", "copy"}, ~cancelled' PROVE TargetInv(t)'
  <2>1. UNCHANGED cancelled
    BY OneFlag
  <2>2. job'[t].from = job[t].from /\ job'[t].to = job[t].to
    BY <1>2, JobTarget
  <2>3. ProbeTarget(t) \/ ProbeSource(t) \/ CountSource(t) \/ CopyFile(t)
    <3>1. ~(ReadLocation(t) \/ Refuse(t) \/ Acquire(t) \/ Mark(t) \/ End(t) \/ Release(t))
      BY <1>2 DEF ReadLocation, Refuse, Acquire, Mark, End, Release, Goto
    <3>2. ~(Launch(t) \/ ProbeRemote(t) \/ CopyEnds(t) \/ Verify(t) \/ Recount(t))
      BY <1>2 DEF Launch, ProbeRemote, CopyEnds, Verify, Recount, Goto, Fail
    <3>3. ~(WriteName(t) \/ WritePath(t) \/ SetName(t) \/ SetRepo(t) \/ Purge(t) \/ Finish(t))
      BY <1>2 DEF WriteName, WritePath, SetName, SetRepo, AfterSwitch, Purge, Finish, Goto, Fail
    <3> QED
      BY <3>1, <3>2, <3>3 DEF Acts, Moves, MigrationStep
  <2>4. CASE ProbeTarget(t)
    <3>1. SaysNo(job[t].to) /\ UNCHANGED repo
      BY <1>2, <2>4 DEF ProbeTarget
    <3>2. repo[job[t].to].config \in {NoRepo} \cup Sealed
      BY <1>2, <2>1, <3>1 DEF SaysNo, Openable, Opens
    <3> QED
      BY <2>2, <3>1, <3>2 DEF TargetInv
  <2>5. CASE ProbeSource(t) \/ CountSource(t)
    <3>1. pc[t] \in {"source", "count"} /\ UNCHANGED repo
      BY <2>5 DEF ProbeSource, CountSource, Goto
    <3> QED
      BY <1>2, <2>1, <2>2, <3>1 DEF TargetInv
  <2>6. CASE CopyFile(t)
    <3>1. pc[t] = "copy" /\ job[t].from \in Locations /\ job[t].to \in Locations
          /\ job[t].from # job[t].to
      BY <2>6, Places DEF CopyFile, JobInv, Jobs
    <3>2. repo[job[t].to].config \in {NoRepo, repo[job[t].from].config} \cup Sealed
      BY <1>2, <2>1, <3>1 DEF TargetInv
    <3>3. repo'[job[t].from] = repo[job[t].from]
          /\ repo'[job[t].to].config \in {NoRepo, repo[job[t].from].config} \cup Sealed
      <4>1. CASE CopyConfig(job[t].from, job[t].to)
        BY <3>1, <4>1 DEF CopyConfig, Contents
      <4>2. CASE CopySnapshot(job[t].from, job[t].to)
        BY <3>1, <3>2, <4>2 DEF CopySnapshot, Contents
      <4> QED
        BY <2>6, <4>1, <4>2, CopyIsLocal
    <3> QED
      BY <2>2, <3>3 DEF TargetInv
  <2> QED
    BY <2>3, <2>4, <2>5, <2>6
<1> QED
  BY <1>1, <1>2 DEF TargetInv

LEMMA TargetOthers ==
    ASSUME TypeOK, GateInv, NEW t \in Tasks, Acts(t), NEW q \in Migrations \ {t}, TargetInv(q)
    PROVE  TargetInv(q)'
<1>1. pc'[q] = pc[q] /\ job'[q] = job[q] /\ UNCHANGED cancelled
  BY OneMoves, OneJob, OneFlag, Shapes DEF TypeOK
<1>2. CASE UNCHANGED repo
  BY <1>1, <1>2 DEF TargetInv
<1>3. CASE ~UNCHANGED repo
  <2>1. \/ t \in Migrations /\ (CopyFile(t) \/ Purge(t))
        \/ t \in Backups /\ RunBackup(t)
    BY <1>3, RepoStays
  <2>2. pc[t] \in Holding
    BY <2>1 DEF CopyFile, Purge, RunBackup, Goto, Holding, Moving
  <2>3. pc[q] \notin Holding
    BY <2>2, Shapes DEF GateInv
  <2> QED
    BY <1>1, <2>3 DEF TargetInv, Holding, Moving
<1> QED
  BY <1>2, <1>3

(* A file copied makes nothing unreadable, and readable only what was       *)
(* readable somewhere.                                                      *)
LEMMA CopyKeeps ==
    ASSUME Apart, TypeOK, TypeOK', LeftoversInv, NEW t \in Migrations, CopyFile(t), TargetInv(t)
    PROVE  Keeper!Next /\ LeftoversInv'
<1> DEFINE from == job[t].from
           to == job[t].to
<1>1. from \in Locations /\ to \in Locations /\ repo[from] \in Contents /\ repo[to] \in Contents
  BY Places DEF TypeOK, Jobs
<1>2. /\ repo[to].config \in {NoRepo, repo[from].config} \cup Sealed
      /\ CopyConfig(from, to) \/ CopySnapshot(from, to)
  BY CopyIsLocal DEF CopyFile, TargetInv, Answers
<1> HIDE DEF from, to
<1>3. PICK r \in Contents : /\ repo' = [repo EXCEPT ![to] = r]
                            /\ r.config = repo[to].config \/ ~Opens(repo[to])
                            /\ repo[to].snaps \subseteq r.snaps
                            /\ r.snaps \subseteq repo[to].snaps \cup repo[from].snaps
  <2>1. CASE CopyConfig(from, to)
    <3>1. repo' = [repo EXCEPT ![to] = [config |-> repo[from].config, snaps |-> repo[to].snaps]]
      <4>1. repo' = [repo EXCEPT ![to] = [repo[to] EXCEPT !.config = repo[from].config]]
        BY <2>1 DEF CopyConfig
      <4> QED
        BY <1>1, <4>1, ContentsUpdates
    <3>2. [config |-> repo[from].config, snaps |-> repo[to].snaps] \in Contents
      BY <1>1 DEF Contents
    <3>3. ~Opens(repo[to])
      BY <1>2, <2>1 DEF CopyConfig, Opens
    <3> QED
      BY <3>1, <3>2, <3>3
  <2>2. CASE CopySnapshot(from, to)
    <3>1. PICK s \in repo[from].snaps : repo' = [repo EXCEPT ![to].snaps = @ \cup {s}]
      BY <2>2 DEF CopySnapshot
    <3>2. repo' = [repo EXCEPT ![to] = [config |-> repo[to].config, snaps |-> repo[to].snaps \cup {s}]]
      <4>1. repo' = [repo EXCEPT ![to] = [repo[to] EXCEPT !.snaps = repo[to].snaps \cup {s}]]
        BY <3>1
      <4> QED
        BY <1>1, <4>1, ContentsUpdates
    <3>3. [config |-> repo[to].config, snaps |-> repo[to].snaps \cup {s}] \in Contents
      BY <1>1, <3>1 DEF Contents
    <3> QED
      BY <3>2, <3>3
  <2> QED
    BY <1>2, <2>1, <2>2
<1>4. Held' = [Held EXCEPT ![to] = Restorable(r)]
  BY <1>1, <1>3, OneHeld
<1> DEFINE S == Restorable(r)
<1>5. S \subseteq Keeper!Everything
  <2> SUFFICES ASSUME NEW s \in S PROVE s \in Keeper!Everything
    OBVIOUS
  <2>1. s \in repo[to].snaps \cup repo[from].snaps /\ s[1] \notin Sealed
    BY <1>3 DEF Restorable, Opens
  <2> QED
    BY <1>1, <2>1 DEF LeftoversInv
<1>6. Held[to] \subseteq S
  <2>1. Held[to] = Restorable(repo[to])
    BY <1>1, HeldIs
  <2> QED
    BY <1>3, <2>1 DEF Restorable, Opens
<1> HIDE DEF S
<1>7. Keeper!Copy(to)
  <2>1. Held' = [Held EXCEPT ![to] = @ \cup S]
    BY <1>4, <1>6 DEF S
  <2> QED
    BY <1>5, <2>1 DEF Keeper!Copy
<1>8. Keeper!Everything \subseteq Keeper!Everything'
  BY <1>1, <1>4, <1>6, HeldIs, HeldWillBe DEF S
<1>9. LeftoversInv'
  <2>1. \A l \in Locations : \A s \in repo'[l].snaps : s[1] \notin Sealed => s \in Keeper!Everything
    BY <1>1, <1>3 DEF LeftoversInv, TypeOK
  <2> QED
    BY <2>1, <1>8 DEF LeftoversInv
<1> QED
  BY <1>1, <1>7, <1>9 DEF Keeper!Next

(* A purge discards at the source what the target holds.                    *)
LEMMA PurgeKeeps ==
    ASSUME Apart, TypeOK, TypeOK', LeftoversInv, NEW t \in Migrations, Purge(t), JobInv(t), CarryInv(t)
    PROVE  Keeper!Next /\ LeftoversInv'
<1> DEFINE from == job[t].from
           to == job[t].to
<1>1. from \in Locations /\ to \in Locations /\ repo[from] \in Contents /\ repo[to] \in Contents
  BY Places DEF TypeOK, Jobs
<1>2. from # to /\ Carried(t)
  BY DEF Purge, Goto, JobInv, CarryInv
<1>3. Readable(from) \subseteq Readable(to)
  BY <1>2, CarriedIsReadable
<1>4. PICK S \in SUBSET repo[from].snaps, c \in {NoRepo, repo[from].config} :
         repo' = [repo EXCEPT ![from] = [config |-> c, snaps |-> S]]
  BY PurgeIsLocal
<1> HIDE DEF from, to
<1> DEFINE r == [config |-> c, snaps |-> S]
           Left == Restorable(r)
<1>5. r \in Contents
  BY <1>1, <1>4 DEF Contents
<1>6. Held' = [Held EXCEPT ![from] = Left]
  <2>1. repo' = [repo EXCEPT ![from] = r]
    BY <1>4
  <2> HIDE DEF r
  <2> QED
    BY <1>1, <1>5, <2>1, OneHeld
<1>7. Held[from] = Restorable(repo[from]) /\ Held[to] = Restorable(repo[to])
  BY <1>1, HeldIs
<1>8. Left \subseteq Held[from]
  BY <1>4, <1>7 DEF Restorable, Opens
<1>9. Held[from] \subseteq Held[to]
  BY <1>3, <1>7 DEF Readable
<1> HIDE DEF Left, r
<1>10. Keeper!Discard(from, to)
  BY <1>2, <1>6, <1>8, <1>9 DEF Keeper!Discard
<1>11. Keeper!Everything \subseteq Keeper!Everything'
  <2>1. Held'[to] = Held[to] /\ \A l \in Locations \ {from} : Held'[l] = Held[l]
    BY <1>1, <1>2, <1>6, HeldIs
  <2> QED
    BY <1>1, <1>9, <2>1, HeldIs, HeldWillBe
<1>12. LeftoversInv'
  <2>1. \A l \in Locations : repo'[l].snaps \subseteq repo[l].snaps
    BY <1>1, <1>4 DEF TypeOK
  <2> QED
    BY <2>1, <1>11 DEF LeftoversInv
<1> QED
  BY <1>1, <1>10, <1>12 DEF Keeper!Next

(* A backup adds a snapshot that lay nowhere.                               *)
LEMMA BackupKeeps ==
    ASSUME TypeOK, TypeOK', LeftoversInv, NEW t \in Backups, RunBackup(t)
    PROVE  [Keeper!Next]_Held /\ LeftoversInv'
<1>1. CASE UNCHANGED repo
  BY <1>1 DEF Held, Readable, Restorable, Opens, LeftoversInv, Keeper!Everything
<1>2. CASE ~UNCHANGED repo
  <2>1. PICK n \in 0 .. MaxBackups :
           /\ Openable(envRepo)
           /\ \A l \in Locations : <<repo[envRepo].config, n>> \notin repo[l].snaps
           /\ repo' = [repo EXCEPT ![envRepo].snaps = @ \cup {<<repo[envRepo].config, n>>}]
    BY <1>2 DEF RunBackup
  <2>2. envRepo \in Locations /\ repo[envRepo] \in Contents
    BY DEF TypeOK
  <2> DEFINE s == <<repo[envRepo].config, n>>
             r == [config |-> repo[envRepo].config, snaps |-> repo[envRepo].snaps \cup {s}]
  <2>3. s \in Snaps /\ s[1] = repo[envRepo].config
    BY <2>1, <2>2 DEF Openable, Opens, Contents, Snaps
  <2>4. r \in Contents /\ repo' = [repo EXCEPT ![envRepo] = r]
    <3>1. r \in Contents
      BY <2>2, <2>3 DEF Contents
    <3>2. repo' = [repo EXCEPT ![envRepo] = [repo[envRepo] EXCEPT !.snaps = repo[envRepo].snaps \cup {s}]]
      BY <2>1
    <3> QED
      BY <2>2, <3>1, <3>2, ContentsUpdates
  <2>5. Held' = [Held EXCEPT ![envRepo] = Restorable(r)]
    <3> HIDE DEF r
    <3> QED
      BY <2>2, <2>4, OneHeld
  <2> HIDE DEF s
  <2>6. Held' = [Held EXCEPT ![envRepo] = @ \cup {s}]
    <3>1. Held[envRepo] = Restorable(repo[envRepo])
      BY <2>2, HeldIs
    <3>2. Restorable(r) = Held[envRepo] \cup {s}
      BY <2>1, <2>3, <3>1 DEF Restorable, Openable, Opens
    <3> QED
      BY <2>5, <3>2
  <2>7. s \notin Keeper!Everything
    BY <2>1, HeldIs DEF s, Restorable
  <2>8. Keeper!Backup(envRepo)
    BY <2>3, <2>6, <2>7 DEF Keeper!Backup
  <2>9. Keeper!Everything \cup {s} \subseteq Keeper!Everything'
    BY <2>2, <2>6, HeldIs, HeldWillBe
  <2>10. LeftoversInv'
    <3>1. \A l \in Locations : repo'[l].snaps \subseteq repo[l].snaps \cup {s}
      BY <2>2, <2>4 DEF TypeOK
    <3> QED
      BY <2>9, <3>1 DEF LeftoversInv
  <2> QED
    BY <2>2, <2>8, <2>10 DEF Keeper!Next
<1> QED
  BY <1>1, <1>2

LEMMA CustodyStep ==
    ASSUME "blink" \notin Faults, Apart, TypeOK, TypeOK', GateInv, MovesInv, CustodyInv, [Next]_vars
    PROVE  [Keeper!Next]_Held /\ CustodyInv'
<1>1. CASE UNCHANGED repo
  <2>1. [Keeper!Next]_Held /\ LeftoversInv'
    BY <1>1 DEF Held, Readable, Restorable, Opens, LeftoversInv, Keeper!Everything, CustodyInv
  <2>2. ASSUME NEW m \in Migrations PROVE TargetInv(m)'
    <3>1. ASSUME NEW t \in Tasks, Acts(t) PROVE TargetInv(m)'
      BY <3>1, TargetMove, TargetOthers DEF CustodyInv, MovesInv, MoveInv
    <3>2. CASE Sigterm
      BY <3>2 DEF Sigterm, TargetInv
    <3>3. CASE Stop
      BY <3>3, Shapes DEF Stop, TargetInv
    <3>4. CASE Boot
      <4>1. pc'[m] = "idle"
        BY <3>4, Shapes DEF Boot, GateInv
      <4> QED
        BY <4>1 DEF TargetInv
    <3>5. CASE UNCHANGED vars
      BY <3>5 DEF vars, TargetInv, CustodyInv
    <3> QED
      BY <3>1, <3>2, <3>3, <3>4, <3>5, Steps
  <2> QED
    BY <2>1, <2>2 DEF CustodyInv
<1>2. CASE ~UNCHANGED repo
  <2>1. ~(Sigterm \/ Stop \/ Boot \/ UNCHANGED vars)
    BY <1>2 DEF Sigterm, Stop, Boot, vars
  <2>2. PICK t \in Tasks : Acts(t)
    BY <2>1, Steps
  <2>3. \A m \in Migrations : TargetInv(m)'
    BY <2>2, TargetMove, TargetOthers DEF CustodyInv, MovesInv, MoveInv
  <2>4. [Keeper!Next]_Held /\ LeftoversInv'
    <3>1. CASE t \in Migrations /\ CopyFile(t)
      BY <3>1, CopyKeeps DEF CustodyInv
    <3>2. CASE t \in Migrations /\ Purge(t)
      BY <3>2, PurgeKeeps DEF CustodyInv, MovesInv, MoveInv
    <3>3. CASE t \in Backups /\ RunBackup(t)
      BY <3>3, BackupKeeps DEF CustodyInv
    <3> QED
      BY <1>2, <2>2, <3>1, <3>2, <3>3, RepoStays
  <2> QED
    BY <2>3, <2>4 DEF CustodyInv
<1> QED
  BY <1>1, <1>2

(* Migration implements Custody (KeepsCustody), where no folder lies in     *)
(* another one and repoExists is not mistaken about a remote that answers:  *)
(* through broken copies, purges and writes, crashes, shutdowns and races,  *)
(* a snapshot goes from one location only while another holds it.           *)
THEOREM MigrationKeepsCustody == Apart /\ "blink" \notin Faults /\ Spec => KeepsCustody
<1> SUFFICES ASSUME Apart, "blink" \notin Faults PROVE Spec => KeepsCustody
  OBVIOUS
<1>1. /\ TypeOK /\ GateInv /\ MovesInv
      /\ (TypeOK /\ GateInv /\ MovesInv)'
      /\ CustodyInv /\ [Next]_vars
      => [Keeper!Next]_Held /\ CustodyInv'
  BY CustodyStep
<1>2. Spec => [](TypeOK /\ GateInv /\ MovesInv)
  BY AlwaysMoves
<1>3. Spec => []CustodyInv
  BY <1>1, <1>2, CustodyStart, PTL DEF Spec
<1> QED
  BY <1>1, <1>2, <1>3, CustodyStart, PTL DEF Spec, KeepsCustody, Keeper!Spec

-------------------------------------------------------------------------------
(* Why a system that keeps the promises of Custody never loses a snapshot.   *)

(* The typing of Held is preserved by every step of Custody.                 *)
LEMMA KeeperTypeStep == Keeper!TypeOK /\ [Keeper!Next]_Held => Keeper!TypeOK'
<1> SUFFICES ASSUME Keeper!TypeOK, [Keeper!Next]_Held PROVE Keeper!TypeOK'
  OBVIOUS
<1> USE DEF Keeper!TypeOK
<1>1. ASSUME NEW l \in Locations, Keeper!Backup(l) PROVE Keeper!TypeOK'
  BY <1>1 DEF Keeper!Backup
<1>2. ASSUME NEW m \in Locations, Keeper!Copy(m) PROVE Keeper!TypeOK'
  <2>1. PICK S \in SUBSET Keeper!Everything : Held' = [Held EXCEPT ![m] = @ \cup S]
    BY <1>2 DEF Keeper!Copy
  <2>2. S \subseteq Snaps /\ Held[m] \subseteq Snaps
    BY DEF Keeper!Everything
  <2> QED
    BY <2>1, <2>2
<1>3. ASSUME NEW l \in Locations, NEW m \in Locations, Keeper!Discard(l, m)
      PROVE  Keeper!TypeOK'
  <2>1. PICK S \in SUBSET Held[l] : Held' = [Held EXCEPT ![l] = S]
    BY <1>3 DEF Keeper!Discard
  <2> QED
    BY <2>1
<1>4. CASE UNCHANGED Held
  BY <1>4
<1> QED
  BY <1>1, <1>2, <1>3, <1>4 DEF Keeper!Next

(* A snapshot that can be restored from somewhere still can after any step:  *)
(* what Discard takes from one location lies at the other.                   *)
LEMMA NothingLostStep ==
    Keeper!TypeOK /\ [Keeper!Next]_Held => Keeper!Everything \subseteq Keeper!Everything'
<1> SUFFICES ASSUME Keeper!TypeOK, [Keeper!Next]_Held, NEW s \in Keeper!Everything
             PROVE  s \in Keeper!Everything'
  OBVIOUS
<1>1. PICK k \in Locations : s \in Held[k]
  BY DEF Keeper!Everything
<1>2. SUFFICES \E n \in Locations : s \in Held'[n]
  BY DEF Keeper!Everything
<1>3. ASSUME NEW l \in Locations, Keeper!Backup(l) PROVE s \in Held'[k]
  BY <1>1, <1>3 DEF Keeper!Backup, Keeper!TypeOK
<1>4. ASSUME NEW m \in Locations, Keeper!Copy(m) PROVE s \in Held'[k]
  BY <1>1, <1>4 DEF Keeper!Copy, Keeper!TypeOK
<1>5. ASSUME NEW l \in Locations, NEW m \in Locations, Keeper!Discard(l, m)
      PROVE  \E n \in Locations : s \in Held'[n]
  <2>1. PICK S \in SUBSET Held[l] : Held' = [Held EXCEPT ![l] = S]
    BY <1>5 DEF Keeper!Discard
  <2>2. CASE k # l
    BY <1>1, <2>1, <2>2 DEF Keeper!TypeOK
  <2>3. CASE k = l
    <3>1. s \in Held[m] /\ l # m
      BY <1>1, <1>5, <2>3 DEF Keeper!Discard
    <3> QED
      BY <2>1, <3>1 DEF Keeper!TypeOK
  <2> QED
    BY <2>2, <2>3
<1>6. CASE UNCHANGED Held
  BY <1>1, <1>6
<1> QED
  BY <1>1, <1>3, <1>4, <1>5, <1>6 DEF Keeper!Next

(* What implements Custody always maps the locations to sets of snapshots.   *)
LEMMA CustodyTyped == Keeper!Spec => []Keeper!TypeOK
<1>1. Keeper!Init => Keeper!TypeOK
  BY DEF Keeper!Init
<1> QED
  BY <1>1, KeeperTypeStep, PTL DEF Keeper!Spec

(* What implements Custody never loses a snapshot, however many locations    *)
(* and snapshots there are: what one location gives up lies at another.      *)
THEOREM CustodyKeepsEverything == Keeper!Spec => Keeper!NothingLost
<1>1. Keeper!TypeOK /\ [Keeper!Next]_Held => [Keeper!Everything \subseteq Keeper!Everything']_Held
  BY NothingLostStep
<1> QED
  BY <1>1, CustodyTyped, PTL DEF Keeper!Spec, Keeper!NothingLost

(* A snapshot that can be restored from somewhere can be restored from      *)
(* somewhere ever after (NothingLost of Custody): what the comment at       *)
(* migrate.go:347 promises of a migration, kept under the two conditions of *)
(* MigrationKeepsCustody.                                                   *)
THEOREM NoSnapshotIsLost == Apart /\ "blink" \notin Faults /\ Spec => Keeper!NothingLost
  BY MigrationKeepsCustody, CustodyKeepsEverything, PTL DEF KeepsCustody

-------------------------------------------------------------------------------
(* One migration after the other, where nothing fails *)

Quiet == Apart /\ Faults = {} /\ Foreign = {} /\ \A t, u \in Migrations : t = u

Asked == {"read", "locked", "marked", "preflight", "target", "source", "count"}
Copying == {"copy", "verify", "recount"}

\* the repository of this engine, complete; and a place with nothing in it
Whole(l) == repo[l].config = Home /\ repo[l].snaps = made
Vacant(l) == repo[l].config = NoRepo /\ repo[l].snaps = {}

\* nothing lies beside the active location but the copy under way, and then
\* what the purge will take
Aside(t, l) ==
    \/ Vacant(l)
    \/ l = job[t].to /\ pc[t] \in Copying \cup Switching
    \/ l = job[t].from /\ pc[t] = "cleanup"

Lone(t) ==
    /\ pc[t] \notin {"setname", "setrepo"} => Here = envRepo
    /\ pc[t] \in Asked \cup Copying \cup Switching => job[t].from = envRepo
    /\ \A l \in Locations \ {envRepo} : Aside(t, l)
    /\ pc[t] = "copy" => /\ repo[job[t].to].config \in {NoRepo, Home}
                         /\ repo[job[t].to].snaps \subseteq made
    /\ pc[t] \in {"verify", "recount"} \cup Switching => Whole(job[t].to)
    /\ pc[t] \in Copying => job[t].count = Cardinality(made)
    /\ pc[t] \in Switching => job[t].copied

LoneInv ==
    /\ up /\ ~cancelled
    /\ \A s \in made : s[1] = Home
    /\ Whole(envRepo)
    /\ \A t \in Migrations : Lone(t)

LEMMA LoneStart == Quiet /\ Init => LoneInv
<1> SUFFICES ASSUME Quiet, Init PROVE LoneInv
  OBVIOUS
<1>1. RepoIds = {Home} /\ TypeOK
  BY MigrationTypeStart DEF Quiet, RepoIds
<1>2. Home \in Locations
  BY <1>1, Places
<1>3. ASSUME NEW l \in Locations
      PROVE  /\ l = Home => repo[l].config = Home /\ repo[l].snaps = {<<Home, 0>>}
             /\ l # Home => Vacant(l)
  <2>1. repo[l] = IF l = Home THEN [config |-> l, snaps |-> {<<l, 0>>}]
                              ELSE [config |-> NoRepo, snaps |-> {}]
    BY <1>1 DEF Init
  <2> QED
    BY <2>1 DEF Vacant
<1>4. envRepo = Home /\ made = {<<Home, 0>>} /\ up /\ ~cancelled /\ Here = Home
  BY DEF Init, Here, CurrentPath, NoFile, Home
<1>5. \A t \in Migrations : pc[t] = "idle"
  BY Shapes DEF Init
<1>6. \A t \in Migrations : Lone(t)
  BY <1>3, <1>4, <1>5 DEF Lone, Asked, Copying, Switching, Aside
<1> QED
  BY <1>2, <1>3, <1>4, <1>6 DEF LoneInv, Whole

(* The active location can be opened and counted, and nothing else fails.   *)
LEMMA QuietAnswers ==
    ASSUME Quiet, TypeOK, LoneInv
    PROVE  /\ Answers /\ ~NetworkFails /\ "blink" \notin Faults /\ "write" \notin Faults
           /\ ~Sigterm /\ ~Stop /\ ~Boot
           /\ \A l \in Locations : Whole(l) => /\ Openable(l) /\ Readable(l) = made
                                               /\ repo[l].snaps = Readable(l)
           /\ \A l \in Locations : Vacant(l) => ~Openable(l)
<1>1. Answers /\ ~NetworkFails /\ "blink" \notin Faults /\ "write" \notin Faults
  BY DEF Quiet, LoneInv, Answers, NetworkFails
<1>2. ~Sigterm /\ ~Stop /\ ~Boot
  BY DEF Quiet, LoneInv, Sigterm, Stop, Boot
<1>3. Home # NoRepo /\ Home \notin Sealed
  BY Places, MigrationAssumption DEF RepoIds, Home
<1>4. \A l \in Locations : Whole(l) => /\ Openable(l) /\ Readable(l) = made
                                       /\ repo[l].snaps = Readable(l)
  BY <1>3 DEF LoneInv, Whole, Openable, Readable, Opens, Restorable
<1>5. \A l \in Locations : Vacant(l) => ~Openable(l)
  BY DEF Vacant, Openable, Opens
<1> QED
  BY <1>1, <1>2, <1>4, <1>5

(* Where neither the repositories nor the settings change, only what the     *)
(* migration's own place asks for is to be shown.                            *)
LEMMA LoneStays ==
    ASSUME LoneInv, UNCHANGED <<repo, settings, up, cancelled, made>>,
           \A t \in Migrations : UNCHANGED <<pc[t], job[t]>> \/ Lone(t)'
    PROVE  LoneInv'
<1>1. \A l : (Whole(l)' <=> Whole(l)) /\ (Vacant(l)' <=> Vacant(l))
  BY DEF Whole, Vacant
<1>2. Here' = Here /\ envRepo' = envRepo
  BY DEF Here, CurrentPath, settings
<1>3. ASSUME NEW t \in Migrations, UNCHANGED <<pc[t], job[t]>> PROVE Lone(t)'
  <2>1. Lone(t)
    BY DEF LoneInv
  <2> QED
    BY <1>1, <1>2, <1>3, <2>1 DEF Lone, Aside
<1>4. Whole(envRepo)'
  BY <1>1, <1>2 DEF LoneInv
<1> QED
  BY <1>3, <1>4 DEF LoneInv

(* A backup adds to the active location, and only while no migration has     *)
(* begun to count or to copy.                                                *)
LEMMA LoneBackup ==
    ASSUME Quiet, TypeOK, GateInv, LoneInv, NEW b \in Backups, Acts(b)
    PROVE  LoneInv'
<1> USE Shapes DEF TypeOK
<1>1. ASSUME NEW t \in Migrations PROVE pc'[t] = pc[t] /\ job'[t] = job[t]
  BY OneMoves, OneJob
<1>2. UNCHANGED <<up, cancelled>>
  BY OneFlag
<1>3. UNCHANGED settings
  BY DEF Acts, Moves, Mark, End, Release, StartBackup, RunBackup
<1>4. CASE UNCHANGED <<repo, made>>
  BY <1>1, <1>2, <1>3, <1>4, LoneStays
<1>5. CASE ~UNCHANGED <<repo, made>>
  <2>1. RunBackup(b)
    BY <1>5 DEF Acts, Moves, Mark, End, Release, StartBackup, ghosts
  <2>2. PICK n \in 0 .. MaxBackups :
           /\ repo' = [repo EXCEPT ![envRepo].snaps = @ \cup {<<repo[envRepo].config, n>>}]
           /\ made' = made \cup {<<repo[envRepo].config, n>>}
    BY <1>5, <2>1 DEF RunBackup
  <2>3. repo[envRepo].config = Home /\ repo[envRepo].snaps = made
    BY DEF LoneInv, Whole
  <2>4. Whole(envRepo)' /\ \A s \in made' : s[1] = Home
    <3>1. repo[envRepo] \in Contents /\ envRepo' = envRepo
      BY <1>3 DEF settings
    <3>2. repo'[envRepo] = [repo[envRepo] EXCEPT !.snaps = @ \cup {<<repo[envRepo].config, n>>}]
      BY <2>2
    <3>3. repo'[envRepo].config = Home /\ repo'[envRepo].snaps = made'
      BY <2>2, <2>3, <3>1, <3>2 DEF Contents
    <3>4. \A s \in made' : s[1] = Home
      BY <2>2, <2>3 DEF LoneInv
    <3> QED
      BY <3>1, <3>3, <3>4 DEF Whole
  <2>5. \A l \in Locations \ {envRepo} : Vacant(l)' <=> Vacant(l)
    BY <2>2 DEF Vacant
  <2>6. ASSUME NEW t \in Migrations PROVE Lone(t)'
    <3>1. pc[b] = "backup" /\ gate = b
      BY <2>1 DEF RunBackup, Goto, GateInv, Holding
    <3>2. pc[t] \notin Holding
      BY <3>1 DEF GateInv
    <3>3. pc[t] \notin Copying \cup Switching \cup {"cleanup"}
      BY <3>2 DEF Holding, Moving, Copying, Switching
    <3>4. Here' = Here /\ envRepo' = envRepo
      BY <1>3 DEF Here, CurrentPath, settings
    <3>5. Lone(t)
      BY DEF LoneInv
    <3> QED
      BY <1>1, <2>5, <3>3, <3>4, <3>5 DEF Lone, Aside, Copying, Switching
  <2> QED
    BY <1>2, <2>4, <2>6 DEF LoneInv
<1> QED
  BY <1>4, <1>5

(* The steps of a migration that change neither repositories nor settings.   *)
LEMMA LoneThinks ==
    ASSUME Quiet, TypeOK, MovesInv, LoneInv, NEW t \in Migrations, Acts(t),
           ~CopyFile(t), ~Purge(t), ~WriteName(t), ~WritePath(t), ~SetName(t), ~SetRepo(t)
    PROVE  LoneInv'
<1> USE Shapes DEF TypeOK
<1>1. \A m \in Migrations : m = t
  BY DEF Quiet
<1>2. UNCHANGED <<up, cancelled, repo, made, settings>>
  <2>1. CASE ReadLocation(t) \/ Refuse(t) \/ Acquire(t) \/ Mark(t) \/ End(t) \/ Release(t)
    BY <2>1 DEF ReadLocation, Refuse, Acquire, Mark, End, Release, ghosts
  <2>2. CASE Launch(t) \/ ProbeRemote(t) \/ ProbeTarget(t) \/ ProbeSource(t) \/ CountSource(t)
    BY <2>2 DEF Launch, ProbeRemote, ProbeTarget, ProbeSource, CountSource, Fail, ghosts
  <2>3. CASE CopyEnds(t) \/ Verify(t) \/ Recount(t) \/ Finish(t)
    BY <2>3 DEF CopyEnds, Verify, Recount, Finish, Fail, ghosts
  <2> QED
    BY <2>1, <2>2, <2>3 DEF Acts, Moves, MigrationStep
<1>3. /\ Here' = Here /\ envRepo' = envRepo /\ made' = made /\ repo' = repo
      /\ \A l : (Whole(l)' <=> Whole(l)) /\ (Vacant(l)' <=> Vacant(l))
  BY <1>2 DEF Here, CurrentPath, settings, Whole, Vacant
<1>4. Lone(t) /\ Whole(envRepo) /\ envRepo \in Locations
  BY DEF LoneInv
<1>5. job[t].from \in Locations /\ job[t].to \in Locations
  BY Places DEF Jobs
<1>6. pc[t] # "idle" => job[t].from # job[t].to
  BY DEF MovesInv, MoveInv, JobInv
<1>7. job[t] \in Jobs /\ job \in [Migrations -> Jobs] /\ pc \in [Tasks -> PCs] /\ t \in Tasks
  OBVIOUS
<1>q. /\ Answers /\ ~NetworkFails /\ "blink" \notin Faults /\ ~cancelled /\ "network" \notin Faults
      /\ \A l \in Locations : Whole(l) => /\ Openable(l) /\ Readable(l) = made
                                          /\ repo[l].snaps = Readable(l)
      /\ \A l \in Locations : Vacant(l) => ~Openable(l)
  BY QuietAnswers DEF NetworkFails
<1> HIDE DEF TypeOK
<1> USE DEF Asked, Copying, Switching
<1>s. ASSUME Lone(t)' PROVE LoneInv'
  BY <1>1, <1>2, <1>s, LoneStays
<1>8. ASSUME pc[t] \notin Copying \cup Switching \cup {"cleanup"},
             pc'[t] \notin Copying \cup Switching \cup {"cleanup"},
             pc'[t] \in Asked => job'[t].from = envRepo
      PROVE  LoneInv'
  <2>1. \A l \in Locations \ {envRepo} : Vacant(l)
    BY <1>4, <1>8 DEF Lone, Aside
  <2>2. \A l \in Locations \ {envRepo'} : Aside(t, l)'
    BY <1>3, <2>1 DEF Aside
  <2>3. Here' = envRepo'
    BY <1>3, <1>4, <1>8 DEF Lone
  <2>4. Lone(t)'
    BY <1>3, <1>8, <2>2, <2>3 DEF Lone
  <2> QED
    BY <1>s, <2>4
<1>9. CASE ReadLocation(t)
  <2>1. PICK l \in Remotes \X Paths : job' = [job EXCEPT ![t].from = Here, ![t].to = l]
    BY <1>9 DEF ReadLocation
  <2>2. job'[t].from = Here
    BY <1>7, <2>1 DEF Jobs
  <2>3. pc[t] = "idle" /\ pc'[t] = "read"
    BY <1>7, <1>9 DEF ReadLocation, Goto
  <2>4. Here = envRepo
    BY <1>4, <2>3 DEF Lone
  <2> QED
    BY <1>8, <2>2, <2>3, <2>4
<1>10. CASE Refuse(t) \/ Release(t)
  <2>1. pc[t] \in {"read", "unlocking"} /\ pc'[t] = "idle"
    BY <1>7, <1>10 DEF Refuse, Release, Goto
  <2> QED
    BY <1>8, <2>1
<1>11. CASE Acquire(t) \/ Mark(t) \/ End(t) \/ Launch(t) \/ Finish(t)
  <2>1. /\ pc[t] \in {"read", "locked", "marked", "finish", "ending"}
        /\ pc'[t] \in {"locked", "marked", "preflight", "ending", "unlocking"}
        /\ pc'[t] \in Asked => pc[t] \in Asked
        /\ UNCHANGED job
    BY <1>7, <1>11 DEF Acquire, Mark, End, Launch, Finish, Goto
  <2>2. pc[t] \in Asked => job[t].from = envRepo
    BY <1>4 DEF Lone
  <2> QED
    BY <1>8, <2>1, <2>2
<1>12. CASE ProbeRemote(t)
  <2>1. pc[t] = "preflight" /\ pc'[t] = "target" /\ UNCHANGED job
    BY <1>7, <1>q, <1>12 DEF ProbeRemote
  <2>2. job[t].from = envRepo
    BY <1>4, <2>1 DEF Lone
  <2> QED
    BY <1>8, <2>1, <2>2
<1>13. CASE ProbeTarget(t)
  <2>1. pc[t] = "target"
    BY <1>13 DEF ProbeTarget
  <2>2. job[t].from = envRepo
    BY <1>4, <2>1 DEF Lone
  <2>3. Vacant(job[t].to)
    BY <1>4, <1>5, <1>6, <2>1, <2>2 DEF Lone, Aside
  <2>4. ~SaysYes(job[t].to)
    BY <1>5, <1>q, <2>3 DEF SaysYes
  <2>5. pc'[t] = "source"
    BY <1>7, <1>13, <2>4 DEF ProbeTarget
  <2>6. job'[t].from = job[t].from
    BY <1>13, JobLearns
  <2> QED
    BY <1>8, <2>1, <2>2, <2>5, <2>6
<1>14. CASE ProbeSource(t)
  <2>1. pc[t] = "source"
    BY <1>14 DEF ProbeSource
  <2>2. job[t].from = envRepo
    BY <1>4, <2>1 DEF Lone
  <2>3. ~SaysNo(job[t].from)
    BY <1>4, <1>q, <2>2 DEF SaysNo
  <2>4. pc'[t] = "count" /\ UNCHANGED job
    BY <1>7, <1>14, <2>3 DEF ProbeSource
  <2> QED
    BY <1>8, <2>1, <2>2, <2>4
<1>15. CASE CountSource(t)
  <2>1. pc[t] = "count" /\ pc'[t] = "copy"
    BY <1>7, <1>15 DEF CountSource, Goto
  <2>2. job[t].from = envRepo /\ Here = envRepo
    BY <1>4, <2>1 DEF Lone
  <2>3. Vacant(job[t].to)
    BY <1>4, <1>5, <1>6, <2>1, <2>2 DEF Lone, Aside
  <2>4. job'[t].from = job[t].from /\ job'[t].to = job[t].to
    BY <1>15, JobLearns
  <2>5. ~CountFails(job[t].from) /\ Readable(job[t].from) = made
    BY <1>4, <1>5, <1>q, <2>2 DEF CountFails
  <2>6. job'[t].count = Cardinality(made)
    <3>1. PICK n \in 0 .. Cardinality(Snaps) :
             n = Cardinality(made) /\ job' = [job EXCEPT ![t].count = n]
      BY <1>15, <2>5 DEF CountSource
    <3>2. job'[t] = [job[t] EXCEPT !.count = n]
      BY <1>7, <3>1
    <3> QED
      BY <1>7, <3>1, <3>2 DEF Jobs
  <2>7. \A l \in Locations \ {envRepo} : Vacant(l)
    BY <1>4, <2>1 DEF Lone, Aside
  <2>8. \A l \in Locations \ {envRepo'} : Aside(t, l)'
    BY <1>3, <2>7 DEF Aside
  <2>9. repo'[job'[t].to].config = NoRepo /\ repo'[job'[t].to].snaps = {}
    BY <1>3, <2>3, <2>4 DEF Vacant
  <2>10. Lone(t)'
    BY <1>3, <2>1, <2>2, <2>4, <2>6, <2>8, <2>9 DEF Lone
  <2> QED
    BY <1>s, <2>10
<1>16. CASE CopyEnds(t) \/ Verify(t) \/ Recount(t)
  <2>1. pc[t] \in Copying
    BY <1>16 DEF CopyEnds, Verify, Recount
  <2>2. job[t].from = envRepo /\ Here = envRepo /\ job[t].count = Cardinality(made)
    BY <1>4, <2>1 DEF Lone
  <2>3. Whole(job[t].to)
    <3>1. CASE CopyEnds(t)
      <4>0. /\ pc[t] = "copy" /\ repo[job[t].from].config \in {NoRepo, repo[job[t].to].config}
            /\ repo[job[t].from].snaps \subseteq repo[job[t].to].snaps
        <5>1. pc[t] = "copy" /\ AllLanded(t)
          BY <1>q, <3>1 DEF CopyEnds
        <5> DEFINE c == <<job[t].from, job[t].to>>
        <5>2. c \in Carriage(job[t].from, job[t].to) /\ c[1] = job[t].from /\ c[2] = job[t].to
          BY Carriages
        <5> HIDE DEF c
        <5>3. Landed(c[1], c[2])
          BY <5>1, <5>2 DEF AllLanded
        <5> QED
          BY <5>1, <5>2, <5>3 DEF Landed
      <4>1. /\ pc[t] = "copy" /\ repo[job[t].to].config = repo[job[t].from].config
            /\ repo[job[t].from].snaps \subseteq repo[job[t].to].snaps
        BY <1>4, <2>2, <4>0, Places DEF Whole, RepoIds
      <4>2. repo[job[t].to].snaps \subseteq made
        BY <1>4, <4>1 DEF Lone
      <4> QED
        BY <1>4, <2>2, <4>1, <4>2 DEF Whole
    <3>2. CASE Verify(t) \/ Recount(t)
      <4>1. pc[t] \in {"verify", "recount"}
        BY <3>2 DEF Verify, Recount
      <4> QED
        BY <1>4, <4>1 DEF Lone
    <3> QED
      BY <1>16, <3>1, <3>2
  <2>4. ~SaysNo(job[t].to) /\ ~CountFails(job[t].to) /\ SameCount(t)
    BY <1>5, <1>q, <2>2, <2>3 DEF SaysNo, CountFails, SameCount
  <2>5. \/ pc'[t] \in {"verify", "recount"} /\ UNCHANGED job
        \/ pc'[t] = "name" /\ job' = [job EXCEPT ![t].copied = TRUE]
    <3>1. CASE CopyEnds(t)
      BY <1>7, <1>q, <3>1 DEF CopyEnds
    <3>2. CASE Verify(t)
      BY <1>7, <1>q, <2>4, <3>2 DEF Verify
    <3>3. CASE Recount(t)
      BY <1>7, <2>4, <3>3 DEF Recount
    <3> QED
      BY <1>16, <3>1, <3>2, <3>3
  <2>6. /\ job'[t].from = job[t].from /\ job'[t].to = job[t].to
        /\ pc'[t] \in Copying => job'[t].count = job[t].count
        /\ pc'[t] \in Switching => job'[t].copied
    <3>1. CASE UNCHANGED job /\ pc'[t] \in {"verify", "recount"}
      BY <3>1
    <3>2. CASE pc'[t] = "name" /\ job' = [job EXCEPT ![t].copied = TRUE]
      <4>1. job'[t] = [job[t] EXCEPT !.copied = TRUE]
        BY <1>7, <3>2
      <4>2. job'[t].from = job[t].from /\ job'[t].to = job[t].to /\ job'[t].copied = TRUE
        BY <1>7, <4>1 DEF Jobs
      <4> QED
        BY <3>2, <4>2
    <3> QED
      BY <2>5, <3>1, <3>2
  <2>7. \A l \in Locations \ {envRepo'} : Aside(t, l)'
    <3>1. \A l \in Locations \ {envRepo} : Vacant(l) \/ l = job[t].to
      BY <1>4, <2>1 DEF Lone, Aside
    <3> QED
      BY <1>3, <2>5, <2>6, <3>1 DEF Aside
  <2>8. Whole(job[t].to)'
    <3>1. job'[t].to = job[t].to /\ repo' = repo /\ made' = made
      BY <1>3, <2>6
    <3> QED
      BY <2>3, <3>1 DEF Whole
  <2>9. Lone(t)'
    BY <1>3, <2>2, <2>5, <2>6, <2>7, <2>8 DEF Lone
  <2> QED
    BY <1>s, <2>9
<1> QED
  BY <1>9, <1>10, <1>11, <1>12, <1>13, <1>14, <1>15, <1>16 DEF Acts, Moves, MigrationStep

(* Copying leaves the active location alone, and puts there what lies in it. *)
LEMMA LoneCopy ==
    ASSUME Quiet, TypeOK, MovesInv, LoneInv, NEW t \in Migrations, CopyFile(t)
    PROVE  LoneInv'
<1>1. \A m \in Migrations : m = t
  BY DEF Quiet
<1>2. UNCHANGED <<up, cancelled, made, settings, pc, job>> /\ pc[t] = "copy"
  BY DEF CopyFile, ghosts
<1>3. Here' = Here /\ envRepo' = envRepo
  BY <1>2 DEF Here, CurrentPath, settings
<1>4. Lone(t) /\ Whole(envRepo) /\ envRepo \in Locations
  BY DEF LoneInv, TypeOK
<1>5. job[t].to \in Locations
  BY Places DEF Jobs, TypeOK
<1>6. job[t].from = envRepo /\ job[t].to # envRepo
  BY <1>2, <1>4 DEF Lone, Asked, Copying, Switching, MovesInv, MoveInv, JobInv
<1>7. /\ repo'[job[t].to].config \in {NoRepo, Home} /\ repo'[job[t].to].snaps \subseteq made
      /\ \A l \in Locations \ {job[t].to} : repo'[l] = repo[l]
  <2>1. repo \in [Locations -> Contents] /\ repo[job[t].to] \in Contents
    BY <1>5 DEF TypeOK
  <2>2. repo[job[t].to].config \in {NoRepo, Home} /\ repo[job[t].to].snaps \subseteq made
    BY <1>2, <1>4 DEF Lone
  <2>3. CASE CopyConfig(job[t].from, job[t].to)
    <3>1. repo' = [repo EXCEPT ![job[t].to].config = Home]
      BY <1>4, <1>6, <2>3 DEF CopyConfig, Whole
    <3>2. repo'[job[t].to] = [repo[job[t].to] EXCEPT !.config = Home]
      BY <1>5, <2>1, <3>1
    <3>3. repo'[job[t].to].config = Home /\ repo'[job[t].to].snaps = repo[job[t].to].snaps
      BY <2>1, <3>2 DEF Contents
    <3> QED
      BY <2>1, <2>2, <3>1, <3>3
  <2>4. CASE CopySnapshot(job[t].from, job[t].to)
    <3>1. PICK s \in made : repo' = [repo EXCEPT ![job[t].to].snaps = @ \cup {s}]
      BY <1>4, <1>6, <2>4 DEF CopySnapshot, Whole
    <3>2. repo'[job[t].to] = [repo[job[t].to] EXCEPT !.snaps = @ \cup {s}]
      BY <1>5, <2>1, <3>1
    <3>3. /\ repo'[job[t].to].config = repo[job[t].to].config
          /\ repo'[job[t].to].snaps = repo[job[t].to].snaps \cup {s}
      BY <2>1, <3>2 DEF Contents
    <3> QED
      BY <2>1, <2>2, <3>1, <3>3
  <2> QED
    BY <2>3, <2>4, CopyIsLocal DEF Quiet
<1>8. Whole(envRepo)'
  BY <1>2, <1>3, <1>4, <1>6, <1>7 DEF Whole
<1>9. Lone(t)'
  <2>1. \A l \in Locations \ {envRepo} : Vacant(l) \/ l = job[t].to
    BY <1>2, <1>4 DEF Lone, Aside
  <2>2. \A l \in Locations \ {envRepo'} : Aside(t, l)'
    BY <1>2, <1>3, <1>7, <2>1 DEF Aside, Vacant, Copying
  <2> QED
    BY <1>2, <1>3, <1>4, <1>6, <1>7, <2>2 DEF Lone, Asked, Copying, Switching
<1> QED
  BY <1>1, <1>2, <1>8, <1>9 DEF LoneInv

(* The switch ends with the complete copy as the active location.            *)
LEMMA LoneSwitch ==
    ASSUME Quiet, TypeOK, MovesInv, LoneInv, NEW t \in Migrations,
           WriteName(t) \/ WritePath(t) \/ SetName(t) \/ SetRepo(t)
    PROVE  LoneInv'
<1>1. \A m \in Migrations : m = t
  BY DEF Quiet
<1>2. pc \in [Tasks -> PCs] /\ t \in Tasks /\ "write" \notin Faults
  BY Shapes, QuietAnswers DEF TypeOK
<1>3. /\ UNCHANGED <<up, cancelled, made, repo, job>>
      /\ pc[t] \in Switching /\ pc'[t] \in Switching \cup {"cleanup", "finish"}
  <2>1. CASE WriteName(t) \/ WritePath(t)
    BY <1>2, <2>1 DEF WriteName, WritePath, Switching, ghosts
  <2>2. CASE SetName(t) \/ SetRepo(t)
    BY <1>2, <2>2 DEF SetName, SetRepo, AfterSwitch, Goto, Switching, ghosts
  <2> QED
    BY <2>1, <2>2
<1>4. Lone(t) /\ Whole(envRepo) /\ envRepo \in Locations
  BY DEF LoneInv, TypeOK
<1>5. /\ job[t].from = envRepo /\ Whole(job[t].to) /\ job[t].copied
      /\ \A l \in Locations \ {envRepo} : Vacant(l) \/ l = job[t].to
  BY <1>3, <1>4 DEF Lone, Aside, Asked, Copying, Switching
<1>6. \A l : (Whole(l)' <=> Whole(l)) /\ (Vacant(l)' <=> Vacant(l))
  BY <1>3 DEF Whole, Vacant
<1>7. CASE WriteName(t) \/ WritePath(t) \/ SetName(t)
  <2>1. UNCHANGED envRepo /\ pc'[t] \in {"path", "setname", "setrepo"}
    BY <1>2, <1>7 DEF WriteName, WritePath, SetName, Goto
  <2>2. pc'[t] = "path" => Here' = envRepo
    <3>1. ASSUME pc'[t] = "path" PROVE WriteName(t)
      BY <1>2, <1>7, <3>1 DEF WritePath, SetName, Goto
    <3>2. ASSUME WriteName(t) PROVE Here' = Here /\ pc[t] = "name"
      BY <1>2, <3>2 DEF WriteName, Here, CurrentPath
    <3> QED
      BY <1>4, <3>1, <3>2 DEF Lone
  <2>3. \A l \in Locations \ {envRepo'} : Aside(t, l)'
    BY <1>3, <1>5, <1>6, <2>1 DEF Aside, Switching
  <2>4. Lone(t)'
    BY <1>3, <1>5, <1>6, <2>1, <2>2, <2>3 DEF Lone, Asked, Copying, Switching
  <2> QED
    BY <1>1, <1>3, <1>4, <1>6, <2>1, <2>4 DEF LoneInv
<1>8. CASE SetRepo(t)
  <2>1. envRepo' = job[t].to /\ pc[t] = "setrepo" /\ pc'[t] = "cleanup"
        /\ UNCHANGED <<nameFile, pathFile, envName>>
    BY <1>2, <1>5, <1>8 DEF SetRepo, AfterSwitch, Goto
  <2>2. Here' = job[t].to
    <3>1. pathFile = job[t].to[2] /\ envName = job[t].to[1]
      BY <2>1 DEF MovesInv, MoveInv, SwitchInv
    <3>2. job[t].to \in Remotes \X Paths /\ job[t].to[2] # NoFile
      <4>1. job[t].to \in Remotes \X Paths
        BY DEF TypeOK, Jobs
      <4>2. job[t].to[2] \in Paths
        BY <4>1, Places
      <4> QED
        BY <4>1, <4>2, MigrationAssumption DEF NoFile
    <3> QED
      BY <2>1, <3>1, <3>2 DEF Here, CurrentPath
  <2>3. \A l \in Locations \ {envRepo'} : Aside(t, l)'
    BY <1>3, <1>5, <1>6, <2>1 DEF Aside
  <2>4. Lone(t)'
    BY <2>1, <2>2, <2>3 DEF Lone, Asked, Copying, Switching
  <2>5. Whole(envRepo)'
    <3>1. repo' = repo /\ made' = made
      BY <1>3
    <3> QED
      BY <1>5, <2>1, <3>1 DEF Whole
  <2> QED
    BY <1>1, <1>3, <2>4, <2>5 DEF LoneInv
<1> QED
  BY <1>7, <1>8

(* The purge takes what lies where the repository was.                       *)
LEMMA LonePurge ==
    ASSUME Quiet, TypeOK, MovesInv, LoneInv, NEW t \in Migrations, Purge(t)
    PROVE  LoneInv'
<1>1. \A m \in Migrations : m = t
  BY DEF Quiet
<1>2. pc \in [Tasks -> PCs] /\ t \in Tasks
  BY Shapes DEF TypeOK
<1>3. /\ UNCHANGED <<up, cancelled, made, settings, job>>
      /\ pc[t] = "cleanup" /\ pc'[t] = "finish"
      /\ repo' = [repo EXCEPT ![job[t].from] = [config |-> NoRepo, snaps |-> {}]]
  BY <1>2, QuietAnswers, PurgeIsLocal DEF Purge, Goto, ghosts, Quiet
<1>4. Here' = Here /\ envRepo' = envRepo
  BY <1>3 DEF Here, CurrentPath, settings
<1>5. Lone(t) /\ Whole(envRepo) /\ envRepo \in Locations
  BY DEF LoneInv, TypeOK
<1>6. job[t].from \in Locations /\ job[t].from # envRepo
  BY <1>3, Places DEF Jobs, TypeOK, MovesInv, MoveInv, JobInv, SwitchInv
<1>7. /\ repo'[job[t].from].config = NoRepo /\ repo'[job[t].from].snaps = {}
      /\ \A l \in Locations \ {job[t].from} : repo'[l] = repo[l]
  BY <1>3, <1>6 DEF TypeOK
<1>8. Whole(envRepo)'
  BY <1>3, <1>4, <1>5, <1>6, <1>7 DEF Whole
<1>9. \A l \in Locations \ {envRepo'} : Aside(t, l)'
  <2>1. \A l \in Locations \ {envRepo} : Vacant(l) \/ l = job[t].from
    BY <1>3, <1>5 DEF Lone, Aside, Copying, Switching
  <2> QED
    BY <1>4, <1>7, <2>1 DEF Aside, Vacant
<1>10. Lone(t)'
  BY <1>3, <1>4, <1>5, <1>9 DEF Lone, Asked, Copying, Switching
<1> QED
  BY <1>1, <1>3, <1>8, <1>10 DEF LoneInv

LEMMA LoneStep ==
    ASSUME Quiet, TypeOK, GateInv, MovesInv, LoneInv, [Next]_vars
    PROVE  LoneInv'
<1>1. ASSUME NEW t \in Migrations, Acts(t) PROVE LoneInv'
  BY <1>1, LoneThinks, LoneCopy, LoneSwitch, LonePurge
<1>2. ASSUME NEW t \in Backups, Acts(t) PROVE LoneInv'
  BY <1>2, LoneBackup
<1>3. CASE UNCHANGED vars
  BY <1>3, LoneStays DEF vars, ghosts
<1> QED
  BY <1>1, <1>2, <1>3, Steps, QuietAnswers, Shapes

(* Migrations that come one after the other, where nothing fails, no other   *)
(* repository lies about and no location lies in the folder of another one,  *)
(* keep the manual's promise that the active location restores every backup  *)
(* (ActiveHoldsHistory, ui/index.html:237): what the instances refute comes  *)
(* from a fault, from a nested target, or from a second request that read    *)
(* its source before the gate.                                               *)
THEOREM LoneMovesKeepHistory == Quiet /\ Spec => []ActiveHoldsHistory
<1> SUFFICES ASSUME Quiet PROVE Spec => []ActiveHoldsHistory
  OBVIOUS
<1>1. Init => LoneInv
  BY LoneStart
<1>2. TypeOK /\ GateInv /\ MovesInv /\ LoneInv /\ [Next]_vars => LoneInv'
  BY LoneStep
<1>3. TypeOK /\ LoneInv => ActiveHoldsHistory
  BY QuietAnswers DEF LoneInv, ActiveHoldsHistory, TypeOK
<1> QED
  BY <1>1, <1>2, <1>3, AlwaysMoves, PTL DEF Spec
===============================================================================
