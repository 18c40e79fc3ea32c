------------------------------- MODULE Migration ------------------------------
(***************************************************************************)
(* Moving the repository: the Migrator of web/migrate.go, the two files it *)
(* leaves under /config, the two environment variables that steer restic,  *)
(* and entrypoint.sh, which derives the variables from the files whenever  *)
(* the container starts.  Two requests may race for the run gate, backups  *)
(* compete for the same gate, and the process may stop anywhere.           *)
(*                                                                         *)
(* A location is a remote and a path, and a path may lie in the folder     *)
(* that another one names.  What lies there is a restic repository reduced *)
(* to its config file (whose repository it is) and its snapshots, each     *)
(* tagged with the repository that can decrypt it.                         *)
(***************************************************************************)
EXTENDS Runner, Naturals, Sequences, FiniteSets

CONSTANTS
    Migrations,      \* the POST handlers (and their goroutines) of /api/remote-migrate
    Backups,         \* goroutines that run home-backup.sh under the gate
    Remotes,         \* the sections of rclone.conf: names, sequences of characters
    Paths,           \* the subpaths a user may pick: sequences of characters
    HomeRemote, HomePath,   \* REMOTE_NAME of the container and backups/HOST_TAG
    Foreign,         \* locations where another repository lies from the start
    Sealed,          \* those of them that this engine's password does not open
    Faults,          \* what may fail: a subset of FaultKinds
    MaxStarts,       \* bound: migrations that get the gate
    MaxBackups       \* bound: snapshots the engine makes

(* "network": a remote does not answer, a copy or a purge breaks off;        *)
(* "blink": the same, just while preflight asks whether a repository exists; *)
(* "write": a file under /config cannot be written; "crash": the process     *)
(* dies; "sigterm": docker stop, which cancels appCtx before the exit.       *)
FaultKinds == {"network", "blink", "write", "crash", "sigterm"}

ASSUME MigrationAssumption ==
    /\ Tasks = Migrations \cup Backups
    /\ Migrations \cap Backups = {}
    /\ HomeRemote \in Remotes /\ HomePath \in Paths
    /\ \A s \in Remotes \cup Paths : s \in Seq(STRING) /\ s # <<>>
    /\ Foreign \subseteq Remotes \X Paths /\ Sealed \subseteq Foreign
    /\ <<HomeRemote, HomePath>> \notin Foreign
    /\ Faults \subseteq FaultKinds
    /\ MaxStarts \in Nat /\ MaxBackups \in Nat

(* tr -d '[:space:]' of entrypoint.sh. *)
Stripped(s) == SelectSeq(s, LAMBDA c : c # " ")

Home == <<HomeRemote, HomePath>>
Names == Remotes \cup {Stripped(n) : n \in Remotes}
Locations == Names \X (Paths \cup {Stripped(p) : p \in Paths})

(* The subtree that rclone copies and purges: what lies in the folder of l,  *)
(* at l itself or below it.                                                  *)
Within(p, q) ==
    \/ p = q
    \/ Len(p) > Len(q) /\ SubSeq(p, 1, Len(q)) = q /\ p[Len(q) + 1] = "/"
Subtree == [l \in Locations |-> {k \in Locations : k[1] = l[1] /\ Within(k[2], l[2])}]

(* What a copy of the folder of l to m carries, and where to: a location as  *)
(* far down in the one as its copy in the other.                             *)
Down(l, k) == SubSeq(k[2], Len(l[2]) + 1, Len(k[2]))
Carriage(l, m) == {c \in Subtree[l] \X Subtree[m] : Down(l, c[1]) = Down(m, c[2])}

NoRepo == <<>>                          \* no config file at the location
NoFile == <<>>                          \* no override file under /config
RepoIds == {Home} \cup Foreign          \* a repository is named by its birthplace
Snaps == RepoIds \X (0..MaxBackups)
Contents == [config : RepoIds \cup {NoRepo}, snaps : SUBSET Snaps]

VARIABLES
    repo,        \* what lies at each location
    nameFile,    \* /config/remote-name
    pathFile,    \* /config/remote-path
    envName,     \* REMOTE_NAME of the engine process
    envRepo,     \* RESTIC_REPOSITORY of the engine process
    up,          \* the engine process runs
    cancelled,   \* appCtx is cancelled: every command it would start fails
    status,      \* Migrator.status: [active, phase]
    pc,          \* per task: where its goroutine is
    job,         \* per migration: what its goroutine knows
    starts,      \* migrations that got the gate (ghost, bounded)
    made,        \* the snapshots of this engine's own repository (ghost)
    chosen       \* the locations migrations were asked to go to (ghost)

ghosts == <<starts, made, chosen>>
settings == <<nameFile, pathFile, envName, envRepo>>
vars == <<runnerVars, repo, settings, up, cancelled, status, pc, job, ghosts>>

(* Openable by restic cat config with this engine's password; the snapshots  *)
(* restic can then read.                                                     *)
Opens(r) == r.config # NoRepo /\ r.config \notin Sealed
Restorable(r) == {s \in r.snaps : Opens(r) /\ s[1] = r.config}
Openable(l) == Opens(repo[l])
Readable(l) == Restorable(repo[l])

(* currentRepoPath and activeRemote. *)
CurrentPath == IF pathFile = NoFile THEN HomePath ELSE pathFile
Here == <<envName, CurrentPath>>

(* Where entrypoint.sh will point the next engine process. *)
BootWithoutDefaults ==                  \* wrong: a missing file is not replaced by a default
    << Stripped(nameFile), Stripped(pathFile) >>
BootLocation ==
    << IF nameFile = NoFile THEN HomeRemote ELSE Stripped(nameFile),
       IF pathFile = NoFile THEN HomePath ELSE Stripped(pathFile) >>

(* fromRemote:fromPath, toRemote:toPath, oldCount, mode and copied of run(). *)
Jobs == [from : Names \X Paths, to : Remotes \X Paths, count : Nat,
         mode : {"", "move", "adopt"}, copied : BOOLEAN]
NoJob == [from |-> Home, to |-> Home, count |-> 0, mode |-> "", copied |-> FALSE]

Phases == {"idle", "preflight", "copy", "verify", "switch", "cleanup", "done", "failed"}

(* The statements of run() under the gate, in their order. *)
Moving == {"preflight", "target", "source", "count", "copy", "verify", "recount",
           "name", "path", "setname", "setrepo", "cleanup", "finish"}
Holding == {"locked", "marked", "backup", "ending", "unlocking"} \cup Moving
PCs == {"idle", "read"} \cup Holding

TypeOK ==
    /\ RunnerTypeOK
    /\ repo \in [Locations -> Contents]
    /\ nameFile \in Remotes \cup {NoFile}
    /\ pathFile \in Paths \cup {NoFile}
    /\ envName \in Names
    /\ envRepo \in Locations
    /\ up \in BOOLEAN /\ cancelled \in BOOLEAN
    /\ status \in [active : BOOLEAN, phase : Phases]
    /\ pc \in [Tasks -> PCs]
    /\ job \in [Migrations -> Jobs]
    /\ starts \in 0..MaxStarts
    /\ made \subseteq Snaps
    /\ chosen \subseteq Locations

IdleStatus == [active |-> FALSE, phase |-> "idle"]

(* The engine was set up at Home and has made one backup there. *)
Init ==
    /\ RunnerInit
    /\ repo = [l \in Locations |->
                  IF l \in RepoIds THEN [config |-> l, snaps |-> {<<l, 0>>}]
                                   ELSE [config |-> NoRepo, snaps |-> {}]]
    /\ nameFile = NoFile /\ pathFile = NoFile
    /\ envName = HomeRemote /\ envRepo = Home
    /\ up = TRUE /\ cancelled = FALSE
    /\ status = IdleStatus
    /\ pc = [t \in Tasks |-> "idle"]
    /\ job = [t \in Migrations |-> NoJob]
    /\ starts = 0 /\ made = {<<Home, 0>>} /\ chosen = {Home}

Goto(t, here, there) ==
    /\ pc[t] = here
    /\ pc' = [pc EXCEPT ![t] = there]

ActiveUntilDone(phase) ==               \* wrong: "failed" leaves the status active
    status' = [active |-> phase # "done", phase |-> phase]
SetPhase(phase) ==
    status' = [active |-> phase \notin {"done", "failed"}, phase |-> phase]

(* A command started on appCtx answers at all. *)
Answers == ~cancelled
NetworkFails == cancelled \/ "network" \in Faults

-------------------------------------------------------------------------------
(* Start *)

(* The target is validated, and the current location is read: from the       *)
(* environment and from the file, before the gate is asked for.              *)
ReadLocation(t) ==
    /\ up /\ starts < MaxStarts
    /\ Goto(t, "idle", "read")
    /\ \E l \in Remotes \X Paths :
          /\ l # Here
          /\ job' = [job EXCEPT ![t].from = Here, ![t].to = l]
    /\ UNCHANGED <<runnerVars, repo, settings, up, cancelled, status, ghosts>>

(* A migration is in progress, or the gate is taken: 409. *)
Refuse(t) ==
    /\ Goto(t, "read", "idle")
    /\ status.active \/ TryLockFails
    /\ job' = [job EXCEPT ![t] = NoJob]
    /\ UNCHANGED <<runnerVars, repo, settings, up, cancelled, status, ghosts>>

Acquire(t) ==
    /\ Goto(t, "read", "locked")
    /\ ~status.active /\ TryLock(t)
    /\ starts < MaxStarts /\ starts' = starts + 1
    /\ chosen' = chosen \cup {job[t].to}
    /\ UNCHANGED <<repo, settings, up, cancelled, status, job, made>>

Mark(t) ==
    /\ Goto(t, "locked", IF t \in Migrations THEN "marked" ELSE "backup")
    /\ MarkRunning
    /\ UNCHANGED <<repo, settings, up, cancelled, status, job, ghosts>>

(* m.status is replaced; the goroutine starts and sets "preflight" again. *)
Launch(t) ==
    /\ Goto(t, "marked", "preflight")
    /\ SetPhase("preflight")
    /\ UNCHANGED <<runnerVars, repo, settings, up, cancelled, job, ghosts>>
-------------------------------------------------------------------------------
(* run *)

(* m.fail(...); return *)
Fail(t) ==
    /\ pc' = [pc EXCEPT ![t] = "ending"]
    /\ SetPhase("failed")
    /\ UNCHANGED <<runnerVars, repo, settings, up, cancelled, job, ghosts>>

(* remoteConnectedOn(toRemote), the first half of preflight. *)
ProbeRemote(t) ==
    /\ pc[t] = "preflight"
    /\ \/ /\ Answers
          /\ pc' = [pc EXCEPT ![t] = "target"]
          /\ UNCHANGED <<runnerVars, repo, settings, up, cancelled, status, job, ghosts>>
       \/ NetworkFails /\ Fail(t)

(* repoExists(l): any failure of the command reads as "no repository".       *)
SaysYes(l) == Answers /\ Openable(l)
SaysNo(l) == cancelled \/ ~Openable(l) \/ "blink" \in Faults

(* repoExists(toRepo) decides the mode. *)
ProbeTarget(t) ==
    /\ pc[t] = "target"
    /\ \/ /\ SaysYes(job[t].to)
          /\ pc' = [pc EXCEPT ![t] = "name"]
          /\ job' = [job EXCEPT ![t].mode = "adopt"]
          /\ SetPhase("switch")
       \/ /\ SaysNo(job[t].to)
          /\ pc' = [pc EXCEPT ![t] = "source"]
          /\ job' = [job EXCEPT ![t].mode = "move"]
          /\ UNCHANGED status
    /\ UNCHANGED <<runnerVars, repo, settings, up, cancelled, ghosts>>

(* repoExists(fromRepo): without a source repository nothing is copied. *)
ProbeSource(t) ==
    /\ pc[t] = "source"
    /\ \/ SaysYes(job[t].from) /\ pc' = [pc EXCEPT ![t] = "count"] /\ UNCHANGED status
       \/ SaysNo(job[t].from) /\ pc' = [pc EXCEPT ![t] = "name"] /\ SetPhase("switch")
    /\ UNCHANGED <<runnerVars, repo, settings, up, cancelled, job, ghosts>>

(* snapshotCount counts what restic snapshots can read; what another key has *)
(* locked it skips with a warning.                                           *)
Counts(l) == Answers /\ Openable(l)
CountFails(l) == NetworkFails \/ ~Openable(l)

(* oldCount, _ := snapshotCount(fromRepo): an error counts as zero. *)
CountSource(t) ==
    /\ Goto(t, "count", "copy")
    /\ \E n \in 0..Cardinality(Snaps) :
          /\ \/ Counts(job[t].from) /\ n = Cardinality(Readable(job[t].from))
             \/ CountFails(job[t].from) /\ n = 0
          /\ job' = [job EXCEPT ![t].count = n]
    /\ SetPhase("copy")
    /\ UNCHANGED <<runnerVars, repo, settings, up, cancelled, ghosts>>

(* rclone copy transfers a folder with all that lies below it, one file      *)
(* after another, in any order, replaces what differs and deletes nothing at *)
(* the destination.                                                          *)
CopyConfig(k, m) ==
    /\ repo[k].config \notin {NoRepo, repo[m].config}
    /\ repo' = [repo EXCEPT ![m].config = repo[k].config]
CopySnapshot(k, m) ==
    \E s \in repo[k].snaps \ repo[m].snaps :
        repo' = [repo EXCEPT ![m].snaps = @ \cup {s}]
CopyFile(t) ==
    /\ pc[t] = "copy" /\ Answers
    /\ \E c \in Carriage(job[t].from, job[t].to) :
          CopyConfig(c[1], c[2]) \/ CopySnapshot(c[1], c[2])
    /\ UNCHANGED <<runnerVars, settings, up, cancelled, status, pc, job, ghosts>>

(* The copy has every file it listed.  Of what lies below the source it may  *)
(* list any part where it writes there itself.                               *)
Landed(k, m) ==
    /\ repo[k].config \in {NoRepo, repo[m].config}
    /\ repo[k].snaps \subseteq repo[m].snaps
AllLanded(t) ==
    \A c \in Carriage(job[t].from, job[t].to) :
        c[1] = job[t].from \/ c[1] \notin Subtree[job[t].to] => Landed(c[1], c[2])

CopyEndsAnyhow(t) ==                    \* wrong: the error of rclone copy is ignored
    /\ Goto(t, "copy", "verify")
    /\ SetPhase("verify")
    /\ UNCHANGED <<runnerVars, repo, settings, up, cancelled, job, ghosts>>
CopyEnds(t) ==
    /\ pc[t] = "copy"
    /\ \/ /\ Answers /\ AllLanded(t)
          /\ pc' = [pc EXCEPT ![t] = "verify"]
          /\ SetPhase("verify")
          /\ UNCHANGED <<runnerVars, repo, settings, up, cancelled, job, ghosts>>
       \/ NetworkFails /\ Fail(t)

(* repoExists(toRepo) of the verification. *)
Verify(t) ==
    /\ pc[t] = "verify"
    /\ \/ /\ SaysYes(job[t].to)
          /\ pc' = [pc EXCEPT ![t] = "recount"]
          /\ UNCHANGED <<runnerVars, repo, settings, up, cancelled, status, job, ghosts>>
       \/ /\ SaysNo(job[t].to) \/ "network" \in Faults
          /\ Fail(t)

(* newCount, err := snapshotCount(toRepo); newCount must equal oldCount. *)
SameCount(t) == Cardinality(Readable(job[t].to)) = job[t].count
Recount(t) ==
    /\ pc[t] = "recount"
    /\ \/ /\ Counts(job[t].to) /\ SameCount(t)
          /\ pc' = [pc EXCEPT ![t] = "name"]
          /\ job' = [job EXCEPT ![t].copied = TRUE]
          /\ SetPhase("switch")
          /\ UNCHANGED <<runnerVars, repo, settings, up, cancelled, ghosts>>
       \/ /\ CountFails(job[t].to) \/ ~SameCount(t)
          /\ Fail(t)

(* writeRemoteName, writeRemotePath: each replaces its file atomically; an   *)
(* error ends the migration there.                                           *)
WriteName(t) ==
    /\ pc[t] = "name"
    /\ \/ /\ pc' = [pc EXCEPT ![t] = "path"]
          /\ nameFile' = job[t].to[1]
          /\ UNCHANGED <<runnerVars, repo, pathFile, envName, envRepo, up, cancelled,
                         status, job, ghosts>>
       \/ "write" \in Faults /\ Fail(t)

WritePath(t) ==
    /\ pc[t] = "path"
    /\ \/ /\ pc' = [pc EXCEPT ![t] = "setname"]
          /\ pathFile' = job[t].to[2]
          /\ UNCHANGED <<runnerVars, repo, nameFile, envName, envRepo, up, cancelled,
                         status, job, ghosts>>
       \/ "write" \in Faults /\ Fail(t)

(* os.Setenv of REMOTE_NAME, then of RESTIC_REPOSITORY. *)
NameForgotten(t) ==                     \* wrong: only RESTIC_REPOSITORY is set
    /\ Goto(t, "setname", "setrepo")
    /\ UNCHANGED <<runnerVars, repo, settings, up, cancelled, status, job, ghosts>>
SetName(t) ==
    /\ Goto(t, "setname", "setrepo")
    /\ envName' = job[t].to[1]
    /\ UNCHANGED <<runnerVars, repo, nameFile, pathFile, envRepo, up, cancelled,
                   status, job, ghosts>>

AlwaysPurge(t) == "cleanup"             \* wrong: an adopted repository's old home goes too
AfterSwitch(t) == IF job[t].copied THEN "cleanup" ELSE "finish"
SetRepo(t) ==
    /\ Goto(t, "setrepo", AfterSwitch(t))
    /\ envRepo' = job[t].to
    /\ IF job[t].copied THEN SetPhase("cleanup") ELSE UNCHANGED status
    /\ UNCHANGED <<runnerVars, repo, nameFile, pathFile, envName, up, cancelled,
                   job, ghosts>>

(* rclone purge deletes the folder of the source with all that lies below    *)
(* it.  When it breaks off, what it deleted is gone and the migration goes   *)
(* on with a warning.                                                        *)
Purge(t) ==
    /\ Goto(t, "cleanup", "finish")
    /\ LET gone == Subtree[job[t].from]
       IN  \E C \in SUBSET gone, S \in SUBSET {p \in gone \X Snaps : p[2] \in repo[p[1]].snaps} :
              /\ NetworkFails \/ (C = {} /\ S = {})
              /\ repo' = [l \in Locations |->
                    IF l \in gone
                    THEN [config |-> IF l \in C THEN repo[l].config ELSE NoRepo,
                          snaps |-> {s \in repo[l].snaps : <<l, s>> \in S}]
                    ELSE repo[l]]
    /\ UNCHANGED <<runnerVars, settings, up, cancelled, status, job, ghosts>>

Finish(t) ==
    /\ Goto(t, "finish", "ending")
    /\ SetPhase("done")
    /\ UNCHANGED <<runnerVars, repo, settings, up, cancelled, job, ghosts>>

(* ReleaseMaintenance, and the deferred function of RunBackup. *)
End(t) ==
    /\ Goto(t, "ending", "unlocking")
    /\ MarkIdle
    /\ UNCHANGED <<repo, settings, up, cancelled, status, job, ghosts>>

Release(t) ==
    /\ Goto(t, "unlocking", "idle")
    /\ Unlock
    /\ job' = [m \in Migrations |-> IF m = t THEN NoJob ELSE job[m]]
    /\ UNCHANGED <<repo, settings, up, cancelled, status, ghosts>>

-------------------------------------------------------------------------------
(* Backups, and the life of the process *)

StartBackup(t) ==
    /\ up /\ Cardinality(made) <= MaxBackups
    /\ Goto(t, "idle", "locked")
    /\ TryLock(t)
    /\ UNCHANGED <<repo, settings, up, cancelled, status, job, ghosts>>

(* home-backup.sh with the RESTIC_REPOSITORY the engine has by now: a new    *)
(* snapshot, or a failure when no repository answers there.                  *)
RunBackup(t) ==
    /\ Goto(t, "backup", "ending")
    /\ \/ \E n \in 0..MaxBackups :
             LET s == <<repo[envRepo].config, n>>
             IN  /\ Answers /\ Openable(envRepo)
                 /\ \A l \in Locations : s \notin repo[l].snaps
                 /\ s \notin made
                 /\ repo' = [repo EXCEPT ![envRepo].snaps = @ \cup {s}]
                 /\ made' = made \cup {s}
       \/ /\ NetworkFails \/ ~Openable(envRepo)
          /\ UNCHANGED <<repo, made>>
    /\ UNCHANGED <<runnerVars, settings, up, cancelled, status, job, starts, chosen>>

(* SIGTERM: appCancel(); the process exits when it pleases (Stop). *)
Sigterm ==
    /\ "sigterm" \in Faults /\ up /\ ~cancelled
    /\ cancelled' = TRUE
    /\ UNCHANGED <<runnerVars, repo, settings, up, status, pc, job, ghosts>>

Stop ==
    /\ up /\ (cancelled \/ "crash" \in Faults)
    /\ up' = FALSE
    /\ gate' = Nobody /\ running' = FALSE
    /\ status' = IdleStatus
    /\ pc' = [t \in Tasks |-> "idle"]
    /\ job' = [t \in Migrations |-> NoJob]
    /\ UNCHANGED <<repo, settings, cancelled, ghosts>>

(* entrypoint.sh exports both variables from the files; NewMigrator is idle. *)
Boot ==
    /\ ~up
    /\ up' = TRUE /\ cancelled' = FALSE
    /\ envName' = BootLocation[1]
    /\ envRepo' = BootLocation
    /\ UNCHANGED <<runnerVars, repo, nameFile, pathFile, status, pc, job, ghosts>>

-------------------------------------------------------------------------------
MigrationStep(t) ==
    \/ Launch(t) \/ ProbeRemote(t) \/ ProbeTarget(t) \/ ProbeSource(t) \/ CountSource(t)
    \/ CopyFile(t) \/ CopyEnds(t) \/ Verify(t) \/ Recount(t)
    \/ WriteName(t) \/ WritePath(t) \/ SetName(t) \/ SetRepo(t) \/ Purge(t) \/ Finish(t)

(* What a goroutine does once it holds the gate. *)
GateStep(t) ==
    \/ Mark(t) \/ End(t) \/ Release(t)
    \/ t \in Migrations /\ MigrationStep(t)
    \/ t \in Backups /\ RunBackup(t)

Next ==
    \/ \E t \in Migrations : ReadLocation(t) \/ Refuse(t) \/ Acquire(t)
    \/ \E t \in Backups : StartBackup(t)
    \/ \E t \in Tasks : GateStep(t)
    \/ Sigterm \/ Stop \/ Boot

Spec == Init /\ [][Next]_vars

(* Every command run() waits for comes back, and Docker restarts the engine. *)
FairSpec == Spec /\ WF_vars(Boot) /\ \A t \in Tasks : WF_vars(GateStep(t))

-------------------------------------------------------------------------------
(* Properties *)

(* What the engine's own snapshots are restorable from, location by location. *)
Held == [l \in Locations |-> Readable(l)]

(* The repository moves the way Custody promises: a snapshot is removed      *)
(* somewhere only while another location can restore everything that lay     *)
(* there (comment at web/migrate.go:347), through failing copies, purges and *)
(* writes, crashes, shutdowns and races.  That no folder among the locations *)
(* lies in another one, and that repoExists is not mistaken about a remote   *)
(* that answers, the instance and the theorem assume.                        *)
Keeper == INSTANCE Custody WITH held <- Held
KeepsCustody == Keeper!Spec

(* The source is only ever purged for a migration that copied and verified,  *)
(* and by then a restart would already come up at a complete copy, unless    *)
(* entrypoint.sh would strip a blank from where the engine is.               *)
Blankless(l) == Stripped(l[1]) = l[1] /\ Stripped(l[2]) = l[2]
PurgeComesLast ==
    [][\A l \in Locations :
          ~(repo[l].snaps \subseteq repo'[l].snaps) /\ Blankless(envRepo) =>
              /\ BootLocation # l
              /\ Readable(l) \subseteq Readable(BootLocation)]_vars

(* While no shutdown is in progress, a migration that moved - nothing lay at *)
(* its target - makes the target active only when every snapshot of its own  *)
(* source can be restored there.                                             *)
MoveCarriesEverything ==
    \A t \in Migrations :
        pc[t] \in {"name", "path", "setname", "setrepo"} /\ job[t].mode = "move" /\ ~cancelled
            => Readable(job[t].from) \subseteq Readable(job[t].to)

(* The status that refuses a second migration never outlives the first one's *)
(* hold on the gate, so an interrupted or failed migration can be retried.   *)
ActiveHoldsGate == status.active => gate \in Migrations /\ running

(* A migration the UI polls comes to its end, or the engine restarts.        *)
MigrationEnds == status.active ~> ~status.active

(* After "done", and with no other migration having had the gate since, the  *)
(* engine and its next restart agree on the location, unless it has a blank  *)
(* in its remote or its path, which entrypoint.sh would strip.               *)
DoneIsDurable ==
    up /\ status.phase = "done" /\ Blankless(envRepo)
        => BootLocation = envRepo /\ envName = envRepo[1]

(* The active location can restore every backup this engine has made: the    *)
(* migration manual's promise that the active path changes only after copy   *)
(* and verification (ui/index.html:237).                                     *)
ActiveHoldsHistory == up => made \subseteq Readable(envRepo)

(* A restart comes up at a location that the user chose at some time.        *)
RestartsAtAChoice == BootLocation \in chosen

===============================================================================
