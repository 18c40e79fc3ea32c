----------------------------- MODULE BackupScript -----------------------------
(***************************************************************************)
(* home-backup.sh and home-check.sh with their library: the lock file, the *)
(* staging area, the database dumps, the traps and the marks a run leaves. *)
(* A process is one script; the engine runs one at a time, entrypoint.sh   *)
(* backup may run another in a second container, and they share the lock   *)
(* file, the staging volume and /state.                                    *)
(*                                                                         *)
(* bash leaves a script in four ways, which the code relies on: die is     *)
(* "exit 1" and runs only the EXIT trap; a failing command runs the ERR    *)
(* trap first; a signal runs the EXIT trap; a kill runs nothing.           *)
(***************************************************************************)
EXTENDS Naturals, Sequences, FiniteSets

CONSTANTS
    Backups, Checks,    \* the processes: runs of home-backup.sh, of home-check.sh
    Nobody,             \* the holder of a free lock
    JobFiles,           \* the lists of jobs a run may find: the contents of db-jobs.json,
                        \* the three defaults without one, none when dumps are disabled
    Containers,         \* per job name: the states its container may be found in
    BackupPaths,        \* BACKUP_PATHS: SOURCE_PATHS and the docker volumes
    ExcludedPlaces,     \* the lines of excludes.txt that are paths
    ExcludedNames,      \* and those that hide a name wherever it occurs, as **/cache does
    Staging,            \* STAGING_ROOT
    Faults,             \* what may go wrong: a subset of FaultKinds
    MaxRuns             \* bound: runs that get the lock

Processes == Backups \cup Checks
FaultKinds == {"repo", "space", "dump", "tool", "corrupt", "restic", "interrupt", "kill"}

(* A place is the sequence of names that leads to it, "/" the first.  What   *)
(* restic backup reads lies at or below one of its targets, and neither at   *)
(* nor below an exclude; a data path is an exclude as it stands, which its   *)
(* wildcards, had it any, would widen.                                       *)
NoPath == <<>>
Within(p, q) == Len(q) <= Len(p) /\ SubSeq(p, 1, Len(q)) = q
Reached(p) ==
    /\ \E r \in BackupPaths : Within(p, r)
    /\ \A e \in ExcludedPlaces : ~Within(p, e)
    /\ \A i \in DOMAIN p : p[i] \notin ExcludedNames

KnownTypes == {"postgres", "mongodb", "redis", "mysql", "mariadb"}
Found == {"absent", "stopped", "running"}

(* A job of the file; raw is the place where its database really keeps its   *)
(* files, which the optional column data is meant to repeat.                 *)
IsJob(j) ==
    /\ DOMAIN j = {"name", "type", "data", "raw", "enabled"}
    /\ j.data \in Seq(STRING) /\ j.raw \in Seq(STRING)
    /\ j.enabled \in BOOLEAN
    /\ j.name \in DOMAIN Containers

ASSUME ScriptAssumption ==
    /\ Backups \cap Checks = {} /\ Nobody \notin Processes
    /\ \A f \in JobFiles : f \in Seq({f[i] : i \in DOMAIN f}) /\ \A i \in DOMAIN f : IsJob(f[i])
    /\ \A n \in DOMAIN Containers : Containers[n] \subseteq Found
    /\ BackupPaths \cup ExcludedPlaces \cup {Staging} \subseteq Seq(STRING)
    /\ Faults \subseteq FaultKinds
    /\ MaxRuns \in Nat

VARIABLES
    lock,       \* who holds the flock on /state/backup.lock
    pc,         \* per process: the part of its script it is in
    run,        \* per process: the number of its run, in the order of the lock (ghost)
    jobs,       \* per process: what it still has to read of db-jobs.json
    list,       \* per process: all that it read of it
    excludes,   \* per process: DYNAMIC_EXCLUDES
    alerted,    \* per process: it has sent a failure alert
    result,     \* per process: its exit status, "ok" or "failed"
    staging,    \* STAGING_ROOT: the dumps in it, each <<run, job name>>
    snapshots,  \* what restic holds
    lastFailure,\* /state/last-failure: the run that wrote it, 0 when there is none
    lastSuccess,\* /state/last-success: likewise
    killed,     \* runs that were killed (ghost)
    count       \* runs that got the lock (ghost)

locals == <<run, jobs, list, excludes, alerted, result>>
marks == <<lastFailure, lastSuccess>>
ghosts == <<killed, count>>
vars == <<lock, pc, locals, staging, snapshots, marks, ghosts>>

(* Inside the script, after the traps of home-backup.sh are installed. *)
Trapped == {"clean", "probe", "space", "read", "jobs", "upload", "forget", "record"}
PCs == {"idle", "lock", "checking", "leaving", "closing"} \cup Trapped

Dumps == (1..MaxRuns) \X DOMAIN Containers
Lists == {<<>>} \cup UNION {{SubSeq(f, 1, n) : n \in 0..Len(f)} : f \in JobFiles}
Snapshots == [run : 1..MaxRuns, list : Lists, dumps : SUBSET Dumps,
              hidden : SUBSET {j.data : j \in UNION {{f[i] : i \in DOMAIN f} : f \in JobFiles}}]

TypeOK ==
    /\ lock \in Processes \cup {Nobody}
    /\ pc \in [Processes -> PCs]
    /\ run \in [Processes -> 0..MaxRuns]
    /\ \A p \in Processes : list[p] \in Lists /\ Len(jobs[p]) <= Len(list[p])
    /\ alerted \in [Processes -> BOOLEAN]
    /\ result \in [Processes -> {"ok", "failed"}]
    /\ staging \subseteq Dumps
    /\ snapshots \subseteq Snapshots
    /\ lastFailure \in 0..MaxRuns /\ lastSuccess \in 0..MaxRuns
    /\ killed \subseteq 1..MaxRuns
    /\ count \in 0..MaxRuns

FreshButJobs(p) ==                      \* wrong: the list read by the last run is kept
    /\ run' = [run EXCEPT ![p] = 0]
    /\ list' = [list EXCEPT ![p] = <<>>]
    /\ excludes' = [excludes EXCEPT ![p] = {}]
    /\ alerted' = [alerted EXCEPT ![p] = FALSE]
    /\ result' = [result EXCEPT ![p] = "ok"]
    /\ UNCHANGED jobs
Fresh(p) ==
    /\ run' = [run EXCEPT ![p] = 0]
    /\ jobs' = [jobs EXCEPT ![p] = <<>>]
    /\ list' = [list EXCEPT ![p] = <<>>]
    /\ excludes' = [excludes EXCEPT ![p] = {}]
    /\ alerted' = [alerted EXCEPT ![p] = FALSE]
    /\ result' = [result EXCEPT ![p] = "ok"]

Init ==
    /\ lock = Nobody
    /\ pc = [p \in Processes |-> "idle"]
    /\ run = [p \in Processes |-> 0]
    /\ jobs = [p \in Processes |-> <<>>] /\ list = [p \in Processes |-> <<>>]
    /\ excludes = [p \in Processes |-> {}]
    /\ alerted = [p \in Processes |-> FALSE]
    /\ result = [p \in Processes |-> "ok"]
    /\ staging = {} /\ snapshots = {}
    /\ lastFailure = 0 /\ lastSuccess = 0
    /\ killed = {} /\ count = 0

Goto(p, here, there) ==
    /\ pc[p] = here
    /\ pc' = [pc EXCEPT ![p] = there]

-------------------------------------------------------------------------------
(* Ways out of the script *)

(* notify fail: the alert of this run is sent. *)
Alert(p) == alerted' = [alerted EXCEPT ![p] = TRUE]

(* die, or a signal: exit, with the EXIT trap still to come. *)
ExitTrapped(p) ==
    /\ pc' = [pc EXCEPT ![p] = "leaving"]
    /\ result' = [result EXCEPT ![p] = "failed"]

Die(p) ==
    /\ ExitTrapped(p)
    /\ UNCHANGED <<lock, run, jobs, list, excludes, alerted, staging, snapshots, marks, ghosts>>

(* The ERR trap: a backup cleans its staging area; the failure is recorded   *)
(* and announced; exit.                                                      *)
Trip(p) ==
    /\ ExitTrapped(p)
    /\ Alert(p)
    /\ staging' = IF p \in Backups THEN {} ELSE staging
    /\ lastFailure' = run[p]
    /\ UNCHANGED <<lock, run, jobs, list, excludes, snapshots, lastSuccess, ghosts>>

(* The EXIT trap of home-backup.sh; home-check.sh has none. *)
LeaveFiles(p) ==                        \* wrong: the EXIT trap only closes the summary
    /\ Goto(p, "leaving", "closing")
    /\ UNCHANGED <<lock, locals, staging, snapshots, marks, ghosts>>
Leave(p) ==
    /\ Goto(p, "leaving", "closing")
    /\ staging' = IF p \in Backups THEN {} ELSE staging
    /\ UNCHANGED <<lock, locals, snapshots, marks, ghosts>>

(* The process is gone, and with it the lock on its file descriptor. *)
Close(p) ==
    /\ Goto(p, "closing", "idle")
    /\ lock' = IF lock = p THEN Nobody ELSE lock
    /\ Fresh(p)
    /\ UNCHANGED <<staging, snapshots, marks, ghosts>>

(* SIGINT of the engine's shutdown, or Ctrl-C. *)
Interrupt(p) ==
    /\ "interrupt" \in Faults
    /\ pc[p] \in Trapped \cup {"checking"}
    /\ Die(p)

(* SIGKILL, or the container is gone. *)
Kill(p) ==
    /\ "kill" \in Faults
    /\ pc[p] # "idle"
    /\ pc' = [pc EXCEPT ![p] = "idle"]
    /\ lock' = IF lock = p THEN Nobody ELSE lock
    /\ killed' = IF run[p] = 0 THEN killed ELSE killed \cup {run[p]}
    /\ Fresh(p)
    /\ UNCHANGED <<staging, snapshots, marks, count>>

-------------------------------------------------------------------------------
(* The script *)

(* setup_logging and install_error_trap. *)
Start(p) ==
    /\ count < MaxRuns
    /\ Goto(p, "idle", "lock")
    /\ UNCHANGED <<lock, locals, staging, snapshots, marks, ghosts>>

(* flock -n fails: die before the traps of the staging area are installed. *)
RefusedTrapped(p) ==                    \* wrong: the traps are installed before acquire_lock
    /\ pc[p] = "lock"
    /\ lock # Nobody
    /\ Die(p)
Refused(p) ==
    /\ Goto(p, "lock", "closing")
    /\ lock # Nobody
    /\ result' = [result EXCEPT ![p] = "failed"]
    /\ UNCHANGED <<lock, run, jobs, list, excludes, alerted, staging, snapshots, marks, ghosts>>

AcquireBlind(p) ==                      \* wrong: the answer of flock is not looked at
    /\ count < MaxRuns
    /\ Goto(p, "lock", IF p \in Backups THEN "clean" ELSE "probe")
    /\ lock' = p
    /\ count' = count + 1
    /\ run' = [run EXCEPT ![p] = count + 1]
    /\ UNCHANGED <<jobs, list, excludes, alerted, result, staging, snapshots, marks, killed>>
AcquireLock(p) ==
    /\ count < MaxRuns
    /\ Goto(p, "lock", IF p \in Backups THEN "clean" ELSE "probe")
    /\ lock = Nobody /\ lock' = p
    /\ count' = count + 1
    /\ run' = [run EXCEPT ![p] = count + 1]
    /\ UNCHANGED <<jobs, list, excludes, alerted, result, staging, snapshots, marks, killed>>

(* Phase 0: what an interrupted run left in the staging area goes. *)
CleanNothing(p) ==                      \* wrong: the leftovers stay
    /\ Goto(p, "clean", "probe")
    /\ UNCHANGED <<lock, locals, staging, snapshots, marks, ghosts>>
Clean(p) ==
    /\ Goto(p, "clean", "probe")
    /\ staging' = {}
    /\ UNCHANGED <<lock, locals, snapshots, marks, ghosts>>

(* restic_ensure_repo: under set -E the failing restic cat config trips the  *)
(* ERR trap before repo_probe can classify it.                               *)
Probe(p) ==
    /\ pc[p] = "probe"
    /\ \/ /\ pc' = [pc EXCEPT ![p] = IF p \in Backups THEN "space" ELSE "checking"]
          /\ UNCHANGED <<lock, locals, staging, snapshots, marks, ghosts>>
       \/ "repo" \in Faults /\ Trip(p)

(* Too little room in the staging area: an alert, and die. *)
CheckSpace(p) ==
    /\ pc[p] = "space"
    /\ \/ /\ pc' = [pc EXCEPT ![p] = "read"]
          /\ UNCHANGED <<lock, locals, staging, snapshots, marks, ghosts>>
       \/ /\ "space" \in Faults
          /\ Alert(p) /\ ExitTrapped(p)
          /\ UNCHANGED <<lock, run, jobs, list, excludes, staging, snapshots, marks, ghosts>>

(* jq on db-jobs.json.  It runs in a subshell: when it fails, the subshell   *)
(* runs the ERR trap, and the script itself goes on with the rows that jq    *)
(* wrote before.  The trap is over before the first dump is there.           *)
ReadJobs(p) ==
    /\ Goto(p, "read", "jobs")
    /\ \E f \in JobFiles : \E n \in 0..Len(f) :
          /\ list' = [list EXCEPT ![p] = SubSeq(f, 1, n)]
          /\ jobs' = [jobs EXCEPT ![p] = SubSeq(f, 1, n)]
          /\ \/ n = Len(f) /\ UNCHANGED <<alerted, staging, lastFailure>>
             \/ /\ "corrupt" \in Faults
                /\ Alert(p) /\ staging' = {} /\ lastFailure' = run[p]
    /\ UNCHANGED <<lock, run, excludes, result, snapshots, lastSuccess, ghosts>>

(* What read makes of a line: with an empty data column the two tabs around  *)
(* it collapse, data takes the value of enabled, and enabled is empty.       *)
ReadsEnabled(j) == j.enabled /\ j.data # NoPath

(* DISABLED, BAD_TYPE, ABSENT or SKIPPED_STOPPED: nothing but the summary.   *)
Skips(j) ==
    \/ ~ReadsEnabled(j)
    \/ j.type \notin KnownTypes
    \/ Containers[j.name] \cap {"absent", "stopped"} # {}

Dumpable(j) ==
    /\ ReadsEnabled(j)
    /\ j.type \in KnownTypes
    /\ "running" \in Containers[j.name]

SkipJob(p) ==
    /\ pc[p] = "jobs" /\ jobs[p] # <<>>
    /\ Skips(Head(jobs[p]))
    /\ jobs' = [jobs EXCEPT ![p] = Tail(@)]
    /\ UNCHANGED <<lock, pc, run, list, excludes, alerted, result, staging, snapshots,
                   marks, ghosts>>

(* dump_postgres and its four relatives: the dump lies in the staging area,  *)
(* and the raw files are excluded; or the dump fails and die follows, or a   *)
(* command outside any condition fails (no dump tool, BGSAVE, docker cp).    *)
DumpJob(p) ==
    /\ pc[p] = "jobs" /\ jobs[p] # <<>>
    /\ Dumpable(Head(jobs[p]))
    /\ \/ /\ staging' = staging \cup {<<run[p], Head(jobs[p]).name>>}
          /\ excludes' = [excludes EXCEPT ![p] = @ \cup {Head(jobs[p]).data}]
          /\ jobs' = [jobs EXCEPT ![p] = Tail(@)]
          /\ UNCHANGED <<lock, pc, run, list, alerted, result, snapshots, marks, ghosts>>
       \/ "dump" \in Faults /\ Die(p)
       \/ "tool" \in Faults /\ Trip(p)

JobsDone(p) ==
    /\ Goto(p, "jobs", "upload")
    /\ jobs[p] = <<>>
    /\ UNCHANGED <<lock, locals, staging, snapshots, marks, ghosts>>

(* restic backup of BACKUP_PATHS without DYNAMIC_EXCLUDES; read errors of    *)
(* single files (exit code 3) count as success.                              *)
HideAll(p) ==                           \* wrong: skipped jobs hide their data as well
    {list[p][i].data : i \in DOMAIN list[p]} \ {NoPath}
HiddenPaths(p) == excludes[p]

(* Of the dumps, each in a folder with the name of its job, what an exclude  *)
(* covers is left behind as well.                                            *)
Uploaded(hidden) ==
    {d \in staging : /\ Reached(Staging) /\ d[2] \notin ExcludedNames
                     /\ \A e \in hidden : ~Within(Staging, e)}
Upload(p) ==
    /\ pc[p] = "upload"
    /\ \/ /\ pc' = [pc EXCEPT ![p] = "forget"]
          /\ snapshots' = snapshots \cup
                {[run |-> run[p], list |-> list[p], hidden |-> HiddenPaths(p),
                  dumps |-> Uploaded(HiddenPaths(p))]}
          /\ UNCHANGED <<lock, locals, staging, marks, ghosts>>
       \/ "restic" \in Faults /\ Trip(p)

(* restic forget --prune; restic check of home-check.sh. *)
Forget(p) ==
    /\ pc[p] = "forget"
    /\ \/ /\ pc' = [pc EXCEPT ![p] = "record"]
          /\ UNCHANGED <<lock, locals, staging, snapshots, marks, ghosts>>
       \/ "restic" \in Faults /\ Trip(p)
Check(p) ==
    /\ pc[p] = "checking"
    /\ \/ /\ pc' = [pc EXCEPT ![p] = "leaving"]
          /\ UNCHANGED <<lock, locals, staging, snapshots, marks, ghosts>>
       \/ "restic" \in Faults /\ Trip(p)

(* record_success writes one mark and removes the other. *)
RecordSuccess(p) ==
    /\ Goto(p, "record", "leaving")
    /\ lastSuccess' = run[p]
    /\ lastFailure' = 0
    /\ UNCHANGED <<lock, locals, staging, snapshots, ghosts>>

-------------------------------------------------------------------------------
Next ==
    \E p \in Processes :
        \/ Start(p) \/ Refused(p) \/ AcquireLock(p)
        \/ Clean(p) \/ Probe(p) \/ CheckSpace(p)
        \/ ReadJobs(p) \/ SkipJob(p) \/ DumpJob(p) \/ JobsDone(p)
        \/ Upload(p) \/ Forget(p) \/ Check(p) \/ RecordSuccess(p)
        \/ Leave(p) \/ Close(p) \/ Interrupt(p) \/ Kill(p)

Spec == Init /\ [][Next]_vars

-------------------------------------------------------------------------------
(* Properties *)

(* From its dump to its upload nobody takes a run's dumps away: a second     *)
(* run that finds the lock taken leaves the staging area alone               *)
(* (home-backup.sh:19-32).                                                   *)
OwnDumpsSurvive ==
    \A p \in Backups :
        pc[p] \in {"jobs", "upload"} =>
            \A i \in DOMAIN list[p] :
                list[p][i].data \in excludes[p] => <<run[p], list[p][i].name>> \in staging

(* A snapshot holds the dumps of its own run and no others, however earlier  *)
(* runs ended (home-backup.sh:32).                                           *)
FreshDumpsOnly == \A s \in snapshots : \A d \in s.dumps : d[1] = s.run

(* Switching a dump job on never makes a snapshot poorer: a database that    *)
(* the backup paths reach is in it as raw files, all of them, or as this     *)
(* run's dump (docs/specs/2026-06-09-configurable-sources-dbjobs-design.md:  *)
(* 56).  That no job's data path covers the files of another one, or the     *)
(* staging area, the instance and the theorem assume.                        *)
NothingFallsThrough ==
    \A s \in snapshots :
        \A i \in DOMAIN s.list :
            LET j == s.list[i]
            IN  Reached(j.raw) =>
                    \/ \A e \in s.hidden : ~Within(j.raw, e) /\ ~Within(e, j.raw)
                    \/ <<s.run, j.name>> \in s.dumps

(* Plain-text dumps lie about only while their run holds the lock, or after  *)
(* a kill: every other way out of the script removes them.                   *)
DumpsAreAccounted ==
    \A d \in staging : d[1] \in killed \/ (lock \in Backups /\ run[lock] = d[1])

(* The failure mark that the dashboard shows goes away only when that run or *)
(* a backup that took the lock later has succeeded, and the success mark     *)
(* never goes back to an earlier run (common.sh:26-27).                      *)
MarksMoveForward ==
    [][/\ lastFailure # 0 /\ lastFailure' # lastFailure =>
             lastFailure' > lastFailure \/ lastSuccess' >= lastFailure
       /\ lastSuccess' >= lastSuccess]_vars

(* A run that ends in failure has sent a failure alert (README.md:37). *)
FailureIsAnnounced ==
    \A p \in Processes : pc[p] = "closing" /\ result[p] = "failed" => alerted[p]

(* An enabled job whose database runs is dumped, whether or not it names     *)
(* raw files to exclude ("if empty, nothing is excluded", line 56 of         *)
(* docs/specs/2026-06-09-configurable-sources-dbjobs-design.md).             *)
EnabledJobsAreDumped ==
    \A s \in snapshots :
        \A i \in DOMAIN s.list :
            LET j == s.list[i]
            IN  j.enabled /\ j.type \in KnownTypes /\ Containers[j.name] = {"running"}
                    => <<s.run, j.name>> \in s.dumps
===============================================================================
