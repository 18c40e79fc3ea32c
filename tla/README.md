# A TLA+ model of backup-stack

backup-stack is one Docker container: a Go engine with a dashboard and a cron scheduler
(`engine/web`), bash scripts that run restic through rclone (`engine/scripts`), and an entrypoint that
decides which repository restic talks to (`engine/entrypoint.sh`). Its promise is short: backups,
restores and moves of the repository never overlap, the history tells the truth, no snapshot is
lost when the repository is moved, settings are saved whole, and whatever the dashboard starts for a
while (a GUI, a terminal, a session) ends. This directory holds the modules that state that promise, the TLC
runs that check it on small instances and the proofs that carry the core of it to every instance.

## Inventory

| Part | State | Operations | What makes it correct |
|---|---|---|---|
| Run gate (`web/actions.go`) | a mutex taken only by TryLock, the flag `running` | RunBackup, RunCheck, RunRestore, Acquire/ReleaseMaintenance, Busy | one run at a time; every path gives the gate back; the flag falls only after the history is written |
| Run history (`web/store.go`) | SQLite table `runs` (survives crashes) | StartRun, FinishRun, ReconcileStuck | a running row has a live owner; an outcome is final |
| Engine process (`web/main.go`) | up, or stopping once SIGTERM cancelled `appCtx` | boot, cron jobs, reload, shutdown | a restart cleans up after any crash |
| Restore (`web/api.go`, `home-restore.sh`) | the scratch area `/restore-out` | clear, restore, download | the tree belongs to one restore |
| Migration (`web/migrate.go`) | status (memory), `/config/remote-name`, `/config/remote-path`, two environment variables, the repositories | Start, run: preflight, copy, verify, switch, cleanup | nothing is purged before a complete copy is active elsewhere; it ends |
| Entrypoint (`entrypoint.sh`) | none | seeds missing files, derives the repository from the two files | a restart comes up where the engine was |
| Backup script (`home-backup.sh`, `lib/*`) | lock file, staging area, summaries, last-success/failure | lock, dump, upload, forget, traps | staging belongs to the lock holder; an excluded database is in the snapshot as a dump; failures are alerted |
| Configuration files (`config.go`, `srcpaths.go`, `dbjobs.go`, `alerts.go`, `fsutil.go`) | files under `/config` and their `.tmp` | load, merge, save, remove | a save happens at one instant or not at all; a reader never meets anything but a saved text |
| Scheduler (`main.go` reload) | the running cron, `schedNext`, `schedMu` | reload, fire, stop | the cron follows `config.env`, the dashboard shows it as it is, nothing waits for ever |
| GUI container (`rclonegui.go`) | a sibling container, `rgActive`, `rgTimer` | start, stop, expire, reconcile at boot | every GUI that runs has a deadline; a shut gate means that none runs |
| Web terminal (`terminal.go`) | sibling containers, slots, docker clients | open, type, time out, close, reconcile at boot | no more terminals than slots; slots and containers come back |
| Snapshot list (`collector.go`, `api.go`) | the list and the time it was stored | hit, miss, fill, serve stale | no answer is older than promised; a failing restic does not blank the page |
| Sessions (`auth.go`, `main.go`) | `/state/web-admin.hash`, `/state/session.key`, hash and key in memory; cookies at the browsers | resolve the hash, load the key, login, logout | a restart ends no session, unless the last hash or key could not be persisted; a session that a new password ended stays ended |
| Redaction, dashboard | none | | left to tests |

How they interact: HTTP handlers and cron jobs ask the gate; whoever gets it runs a script as a child
process with the environment of the engine, so a migration that changes `RESTIC_REPOSITORY` redirects
every later run. Scripts report through files under `/state` that the runner reads when they exit.
SIGTERM cancels one context that every command was started with. Docker restarts the container
(`restart: unless-stopped`), and the entrypoint reads the files that the migration wrote. A PUT of the
dashboard replaces a file under `/config` that the scripts source, and a PUT of `config.env` reloads the
cron. GUI and terminals are containers of the docker daemon, not children: they outlive the engine, and
the next one must find and remove them.

The hard behaviours are listed with their lines under `hazards` in `PROJECT.json`: preemption
between the two words of the gate; crashes between any two writes; files shared by all runs and read
without asking whose they are; a probe that cannot tell absence from failure; state read before the
gate and used under it; errors of the database that are dropped; one temporary name for all who save a
file; docker commands outside the mutex that guards what they are about; a client killed with its
request in flight; fills of a cache that end in any order; secrets that could not be persisted.

## Modules

| Module | Models | Notes |
|---|---|---|
| `Runner` | the gate of `actions.go` | operators on two variables; no steps of its own. Engine and Migration extend it |
| `Store` | the table `runs` | each statement has the second outcome "refused by the database", allowed by `StoreFaults` |
| `Engine` | the engine process: every goroutine that takes the gate, the history around it, the restore handler | extends Runner and Store; also holds the inductive invariant |
| `EngineProofs` | theorems about Engine | |
| `Custody` | the abstract specification of moving a repository | backup, copy, and discard only what another location holds |
| `Migration` | `migrate.go` and the location part of `entrypoint.sh` | extends Runner; implements Custody |
| `MigrationProofs` | theorems about Migration, among them that it implements Custody, and what follows from Custody alone | |
| `BackupScript` | `home-backup.sh`, `home-check.sh` and `lib/*.sh`: lock, traps, staging, dumps, upload, marks | stands alone: its processes may run in several containers |
| `BackupScriptProofs` | theorems about BackupScript | |
| `Register` | the abstract specification of a file that is saved | a save takes effect at one instant, or not at all |
| `ConfigFiles` | every save under `/config`, and `reload` of `main.go` | implements Register |
| `ConfigProofs` | theorems about ConfigFiles, among them that it implements Register | |
| `Gui` | `rclonegui.go` | stands alone |
| `Terminal` | `terminal.go`, the docker client and the daemon | stands alone |
| `Sessions` | the start of the engine as far as hash and key go, login, logout | stands alone |
| `SnapCache` | `ListSnapshotsCached` | stands alone |
| `GuiProofs`, `TerminalProofs`, `SessionsProofs`, `SnapCacheProofs` | theorems about these four | |
| `MC*` | the constants of the TLC instances | one per module that is checked |

Engine and Migration share the gate (Runner); the other parts share no variable with them in the code
either, except that a migration changes the environment from which a fill of the snapshot list takes
the repository: SnapCache dates a list by the start of its restic run for this reason.

### Engine

A task is one goroutine or handler; its program counter `pc` names the statement it executes next. A
step is cut wherever the Go code touches something shared: TryLock (`Lock`), `running.Store(true)`
(`Begin`), the INSERT (`InsertRow`), `cmd.Run` (`Launch`, or `LaunchCancelled` when `appCtx` is
already cancelled), the stages of the script, the UPDATE (`RecordRow`), `running.Store(false)`
(`End`), Unlock (`Release`). The script is seen through the one file the engine reads back:
`/state/last-summary.json` is truncated when the upload starts and names the snapshot when it ends; a
script may fail in any stage. A snapshot is named by the number of its run, kept as a ghost. The
scratch area is the set of parts of restored trees, so a mixture of two restores is visible; clearing it
may leave files behind (`RemoveFails`), since api.go:540-541 drops the errors of os.RemoveAll.
`Halt` stands for a kill as well as for the end of `main`: goroutines, gate and children vanish, the
table and the files stay. Ghost variables: `accepted` (bound), `runNo`, `lost` (rows whose update the
database refused) and `disturbed` (restores whose area was not emptied, or that another restore request
interfered with).

Left out: a refused request (it changes nothing, except for a restore, which has
`RestoreRefused`); the delay of the `tee` that writes the summary, which the prune that follows the
upload outlasts; log files and the audit table.

### Migration

A repository is what lies at a location: its config file, which says whose repository it is, and its
snapshots, each tagged with the repository whose key reads it. Some foreign repositories are `Sealed`: the
engine's password does not open them, so that repoExists answers false and a move writes over them.

A location is a remote and a path, both sequences of characters, so that two things the code does with them
can be seen. `Subtree` is what rclone means by a folder: a path that continues another one after a slash lies
in it, and `rclone copy` carries, and `rclone purge` deletes, all that lies below. Start accepts a target in
the folder of the source (only an equal location is refused), and a source in the folder of the target.
`Stripped` is the `tr -d '[:space:]'` of entrypoint.sh, which takes every blank from the remote name
(line 28) and from the path (line 32), while validRemotePath accepts inner blanks and validRemoteName any
section of rclone.conf. Two paths are one only if they are equal: spellings that a remote takes for the same
folder (`a/b`, `a//b`) and aliases of remotes are not modelled.

`rclone copy` moves files one by one in any order, replaces what differs and deletes nothing; a copy that
breaks off leaves what it transferred, and a purge that breaks off leaves any part of what it should
delete. Of a copy into the folder it copies from, rclone may or may not list what it writes there itself
(`AllLanded`); what would come to lie outside of `Locations` is not tracked. `Start` and `run`
are cut at every command and every write: `ReadLocation` before the gate, `Acquire`, the reachability
probe, the two repository probes, the counts, the copy, the verification, the two files, the two
environment variables, the purge. `SaysNo` is `repoExists` answering false for whatever reason.
`CountFails` is a remote that does not answer or a repository that does not open; snapshots of another key
are skipped with a warning, as restic does. `Boot` is `entrypoint.sh`, with defaults for missing files.

The constant `Faults` says what may go wrong: `network` (reachability probe, counts, copy,
verification, purge), `blink` (a repository probe of preflight fails although a repository is
there), `write`, `crash`, `sigterm`. A constant, not a probability: the runs below use it to tell
which promise survives which failure.

### BackupScript

A process is one execution of `home-backup.sh` or `home-check.sh`. Within one engine the gate keeps
them apart, but `entrypoint.sh backup` starts one in another container, so the module assumes no gate:
only `flock` on `/state/backup.lock`. `pc` names the part of the script, and what the module is about
is how a script is left: `Die` (`exit 1`: EXIT trap only), `Trip` (a failing command: ERR trap, which
cleans up, records and announces, then the EXIT trap), `Interrupt` (EXIT trap), `Kill` (nothing), and
`Refused`, which comes before the traps of the staging area are installed. `ReadJobs` shows a subtlety
of process substitution: when `jq` fails, the trap runs in the subshell and the script goes on with
the rows that `jq` wrote before, any beginning of the file; that the trap has cleaned the staging area
before the first dump lies there is an assumption on the time it takes. `ReadsEnabled` is what `read` makes
of a line with an empty data column. A snapshot records, next to the job list of its run, the dumps that were uploaded and the places that were hidden; a job
carries in `raw` where its database really keeps its files (ghost), which `data` is meant to repeat.

A place is the sequence of names that leads to it, and `Within` says that it lies at or below another.
restic reads (`Reached`) what lies below `BackupPaths`, the sources and the volumes, and neither below
a path of `excludes.txt` nor in a folder with one of its names (`**/cache`). A data path that is dumped hides
all that lies below it: other jobs' files, or the staging area. `Uploaded` are the dumps that are left:
none, if the staging area is not reached or a data path covers it, and not those of a job whose name
`excludes.txt` hides, since db-dump.sh puts a dump into a folder with the name of its job. validDBJob accepts
any absolute path and any such name. Wildcards in data paths, which restic would expand, are not modelled.
Left out: read errors of single files (exit code 3 is a success), which old
snapshots `forget` removes, the summary of the dumps, the refusal of dangerous values of
`STAGING_ROOT` (a constant of the deployment), and children that outlive a killed bash and keep its
lock: `Kill` takes the whole container.

### ConfigFiles and Register

A content is reduced to what can go wrong with it: `body`, the settings a reader finds in force;
`rest`, whether the comments and the keys the dashboard does not know are still there; `junk`, whether
lines of another text trail behind. `writeFileAtomic` is three steps, because os.WriteFile opens with
O_TRUNC before it writes: `Open`, `Write`, `Rename`. All who save a file use the same `<file>.tmp`, so
an open file may be truncated, overwritten or renamed away by another handler: `fd` says which name, if
any, the open file has by then, `Over` what a write at offset 0 leaves of a longer text, and
`RenameMissing` is the 500 of the loser. `Load` is LoadConfig, the fields of the body and Validate:
`Merge` takes the settings from the request and everything else from what was read. `Fail` is an error
of any of the three calls; it leaves the temporary file behind. `ReloadRead` takes `schedMu`, stops the
old cron and reads the file; `ReloadInstall` starts the new one. `NextOf` keeps `schedNext` when the
parser refuses the schedule, as the code does; at boot it is zero. `Shutdown` stops the cron under
`schedMu`; a handler that is still open may then start another, which the process takes with it when it
exits, and CronFollowsFile speaks of an engine that is up.

The constant `Overlap` is the set of files of which two saves may be under way at the same time. It is
an assumption about the users (one operator, one browser tab per form), not about the code: the run
`config_overlap` lets every file overlap and shows what the code does then. In `config` the alert
webhook may overlap, so that its torn saves are seen to disturb neither the saves nor the cron of
`config.env`; overlapping saves of `config.env` itself can end with a torn file and the scheduler off,
so `CronFollowsFile` needs `Config \notin Overlap`.

`Register` is the promise without files and names: a request is asked, taken at one instant, answered.
The refinement maps `path` to the register and forgets `tmp` and `fd`; the instant is `Rename` or
`Remove`. A body is told by its two schedules: `Off`, those the parser accepts, and the set `Refused`, among
them `Bad`, whose only schedule it refuses. Where it refuses the schedule of the backup alone, reload still
installs the check, and where it refuses that of the check, the backup (main.go:178-196): such a body,
`checks` in the instance, has a cron although Validate would not save it; it comes from an editor. `Boot` is
entrypoint.sh, which seeds config.env and excludes.txt (`Seeded`) where they are missing, and main, which
reloads. Left out: which values the validators accept otherwise, quoting of values, the bash side (it reads
once, at its start, what `path` holds).

### Gui

One container of a fixed name; `box` is what the daemon has under it. A step is cut at every docker
command and at every section under `rgMu`, which guards only `rgActive` and `rgTimer`: two requests
and two timers that fired interleave freely. `DockerRunFails` covers the name that is taken (the
container of a competing start) and, with `RunFaults`, a daemon that refuses before or after the create;
`Clean` then removes whatever has the name. `Ring` is a timer that fired: `Timer.Stop` no longer stops it.
`Crash`, `Boot` and `BootReconcile` are the restart, before the server listens. `RmFaults` lets
`docker rm` fail; the code only logs it.

### Terminal

`cli` is the docker client with the request it is about to make; killed, it may leave that request in
flight (`lateCreate`, `lateStart`), and the daemon carries it out or finds the container removed. The
deferred calls of handleTerminalWS run in their order: `CloseClient` (stop, ptmx.Close, cancel),
`RemoveBox`, `Release`. `web` is what the browser does: it types, it is silent but answers pings, the
connection is closed, or nothing answers. ReadTimesOut shows that the idle limit of 15 minutes never ends
a session whose browser answers pings: each pong moves the deadline. It ends by the 30 minutes of the
context, which kill the client only: `PumpEnds` then stops the pings, and the read deadline runs out at
most 15 minutes later, unless the user types on. A `lateCreate` carried out after `RemoveBox` leaves a
container that was created and never runs; the next boot removes it. The zombie of the killed client
(`cmd.Wait` is never called, terminal.go:93) is outside the model.

### Sessions

A hash is a password and a salt, since bcrypt salts each; the version of a session is a digest of the
hash, taken to be injective, and signatures are taken to be unforgeable. `pickAdminHash` is the function
of that name; `ResolveAdminHash` uses its choice even when it cannot be persisted, as the code does
(main.go:117 logs "persisted" in that case too). bcrypt refuses a password of more than 72 bytes (`Long`):
the engine then serves without a hash, accepts no login and refuses every session (main.go:103, 156). A key that cannot be written stops the engine
(`Stop` while starting). The operator changes passwords, hash files and keys while the engine is down.
Ghosts: `owed` are the sessions the next engine must accept, that is all those of the last engine, until the
operator sets a new password, hash file or key; `unsaved` says that the last engine's hash or key is not where
the next start looks; `refused` are those some engine would have refused; `aside` says that an engine has
run with a hash or a key that `/state` does not hold (a hash file or key of the operator, a failed write),
or with no hash. `SessionsSurvive` says nothing of the start after an engine that was `unsaved`: writeFile0600
has only logged its failure, and every restart until a write succeeds makes a new hash and so ends every
session (`sessions_unsaved.cfg`). Without
`~aside` TLC refutes RefusedStayRefused: after a password that could not be persisted, or a hash
file that is taken away again, the old pair of hash and key is still in `/state` and its sessions return.

### SnapCache

Time is counted in ticks and a list is dated by its age since the start of the restic run that made it;
ages beyond `Ttl + Limit` are not told apart. `Miss` releases the mutex, so several fills run at once
and the last to end wins (`Store`), even if it started first: that is why an answer can be up to
`Ttl + Limit` old and not just `Ttl`. RunFails serves what the cache holds by then, at any age. The
cache of directory listings is left out: its key is a snapshot, which is immutable, and the
dashboard never passes "latest".

## Runs

| Run | Question | Bounds | Result |
|---|---|---|---|
| `engine` | Is the history truthful and the gate exclusive, whatever crashes? Does the gate come free, does every row get an outcome? | 2 backups, 1 check, 2 restores, 1 maintenance; 2 accepted runs; both statements and the clearing of the scratch area may fail; fairness | passes (48,095 states) |
| `engine_restore` | Does a restore that answered 200 leave exactly its tree? | 2 restores | violated: finding 1 |
| `migration` | Is any snapshot lost; does the purge come last; does it end? | 2 migrations, 1 backup, 2 remotes x 2 paths, none in the folder of another, one foreign repository that opens and one that does not; 2 starts, 1 new snapshot; network, write, crash, sigterm | passes (375,336 states) |
| `migration_retry` | Does the retry of a broken copy keep the history at the active location? | network faults only | violated: finding 2 |
| `script` | Does a run upload its own dumps and leave none behind; is every database in the snapshot; do the marks tell the last outcome? | 2 backups, 1 check; 3 runs; 4 kinds of job; all faults; the sources, excludes and staging area of the defaults; symmetric backups | passes (2,996,959 states) |
| `script_sources` | Is every database in the snapshot when the sources leave out the staging area? | 1 backup, 1 job | violated: finding 3 |
| `config` | Is a saved file whole, does the cron follow it, does every save end, is a save atomic? | 2 handlers, `config.env` and the webhook, saves of the webhook overlap; 4 bodies; failing operations, crash, SIGTERM, an operator's edits | passes (141,504 states) |
| `config_overlap` | Is a file whole when two saves of it overlap? | 2 handlers, no fault needed | violated: finding 4 |
| `gui` | Does every GUI have a deadline and an end; is the gate shut only before none? | 2 handlers, 2 timers that fired late, failing `docker run`, exits, crashes; fairness | passes |
| `terminal` | Do terminals stay within the slots; do slots and containers come back? | 2 sessions, 1 slot; clients killed at any point, silent and lost browsers, crashes; fairness | passes |
| `sessions` | Does a restart end a session; does an ended one return? | 3 passwords, one of them too long, 3 hashes, 2 keys, failing writes | passes (1,507,520 states) |
| `caches` | How old can an answer be; can a failing restic blank the page? | 2 readers, ttl 2, limit 3 ticks | passes |

Why these bounds are enough for their questions. Two accepted runs let a run start after one that
failed, crashed or was never recorded, with the other tasks queued at the gate, and two tasks of a kind
let a task meet its own kind. Two migrations with two starts give a race at the gate and a retry; two
remotes and two paths give four locations: home, an empty one, a foreign one that opens and one that does
not, so a move can differ from home in the remote, in the path or in both. Two snapshots are enough for a copy to be partial. Three
runs of the script are one that dies, one that finds its remains and one that is refused or comes after.
Two handlers are enough for every race over one temporary name, one mutex, one container name or one
slot, since each step involves one handler and what one other left; two late timers let one that fired
meet a newer one. Three hashes are a password, its change and its return. A ttl of 2 and a limit of 3
ticks let a fill start, be overtaken and end within and beyond the time to live. Most safety
properties are proved without these bounds (below).
The violation runs and `script` turn deadlock checking off because they end when their bounds are
exhausted (a script that nobody starts again has simply ended); `engine`, `migration` and the other
passing runs check for deadlock.

`script` passes `NothingFallsThrough` for sources that reach the staging area, the default (`/home`), the
excludes of excludes.txt.example, and jobs whose data paths lie beside each other and the staging area;
`script_sources`, `script_wide` and `script_names` are the same property where one of these fails.

What the passing `migration` run shows deserves care. Snapshots are never *lost* (`KeepsCustody`,
`PurgeComesLast`) through failing copies, purges and writes, crashes, shutdowns and races, but only where no
location lies in the folder of another and no probe blinks: with a target below the source the code purges
what it has just activated, with no fault at all (`migration_nested.cfg`), and a blinking probe makes it
copy over a repository (`migration_blink.cfg`). `DoneIsDurable` and `PurgeComesLast` leave out an
active location with a blank in its remote or path. What the instances below show besides is
weaker and still serious: the *active* location may be one that does not hold the history
(`ActiveHoldsHistory`), so the next backup fails or the dashboard shows an empty list while the snapshots lie
elsewhere. A sealed repository at the target is written over, which custody does not count as a
loss: this engine could never read it.
`MoveCarriesEverything` excludes the time between SIGTERM and the exit (`migration_sigterm.cfg`).

### Fairness

- Handlers and goroutines: weak fairness of their steps. Statements are executed in their turn; docker,
  restic and rclone come back (timeouts of 15, 30 and 60 seconds, `WaitDelay` after SIGTERM; for
  a long copy it is rclone's own timeouts that end a stalled transfer).
- `ReloadRead` (ConfigFiles): strong, because `sync.Mutex` hands itself over to a goroutine that has
  waited for a millisecond.
- `Boot` weak, the reconciliations of Gui and Terminal strong: Docker restarts the engine
  (`restart: unless-stopped`), and some start gets far enough to serve even if others die before.
- `StopTyping` (Terminal, `FairUsers`): nobody types for ever. Without it SlotComesBack fails, see
  `terminal_ttl.cfg` below.
- Nothing is assumed about new requests, logins or edits.

## Proofs

All theorems hold for every value of the constants: any sets of tasks, requests, handlers, sessions,
locations, passwords, any bounds. Each rests on the named assumption of its module
(`StoreFaultsAssumption`, `MigrationAssumption`, `ConfigAssumption`, ...), and on what its
statement says before `Spec`. `<<>> \notin Remotes \cup Paths` in MigrationAssumption is what
validRemotePath and the choice of a remote refuse.

**EngineProofs.** None of the properties is inductive alone. `MutualExclusion` needs `GateInv` (the
program counters know who holds the mutex, which in Go has no owner). `IdleMeansRecorded` needs `FlagInv`
and that a row still open belongs to a task between the insert and the update (`StuckInv`); that in turn
needs `OwnRowInv` and `KindInv`. `OkRowNamesItsSnapshot` needs `SummaryInv`: from the end of the upload to
the reading of the file nobody else can be uploading, because of the gate. `IInv` is their conjunction.
`FinalRowsAreFinal` is an action property: `OwnRowInv` says that the row FinishRun writes is still
running, so no outcome is overwritten. `SoloRestoresAreWhole` needs `ScratchInv`: while no other
restore has been begun since a request came, the scratch area has nothing but the files of that
request, and is empty where the request has just cleared it. The same invariant gives
`LoneRestoresAreExact`: with one restore request in the system, and a RemoveAll that works (`~RemoveFails`),
the area is always that of the request that reports success, so finding 1 is a matter of the second
request alone.

**BackupScriptProofs.** `LockInv` numbers the runs: whoever is between acquire_lock and its last statement
has the lock and the highest number, so `OneScriptAtATime`, and a script that does not have it changes
nothing the others read (`OutsidersTouchNothing`, which carries the parts below through the steps of
refused and dying scripts). `ListInv` and `ExcludeInv` say that what is left of the jobs comes from the
file that was read and that each excluded place is that of a job whose dump is there; `CleanInv` that
after Phase 0 the staging area has this run's dumps alone. `SnapshotsAreFresh`, `DumpsHaveAnOwner` and
`MarksNeverGoBack` follow without a hypothesis. The others say what they assume before `Spec`:

- `OwnPlaces` (`OwnDumpsAreKept`, `NothingIsMissed`): no dumped data path of a file equals that of another
  job, covers its files or lies among them. The scripts do not check this; what they do for any file is
  `ExcludedIsDumped`, where the dump that answers for a place may be that of the other job.
- `StagingSeen` (`NothingIsMissed`, `DueJobsAreDumped`): the sources reach the staging area, no data path
  that may be dumped covers it, and no name of a job is hidden. The default; finding 3, `script_wide.cfg` and
  `script_names.cfg` are the other cases.
- `NoBlanks` (`DueJobsAreDumped`): no enabled job leaves its data column blank; `script_blank.cfg` is the
  other case, and `EnabledJobsAreDumped` has no other exception.
- `Faults \cap {"dump", "interrupt"} = {}` (`OtherFailuresAreAnnounced`): no dump dies and no signal
  comes. `script_alert.cfg` has both, and a run that was refused the lock; every other failure of a run
  that had the lock is announced.

**MigrationProofs.** A system that behaves like `Custody` never loses a snapshot
(`CustodyKeepsEverything`), and `Migration` behaves like it (`MigrationKeepsCustody`), so
`NoSnapshotIsLost`: both where no location lies in the folder of another (`Apart`) and no probe blinks.
The argument goes through four layers, each an invariant on top of the last:

1. `GateInv`: whoever is between Acquire and Release is alone there, and the status is active exactly
   between launch and end. `ActiveHoldsGate` follows.
2. `JobInv`, `SwitchInv`: how far a migration has come says what the two files and the two variables
   hold, and that a migration which purges has copied.
3. `CarryInv`, `DoneInv`: from the end of the copy to the purge everything of the source lies at the
   target under the same key; "done" stands for a location on which files and environment agree.
   `MoveCarriesEverything` and `DoneIsDurable` follow, for nested locations too, and `PurgeComesLast` for
   `Apart`, where a purge takes the source alone (`PurgeIsLocal`).
4. `TargetInv`: a copy writes where nothing answered, or over what it wrote itself; `LeftoversInv`: a
   snapshot that lies unreadable somewhere, after a purge or a copy that broke off, is readable
   elsewhere. With them every step is a step of Custody or none.

`LoneMovesKeepHistory` proves the manual's promise (`ActiveHoldsHistory`) where it is kept: `Quiet`, that
is `Apart`, no faults, no foreign repository, and one migration after the other, any number of them and with
any backups between. `LoneInv` says that the active location has the whole history and that nothing lies
elsewhere but the copy under way, or what the purge is about to take; so every probe of the next move finds
an empty target. The hypothesis is tight: on small instances TLC finds the promise broken by a second
request, by each kind of fault alone, by a foreign repository that a move adopts, and by a target below the
source.

The hypotheses are what the code does not survive: `"blink" \notin Faults` where a probe decides between move
and adopt, `Apart` where a purge must leave the target alone; and, inside `DoneIsDurable` and
`PurgeComesLast`, `Blankless(envRepo)` where entrypoint.sh must read back what was written. What `Stripped`
does to every sequence would need induction over data, which the prover used here does not do.

**ConfigProofs.** `FileInv` and `AloneInv` say that outside `Overlap` at most one handler is
between open and rename, and what `tmp` and its descriptor are then; a leftover `tmp` is harmless because
Open truncates it. `FilesStayWhole` follows, and `SavesTakeEffectAtOnce` maps each step to a step or a
stutter of Register. `WatchInv` and `FollowInv` tie the running cron and `schedNext` to the file and
to the handler that holds `schedMu`; `CronFollowsTheFile` and `TheSchedulerIsShownAsInstalled` follow
for `Config \notin Overlap`.

**GuiProofs, TerminalProofs.** For `RmFaults = FALSE`. `Watched`: a GUI that runs has a timer and
an open gate, or an actor in hand. `SessionInv` ties, for each session, the container, the client with
its request in flight, the program counter and the slot; `CapInv` counts the slots taken, and the cap
on sessions becomes one on containers by a lemma on cardinalities.

**SnapCacheProofs, SessionsProofs.** `AgeInv`: while a list may be served unasked, its age when it was
stored was at most `Limit`. `OwedInv`, `OrderInv` and their like: what `/state` holds, which hash
the next start will find, unless the last engine was `unsaved`, and that hashes and keys are new when made.

Every inductive invariant holds on the instance of its run too, and those with more hypotheses
(`DueInv`, `AnnouncedInv`, `LoneInv`) on one that meets them: TLC checked them there. Each
invariant and each action property of the passing runs is stated by a theorem. Only model-checked: all
liveness (`GateIsReleased`, `RowsSettle`, `MigrationEnds`, `SavesFinish`, `GuiIsTemporary`, `SlotComesBack`,
`TerminalsEnd`): temporal reasoning with fairness is out of the reach of the proof system used here.

## Findings

Each is a run that TLC refutes; `PROJECT.json` quotes the sentence of the repository it contradicts.

1. A restore request clears `/restore-out` before it asks for the gate (`engine_restore`).
2. The retry of a broken copy adopts the partial repository (`migration_retry`).
3. A dump hides the raw files of its database even when the staging area is not backed up
   (`script_sources`).
4. Two saves of one file can leave it empty or torn, against "a reader never sees a half-written
   file" (`config_overlap`).

### Further instances

These configurations are kept beside the runs; TLC refutes the one property each of them states (all but
`config_seeds.cfg`, which passes).

| Configuration | Property | What TLC shows |
|---|---|---|
| `migration_race.cfg` | ActiveHoldsHistory | no fault at all: the source is read before the gate, a second migration reads it while the first moves it, and switches to an empty place |
| `migration_sigterm.cfg` | ActiveHoldsHistory | SIGTERM during preflight makes every probe say "no repository": nothing is copied and the files are switched |
| `migration_crash.cfg` | RestartsAtAChoice | a crash between the two override files: new remote, old path |
| `migration_nested.cfg` | KeepsCustody | no fault at all: a target in the folder of the source, which the purge of the source takes along (migrate.go:404) |
| `migration_blink.cfg` | KeepsCustody | a failing probe of the target turns "adopt" into "move" over a repository that is there |
| `script_blank.cfg` | EnabledJobsAreDumped | an enabled job with an empty data column is read as disabled |
| `script_wide.cfg` | NothingFallsThrough | a data path above the staging area: its own dump, and every other one, is excluded with it (restic.sh:37) |
| `script_names.cfg` | NothingFallsThrough | a job named "cache": excludes.txt hides the folder of its dump, while its raw files are excluded |
| `script_alert.cfg` | FailureIsAnnounced | a run that ends by `die` sends no alert and leaves no mark |
| `gui_race.cfg` | ActiveMeansStarted | a start and a stop, or a late timer and a start: the gate is open and the container gone (rclonegui.go:91) |
| `gui_rm.cfg` | GuiHasDeadline | a `docker rm` that fails at a stop or at boot: a GUI that nothing will stop before the next start (rclonegui.go:23) |
| `sessions_unsaved.cfg` | SessionsSurviveFailedWrites | a hash that could not be written: the next start makes another, and every session ends (main.go:107, 122-131) |
| `config_seeds.cfg` | those of `config` | passes: config.env and excludes.txt, both seeded at boot (31,244 states) |
| `terminal_ttl.cfg` | SlotComesBack | the 30 minutes kill the client only; a user who types on keeps the slot (terminal.go:22-23) |

`SpacedPaths` and `SpacedRemotes` of MCMigration, in place of `TwoPaths` and `TwoRemotes`, have a path and a
remote with an inner blank, which the next start strips: the engine comes up at another location, and what
the two properties say with `Blankless(envRepo)` holds all the same (TLC passes both instances, without
foreign repositories).

Met while modelling, without a property: after the first scheduled run the dashboard shows a next run in
the past until the next reload (main.go:189); a reload in flight at SIGTERM may start a cron again for the
time the process still has; a webhook that cannot be removed is reported as removed
(alerts.go:95 drops the error; the `Remove` of ConfigFiles always succeeds).

## Not modelled, and the plan

In this order:

1. The composition of `BackupScript` with `Migration` (a backup started by `entrypoint.sh backup` does
   not ask the gate and may write to a repository that is about to be purged), an abstract
   `Coverage` specification for what a snapshot promises, and the summary of the dumps.
2. createRemote and runRcloneCLI: one-off containers that change rclone.conf, a file of rclone.
3. The download of a restored tree beside a new restore, `forget` and its retention.

Left to tests: bcrypt and signatures, CSRF tokens, redaction, validation of single values, the
browser code.
