---------------------------- MODULE ConfigFiles ----------------------------
(***************************************************************************)
(* The files under /config that the dashboard edits while the backup        *)
(* scripts read them, and the scheduler that follows config.env             *)
(* (fsutil.go, config.go, srcpaths.go, dbjobs.go, alerts.go, handleConfig   *)
(* and handleExcludes of api.go, reload of main.go).                        *)
(*                                                                          *)
(* Every handler saves by writing <file>.tmp and renaming it.  The name of  *)
(* the temporary file is fixed, so a handler holds an open file that        *)
(* another handler may truncate, write over or rename away: fd says which   *)
(* name, if any, the open file still has.                                   *)
(***************************************************************************)
EXTENDS FiniteSets

CONSTANTS
    Files,      \* the files under /config
    Config,     \* config.env
    Removable,  \* the files a handler deletes (alert-webhook)
    Writers,    \* request handlers
    Bodies,     \* the settings of config.env, told apart by the schedule
    Lists,      \* the well-formed contents of the other files
    Off,        \* a body with SCHEDULER_ENABLED=false
    Refused,    \* the bodies with a schedule the cron parser refuses
    Bad,        \* that one of them which has no other schedule
    Seeded,     \* the files entrypoint.sh seeds: config.env, excludes.txt
    Example,    \* what it seeds the others of them with
    None,       \* no value
    Overlap,    \* the files of which two saves may be under way at a time
    Faults      \* TRUE: a file operation may fail

ASSUME ConfigAssumption ==
    /\ Config \in Files /\ Removable \subseteq Files \ {Config}
    /\ Off \in Bodies /\ Bad \in Refused /\ Refused \subseteq Bodies \ {Off}
    /\ Bodies \cap Lists = {}
    /\ Config \in Seeded /\ Seeded \subseteq Files /\ Example \in Lists
    /\ None \notin Bodies \cup Lists \cup Writers \cup Files \cup {"tmp", "path", "ahead", "past"}
    /\ Overlap \subseteq Files /\ Faults \in BOOLEAN

VARIABLES
    path,       \* file -> the content of the file
    tmp,        \* file -> the content of <file>.tmp
    pc,         \* writer -> where its handler is
    job,        \* writer -> its file and the text to save there, or NoJob
    seen,       \* what the handler that holds schedMu has read of config.env
    fd,         \* writer -> the name its open file has: "tmp", "path", or None
    cron,       \* the schedule the running cron follows, Off if none
    next,       \* schedNext: None, "ahead" or, once that time is past, "past"
    schedMu,    \* the handler that holds it, or None
    engine      \* "down", "up" or "closing" (SIGTERM received)

fileVars == <<path, tmp>>
vars == <<path, tmp, pc, job, seen, fd, cron, next, schedMu, engine>>

----------------------------------------------------------------------------
(* Contents.  body: the settings in force when the file is read; rest: the  *)
(* comments and the keys the dashboard does not know are all there; junk:   *)
(* lines of another text trail behind.                                      *)
Content == [body : Bodies \cup Lists \cup {None}, rest : BOOLEAN, junk : BOOLEAN]
Whole(b) == [body |-> b, rest |-> TRUE, junk |-> FALSE]
Blank == [body |-> None, rest |-> FALSE, junk |-> FALSE]
Absent == [body |-> None, rest |-> TRUE, junk |-> TRUE]     \* no such file

TextsOf(f) == {Whole(b) : b \in IF f = Config THEN Bodies ELSE Lists}
Texts == UNION {TextsOf(f) : f \in Files}
\* config.env.example and excludes.txt.example
Seed(f) == Whole(IF f = Config THEN Off ELSE Example)
Found(f) == IF f \in Seeded THEN Seed(f) ELSE Absent

\* Writing t from offset 0 over old: a longer old text shows behind the new
\* one, and its lines, read last, may override those of t.
Over(old, t) ==
    IF old = Blank \/ old = t THEN {t}
    ELSE {t} \cup {[body |-> b, rest |-> t.rest, junk |-> TRUE] : b \in {old.body, t.body}}

\* Save after LoadConfig: the settings are those of the request, every other
\* line is the one that was read.
KnownKeysOnly(read, t) == [t EXCEPT !.rest = FALSE]
Merge(read, t) == [body |-> t.body, rest |-> read.rest, junk |-> read.junk]

Validate(t) == t.body \notin Refused
ValidBody(b) == b \in Lists     \* the validators of the other files

\* what reload schedules from a content: the check, where only the schedule
\* of the backup is refused, and the backup, where only that of the check is
ScheduleOf(c) == IF c.body \in Bodies \ {Bad} THEN c.body ELSE Off

\* reload leaves schedNext alone when the scheduler is on without an entry
NextOfEntry(c) == ScheduleOf(c)
NextOfKept(c) == IF ScheduleOf(c) = Off THEN next ELSE "ahead"
NextOf(c) ==
    IF c.body = Bad THEN next
    ELSE IF ScheduleOf(c) = Off THEN None ELSE "ahead"

----------------------------------------------------------------------------
NoJob == [file |-> None, text |-> Absent]
Job(f, t) == [file |-> f, text |-> t]

Step(p, from, to) ==
    /\ pc[p] = from
    /\ pc' = [pc EXCEPT ![p] = to]

\* the handler returns
Return(p, from) ==
    /\ Step(p, from, "idle")
    /\ job' = [job EXCEPT ![p] = NoJob]

Saving(q, f) == pc[q] \in {"write", "rename"} /\ job[q].file = f

\* what LoadConfig and the readers of the other files find
LoadConfig == path[Config]

Init ==
    /\ path = [f \in Files |-> Found(f)] /\ tmp = [f \in Files |-> Absent]
    /\ pc = [p \in Writers |-> "idle"] /\ job = [p \in Writers |-> NoJob]
    /\ fd = [p \in Writers |-> None]
    /\ seen = Absent /\ cron = Off /\ next = None /\ schedMu = None /\ engine = "up"

\* PUT /api/config
AskConfig(p, b) ==
    /\ engine = "up"
    /\ Step(p, "idle", "load")
    /\ job' = [job EXCEPT ![p] = Job(Config, Whole(b))]
    /\ UNCHANGED <<path, tmp, fd, seen, cron, next, schedMu, engine>>

\* a request that saves another file; it is validated, and nothing is loaded
AskFile(p, f, b) ==
    /\ engine = "up" /\ ValidBody(b)
    /\ Step(p, "idle", "open")
    /\ job' = [job EXCEPT ![p] = Job(f, Whole(b))]
    /\ UNCHANGED <<path, tmp, fd, seen, cron, next, schedMu, engine>>

\* handleConfig: LoadConfig, the fields of the body, Validate
Load(p) ==
    /\ Step(p, "load", "open")
    /\ LoadConfig # Absent /\ Validate(job[p].text)
    /\ job' = [job EXCEPT ![p].text = Merge(LoadConfig, @)]
    /\ UNCHANGED <<path, tmp, fd, seen, cron, next, schedMu, engine>>

Reject(p) ==
    /\ Return(p, "load")
    /\ LoadConfig = Absent \/ ~Validate(job[p].text)
    /\ UNCHANGED <<path, tmp, fd, seen, cron, next, schedMu, engine>>

OpenInPlace(p) ==
    /\ Step(p, "open", "write")
    /\ path' = [path EXCEPT ![job[p].file] = Blank]
    /\ tmp' = [tmp EXCEPT ![job[p].file] = job[p].text]
    /\ fd' = [fd EXCEPT ![p] = "path"]
    /\ UNCHANGED <<job, seen, cron, next, schedMu, engine>>

\* os.WriteFile, first half: open with O_CREATE and O_TRUNC
Open(p) ==
    /\ Step(p, "open", "write")
    /\ job[p].file \in Overlap \/ \A q \in Writers \ {p} : ~Saving(q, job[p].file)
    /\ tmp' = [tmp EXCEPT ![job[p].file] = Blank]
    /\ fd' = [fd EXCEPT ![p] = "tmp"]
    /\ UNCHANGED <<path, job, seen, cron, next, schedMu, engine>>

\* os.WriteFile, second half, into whatever the open file has become
Write(p) ==
    /\ Step(p, "write", "rename")
    /\ \/ /\ fd[p] = "tmp" /\ UNCHANGED path
          /\ \E c \in Over(tmp[job[p].file], job[p].text) :
                tmp' = [tmp EXCEPT ![job[p].file] = c]
       \/ /\ fd[p] = "path" /\ UNCHANGED tmp
          /\ \E c \in Over(path[job[p].file], job[p].text) :
                path' = [path EXCEPT ![job[p].file] = c]
       \/ /\ fd[p] = None
          /\ UNCHANGED fileVars
    /\ fd' = [fd EXCEPT ![p] = None]
    /\ UNCHANGED <<job, seen, cron, next, schedMu, engine>>

\* the open files of f after a rename, and after a removal
Renamed(f) ==
    [q \in Writers |-> IF job[q].file # f \/ fd[q] = None THEN fd[q]
                       ELSE IF fd[q] = "tmp" THEN "path" ELSE None]
Unlinked(f) ==
    [q \in Writers |-> IF job[q].file = f /\ fd[q] = "path" THEN None ELSE fd[q]]

Rename(p) ==
    /\ Step(p, "rename", IF job[p].file = Config THEN "lock" ELSE "answer")
    /\ tmp[job[p].file] # Absent
    /\ path' = [path EXCEPT ![job[p].file] = tmp[job[p].file]]
    /\ tmp' = [tmp EXCEPT ![job[p].file] = Absent]
    /\ fd' = Renamed(job[p].file)
    /\ UNCHANGED <<job, seen, cron, next, schedMu, engine>>

\* another handler has renamed the temporary file away: answered 500
RenameMissing(p) ==
    /\ Return(p, "rename")
    /\ tmp[job[p].file] = Absent
    /\ UNCHANGED <<path, tmp, fd, seen, cron, next, schedMu, engine>>

\* the open, the write or the rename fails: answered 500, <file>.tmp stays
Fail(p) ==
    /\ Faults
    /\ \E at \in {"open", "write", "rename"} : Return(p, at)
    /\ fd' = [fd EXCEPT ![p] = None]
    /\ UNCHANGED <<path, tmp, seen, cron, next, schedMu, engine>>

\* handleAlertWebhook with an empty URL
AskRemove(p, f) ==
    /\ engine = "up"
    /\ Step(p, "idle", "remove")
    /\ job' = [job EXCEPT ![p] = Job(f, Absent)]
    /\ UNCHANGED <<path, tmp, fd, seen, cron, next, schedMu, engine>>

Remove(p) ==
    /\ Step(p, "remove", "answer")
    /\ path' = [path EXCEPT ![job[p].file] = Absent]
    /\ fd' = Unlinked(job[p].file)
    /\ UNCHANGED <<tmp, job, seen, cron, next, schedMu, engine>>

ReloadReadUnlocked(p) ==
    /\ Step(p, "lock", "install")
    /\ seen' = LoadConfig
    /\ cron' = Off
    /\ UNCHANGED <<path, tmp, job, fd, next, schedMu, engine>>

\* reload: take schedMu, stop the old cron, read the file ...
ReloadRead(p) ==
    /\ schedMu = None
    /\ Step(p, "lock", "install")
    /\ schedMu' = p
    /\ seen' = LoadConfig
    /\ cron' = Off
    /\ UNCHANGED <<path, tmp, job, fd, next, engine>>

ReloadInstallHolds(p) ==
    /\ Step(p, "install", "answer")
    /\ cron' = ScheduleOf(seen)
    /\ next' = NextOf(seen)
    /\ seen' = Absent
    /\ UNCHANGED <<path, tmp, job, fd, schedMu, engine>>

\* ... start the new one and let schedMu go
ReloadInstall(p) ==
    /\ Step(p, "install", "answer")
    /\ schedMu' = None
    /\ cron' = ScheduleOf(seen)
    /\ next' = NextOf(seen)
    /\ seen' = Absent
    /\ UNCHANGED <<path, tmp, job, fd, engine>>

Answer(p) ==
    /\ Return(p, "answer")
    /\ UNCHANGED <<path, tmp, fd, seen, cron, next, schedMu, engine>>

----------------------------------------------------------------------------
\* the time shown as the next run is reached
Fire ==
    /\ cron # Off /\ next = "ahead"
    /\ next' = "past"
    /\ UNCHANGED <<path, tmp, pc, job, seen, fd, cron, schedMu, engine>>

\* SIGTERM: the cron is stopped under schedMu; open requests may finish
Shutdown ==
    /\ engine = "up" /\ schedMu = None
    /\ engine' = "closing"
    /\ cron' = Off
    /\ UNCHANGED <<path, tmp, pc, job, seen, fd, next, schedMu>>

\* the process ends, by itself after Shutdown or by a crash at any time
Exit ==
    /\ engine # "down"
    /\ engine' = "down"
    /\ pc' = [p \in Writers |-> "idle"] /\ job' = [p \in Writers |-> NoJob]
    /\ fd' = [p \in Writers |-> None]
    /\ seen' = Absent /\ cron' = Off /\ next' = None /\ schedMu' = None
    /\ UNCHANGED fileVars

\* the operator edits or deletes a file while the engine is down
Edit(f) ==
    /\ engine = "down"
    /\ \E c \in TextsOf(f) \cup {Absent} : path' = [path EXCEPT ![f] = c]
    /\ UNCHANGED <<tmp, pc, job, fd, seen, cron, next, schedMu, engine>>

\* entrypoint.sh seeds what is missing, main reloads and serves
Boot ==
    /\ engine = "down"
    /\ path' = [f \in Files |-> IF path[f] = Absent THEN Found(f) ELSE path[f]]
    /\ cron' = ScheduleOf(LoadConfig')
    /\ next' = NextOf(LoadConfig')
    /\ engine' = "up"
    /\ UNCHANGED <<tmp, pc, job, seen, fd, schedMu>>

Handle(p) ==
    \/ Load(p) \/ Reject(p) \/ Open(p) \/ Write(p) \/ Rename(p) \/ RenameMissing(p)
    \/ Remove(p) \/ ReloadRead(p) \/ ReloadInstall(p) \/ Answer(p)

Next ==
    \/ \E p \in Writers : \/ \E b \in Bodies : AskConfig(p, b)
                          \/ \E f \in Files \ {Config}, b \in Bodies \cup Lists : AskFile(p, f, b)
                          \/ \E f \in Removable : AskRemove(p, f)
                          \/ Handle(p) \/ Fail(p)
    \/ \E f \in Files : Edit(f)
    \/ Fire \/ Shutdown \/ Exit \/ Boot

Spec == Init /\ [][Next]_vars

\* A goroutine of net/http runs until its handler returns, and sync.Mutex
\* hands itself to a goroutine that has waited for a millisecond.
FairSpec == Spec /\ \A p \in Writers : WF_vars(Handle(p)) /\ SF_vars(ReloadRead(p))

----------------------------------------------------------------------------
(* Properties                                                               *)

TypeOK ==
    /\ path \in [Files -> Content] /\ tmp \in [Files -> Content]
    /\ pc \in [Writers -> {"idle", "load", "open", "write", "rename", "remove",
                           "lock", "install", "answer"}]
    /\ job \in [Writers -> [file : Files \cup {None}, text : Content]] /\ seen \in Content
    /\ fd \in [Writers -> {"tmp", "path", None}]
    /\ cron \in Bodies /\ next \in {None, "ahead", "past"}
    /\ schedMu \in Writers \cup {None} /\ engine \in {"down", "up", "closing"}

(* A reader of a file under /config (home-backup.sh sources config.env, the *)
(* handlers load it) never finds it truncated, half overwritten, or without *)
(* the keys the dashboard does not know (fsutil.go:7, config.go:99), as     *)
(* long as two saves of that file do not overlap, and whatever the saves of *)
(* other files do.                                                          *)
IsWhole(f) == path[f] \in TextsOf(f) \cup {Absent}
WholeFile == \A f \in Files \ Overlap : IsWhole(f)

(* The same of every file, as fsutil.go:7 has it ("a reader never sees a    *)
(* half-written file"): the code does not keep it.                          *)
NeverHalfWritten == \A f \in Files : IsWhole(f)

(* When no handler is between its rename and the end of its reload, the     *)
(* running cron follows the schedule that config.env holds, whichever save  *)
(* came last and however their reloads interleaved: handleConfig and reload.*)
Reloading == \E p \in Writers : job[p].file = Config /\ pc[p] \in {"lock", "install"}
CronFollowsFile ==
    engine = "up" /\ ~Reloading => cron = ScheduleOf(path[Config])

(* The dashboard says that the scheduler is on (schedNext is not zero)      *)
(* exactly when a cron entry is installed, also after a start with a        *)
(* schedule the parser refuses: schedulerEnabled and reload of main.go.     *)
ShownAsInstalled ==
    engine = "up" /\ ~Reloading => (next # None <=> cron # Off)

(* A save whose file is open, written or renamed is answered, unless the    *)
(* engine stops: nothing waits on schedMu for ever.                         *)
SavesFinish ==
    \A p \in Writers :
        pc[p] \in {"write", "rename", "lock", "install"} ~> pc[p] = "idle"

(* Every save is atomic: it takes effect at its rename with the text of its *)
(* own request, or not at all (RSpec of Register), of the files whose saves *)
(* do not overlap.                                                          *)
InFlight(p) ==
    IF pc[p] = "idle" \/ job[p].file \in Overlap THEN [at |-> "idle"]
    ELSE [at |-> IF pc[p] \in {"lock", "install", "answer"} THEN "taken" ELSE "asked",
          file |-> job[p].file, text |-> job[p].text]
R == INSTANCE Register WITH
        Files <- Files \ Overlap, reg <- [f \in Files \ Overlap |-> path[f]],
        req <- [p \in Writers |-> InFlight(p)], down <- engine = "down"
SavesAreAtomic == R!RSpec
=============================================================================
