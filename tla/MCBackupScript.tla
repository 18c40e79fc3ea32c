---------------------------- MODULE MCBackupScript ----------------------------
(* Small instances of BackupScript: short job lists and a few places. *)
EXTENDS BackupScript, TLC

CONSTANTS b1, b2, c1, nobody

TwoBackups == {b1, b2}
OneBackup == {b1}
OneCheck == {c1}
NoChecks == {}

(* Nothing tells the two backups apart. *)
SameBackups == Permutations(TwoBackups)

Home(path) == <<"/", "home">> \o path
Volumes == <<"/", "var", "lib", "docker", "volumes">>

(* The jobs of db-dump.sh:113 without a file; one in a docker volume; one    *)
(* switched off, one with a blank column, one of a type no script knows.     *)
Pg == [name |-> "postgres", type |-> "postgres", data |-> Home(<<"docker", "postgres", "data">>),
       raw |-> Home(<<"docker", "postgres", "data">>), enabled |-> TRUE]
Redis == [name |-> "redis", type |-> "redis", data |-> Home(<<"docker", "redis">>),
          raw |-> Home(<<"docker", "redis">>), enabled |-> TRUE]
Volume == [Pg EXCEPT !.data = Volumes \o <<"pg">>, !.raw = Volumes \o <<"pg">>]
Off == [name |-> "queue", type |-> "redis", data |-> Home(<<"queue">>), raw |-> Home(<<"queue">>),
        enabled |-> FALSE]
Blank == [Redis EXCEPT !.data = NoPath]
Odd == [name |-> "odd", type |-> "sqlite", data |-> Volumes \o <<"odd">>,
        raw |-> Volumes \o <<"odd">>, enabled |-> TRUE]

(* A data path that covers the staging area; a job whose folder is hidden.   *)
Wide == [Redis EXCEPT !.data = Home(<<"docker">>)]
Cache == [Redis EXCEPT !.name = "cache"]

ManyFiles == {<<Pg, Redis>>, <<Off, Odd>>}
VolumeOnly == {<<Volume>>}
BlankOnly == {<<Blank>>}
WideOnly == {<<Pg, Wide>>}
CacheOnly == {<<Cache>>}

Jobs == {"postgres", "redis", "queue", "odd", "cache"}
AnyState == [n \in Jobs |-> Found]
AllRunning == [n \in Jobs |-> {"running"}]

(* SOURCE_PATHS=/home: the staging area lies below it; and a narrower path. *)
WholeHome == {Home(<<>>), Volumes}
OneUser == {Home(<<"alice">>), Volumes}
StagingRoot == Home(<<"docker", "_backup_staging">>)

(* Of excludes.txt.example. *)
Engine == {Volumes \o <<"backupstack_state">>}
Clutter == {"cache", ".cache", "tmp", "temp"}

Everything == FaultKinds
Nothing == {}
DumpFails == {"dump"}
===============================================================================
