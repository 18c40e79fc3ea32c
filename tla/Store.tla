-------------------------------- MODULE Store ---------------------------------
(***************************************************************************)
(* The run history of web/store.go: the SQLite table runs, which survives  *)
(* crashes.  A row's id is its position in the sequence (AUTOINCREMENT and *)
(* nothing ever deletes a row).  Callers ignore the errors of these        *)
(* statements, so each statement has a second outcome, allowed by          *)
(* StoreFaults, in which the table keeps its contents.                     *)
(***************************************************************************)
EXTENDS Naturals, Sequences

CONSTANT StoreFaults   \* the statements that may fail: a subset of {"insert", "update"}

ASSUME StoreFaultsAssumption == StoreFaults \subseteq {"insert", "update"}

VARIABLE runs          \* the table: a sequence of rows

Triggers == {"backup", "check"}
Statuses == {"running", "ok", "failed", "interrupted"}

(* snap is the number of the snapshot the row names; 0 is the empty string. *)
Rows == [trigger : Triggers, status : Statuses, snap : Nat]

RowIds == DOMAIN runs

Running(i) == i \in RowIds /\ runs[i].status = "running"

(* StartRun inserts a running row and returns its id; on an error the      *)
(* caller gets the id 0, which no row has.                                 *)
StartRunQueued(trigger, newId) ==       \* wrong: a status the schema does not know
    /\ newId = Len(runs) + 1
    /\ runs' = Append(runs, [trigger |-> trigger, status |-> "queued", snap |-> 0])
StartRun(trigger, newId) ==
    \/ /\ newId = Len(runs) + 1
       /\ runs' = Append(runs, [trigger |-> trigger, status |-> "running", snap |-> 0])
    \/ /\ "insert" \in StoreFaults
       /\ newId = 0
       /\ UNCHANGED runs

(* FinishRun: UPDATE ... WHERE id=?; an id without a row changes nothing. *)
FinishOnSuccess(i, status, snap) ==      \* wrong: an early return on failure
    runs' = [j \in RowIds |->
                IF j = i /\ status = "ok"
                THEN [trigger |-> runs[j].trigger, status |-> status, snap |-> snap]
                ELSE runs[j]]
FinishRunDone(i, status, snap) ==
    runs' = [j \in RowIds |->
                IF j = i
                THEN [trigger |-> runs[j].trigger, status |-> status, snap |-> snap]
                ELSE runs[j]]

(* ReconcileStuck: UPDATE ... SET status='interrupted' WHERE status='running'. *)
ReconcileAll ==                                        \* wrong: without the WHERE clause
    runs' = [j \in RowIds |-> [runs[j] EXCEPT !.status = "interrupted"]]
ReconcileStuckDone ==
    runs' = [j \in RowIds |->
                IF Running(j) THEN [runs[j] EXCEPT !.status = "interrupted"]
                              ELSE runs[j]]

(* The second outcome of both updates. *)
UpdateFails == "update" \in StoreFaults /\ UNCHANGED runs
===============================================================================
