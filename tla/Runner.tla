-------------------------------- MODULE Runner --------------------------------
(***************************************************************************)
(* The run gate of web/actions.go: a mutex that is only ever taken with    *)
(* TryLock, and the atomic flag that status readers poll.  The two are     *)
(* separate words of memory, so the Go code needs two steps to take them   *)
(* and two steps to give them back; each step is an operator here.         *)
(* Engine and Migration extend this module and give every goroutine that   *)
(* uses the gate its own program counter.                                  *)
(***************************************************************************)

CONSTANTS Tasks,   \* the goroutines and handlers that may take the gate
          Nobody   \* the value of the gate while it is free

ASSUME NobodyAssumption == Nobody \notin Tasks

VARIABLES gate,    \* who holds Runner.gate (Go mutexes have no owner; kept for the properties)
          running  \* Runner.running, the flag behind Busy()

runnerVars == <<gate, running>>

RunnerTypeOK == gate \in Tasks \cup {Nobody} /\ running \in BOOLEAN

RunnerInit == gate = Nobody /\ running = FALSE

(* gate.TryLock() answering true. *)
TryLockBlind(t) ==                      \* wrong: the mutex is not asked
    /\ gate' = t
    /\ UNCHANGED running
TryLock(t) ==
    /\ gate = Nobody
    /\ gate' = t
    /\ UNCHANGED running

(* gate.TryLock() answering false: the caller is refused with "busy". *)
TryLockFails == gate # Nobody

(* running.Store(true), the statement after a successful TryLock. *)
MarkRunning ==
    /\ running' = TRUE
    /\ UNCHANGED gate

(* running.Store(false), the statement before Unlock. *)
MarkIdle ==
    /\ running' = FALSE
    /\ UNCHANGED gate

(* gate.Unlock(). *)
KeepLocked == UNCHANGED runnerVars      \* wrong: a path without the deferred Unlock
Unlock ==
    /\ gate' = Nobody
    /\ UNCHANGED running

(* Busy() reads the flag and never touches the mutex. *)
Busy == running
===============================================================================
