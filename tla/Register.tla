------------------------------ MODULE Register ------------------------------
(***************************************************************************)
(* What the engine promises of its small files (config.env, source-paths,   *)
(* db-jobs.json, excludes.txt, alert-webhook): a save takes effect at one   *)
(* instant between its request and its answer, with the whole text it was   *)
(* asked to save, or not at all.  A reader therefore never meets anything   *)
(* but a text somebody asked for.                                           *)
(***************************************************************************)
CONSTANTS
    Files,      \* the files under /config
    Writers,    \* request handlers
    Texts,      \* what a request may ask to be saved
    Absent      \* no file

VARIABLES
    reg,        \* file -> the text a reader finds, or Absent
    req,        \* writer -> Idle, or its request and whether it took effect
    down        \* TRUE while the engine does not run

regVars == <<reg, req, down>>

Idle == [at |-> "idle"]
Requests == [at : {"asked"}, file : Files, text : Texts \cup {Absent}]

RInit ==
    /\ reg \in [Files -> Texts \cup {Absent}]
    /\ req = [p \in Writers |-> Idle]
    /\ down = FALSE

Ask(p, r) ==
    /\ req[p] = Idle /\ ~down
    /\ req' = [req EXCEPT ![p] = r]
    /\ UNCHANGED <<reg, down>>

\* the instant of the save
Take(p) ==
    /\ req[p].at = "asked"
    /\ reg' = [reg EXCEPT ![req[p].file] = req[p].text]
    /\ req' = [req EXCEPT ![p].at = "taken"]
    /\ UNCHANGED down

\* answered with an error: nothing has happened
Refuse(p) ==
    /\ req[p].at = "asked"
    /\ req' = [req EXCEPT ![p] = Idle]
    /\ UNCHANGED <<reg, down>>

\* answered with success
Answer(p) ==
    /\ req[p].at = "taken"
    /\ req' = [req EXCEPT ![p] = Idle]
    /\ UNCHANGED <<reg, down>>

\* the engine stops: requests in flight are not answered
Cut ==
    /\ req' = [p \in Writers |-> Idle]
    /\ down' = TRUE
    /\ UNCHANGED reg

\* the operator edits a file while the engine is down
Edit(f) ==
    /\ down
    /\ \E t \in Texts \cup {Absent} : reg' = [reg EXCEPT ![f] = t]
    /\ UNCHANGED <<req, down>>

\* missing files may be seeded by the start
Boot ==
    /\ down /\ down' = FALSE
    /\ reg' \in [Files -> Texts \cup {Absent}]
    /\ \A f \in Files : reg[f] # Absent => reg'[f] = reg[f]
    /\ UNCHANGED req

RNext ==
    \/ \E p \in Writers : \/ \E r \in Requests : Ask(p, r)
                          \/ Take(p) \/ Refuse(p) \/ Answer(p)
    \/ \E f \in Files : Edit(f)
    \/ Cut \/ Boot

RSpec == RInit /\ [][RNext]_regVars
=============================================================================
