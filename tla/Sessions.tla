------------------------------ MODULE Sessions ------------------------------
(***************************************************************************)
(* The administrator's password and the login sessions across restarts:     *)
(* which hash the engine uses (resolveAdminHash and pickAdminHash), which   *)
(* key signs the sessions (loadSessionKey), and which sessions verify       *)
(* (verifySession with the version taken from the hash).                    *)
(***************************************************************************)
EXTENDS Naturals

CONSTANTS
    Passwords,  \* the passwords the operator may choose
    Long,       \* those of more than 72 bytes, of which bcrypt makes no hash
                \* (none of them starts with 72 bytes that are a password too)
    Random,     \* stands for the passwords the engine generates
    None,       \* no value
    MaxSalt,    \* bound: how many hashes are made
    MaxKey,     \* bound: how many session keys are made
    WriteFaults \* TRUE: a file of /state may not be writable

ASSUME SessionsAssumption ==
    /\ Long \subseteq Passwords /\ Random \notin Passwords /\ None \notin Passwords
    /\ None \notin Nat /\ None \notin [pw : Passwords \cup {Random}, salt : Nat]
    /\ MaxSalt \in Nat /\ MaxKey \in Nat /\ WriteFaults \in BOOLEAN

VARIABLES
    secretsHash,    \* /secrets/web-admin.hash
    envPw,          \* WEB_ADMIN_PASSWORD, or the file of WEB_ADMIN_PASSWORD_FILE
    envKey,         \* TRUE while WEB_SESSION_KEY is set
    stateHash,      \* /state/web-admin.hash
    keyFile,        \* /state/session.key
    adminHash,      \* the hash of the running engine, or of the last one
    sessionKey,     \* its key
    engine,         \* "down", "starting" (the hash is resolved) or "up"
    salts, keys,    \* hashes and keys made so far
    tokens,         \* the sessions the browsers hold, not yet 12 hours old
    refused,        \* ghost: those an engine has refused
    owed,           \* ghost: those of the last engine, which the next must accept
    unsaved,        \* ghost: the last engine's hash or key was not where the next looks
    aside           \* ghost: an engine has used a hash or a key that is not in /state

inputs == <<secretsHash, envPw, envKey>>
state == <<stateHash, keyFile>>
memory == <<adminHash, sessionKey>>
ghosts == <<refused, owed, unsaved, aside>>
vars == <<secretsHash, envPw, envKey, stateHash, keyFile, adminHash, sessionKey, engine,
          salts, keys, tokens, refused, owed, unsaved, aside>>

\* bcrypt: a salt of its own in every hash
HashUnsalted(pw, salt) == [pw |-> pw, salt |-> 1]
Hash(pw, salt) == [pw |-> pw, salt |-> salt]
checkPassword(hash, pw) == hash # None /\ hash.pw = pw
OperatorKey == 0

Init ==
    /\ secretsHash = None /\ envPw \in Passwords \cup {None} /\ envKey = FALSE
    /\ stateHash = None /\ keyFile = None /\ adminHash = None /\ sessionKey = None
    /\ engine = "down" /\ salts = 0 /\ keys = 0
    /\ tokens = {} /\ refused = {} /\ owed = {} /\ unsaved = FALSE /\ aside = FALSE

----------------------------------------------------------------------------
(* Start of the engine                                                      *)

pickAdminHashAfresh ==
    LET new(pw) == Hash(pw, salts + 1)
    IN CASE secretsHash # None -> [use |-> secretsHash, persist |-> None]
         [] secretsHash = None /\ envPw # None -> [use |-> new(envPw), persist |-> new(envPw)]
         [] secretsHash = None /\ envPw = None /\ stateHash # None ->
                [use |-> stateHash, persist |-> None]
         [] OTHER -> [use |-> new(Random), persist |-> new(Random)]

\* The hash in use and the hash to persist, in the order of pickAdminHash:
\* the operator's hash file, the password of the environment (with the
\* persisted hash if it matches), the persisted hash, a new password.
pickAdminHash ==
    LET new(pw) == Hash(pw, salts + 1)
    IN CASE secretsHash # None -> [use |-> secretsHash, persist |-> None]
         [] secretsHash = None /\ envPw # None ->
                IF checkPassword(stateHash, envPw)
                THEN [use |-> stateHash, persist |-> None]
                ELSE [use |-> new(envPw), persist |-> new(envPw)]
         [] secretsHash = None /\ envPw = None /\ stateHash # None ->
                [use |-> stateHash, persist |-> None]
         [] OTHER -> [use |-> new(Random), persist |-> new(Random)]

\* pickAdminHash would hash a password that bcrypt refuses
Unhashable == pickAdminHash.persist # None /\ pickAdminHash.persist.pw \in Long

\* resolveAdminHash; writeFile0600 only logs a failure, and without a hash the
\* engine serves all the same, with the login disabled
ResolveAdminHash ==
    /\ engine = "down"
    /\ engine' = "starting"
    /\ \/ /\ Unhashable
          /\ adminHash' = None /\ UNCHANGED <<salts, stateHash>>
       \/ /\ pickAdminHash.persist = None
          /\ adminHash' = pickAdminHash.use /\ UNCHANGED <<salts, stateHash>>
       \/ /\ pickAdminHash.persist # None /\ ~Unhashable /\ salts < MaxSalt
          /\ adminHash' = pickAdminHash.use /\ salts' = salts + 1
          /\ \/ stateHash' = pickAdminHash.persist
             \/ WriteFaults /\ UNCHANGED stateHash
    /\ UNCHANGED <<inputs, keyFile, sessionKey, keys, tokens, ghosts>>

Accepted(t, hash, key) == t.ver = hash /\ t.key = key

\* the engine serves: sessions of another version or key are refused from now on
Serve(key) ==
    /\ engine' = "up"
    /\ sessionKey' = key
    /\ refused' = refused \cup {t \in tokens : ~Accepted(t, adminHash, key)}
    /\ aside' = (aside \/ adminHash # stateHash \/ key # keyFile')
    /\ UNCHANGED <<inputs, stateHash, adminHash, salts, tokens, owed, unsaved>>

LoadSessionKey ==
    /\ engine = "starting"
    /\ UNCHANGED <<keyFile, keys>>
    /\ \/ envKey /\ Serve(OperatorKey)
       \/ ~envKey /\ keyFile # None /\ Serve(keyFile)

NewSessionKey ==
    /\ engine = "starting" /\ ~envKey /\ keyFile = None /\ keys < MaxKey
    /\ keys' = keys + 1
    /\ keyFile' = keys + 1
    /\ Serve(keys + 1)

----------------------------------------------------------------------------
\* handleLogin with the password of the hash
Login ==
    /\ engine = "up" /\ adminHash # None
    /\ tokens' = tokens \cup {[ver |-> adminHash, key |-> sessionKey]}
    /\ UNCHANGED <<inputs, state, memory, engine, salts, keys, ghosts>>

\* handleLogout, or the 12 hours of a session are over
Forget(t) ==
    /\ tokens' = tokens \ {t}
    /\ refused' = refused \ {t} /\ owed' = owed \ {t}
    /\ UNCHANGED <<inputs, state, memory, engine, salts, keys, unsaved, aside>>

\* the hash and the key in use will be found again by the next start
Kept == adminHash \in {stateHash, secretsHash} /\ (envKey \/ sessionKey = keyFile)

\* The engine stops at any time.  loadSessionKey also ends it when a new key
\* cannot be written (fail closed).
Stop ==
    /\ engine # "down"
    /\ engine' = "down"
    /\ IF engine = "starting" THEN UNCHANGED <<owed, unsaved>>
       ELSE /\ owed' = {t \in tokens : Accepted(t, adminHash, sessionKey)}
            /\ unsaved' = ~Kept
    /\ UNCHANGED <<inputs, state, memory, salts, keys, tokens, refused, aside>>

(* The operator, while the engine is down (the environment and the mounts   *)
(* of a container change only with a new one)                               *)

SetEnvPw(pw) ==
    /\ engine = "down" /\ pw # envPw
    /\ envPw' = pw
    /\ owed' = IF pw = None THEN owed ELSE {}
    /\ UNCHANGED <<secretsHash, envKey, state, memory, engine, salts, keys, tokens, refused, unsaved, aside>>

SetSecretsHash ==
    /\ engine = "down"
    /\ \/ secretsHash # None /\ secretsHash' = None /\ salts' = salts
       \/ /\ salts < MaxSalt /\ salts' = salts + 1
          /\ \E pw \in Passwords : secretsHash' = Hash(pw, salts + 1)
    /\ owed' = {}
    /\ UNCHANGED <<envPw, envKey, state, memory, engine, keys, tokens, refused, unsaved, aside>>

SetEnvKey ==
    /\ engine = "down"
    /\ envKey' = ~envKey
    /\ owed' = {}
    /\ UNCHANGED <<secretsHash, envPw, state, memory, engine, salts, keys, tokens, refused, unsaved, aside>>

Next ==
    \/ ResolveAdminHash \/ LoadSessionKey \/ NewSessionKey \/ Login \/ Stop
    \/ \E t \in tokens : Forget(t)
    \/ \E pw \in Passwords \cup {None} : SetEnvPw(pw)
    \/ SetSecretsHash \/ SetEnvKey

Spec == Init /\ [][Next]_vars

----------------------------------------------------------------------------
(* Properties                                                               *)

Hashes == [pw : Passwords \cup {Random}, salt : 1 .. MaxSalt]
TypeOK ==
    /\ {secretsHash, stateHash, adminHash} \subseteq Hashes \cup {None}
    /\ envPw \in Passwords \cup {None} /\ envKey \in BOOLEAN
    /\ {keyFile, sessionKey} \subseteq 0 .. MaxKey \cup {None}
    /\ engine \in {"down", "starting", "up"}
    /\ salts \in 0 .. MaxSalt /\ keys \in 0 .. MaxKey
    /\ tokens \subseteq [ver : Hashes, key : 0 .. MaxKey] /\ refused \subseteq tokens
    /\ owed \subseteq tokens /\ unsaved \in BOOLEAN /\ aside \in BOOLEAN

(* A restart ends no session: unless the operator sets a password, a hash   *)
(* file or a key, the next engine accepts every session the last one did,   *)
(* also when WEB_ADMIN_PASSWORD is removed from the environment after the   *)
(* first start (auth.go:36, main.go:84, .env.example:5).  Not so after an   *)
(* engine whose hash or key is not where the next start looks, as when      *)
(* writeFile0600 failed and only logged it (main.go:107, 122-131): each     *)
(* such restart hashes anew, and ends every session.                        *)
SessionsSurvive ==
    engine = "up" /\ ~unsaved => \A t \in owed : Accepted(t, adminHash, sessionKey)

(* A session that a password change has ended stays ended, also when the    *)
(* old password comes back: it gets a new hash and so another version       *)
(* (auth.go:68).  Not so once an engine has run with a hash or a key that   *)
(* /state does not hold, or with none: the earlier pair is still there and  *)
(* returns.                                                                 *)
RefusedStayRefused ==
    engine = "up" /\ ~aside => \A t \in refused : ~Accepted(t, adminHash, sessionKey)
=============================================================================
