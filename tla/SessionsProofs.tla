--------------------------- MODULE SessionsProofs ---------------------------
(***************************************************************************)
(* Theorems about Sessions, for any passwords, and any number of hashes,    *)
(* keys and restarts.  The hashes are numbered in the order they are made,  *)
(* which is all the proofs need of bcrypt.                                  *)
(***************************************************************************)
EXTENDS Sessions, TLAPS

Made(n) == [pw : Passwords \cup {Random}, salt : 1 .. n]

(* The types, with what has been made so far as the bound of every number.  *)
TypeInv ==
    /\ secretsHash \in Made(salts) \cup {None} /\ stateHash \in Made(salts) \cup {None}
    /\ adminHash \in Made(salts) \cup {None}
    /\ envPw \in Passwords \cup {None} /\ envKey \in BOOLEAN
    /\ keyFile \in 1 .. keys \cup {None} /\ sessionKey \in 0 .. keys \cup {None}
    /\ engine \in {"down", "starting", "up"}
    /\ salts \in Nat /\ salts <= MaxSalt /\ keys \in Nat /\ keys <= MaxKey
    /\ tokens \subseteq [ver : Made(salts), key : 0 .. keys]
    /\ refused \subseteq tokens /\ owed \subseteq tokens
    /\ unsaved \in BOOLEAN /\ aside \in BOOLEAN
    /\ engine = "up" => sessionKey # None

(* The hash and key of a running engine are those its inputs lead to.       *)
InputInv ==
    engine # "down" =>
        /\ secretsHash # None => adminHash = secretsHash
        /\ adminHash # None /\ secretsHash = None /\ envPw # None => adminHash.pw = envPw
        /\ engine = "up" /\ envKey => sessionKey = OperatorKey

\* the next start will use this hash and this key, and make no new one
Found(hash, key) ==
    /\ hash = IF secretsHash # None THEN secretsHash ELSE stateHash
    /\ hash # None
    /\ secretsHash = None /\ envPw # None => hash.pw = envPw
    /\ key = IF envKey THEN OperatorKey ELSE keyFile
    /\ key # None

OwedInv ==
    ~unsaved => \A t \in owed :
        /\ engine # "up" => Found(t.ver, t.key)
        /\ engine # "down" => adminHash = t.ver
        /\ engine = "up" => sessionKey = t.key

(* As long as every engine has run with what /state holds, the sessions     *)
(* were all signed with the one key, and the refused ones are of an earlier *)
(* hash than the one in /state.                                             *)
OrderInv ==
    ~aside =>
        /\ engine = "up" => adminHash = stateHash /\ sessionKey = keyFile
        /\ \A t \in tokens :
              /\ stateHash # None /\ keyFile # None /\ t.key = keyFile
              /\ t.ver = stateHash \/ t.ver.salt < stateHash.salt
        /\ \A t \in refused : t.ver.salt < stateHash.salt

SessionInv == TypeInv /\ InputInv /\ OwedInv /\ OrderInv

----------------------------------------------------------------------------
(* Hashes stay hashes as more of them are made.                             *)
LEMMA MadeGrows == \A m, n \in Nat : m <= n => Made(m) \subseteq Made(n)
  BY DEF Made

(* What pickAdminHash returns.                                              *)
LEMMA Picked ==
    ASSUME TypeInv
    PROVE  /\ pickAdminHash.use # None
           /\ pickAdminHash.persist = None =>
                 /\ pickAdminHash.use \in Made(salts)
                 /\ pickAdminHash.use = IF secretsHash # None THEN secretsHash ELSE stateHash
           /\ pickAdminHash.persist # None =>
                 /\ pickAdminHash.persist = pickAdminHash.use /\ secretsHash = None
                 /\ pickAdminHash.use \in Made(salts + 1) /\ pickAdminHash.use.salt = salts + 1
                 /\ ~\E k : Found(stateHash, k)
           /\ secretsHash # None => pickAdminHash.use = secretsHash
           /\ secretsHash = None /\ envPw # None => pickAdminHash.use.pw = envPw
<1> USE SessionsAssumption DEF TypeInv
<1>1. \A pw \in Passwords \cup {Random} :
         Hash(pw, salts + 1) \in Made(salts + 1) /\ Hash(pw, salts + 1) # None
         /\ Hash(pw, salts + 1).salt = salts + 1 /\ Hash(pw, salts + 1).pw = pw
  BY DEF Hash, Made
<1>2. CASE secretsHash # None
  BY <1>2 DEF pickAdminHash
<1>3. CASE secretsHash = None /\ envPw # None /\ checkPassword(stateHash, envPw)
  BY <1>3 DEF pickAdminHash, checkPassword
<1>4. CASE secretsHash = None /\ envPw # None /\ ~checkPassword(stateHash, envPw)
  BY <1>1, <1>4 DEF pickAdminHash, checkPassword, Found
<1>5. CASE secretsHash = None /\ envPw = None /\ stateHash # None
  BY <1>5 DEF pickAdminHash
<1>6. CASE secretsHash = None /\ envPw = None /\ stateHash = None
  BY <1>1, <1>6 DEF pickAdminHash, Found
<1> QED
  BY <1>2, <1>3, <1>4, <1>5, <1>6

----------------------------------------------------------------------------
(* The steps, one group of actions at a time.                               *)

LEMMA ResolveStep ==
    ASSUME SessionInv, ResolveAdminHash
    PROVE  SessionInv'
<1> USE SessionsAssumption DEF SessionInv, inputs, ghosts
<1>1. /\ engine = "down" /\ engine' = "starting"
      /\ UNCHANGED <<secretsHash, envPw, envKey, keyFile, sessionKey, keys, tokens, refused, owed,
                     unsaved, aside>>
  BY DEF ResolveAdminHash
<1>a. pickAdminHash.persist # None /\ ~unsaved => owed = {}
  <2> SUFFICES ASSUME pickAdminHash.persist # None, ~unsaved, NEW t \in owed PROVE FALSE
    OBVIOUS
  <2>1. Found(t.ver, t.key) /\ secretsHash = None
    BY <1>1, Picked DEF OwedInv
  <2>2. t.ver = stateHash
    BY <2>1 DEF Found
  <2> QED
    BY <2>1, <2>2, Picked
<1>2. CASE pickAdminHash.persist = None
  <2>1. UNCHANGED <<salts, stateHash>> /\ adminHash' = pickAdminHash.use
    BY <1>2 DEF ResolveAdminHash, Unhashable
  <2>2. TypeInv'
    BY <1>1, <1>2, <2>1, Picked DEF TypeInv
  <2>3. InputInv'
    BY <1>1, <2>1, Picked DEF InputInv
  <2>4. OwedInv'
    BY <1>1, <1>2, <2>1, Picked DEF OwedInv, Found
  <2>5. OrderInv'
    BY <1>1, <2>1 DEF OrderInv
  <2> QED
    BY <2>2, <2>3, <2>4, <2>5
<1>b. CASE Unhashable
  <2>1. adminHash' = None /\ UNCHANGED <<salts, stateHash>> /\ pickAdminHash.persist # None
    BY <1>b DEF ResolveAdminHash, Unhashable
  <2>2. TypeInv'
    BY <1>1, <2>1 DEF TypeInv
  <2>3. secretsHash = None
    BY <2>1, Picked
  <2>4. InputInv' /\ OwedInv' /\ OrderInv'
    BY <1>1, <1>a, <2>1, <2>3 DEF InputInv, OwedInv, OrderInv
  <2> QED
    BY <2>2, <2>4
<1>3. CASE pickAdminHash.persist # None /\ ~Unhashable
  <2>1. /\ salts' = salts + 1 /\ salts < MaxSalt /\ adminHash' \in Made(salts')
        /\ adminHash'.salt = salts + 1 /\ secretsHash = None
        /\ stateHash' = adminHash' \/ stateHash' = stateHash
        /\ adminHash' = pickAdminHash.use
    BY <1>1, <1>3, Picked DEF ResolveAdminHash
  <2>2. ~unsaved => owed = {}
    BY <1>3, <1>a
  <2>3. Made(salts) \subseteq Made(salts')
    BY <2>1, MadeGrows DEF TypeInv
  <2>4. TypeInv'
    <3>1. tokens' \subseteq [ver : Made(salts'), key : 0 .. keys']
      BY <1>1, <2>3 DEF TypeInv
    <3>2. adminHash' # None
      BY <2>1, Picked
    <3> QED
      BY <1>1, <2>1, <2>3, <3>1, <3>2 DEF TypeInv
  <2>5. InputInv'
    BY <1>1, <2>1, Picked DEF InputInv
  <2>6. OwedInv'
    BY <1>1, <2>2 DEF OwedInv
  <2>7. OrderInv'
    <3>1. CASE stateHash' = stateHash
      BY <1>1, <3>1 DEF OrderInv
    <3>2. CASE stateHash' = adminHash'
      <4>1. \A t \in tokens : t.ver.salt < stateHash'.salt
        BY <2>1, <3>2 DEF TypeInv, Made
      <4>2. stateHash' # None
        BY <2>1, <3>2, Picked
      <4> QED
        BY <1>1, <4>1, <4>2 DEF OrderInv, TypeInv
    <3> QED
      BY <2>1, <3>1, <3>2
  <2> QED
    BY <2>4, <2>5, <2>6, <2>7
<1> QED
  BY <1>2, <1>b, <1>3

(* Serving with a key: the sessions it refuses are older than /state.       *)
LEMMA ServeStep ==
    ASSUME SessionInv, engine = "starting", NEW key, Serve(key), key # None,
           key \in 0 .. keys', keys' \in Nat, keys <= keys', keys' <= MaxKey,
           keyFile' \in 1 .. keys' \cup {None}, keyFile = None \/ keyFile' = keyFile,
           key = IF envKey THEN OperatorKey ELSE keyFile'
    PROVE  SessionInv'
<1> USE SessionsAssumption DEF SessionInv
<1>1. /\ engine' = "up" /\ sessionKey' = key
      /\ refused' = refused \cup {t \in tokens : ~Accepted(t, adminHash, key)}
      /\ aside' = (aside \/ adminHash # stateHash \/ key # keyFile')
      /\ UNCHANGED <<secretsHash, envPw, envKey, stateHash, adminHash, salts, tokens, owed, unsaved>>
  BY DEF Serve, inputs
<1>2. TypeInv'
  <2>1. tokens' \subseteq [ver : Made(salts'), key : 0 .. keys']
    BY <1>1 DEF TypeInv
  <2>2. aside' \in BOOLEAN
    BY <1>1 DEF TypeInv
  <2> QED
    BY <1>1, <2>1, <2>2 DEF TypeInv
<1>3. InputInv'
  BY <1>1 DEF InputInv
<1>4. OwedInv'
  BY <1>1 DEF OwedInv, Found
<1>5. OrderInv'
  <2> SUFFICES ASSUME ~aside' PROVE OrderInv'
    BY DEF OrderInv
  <2>1. ~aside /\ adminHash = stateHash /\ key = keyFile'
    BY <1>1 DEF TypeInv
  <2>2. \A t \in tokens : t.key = key /\ keyFile' = keyFile
    BY <2>1 DEF OrderInv
  <2>3. \A t \in tokens : ~Accepted(t, adminHash, key) => t.ver.salt < stateHash.salt
    BY <2>1, <2>2 DEF OrderInv, Accepted
  <2> QED
    BY <1>1, <2>1, <2>2, <2>3 DEF OrderInv
<1> QED
  BY <1>2, <1>3, <1>4, <1>5

LEMMA KeyStep ==
    ASSUME SessionInv, LoadSessionKey \/ NewSessionKey
    PROVE  SessionInv'
<1> USE SessionsAssumption
<1>1. CASE LoadSessionKey
  <2>1. /\ engine = "starting" /\ UNCHANGED <<keyFile, keys>>
        /\ \/ envKey /\ Serve(OperatorKey)
           \/ ~envKey /\ keyFile # None /\ Serve(keyFile)
    BY <1>1 DEF LoadSessionKey
  <2>2. OperatorKey \in 0 .. keys /\ OperatorKey # None /\ keys \in Nat /\ keys <= MaxKey
        /\ keyFile \in 1 .. keys \cup {None}
    BY DEF OperatorKey, SessionInv, TypeInv
  <2> QED
    BY <2>1, <2>2, ServeStep
<1>2. CASE NewSessionKey
  <2>1. /\ engine = "starting" /\ ~envKey /\ keyFile = None /\ keys < MaxKey
        /\ keys' = keys + 1 /\ keyFile' = keys + 1 /\ Serve(keys + 1)
    BY <1>2 DEF NewSessionKey
  <2>2. keys \in Nat /\ keys + 1 # None
    BY DEF SessionInv, TypeInv
  <2> QED
    BY <2>1, <2>2, ServeStep
<1> QED
  BY <1>1, <1>2

(* A login, a logout, and the end of a session.                             *)
LEMMA TokenStep ==
    ASSUME SessionInv, Login \/ \E t \in tokens : Forget(t)
    PROVE  SessionInv'
<1> USE SessionsAssumption DEF SessionInv, inputs, state, memory, ghosts
<1>1. UNCHANGED <<secretsHash, envPw, envKey, stateHash, keyFile, adminHash, sessionKey,
                  engine, salts, keys, unsaved, aside>>
  BY DEF Login, Forget
<1>2. InputInv'
  BY <1>1 DEF InputInv
<1>3. CASE Login
  <2> DEFINE t == [ver |-> adminHash, key |-> sessionKey]
  <2>1. engine = "up" /\ adminHash # None /\ tokens' = tokens \cup {t} /\ UNCHANGED <<refused, owed>>
    BY <1>3 DEF Login
  <2>2. t \in [ver : Made(salts), key : 0 .. keys]
    BY <2>1 DEF TypeInv
  <2>3. TypeInv'
    BY <1>1, <2>1, <2>2 DEF TypeInv
  <2>4. OwedInv'
    BY <1>1, <2>1 DEF OwedInv, Found
  <2>5. OrderInv'
    <3>1. ~aside => t.ver = stateHash /\ t.key = keyFile /\ stateHash # None /\ keyFile # None
      BY <2>1 DEF OrderInv, TypeInv
    <3> HIDE DEF t
    <3> QED
      BY <1>1, <2>1, <3>1 DEF OrderInv
  <2> QED
    BY <1>2, <2>3, <2>4, <2>5
<1>4. ASSUME NEW t \in tokens, Forget(t) PROVE SessionInv'
  <2>1. tokens' = tokens \ {t} /\ refused' = refused \ {t} /\ owed' = owed \ {t}
    BY <1>4 DEF Forget
  <2>2. TypeInv'
    BY <1>1, <2>1 DEF TypeInv
  <2>3. OwedInv'
    BY <1>1, <2>1 DEF OwedInv, Found
  <2>4. OrderInv'
    BY <1>1, <2>1 DEF OrderInv
  <2> QED
    BY <1>2, <2>2, <2>3, <2>4
<1> QED
  BY <1>3, <1>4

(* A stop: what the engine still accepts is found again by the next one.    *)
LEMMA StopStep ==
    ASSUME SessionInv, Stop
    PROVE  SessionInv'
<1> USE SessionsAssumption DEF SessionInv, inputs, state, memory
<1>1. /\ engine # "down" /\ engine' = "down"
      /\ engine = "starting" => UNCHANGED <<owed, unsaved>>
      /\ engine = "up" => /\ owed' = {t \in tokens : Accepted(t, adminHash, sessionKey)}
                          /\ unsaved' = ~Kept
      /\ UNCHANGED <<secretsHash, envPw, envKey, stateHash, keyFile, adminHash, sessionKey,
                     salts, keys, tokens, refused, aside>>
  BY DEF Stop
<1>2. TypeInv'
  <2>1. engine = "starting" \/ engine = "up"
    BY <1>1 DEF TypeInv
  <2>2. CASE engine = "starting"
    BY <1>1, <2>2 DEF TypeInv
  <2>3. CASE engine = "up"
    <3>1. unsaved' \in BOOLEAN /\ owed' \subseteq tokens
      BY <1>1, <2>3
    <3> QED
      BY <1>1, <3>1 DEF TypeInv
  <2> QED
    BY <2>1, <2>2, <2>3
<1>3. InputInv'
  BY <1>1 DEF InputInv
<1>4. OwedInv'
  <2>1. CASE engine = "starting"
    BY <1>1, <2>1 DEF OwedInv, Found
  <2>2. CASE engine = "up"
    <3> SUFFICES ASSUME ~unsaved', NEW t \in owed' PROVE Found(t.ver, t.key)
      BY <1>1 DEF OwedInv, Found
    <3>1. Kept /\ t.ver = adminHash /\ t.key = sessionKey
      BY <1>1, <2>2 DEF Accepted
    <3>2. adminHash # None /\ sessionKey # None
      BY <1>1, <2>2, <3>1, SessionsAssumption DEF TypeInv, Made
    <3>3. adminHash = IF secretsHash # None THEN secretsHash ELSE stateHash
      BY <2>2, <3>1, <3>2 DEF Kept, InputInv
    <3>4. sessionKey = IF envKey THEN OperatorKey ELSE keyFile
      BY <2>2, <3>1 DEF Kept, InputInv
    <3> QED
      BY <2>2, <3>1, <3>2, <3>3, <3>4 DEF Found, InputInv
  <2> QED
    BY <1>1, <2>1, <2>2 DEF TypeInv
<1>5. OrderInv'
  BY <1>1 DEF OrderInv
<1> QED
  BY <1>2, <1>3, <1>4, <1>5

(* What the operator does while the engine is down.                         *)
LEMMA OperatorStep ==
    ASSUME SessionInv,
           SetSecretsHash \/ SetEnvKey \/ \E pw \in Passwords \cup {None} : SetEnvPw(pw)
    PROVE  SessionInv'
<1> USE SessionsAssumption DEF SessionInv, state, memory
<1>1. /\ engine = "down" /\ engine' = "down"
      /\ UNCHANGED <<stateHash, keyFile, adminHash, sessionKey, keys, tokens, refused, unsaved, aside>>
  BY DEF SetSecretsHash, SetEnvKey, SetEnvPw
<1>2. InputInv' /\ OrderInv'
  BY <1>1 DEF InputInv, OrderInv
<1>3. CASE SetSecretsHash
  <2>1. /\ salts' \in Nat /\ salts <= salts' /\ salts' <= MaxSalt
        /\ secretsHash' \in Made(salts') \cup {None} /\ owed' = {} /\ UNCHANGED <<envPw, envKey>>
    BY <1>3 DEF SetSecretsHash, TypeInv, Hash, Made
  <2>2. Made(salts) \subseteq Made(salts')
    BY <2>1, MadeGrows DEF TypeInv
  <2>3. tokens' \subseteq [ver : Made(salts'), key : 0 .. keys']
    BY <1>1, <2>2 DEF TypeInv
  <2>4. TypeInv'
    BY <1>1, <2>1, <2>2, <2>3 DEF TypeInv
  <2> QED
    BY <1>2, <2>1, <2>4 DEF OwedInv
<1>4. CASE SetEnvKey
  BY <1>1, <1>2, <1>4 DEF SetEnvKey, TypeInv, OwedInv
<1>5. ASSUME NEW pw \in Passwords \cup {None}, SetEnvPw(pw) PROVE SessionInv'
  BY <1>1, <1>2, <1>5 DEF SetEnvPw, TypeInv, OwedInv, Found
<1> QED
  BY <1>3, <1>4, <1>5

LEMMA AlwaysSessions == Spec => []SessionInv
<1>1. Init => SessionInv
  <2> SUFFICES ASSUME Init PROVE SessionInv
    OBVIOUS
  <2>1. engine = "down" /\ tokens = {} /\ refused = {} /\ owed = {}
    BY DEF Init
  <2>2. TypeInv
    <3>1. /\ salts = 0 /\ keys = 0 /\ unsaved = FALSE /\ aside = FALSE /\ envKey = FALSE
          /\ secretsHash = None /\ stateHash = None /\ adminHash = None
          /\ keyFile = None /\ sessionKey = None
          /\ envPw \in Passwords \cup {None}
      BY DEF Init
    <3>2. tokens \subseteq [ver : Made(salts), key : 0 .. keys]
      BY <2>1
    <3>3. unsaved \in BOOLEAN /\ aside \in BOOLEAN /\ envKey \in BOOLEAN
      BY <3>1
    <3>4. salts \in Nat /\ keys \in Nat /\ salts <= MaxSalt /\ keys <= MaxKey
      BY <3>1, SessionsAssumption
    <3> QED
      BY <2>1, <3>1, <3>2, <3>3, <3>4 DEF TypeInv
  <2> QED
    BY <2>1, <2>2 DEF SessionInv, InputInv, OwedInv, OrderInv
<1>2. SessionInv /\ [Next]_vars => SessionInv'
  <2>1. SessionInv /\ UNCHANGED vars => SessionInv'
    BY DEF vars, SessionInv, TypeInv, InputInv, OwedInv, OrderInv, Found
  <2> QED
    BY <2>1, ResolveStep, KeyStep, TokenStep, StopStep, OperatorStep DEF Next
<1> QED
  BY <1>1, <1>2, PTL DEF Spec

(* Every variable keeps its type.                                           *)
THEOREM SessionsTypeCorrect == Spec => []TypeOK
<1>1. SessionInv => TypeOK
  <2> SUFFICES ASSUME SessionInv PROVE TypeOK
    OBVIOUS
  <2>1. Made(salts) \subseteq Hashes
    BY SessionsAssumption DEF SessionInv, TypeInv, Made, Hashes
  <2>2. tokens \subseteq [ver : Hashes, key : 0 .. MaxKey]
    BY <2>1, SessionsAssumption DEF SessionInv, TypeInv
  <2> QED
    BY <2>1, <2>2, SessionsAssumption DEF SessionInv, TypeInv, TypeOK
<1> QED
  BY <1>1, AlwaysSessions, PTL

(* A restart ends no session unless the operator asks for it                *)
(* (SessionsSurvive), whatever stops the engine, provided that the hash and *)
(* the key of the engine before it are where the next start looks for them: *)
(* pickAdminHash and loadSessionKey.  After a write of /state that failed   *)
(* (main.go:107, 122-131) nothing is claimed of the next start.             *)
THEOREM RestartsEndNoSession == Spec => []SessionsSurvive
<1>1. SessionInv => SessionsSurvive
  BY DEF SessionInv, OwedInv, SessionsSurvive, Accepted
<1> QED
  BY <1>1, AlwaysSessions, PTL

(* A session ended by a new password never comes back (RefusedStayRefused), *)
(* as long as every engine has run with what /state holds: pwVersion.       *)
THEOREM EndedSessionsStayEnded == Spec => []RefusedStayRefused
<1>1. SessionInv => RefusedStayRefused
  <2> SUFFICES ASSUME SessionInv, engine = "up", ~aside, NEW t \in refused,
                      Accepted(t, adminHash, sessionKey)
               PROVE  FALSE
    BY DEF RefusedStayRefused
  <2>1. t.ver = stateHash /\ t.ver.salt < stateHash.salt /\ t \in [ver : Made(salts), key : 0 .. keys]
    BY DEF SessionInv, OrderInv, TypeInv, Accepted
  <2>2. t.ver.salt \in Nat
    BY <2>1 DEF Made
  <2> QED
    BY <2>1, <2>2
<1> QED
  BY <1>1, AlwaysSessions, PTL
=============================================================================
