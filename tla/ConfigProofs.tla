---------------------------- MODULE ConfigProofs ----------------------------
(***************************************************************************)
(* Theorems about ConfigFiles, for any files, handlers and settings: where  *)
(* the saves of a file do not overlap, the file is always whole and every   *)
(* save is one atomic step of Register; and where those of config.env do    *)
(* not, the running cron follows it.                                        *)
(***************************************************************************)
EXTENDS ConfigFiles, TLAPS

(* What SMT needs to know of whole texts: they are contents, and neither    *)
(* the mark of an absent file nor a blank one.                              *)
LEMMA WholeTexts ==
    ASSUME NEW f \in Files, NEW t \in TextsOf(f)
    PROVE  /\ t \in Content /\ t \in Texts /\ t # Absent /\ t # Blank
           /\ t.rest = TRUE /\ t.junk = FALSE
<1>1. PICK b \in IF f = Config THEN Bodies ELSE Lists : t = Whole(b)
  BY DEF TextsOf
<1>2. b \in Bodies \cup Lists /\ b # None
  BY ConfigAssumption
<1>3. t \in Content /\ t # Absent /\ t # Blank /\ t.rest = TRUE /\ t.junk = FALSE
  BY <1>1, <1>2 DEF Content, Whole, Absent, Blank
<1>4. t \in Texts
  BY DEF Texts
<1> QED
  BY <1>3, <1>4

(* Merging a whole text with a whole file changes nothing (Save).           *)
LEMMA MergeWhole ==
    ASSUME NEW r \in TextsOf(Config), NEW t \in TextsOf(Config)
    PROVE  Merge(r, t) = t
<1>1. PICK b : t = Whole(b)
  BY DEF TextsOf
<1>2. PICK c : r = Whole(c)
  BY DEF TextsOf
<1> QED
  BY <1>1, <1>2 DEF Merge, Whole

(* Writing over a blank file leaves exactly the text.                       *)
LEMMA OverBlank == \A t : Over(Blank, t) = {t}
  BY DEF Over

(* Contents stay contents when one is written over another.                 *)
LEMMA OverContent ==
    ASSUME NEW o \in Content, NEW t \in Content, NEW c \in Over(o, t)
    PROVE  c \in Content
<1>1. CASE c = t
  BY <1>1
<1>2. CASE c # t
  <2>1. PICK b \in {o.body, t.body} : c = [body |-> b, rest |-> t.rest, junk |-> TRUE]
    BY <1>2 DEF Over
  <2>2. b \in Bodies \cup Lists \cup {None} /\ t.rest \in BOOLEAN
    BY DEF Content
  <2>3. [body |-> b, rest |-> t.rest, junk |-> TRUE] \in Content
    BY <2>2 DEF Content
  <2> QED
    BY <2>1, <2>3
<1> QED
  BY <1>1, <1>2

(* The texts of a request are texts of its file.                            *)
LEMMA RequestTexts ==
    /\ \A b \in Bodies : Whole(b) \in TextsOf(Config)
    /\ \A f \in Files \ {Config}, b \in Lists : Whole(b) \in TextsOf(f)
  BY DEF TextsOf

(* The constants that are contents.                                         *)
LEMMA Constants ==
    /\ Absent \in Content /\ Blank \in Content /\ Found(Config) = Whole(Off)
    /\ \A f \in Files : Found(f) \in TextsOf(f) \cup {Absent}
<1>1. Absent \in Content /\ Blank \in Content
  BY DEF Absent, Blank, Content
<1>2. Found(Config) = Whole(Off)
  BY ConfigAssumption DEF Found, Seed
<1>3. ASSUME NEW f \in Files PROVE Found(f) \in TextsOf(f) \cup {Absent}
  BY ConfigAssumption DEF Found, Seed, TextsOf
<1> QED
  BY <1>1, <1>2, <1>3

----------------------------------------------------------------------------
(* Every variable keeps its type.                                           *)
LEMMA ConfigTypeStep == TypeOK /\ [Next]_vars => TypeOK'
<1> SUFFICES ASSUME TypeOK, [Next]_vars PROVE TypeOK'
  OBVIOUS
<1> USE DEF TypeOK
<1>0. /\ Absent \in Content /\ Blank \in Content /\ Config \in Files
      /\ \A f \in Files : TextsOf(f) \subseteq Content /\ Found(f) \in Content
      /\ \A b \in Bodies \cup Lists : Whole(b) \in Content
  <2>1. \A f \in Files : TextsOf(f) \subseteq Content
    BY WholeTexts
  <2>2. \A b \in Bodies \cup Lists : Whole(b) \in Content
    BY DEF Whole, Content
  <2> QED
    BY <2>1, <2>2, Constants, ConfigAssumption
<1>1. CASE UNCHANGED vars
  BY <1>1 DEF vars
<1>2. ASSUME NEW p \in Writers, NEW b \in Bodies, AskConfig(p, b) PROVE TypeOK'
  BY <1>2, <1>0 DEF AskConfig, Step, Job
<1>3. ASSUME NEW p \in Writers, NEW f \in Files, NEW b \in Bodies \cup Lists, AskFile(p, f, b)
      PROVE  TypeOK'
  BY <1>3, <1>0 DEF AskFile, Step, Job
<1>4. ASSUME NEW p \in Writers, NEW f \in Removable, AskRemove(p, f) PROVE TypeOK'
  BY <1>4, <1>0, ConfigAssumption DEF AskRemove, Step, Job
<1>5. ASSUME NEW p \in Writers, Load(p) PROVE TypeOK'
  <2>1. \A r, t \in Content : Merge(r, t) \in Content
    BY DEF Merge, Content
  <2> QED
    BY <1>5, <1>0, <2>1 DEF Load, Step, LoadConfig
<1>6. ASSUME NEW p \in Writers, Reject(p) \/ RenameMissing(p) \/ Answer(p) \/ Fail(p) PROVE TypeOK'
  BY <1>6, <1>0 DEF Reject, RenameMissing, Answer, Fail, Return, Step, NoJob
<1>7. ASSUME NEW p \in Writers, Open(p) PROVE TypeOK'
  BY <1>7, <1>0 DEF Open, Step
<1>8. ASSUME NEW p \in Writers, Write(p) PROVE TypeOK'
  <2>1. /\ path' \in [Files -> Content] /\ tmp' \in [Files -> Content]
    <3>1. job[p].text \in Content /\ \A f \in Files : tmp[f] \in Content /\ path[f] \in Content
      OBVIOUS
    <3>2. ASSUME UNCHANGED path, NEW c \in Over(tmp[job[p].file], job[p].text),
                 tmp' = [tmp EXCEPT ![job[p].file] = c]
          PROVE  /\ path' \in [Files -> Content] /\ tmp' \in [Files -> Content]
      <4>1. job[p].file \in Files => c \in Content
        BY <3>1, <3>2, OverContent
      <4> QED
        BY <3>2, <4>1
    <3>3. ASSUME UNCHANGED tmp, NEW c \in Over(path[job[p].file], job[p].text),
                 path' = [path EXCEPT ![job[p].file] = c]
          PROVE  /\ path' \in [Files -> Content] /\ tmp' \in [Files -> Content]
      <4>1. job[p].file \in Files => c \in Content
        BY <3>1, <3>3, OverContent
      <4> QED
        BY <3>3, <4>1
    <3> QED
      BY <1>8, <3>2, <3>3 DEF Write, fileVars
  <2> QED
    BY <1>8, <2>1 DEF Write, Step
<1>9. ASSUME NEW p \in Writers, Rename(p) PROVE TypeOK'
  <2>1. fd' \in [Writers -> {"tmp", "path", None}]
    BY <1>9 DEF Rename, Renamed
  <2>2. path' \in [Files -> Content] /\ tmp' \in [Files -> Content]
    BY <1>9, <1>0 DEF Rename
  <2> QED
    BY <1>9, <2>1, <2>2 DEF Rename, Step
<1>10. ASSUME NEW p \in Writers, Remove(p) PROVE TypeOK'
  BY <1>10, <1>0 DEF Remove, Step, Unlinked
<1>11. ASSUME NEW p \in Writers, ReloadRead(p) PROVE TypeOK'
  BY <1>11, <1>0, ConfigAssumption DEF ReloadRead, Step, LoadConfig
<1>12. ASSUME NEW p \in Writers, ReloadInstall(p) PROVE TypeOK'
  <2>1. ScheduleOf(seen) \in Bodies /\ NextOf(seen) \in {None, "ahead", "past"}
    BY ConfigAssumption DEF ScheduleOf, NextOf
  <2> QED
    BY <1>12, <1>0, <2>1 DEF ReloadInstall, Step
<1>13. CASE Fire \/ Shutdown
  BY <1>13, ConfigAssumption DEF Fire, Shutdown
<1>14. CASE Exit
  BY <1>14, <1>0, ConfigAssumption DEF Exit, NoJob, fileVars
<1>15. ASSUME NEW f \in Files, Edit(f) PROVE TypeOK'
  BY <1>15, <1>0 DEF Edit
<1>16. CASE Boot
  <2>1. \A c \in Content : ScheduleOf(c) \in Bodies /\ NextOf(c) \in {None, "ahead", "past"}
    BY ConfigAssumption DEF ScheduleOf, NextOf
  <2>2. path' \in [Files -> Content]
    BY <1>16, <1>0 DEF Boot
  <2>3. LoadConfig' \in Content
    BY <2>2, <1>0 DEF LoadConfig
  <2>4. cron' \in Bodies /\ next' \in {None, "ahead", "past"}
    BY <1>16, <2>3, ConfigAssumption DEF Boot, ScheduleOf, NextOf
  <2> QED
    BY <1>16, <2>2, <2>4 DEF Boot
<1> QED
  BY <1>1, <1>2, <1>3, <1>4, <1>5, <1>6, <1>7, <1>8, <1>9, <1>10, <1>11, <1>12, <1>13, <1>14,
     <1>15, <1>16, ConfigAssumption DEF Next, Handle

(* TypeOK holds in every reachable state.                                   *)
THEOREM ConfigTypeCorrect == Spec => []TypeOK
<1>1. Init => TypeOK
  <2> SUFFICES ASSUME Init PROVE TypeOK
    OBVIOUS
  <2>1. Absent \in Content /\ \A f \in Files : Found(f) \in Content
    BY Constants, WholeTexts, ConfigAssumption
  <2>2. path \in [Files -> Content] /\ tmp \in [Files -> Content] /\ seen \in Content
    BY <2>1 DEF Init
  <2>3. job \in [Writers -> [file : Files \cup {None}, text : Content]]
    BY <2>1 DEF Init, NoJob
  <2> QED
    BY <2>2, <2>3, ConfigAssumption DEF Init, TypeOK
<1> QED
  BY <1>1, ConfigTypeStep, PTL DEF Spec

----------------------------------------------------------------------------
(* The inductive invariant.                                                 *)

\* what a handler carries at each statement
JobInv(p) ==
    /\ pc[p] = "load" => job[p].file = Config /\ job[p].text \in TextsOf(Config)
    /\ pc[p] \in {"open", "write", "rename"} =>
          /\ job[p].file \in Files
          /\ job[p].file \notin Overlap => job[p].text \in TextsOf(job[p].file)
          /\ job[p].file = Config => job[p].text.body # Bad
    /\ pc[p] = "remove" => job[p].file \in Removable /\ job[p].text = Absent
    /\ pc[p] \in {"lock", "install"} => job[p].file = Config
    /\ pc[p] = "answer" => job[p].file \in Files

\* a handler has a file open from its open to its write; where saves do not
\* overlap it finds the temporary file as it left it
FileInv(p) ==
    /\ fd[p] # None => pc[p] = "write"
    /\ pc[p] = "write" /\ job[p].file \notin Overlap =>
          fd[p] = "tmp" /\ tmp[job[p].file] = Blank
    /\ pc[p] = "rename" /\ job[p].file \notin Overlap => tmp[job[p].file] = job[p].text

AloneInv ==
    \A p, q \in Writers :
        p # q /\ Saving(p, job[p].file) /\ job[p].file \notin Overlap => ~Saving(q, job[p].file)

SaveInv == (\A p \in Writers : JobInv(p) /\ FileInv(p)) /\ AloneInv /\ WholeFile

\* the holder of schedMu is the handler that reloads
LockInv == \A p \in Writers : schedMu = p <=> pc[p] = "install"

\* a stopped engine schedules nothing
DownInv == engine = "down" => next = None /\ \A p \in Writers : pc[p] = "idle"

\* what the reload has read is what the file holds, unless somebody has
\* renamed a new one into place and waits for schedMu
CronInv ==
    /\ \A p \in Writers : pc[p] \in {"lock", "install"} => path[Config].body # Bad
    /\ \A p \in Writers : pc[p] = "install" => seen.body # Bad
    /\ \A p \in Writers :
          pc[p] = "install" /\ (\A q \in Writers : pc[q] # "lock") => seen = path[Config]

(* Where a handler is after it has returned.                                *)
LEMMA WhereItReturns ==
    ASSUME TypeOK, NEW p \in Writers, Reject(p) \/ Answer(p)
    PROVE  pc'[p] = "idle"
  BY DEF TypeOK, Reject, Answer, Return, Step

(* Where a handler is while it reloads.                                     *)
LEMMA WhereItReloads ==
    ASSUME TypeOK, NEW p \in Writers, ReloadRead(p) \/ ReloadInstall(p)
    PROVE  pc[p] \in {"lock", "install"} /\ pc'[p] \in {"install", "answer"} /\ job' = job
  BY DEF TypeOK, ReloadRead, ReloadInstall, Step

(* Asking, answering and reloading leave every open file alone.             *)
LEMMA SaveStepOutside ==
    ASSUME TypeOK, SaveInv, NEW p \in Writers,
           \/ \E b \in Bodies : AskConfig(p, b)
           \/ \E f \in Files \ {Config}, b \in Bodies \cup Lists : AskFile(p, f, b)
           \/ \E f \in Removable : AskRemove(p, f)
           \/ Reject(p) \/ ReloadRead(p) \/ ReloadInstall(p) \/ Answer(p)
    PROVE  SaveInv'
<1> USE DEF TypeOK, SaveInv
<1>1. UNCHANGED <<path, tmp, fd>> /\ (\A t \in Writers \ {p} : job'[t] = job[t] /\ pc'[t] = pc[t])
  BY DEF AskConfig, AskFile, AskRemove, Reject, ReloadRead, ReloadInstall, Answer, Step, Return
<1>2. pc[p] \notin {"write", "rename"} /\ pc'[p] \notin {"write", "rename"}
  BY DEF AskConfig, AskFile, AskRemove, Reject, ReloadRead, ReloadInstall, Answer, Step, Return
<1>3. WholeFile'
  BY <1>1 DEF WholeFile, IsWhole
<1>4. AloneInv'
  BY <1>1, <1>2 DEF AloneInv, Saving
<1>5. JobInv(p)' /\ FileInv(p)'
  <2>1. FileInv(p)'
    BY <1>1, <1>2 DEF FileInv
  <2>2. ASSUME NEW b \in Bodies, AskConfig(p, b) PROVE JobInv(p)'
    <3>1. pc'[p] = "load" /\ job'[p] = Job(Config, Whole(b))
      BY <2>2 DEF AskConfig, Step
    <3>2. job'[p].file = Config /\ job'[p].text = Whole(b)
      BY <3>1 DEF Job
    <3>3. job'[p].text \in TextsOf(Config)
      BY <3>2, RequestTexts
    <3> QED
      BY <3>1, <3>2, <3>3 DEF JobInv
  <2>3. ASSUME NEW f \in Files \ {Config}, NEW b \in Bodies \cup Lists, AskFile(p, f, b)
        PROVE  JobInv(p)'
    <3>1. pc'[p] = "open" /\ job'[p] = Job(f, Whole(b)) /\ b \in Lists
      BY <2>3 DEF AskFile, Step, ValidBody
    <3>2. job'[p].file = f /\ job'[p].text = Whole(b)
      BY <3>1 DEF Job
    <3>3. job'[p].text \in TextsOf(f)
      BY <3>1, <3>2, RequestTexts
    <3> QED
      BY <3>1, <3>2, <3>3 DEF JobInv
  <2>4. ASSUME NEW f \in Removable, AskRemove(p, f) PROVE JobInv(p)'
    BY <2>4, ConfigAssumption DEF AskRemove, Step, Job, JobInv
  <2>5. CASE Reject(p) \/ Answer(p)
    <3>1. pc'[p] = "idle"
      BY <2>5, WhereItReturns
    <3> QED
      BY <2>1, <3>1 DEF JobInv
  <2>6. CASE ReloadRead(p) \/ ReloadInstall(p)
    <3>1. pc[p] \in {"lock", "install"} /\ pc'[p] \in {"install", "answer"} /\ job' = job
      BY <2>6, WhereItReloads
    <3>2. job'[p].file = Config
      BY <3>1 DEF JobInv
    <3> QED
      BY <2>1, <3>1, <3>2, ConfigAssumption DEF JobInv
  <2> QED
    BY <2>1, <2>2, <2>3, <2>4, <2>5, <2>6
<1>6. \A t \in Writers \ {p} : JobInv(t)' /\ FileInv(t)'
  BY <1>1 DEF JobInv, FileInv
<1> QED
  BY <1>3, <1>4, <1>5, <1>6

(* The load: the text merged with a whole config.env is the text asked for. *)
LEMMA SaveStepLoad ==
    ASSUME TypeOK, SaveInv, NEW p \in Writers, Load(p)
    PROVE  SaveInv'
<1> USE DEF TypeOK, SaveInv
<1>1. UNCHANGED <<path, tmp, fd>> /\ (\A t \in Writers \ {p} : job'[t] = job[t] /\ pc'[t] = pc[t])
  BY DEF Load, Step
<1>2. pc[p] = "load" /\ pc'[p] = "open"
  BY DEF Load, Step
<1>3. WholeFile'
  BY <1>1 DEF WholeFile, IsWhole
<1>4. AloneInv'
  BY <1>1, <1>2 DEF AloneInv, Saving
<1>5. JobInv(p)'
  <2>1. job'[p].file = Config /\ job'[p].text = Merge(path[Config], job[p].text)
    BY <1>2 DEF Load, LoadConfig, JobInv
  <2>2. job'[p].text.body # Bad
    BY <2>1, ConfigAssumption DEF Load, Validate, Merge
  <2>3. ASSUME Config \notin Overlap PROVE job'[p].text \in TextsOf(Config)
    <3>1. path[Config] \in TextsOf(Config)
      BY <2>3, ConfigAssumption DEF WholeFile, IsWhole, Load, LoadConfig
    <3>2. job[p].text \in TextsOf(Config)
      BY <1>2 DEF JobInv
    <3> QED
      BY <2>1, <3>1, <3>2, MergeWhole
  <2> QED
    BY <1>2, <2>1, <2>2, <2>3, ConfigAssumption DEF JobInv
<1>6. FileInv(p)'
  BY <1>1, <1>2 DEF FileInv
<1>7. \A t \in Writers \ {p} : JobInv(t)' /\ FileInv(t)'
  BY <1>1 DEF JobInv, FileInv
<1> QED
  BY <1>3, <1>4, <1>5, <1>6, <1>7

(* The open empties the temporary file, which nobody else is writing.       *)
LEMMA SaveStepOpen ==
    ASSUME TypeOK, SaveInv, NEW p \in Writers, Open(p)
    PROVE  SaveInv'
<1> USE DEF TypeOK, SaveInv
<1>1. UNCHANGED <<path, job>> /\ (\A t \in Writers \ {p} : fd'[t] = fd[t] /\ pc'[t] = pc[t])
  BY DEF Open, Step
<1>2. pc[p] = "open" /\ pc'[p] = "write" /\ fd'[p] = "tmp" /\ job[p].file \in Files
  BY DEF Open, Step, JobInv
<1>3. /\ tmp'[job[p].file] = Blank
      /\ \A f \in Files \ {job[p].file} : tmp'[f] = tmp[f]
  BY <1>2 DEF Open
<1>4. job[p].file \notin Overlap => \A q \in Writers \ {p} : ~Saving(q, job[p].file)
  BY DEF Open
<1>5. WholeFile'
  BY <1>1 DEF WholeFile, IsWhole
<1>6. AloneInv'
  BY <1>1, <1>2, <1>4 DEF AloneInv, Saving
<1>7. JobInv(p)' /\ FileInv(p)'
  BY <1>1, <1>2, <1>3 DEF JobInv, FileInv
<1>8. \A t \in Writers \ {p} : JobInv(t)' /\ FileInv(t)'
  BY <1>1, <1>3, <1>4 DEF JobInv, FileInv, Saving
<1> QED
  BY <1>5, <1>6, <1>7, <1>8

(* The write leaves the text in the temporary file, and, where saves do not *)
(* overlap, nothing else.                                                   *)
LEMMA SaveStepWrite ==
    ASSUME TypeOK, SaveInv, NEW p \in Writers, Write(p)
    PROVE  SaveInv'
<1> USE DEF TypeOK, SaveInv
<1>1. UNCHANGED job /\ (\A t \in Writers \ {p} : fd'[t] = fd[t] /\ pc'[t] = pc[t])
  BY DEF Write, Step
<1>2. pc[p] = "write" /\ pc'[p] = "rename" /\ fd'[p] = None /\ job[p].file \in Files
  BY DEF Write, Step, JobInv
<1>3. \A f \in Files \ {job[p].file} : tmp'[f] = tmp[f] /\ path'[f] = path[f]
  BY <1>2 DEF Write, fileVars
<1>4. job[p].file \notin Overlap => path' = path /\ tmp'[job[p].file] = job[p].text
  <2> SUFFICES ASSUME job[p].file \notin Overlap
               PROVE  path' = path /\ tmp'[job[p].file] = job[p].text
    OBVIOUS
  <2>1. fd[p] = "tmp" /\ tmp[job[p].file] = Blank
    BY <1>2 DEF FileInv
  <2>2. /\ UNCHANGED path
        /\ \E c \in Over(tmp[job[p].file], job[p].text) : tmp' = [tmp EXCEPT ![job[p].file] = c]
    BY <2>1, ConfigAssumption DEF Write
  <2>3. tmp' = [tmp EXCEPT ![job[p].file] = job[p].text]
    <3>1. PICK c \in Over(Blank, job[p].text) : tmp' = [tmp EXCEPT ![job[p].file] = c]
      BY <2>1, <2>2
    <3>2. c = job[p].text
      BY <3>1, OverBlank
    <3> QED
      BY <3>1, <3>2
  <2> QED
    BY <1>2, <2>2, <2>3
<1>5. WholeFile'
  BY <1>2, <1>3, <1>4 DEF WholeFile, IsWhole
<1>6. AloneInv'
  BY <1>1, <1>2 DEF AloneInv, Saving
<1>7. JobInv(p)' /\ FileInv(p)'
  BY <1>1, <1>2, <1>4 DEF JobInv, FileInv
<1>8. \A t \in Writers \ {p} : JobInv(t)' /\ FileInv(t)'
  BY <1>1, <1>2, <1>3 DEF JobInv, FileInv, AloneInv, Saving
<1> QED
  BY <1>5, <1>6, <1>7, <1>8

(* The rename publishes the text, and takes no file from under another.     *)
LEMMA SaveStepRename ==
    ASSUME TypeOK, SaveInv, NEW p \in Writers, Rename(p)
    PROVE  SaveInv'
<1> USE DEF TypeOK, SaveInv
<1>1. UNCHANGED job /\ (\A t \in Writers \ {p} : pc'[t] = pc[t])
  BY DEF Rename, Step
<1>2. /\ pc[p] = "rename" /\ pc'[p] \in {"lock", "answer"} /\ job[p].file \in Files
      /\ pc'[p] = "lock" => job[p].file = Config
  BY DEF Rename, Step, JobInv
<1>3. \A f \in Files \ {job[p].file} : tmp'[f] = tmp[f] /\ path'[f] = path[f]
  BY <1>2 DEF Rename
<1>4. job[p].file \notin Overlap => path'[job[p].file] \in TextsOf(job[p].file)
  BY <1>2 DEF Rename, FileInv, JobInv
<1>5. /\ \A t \in Writers : fd'[t] # None => fd[t] # None
      /\ \A t \in Writers : job[t].file # job[p].file => fd'[t] = fd[t]
  BY ConfigAssumption DEF Rename, Renamed
<1>6. WholeFile'
  BY <1>2, <1>3, <1>4 DEF WholeFile, IsWhole
<1>7. AloneInv'
  BY <1>1, <1>2 DEF AloneInv, Saving
<1>8. JobInv(p)' /\ FileInv(p)'
  <2>1. JobInv(p)'
    BY <1>1, <1>2 DEF JobInv
  <2>2. fd[p] = None
    BY <1>2 DEF FileInv
  <2> QED
    BY <1>2, <1>5, <2>1, <2>2 DEF FileInv
<1>9. ASSUME NEW t \in Writers \ {p} PROVE JobInv(t)' /\ FileInv(t)'
  <2>1. JobInv(t)'
    BY <1>1 DEF JobInv
  <2>2. CASE job[t].file = job[p].file
    <3>1. job[p].file \notin Overlap => pc[t] \notin {"write", "rename"}
      BY <1>2, <2>2 DEF AloneInv, Saving
    <3> QED
      BY <1>1, <1>5, <2>1, <2>2, <3>1 DEF FileInv
  <2>3. CASE job[t].file # job[p].file
    <3>1. fd'[t] = fd[t] /\ pc'[t] = pc[t] /\ job'[t] = job[t]
      BY <1>1, <1>5, <2>3
    <3>2. pc[t] \in {"write", "rename"} => tmp'[job[t].file] = tmp[job[t].file]
      BY <1>3, <2>3 DEF JobInv
    <3> QED
      BY <2>1, <3>1, <3>2 DEF FileInv
  <2> QED
    BY <2>2, <2>3
<1> QED
  BY <1>6, <1>7, <1>8, <1>9

(* A removal takes effect on a file that nobody has open by its own name.   *)
LEMMA SaveStepRemove ==
    ASSUME TypeOK, SaveInv, NEW p \in Writers, Remove(p)
    PROVE  SaveInv'
<1> USE DEF TypeOK, SaveInv
<1>1. UNCHANGED <<job, tmp>> /\ (\A t \in Writers \ {p} : pc'[t] = pc[t])
  BY DEF Remove, Step
<1>2. pc[p] = "remove" /\ pc'[p] = "answer" /\ job[p].file \in Files
  BY ConfigAssumption DEF Remove, Step, JobInv
<1>3. \A f \in Files : path'[f] = path[f] \/ path'[f] = Absent
  BY DEF Remove
<1>4. /\ \A t \in Writers : fd'[t] # None => fd[t] # None
      /\ \A t \in Writers : fd[t] = "tmp" => fd'[t] = "tmp"
  BY ConfigAssumption DEF Remove, Unlinked
<1>5. WholeFile'
  BY <1>3 DEF WholeFile, IsWhole
<1>6. AloneInv'
  BY <1>1, <1>2 DEF AloneInv, Saving
<1>7. JobInv(p)' /\ FileInv(p)'
  BY <1>1, <1>2, <1>4 DEF JobInv, FileInv
<1>8. \A t \in Writers \ {p} : JobInv(t)' /\ FileInv(t)'
  BY <1>1, <1>4 DEF JobInv, FileInv
<1> QED
  BY <1>5, <1>6, <1>7, <1>8

(* A save that fails leaves path alone.                                     *)
LEMMA SaveStepFail ==
    ASSUME TypeOK, SaveInv, NEW p \in Writers, RenameMissing(p) \/ Fail(p)
    PROVE  SaveInv'
<1> USE DEF TypeOK, SaveInv
<1>1. /\ UNCHANGED <<path, tmp>> /\ pc'[p] = "idle"
      /\ \A t \in Writers \ {p} : pc'[t] = pc[t] /\ job'[t] = job[t] /\ fd'[t] = fd[t]
  BY DEF RenameMissing, Fail, Return, Step
<1>2. fd'[p] = None
  BY DEF RenameMissing, Fail, Return, Step, FileInv
<1>3. WholeFile'
  BY <1>1 DEF WholeFile, IsWhole
<1>4. AloneInv'
  BY <1>1 DEF AloneInv, Saving
<1>5. JobInv(p)' /\ FileInv(p)'
  BY <1>1, <1>2, ConfigAssumption DEF JobInv, FileInv
<1>6. \A t \in Writers \ {p} : JobInv(t)' /\ FileInv(t)'
  BY <1>1 DEF JobInv, FileInv
<1> QED
  BY <1>3, <1>4, <1>5, <1>6

(* The scheduler, a stop, the operator and a start.                         *)
LEMMA SaveStepEngine ==
    ASSUME TypeOK, SaveInv, Fire \/ Shutdown \/ Exit \/ Boot \/ \E f \in Files : Edit(f)
    PROVE  SaveInv'
<1> USE DEF TypeOK, SaveInv
<1>1. /\ UNCHANGED tmp
      /\ \A t \in Writers : \/ pc'[t] = pc[t] /\ job'[t] = job[t] /\ fd'[t] = fd[t]
                            \/ pc'[t] = "idle" /\ fd'[t] = None
  <2>1. CASE Exit
    BY <2>1 DEF Exit, fileVars
  <2>2. CASE Fire \/ Shutdown \/ Boot \/ \E f \in Files : Edit(f)
    <3>1. UNCHANGED <<tmp, pc, job, fd>>
      BY <2>2 DEF Fire, Shutdown, Boot, Edit
    <3> QED
      BY <3>1
  <2> QED
    BY <2>1, <2>2
<1>2. \A f \in Files : path'[f] = path[f] \/ path'[f] \in TextsOf(f) \cup {Absent}
  BY Constants, ConfigAssumption DEF Fire, Shutdown, Exit, Boot, Edit, fileVars
<1>3. WholeFile'
  BY <1>2 DEF WholeFile, IsWhole
<1>4. AloneInv'
  BY <1>1 DEF AloneInv, Saving
<1>5. \A t \in Writers : JobInv(t)' /\ FileInv(t)'
  BY <1>1, ConfigAssumption DEF JobInv, FileInv
<1> QED
  BY <1>3, <1>4, <1>5

LEMMA SaveStep == TypeOK /\ SaveInv /\ [Next]_vars => SaveInv'
<1> SUFFICES ASSUME TypeOK, SaveInv, [Next]_vars PROVE SaveInv'
  OBVIOUS
<1>1. CASE UNCHANGED vars
  BY <1>1 DEF vars, SaveInv, JobInv, FileInv, AloneInv, Saving, WholeFile, IsWhole
<1>2. ASSUME NEW p \in Writers,
             \/ \E b \in Bodies : AskConfig(p, b)
             \/ \E f \in Files \ {Config}, b \in Bodies \cup Lists : AskFile(p, f, b)
             \/ \E f \in Removable : AskRemove(p, f)
             \/ Handle(p) \/ Fail(p)
      PROVE  SaveInv'
  BY <1>2, SaveStepOutside, SaveStepLoad, SaveStepOpen, SaveStepWrite, SaveStepRename,
     SaveStepRemove, SaveStepFail DEF Handle
<1> QED
  BY <1>1, <1>2, SaveStepEngine DEF Next

LEMMA SaveStart == Init => SaveInv
<1> SUFFICES ASSUME Init PROVE SaveInv
  OBVIOUS
<1>1. \A f \in Files : path[f] \in TextsOf(f) \cup {Absent}
  BY Constants DEF Init
<1>2. \A p \in Writers : pc[p] = "idle" /\ fd[p] = None
  BY DEF Init
<1> QED
  BY <1>1, <1>2, ConfigAssumption
     DEF SaveInv, JobInv, FileInv, AloneInv, Saving, WholeFile, IsWhole

(* A file of which no two saves overlap is never found truncated, half      *)
(* overwritten or without its unknown keys (WholeFile), whatever fails and  *)
(* wherever the engine is killed: writeFileAtomic and Save.                 *)
THEOREM FilesStayWhole == Spec => []WholeFile
<1>1. Spec => [](TypeOK /\ SaveInv)
  BY ConfigTypeCorrect, SaveStart, SaveStep, PTL DEF Spec
<1>2. SaveInv => WholeFile
  BY DEF SaveInv
<1> QED
  BY <1>1, <1>2, PTL

----------------------------------------------------------------------------
(* The scheduler, where saves of config.env do not overlap.                 *)

\* CronFollowsFile and ShownAsInstalled, by program counters alone
FollowInv ==
    engine = "up" /\ (\A p \in Writers : pc[p] \notin {"lock", "install"}) =>
        /\ cron = ScheduleOf(path[Config])
        /\ next # None <=> cron # Off

WatchInv == LockInv /\ DownInv /\ CronInv /\ FollowInv

\* a step that neither renames config.env nor reloads
Quiet ==
    /\ path'[Config] = path[Config] /\ UNCHANGED <<cron, next, seen, schedMu, engine>>
    /\ \A t \in Writers : \/ pc'[t] = pc[t]
                          \/ {pc[t], pc'[t]} \cap {"lock", "install"} = {}
    /\ engine = "down" => UNCHANGED pc

LEMMA QuietStep == WatchInv /\ Quiet => WatchInv'
<1> SUFFICES ASSUME WatchInv, Quiet PROVE WatchInv'
  OBVIOUS
<1> USE DEF Quiet
<1>1. \A t \in Writers : /\ pc'[t] = "install" <=> pc[t] = "install"
                         /\ pc'[t] = "lock" <=> pc[t] = "lock"
  OBVIOUS
<1>2. ScheduleOf(path[Config])' = ScheduleOf(path[Config])
  BY DEF ScheduleOf
<1>3. LockInv' /\ DownInv'
  BY <1>1 DEF WatchInv, LockInv, DownInv
<1>4. CronInv'
  BY <1>1 DEF WatchInv, CronInv
<1>5. FollowInv'
  BY <1>1, <1>2 DEF WatchInv, FollowInv
<1> QED
  BY <1>3, <1>4, <1>5 DEF WatchInv

LEMMA QuietActions ==
    ASSUME TypeOK, SaveInv, WatchInv, Config \notin Overlap, NEW p \in Writers,
           \/ \E b \in Bodies : AskConfig(p, b)
           \/ \E f \in Files \ {Config}, b \in Bodies \cup Lists : AskFile(p, f, b)
           \/ \E f \in Removable : AskRemove(p, f)
           \/ Load(p) \/ Reject(p) \/ Open(p) \/ Write(p) \/ RenameMissing(p) \/ Fail(p)
           \/ Remove(p) \/ Answer(p) \/ (Rename(p) /\ job[p].file # Config)
    PROVE  Quiet
<1> USE DEF TypeOK
<1>1. \A t \in Writers \ {p} : pc'[t] = pc[t]
  BY DEF AskConfig, AskFile, AskRemove, Load, Reject, Open, Write, RenameMissing, Fail, Remove,
         Answer, Rename, Return, Step
<1>2. {pc[p], pc'[p]} \cap {"lock", "install"} = {}
  BY DEF AskConfig, AskFile, AskRemove, Load, Reject, Open, Write, RenameMissing, Fail, Remove,
         Answer, Rename, Return, Step
<1>3. UNCHANGED <<cron, next, seen, schedMu, engine>>
  BY DEF AskConfig, AskFile, AskRemove, Load, Reject, Open, Write, RenameMissing, Fail, Remove,
         Answer, Rename
<1>4. engine # "down"
  <2>1. pc[p] # "idle" \/ engine = "up"
    BY DEF AskConfig, AskFile, AskRemove, Load, Reject, Open, Write, RenameMissing, Fail, Remove,
           Answer, Rename, Return, Step
  <2> QED
    BY <2>1 DEF WatchInv, DownInv
<1>5. path'[Config] = path[Config]
  <2>1. CASE Write(p)
    <3>1. pc[p] = "write"
      BY <2>1 DEF Write, Step
    <3>2. CASE job[p].file = Config
      BY <2>1, <3>1, <3>2, ConfigAssumption DEF Write, SaveInv, FileInv
    <3>3. CASE job[p].file # Config
      BY <2>1, <3>3, ConfigAssumption DEF Write, fileVars
    <3> QED
      BY <3>2, <3>3
  <2>2. CASE Remove(p)
    BY <2>2, ConfigAssumption DEF Remove, Step, SaveInv, JobInv
  <2>3. CASE Rename(p) /\ job[p].file # Config
    BY <2>3, ConfigAssumption DEF Rename
  <2>4. CASE ~(Write(p) \/ Remove(p) \/ (Rename(p) /\ job[p].file # Config))
    BY <2>4 DEF AskConfig, AskFile, AskRemove, Load, Reject, Open, RenameMissing, Fail, Answer
  <2> QED
    BY <2>1, <2>2, <2>3, <2>4
<1> QED
  BY <1>1, <1>2, <1>3, <1>4, <1>5 DEF Quiet

(* A new config.env leaves its handler waiting for schedMu.                 *)
LEMMA WatchStepRename ==
    ASSUME TypeOK, SaveInv, WatchInv, Config \notin Overlap,
           NEW p \in Writers, Rename(p), job[p].file = Config
    PROVE  WatchInv'
<1> USE DEF TypeOK
<1>1. /\ pc[p] = "rename" /\ pc'[p] = "lock" /\ \A t \in Writers \ {p} : pc'[t] = pc[t]
      /\ UNCHANGED <<cron, next, seen, schedMu, engine>>
  BY DEF Rename, Step
<1>2. path'[Config].body # Bad
  BY <1>1, ConfigAssumption DEF Rename, SaveInv, FileInv, JobInv
<1>3. LockInv' /\ DownInv'
  BY <1>1 DEF WatchInv, LockInv, DownInv
<1>4. CronInv'
  BY <1>1, <1>2 DEF WatchInv, CronInv
<1>5. FollowInv'
  BY <1>1 DEF FollowInv
<1> QED
  BY <1>3, <1>4, <1>5 DEF WatchInv

LEMMA WatchStepRead ==
    ASSUME TypeOK, WatchInv, NEW p \in Writers, ReloadRead(p)
    PROVE  WatchInv'
<1> USE DEF TypeOK
<1>1. /\ pc[p] = "lock" /\ pc'[p] = "install" /\ \A t \in Writers \ {p} : pc'[t] = pc[t]
      /\ schedMu = None /\ schedMu' = p /\ seen' = path[Config]
      /\ UNCHANGED <<path, next, engine>>
  BY DEF ReloadRead, Step, LoadConfig
<1>2. \A t \in Writers : pc[t] # "install"
  BY <1>1, ConfigAssumption DEF WatchInv, LockInv
<1>3. LockInv' /\ DownInv'
  BY <1>1, <1>2 DEF WatchInv, LockInv, DownInv
<1>4. CronInv'
  BY <1>1, <1>2 DEF WatchInv, CronInv
<1>5. FollowInv'
  BY <1>1 DEF FollowInv
<1> QED
  BY <1>3, <1>4, <1>5 DEF WatchInv

LEMMA WatchStepInstall ==
    ASSUME TypeOK, WatchInv, NEW p \in Writers, ReloadInstall(p)
    PROVE  WatchInv'
<1> USE DEF TypeOK
<1>1. /\ pc[p] = "install" /\ pc'[p] = "answer" /\ \A t \in Writers \ {p} : pc'[t] = pc[t]
      /\ schedMu' = None /\ cron' = ScheduleOf(seen) /\ next' = NextOf(seen)
      /\ UNCHANGED <<path, engine>>
  BY DEF ReloadInstall, Step
<1>2. \A t \in Writers \ {p} : pc[t] # "install"
  BY <1>1 DEF WatchInv, LockInv
<1>3. LockInv' /\ DownInv'
  BY <1>1, <1>2, ConfigAssumption DEF WatchInv, LockInv, DownInv
<1>4. CronInv'
  BY <1>1, <1>2 DEF WatchInv, CronInv
<1>5. FollowInv'
  <2> SUFFICES ASSUME \A t \in Writers : pc'[t] \notin {"lock", "install"}
               PROVE  cron' = ScheduleOf(path'[Config]) /\ (next' # None <=> cron' # Off)
    BY DEF FollowInv, ScheduleOf
  <2>1. seen = path[Config] /\ seen.body # Bad
    BY <1>1 DEF WatchInv, CronInv
  <2>2. next' # None <=> cron' # Off
    BY <1>1, <2>1, ConfigAssumption DEF NextOf
  <2> QED
    BY <1>1, <2>1, <2>2
<1> QED
  BY <1>3, <1>4, <1>5 DEF WatchInv

LEMMA WatchStepEngine ==
    ASSUME TypeOK, SaveInv, WatchInv, Fire \/ Shutdown \/ Exit \/ Boot \/ \E f \in Files : Edit(f)
    PROVE  WatchInv'
<1> USE DEF TypeOK
<1>1. CASE Fire
  <2>1. UNCHANGED <<path, pc, seen, schedMu, cron, engine>> /\ next # None /\ next' # None
        /\ engine # "down"
    BY <1>1, ConfigAssumption DEF Fire, WatchInv, DownInv
  <2> QED
    BY <2>1 DEF WatchInv, LockInv, DownInv, CronInv, FollowInv, ScheduleOf
<1>2. CASE Shutdown
  <2>1. UNCHANGED <<path, pc, seen, schedMu>> /\ engine' = "closing"
    BY <1>2 DEF Shutdown
  <2> QED
    BY <2>1 DEF WatchInv, LockInv, DownInv, CronInv, FollowInv
<1>3. CASE Exit
  <2>1. \A t \in Writers : pc'[t] = "idle" /\ schedMu' # t
    BY <1>3, ConfigAssumption DEF Exit
  <2>2. engine' = "down" /\ next' = None
    BY <1>3 DEF Exit
  <2> QED
    BY <2>1, <2>2 DEF WatchInv, LockInv, DownInv, CronInv, FollowInv
<1>4. ASSUME NEW f \in Files, Edit(f) PROVE WatchInv'
  <2>1. UNCHANGED <<pc, seen, schedMu, next, engine>> /\ engine = "down"
    BY <1>4 DEF Edit
  <2>2. \A t \in Writers : pc[t] = "idle"
    BY <2>1 DEF WatchInv, DownInv
  <2> QED
    BY <2>1, <2>2 DEF WatchInv, LockInv, DownInv, CronInv, FollowInv
<1>5. CASE Boot
  <2>1. UNCHANGED <<pc, seen, schedMu>> /\ engine' = "up" /\ engine = "down"
    BY <1>5 DEF Boot
  <2>2. next = None /\ \A t \in Writers : pc[t] = "idle"
    BY <2>1 DEF WatchInv, DownInv
  <2>3. cron' = ScheduleOf(path'[Config]) /\ next' = NextOf(path'[Config])
    BY <1>5 DEF Boot, LoadConfig
  <2>4. next' # None <=> cron' # Off
    BY <2>2, <2>3, ConfigAssumption DEF NextOf, ScheduleOf
  <2> QED
    BY <2>1, <2>2, <2>3, <2>4 DEF WatchInv, LockInv, DownInv, CronInv, FollowInv, ScheduleOf
<1> QED
  BY <1>1, <1>2, <1>3, <1>4, <1>5

LEMMA WatchStep == TypeOK /\ SaveInv /\ Config \notin Overlap /\ WatchInv /\ [Next]_vars => WatchInv'
<1> SUFFICES ASSUME TypeOK, SaveInv, Config \notin Overlap, WatchInv, [Next]_vars PROVE WatchInv'
  OBVIOUS
<1>1. CASE UNCHANGED vars
  BY <1>1, QuietStep DEF vars, Quiet
<1>2. ASSUME NEW p \in Writers,
             \/ \E b \in Bodies : AskConfig(p, b)
             \/ \E f \in Files \ {Config}, b \in Bodies \cup Lists : AskFile(p, f, b)
             \/ \E f \in Removable : AskRemove(p, f)
             \/ Handle(p) \/ Fail(p)
      PROVE  WatchInv'
  BY <1>2, QuietActions, QuietStep, WatchStepRename, WatchStepRead, WatchStepInstall DEF Handle
<1> QED
  BY <1>1, <1>2, WatchStepEngine DEF Next

LEMMA WatchStart == Init => WatchInv
<1> SUFFICES ASSUME Init PROVE WatchInv
  OBVIOUS
<1>1. /\ \A p \in Writers : pc[p] = "idle" /\ schedMu # p
      /\ engine = "up" /\ cron = Off /\ next = None /\ path[Config] = Whole(Off)
  BY Constants, ConfigAssumption DEF Init
<1>2. ScheduleOf(Whole(Off)) = Off
  BY DEF ScheduleOf, Whole
<1> QED
  BY <1>1, <1>2 DEF WatchInv, LockInv, DownInv, CronInv, FollowInv

LEMMA Watched == Config \notin Overlap /\ Spec => [](SaveInv /\ WatchInv)
<1> SUFFICES ASSUME Config \notin Overlap PROVE Spec => [](SaveInv /\ WatchInv)
  OBVIOUS
<1>1. TypeOK /\ SaveInv /\ WatchInv /\ [Next]_vars => WatchInv'
  BY WatchStep
<1> QED
  BY <1>1, ConfigTypeCorrect, SaveStart, SaveStep, WatchStart, PTL DEF Spec

(* Where saves of config.env do not overlap, the running cron follows it    *)
(* whenever nobody is between a rename and the end of its reload, however   *)
(* the reloads interleave (CronFollowsFile): handleConfig and reload.       *)
THEOREM CronFollowsTheFile == Config \notin Overlap /\ Spec => []CronFollowsFile
<1>1. SaveInv /\ WatchInv => CronFollowsFile
  BY DEF SaveInv, JobInv, WatchInv, FollowInv, CronFollowsFile, Reloading
<1> QED
  BY <1>1, Watched, PTL

(* Under the same condition the scheduler is shown as on exactly when an    *)
(* entry is installed (ShownAsInstalled): schedNext of main.go.             *)
THEOREM TheSchedulerIsShownAsInstalled == Config \notin Overlap /\ Spec => []ShownAsInstalled
<1>1. SaveInv /\ WatchInv => ShownAsInstalled
  BY DEF SaveInv, JobInv, WatchInv, FollowInv, ShownAsInstalled, Reloading
<1> QED
  BY <1>1, Watched, PTL

----------------------------------------------------------------------------
(* ConfigFiles implements Register for the files whose saves do not         *)
(* overlap: reg, req and down of Register.                                  *)

Calm == Files \ Overlap
RegOf == [f \in Calm |-> path[f]]
ReqOf == [p \in Writers |-> InFlight(p)]
Down == engine = "down"

(* A step that changes neither a calm file nor a request on one.            *)
LEMMA Stutter ==
    ASSUME UNCHANGED <<RegOf, ReqOf, Down>>
    PROVE  [R!RNext]_(R!regVars)
  BY DEF RegOf, ReqOf, Down, Calm, R!regVars

(* How one request changes the table of the requests in flight.             *)
LEMMA RequestsAfter ==
    ASSUME TypeOK, NEW p \in Writers,
           \A t \in Writers \ {p} : pc'[t] = pc[t] /\ job'[t] = job[t]
    PROVE  ReqOf' = [ReqOf EXCEPT ![p] = InFlight(p)']
<1>1. \A t \in Writers \ {p} : InFlight(t)' = InFlight(t)
  BY DEF InFlight
<1> QED
  BY <1>1 DEF ReqOf

(* A request that asks for a save, is answered or refused.                  *)
LEMMA AskStep ==
    ASSUME TypeOK, NEW p \in Writers, NEW f \in Files, NEW t \in TextsOf(f) \cup {Absent},
           engine = "up", pc[p] = "idle", pc'[p] \in {"load", "open", "remove"},
           job' = [job EXCEPT ![p] = Job(f, t)], UNCHANGED <<path, engine>>,
           \A q \in Writers \ {p} : pc'[q] = pc[q]
    PROVE  [R!RNext]_(R!regVars)
<1>1. job'[p].file = f /\ job'[p].text = t /\ \A q \in Writers \ {p} : job'[q] = job[q]
  BY DEF TypeOK, Job
<1>2. ReqOf' = [ReqOf EXCEPT ![p] = InFlight(p)'] /\ ReqOf[p] = [at |-> "idle"]
  BY <1>1, RequestsAfter DEF ReqOf, InFlight
<1>3. UNCHANGED <<RegOf, Down>>
  BY DEF RegOf, Down
<1>4. CASE f \in Overlap
  <2>1. InFlight(p)' = [at |-> "idle"]
    BY <1>1, <1>4 DEF InFlight
  <2>2. ReqOf' = ReqOf
    BY <1>2, <2>1 DEF ReqOf
  <2> QED
    BY <1>3, <2>2, Stutter
<1>5. CASE f \notin Overlap
  <2>1. InFlight(p)' = [at |-> "asked", file |-> f, text |-> t]
    BY <1>1, <1>5 DEF InFlight
  <2>2. t \in Texts \cup {Absent}
    BY WholeTexts
  <2>3. [at |-> "asked", file |-> f, text |-> t] \in R!Requests
    BY <1>5, <2>2 DEF R!Requests
  <2>4. R!Ask(p, [at |-> "asked", file |-> f, text |-> t])
    BY <1>2, <1>3, <2>1 DEF R!Ask, R!Idle, ReqOf, RegOf, Calm, Down
  <2> QED
    BY <2>3, <2>4 DEF R!RNext
<1> QED
  BY <1>4, <1>5

LEMMA ReturnStep ==
    ASSUME TypeOK, NEW p \in Writers, NEW at \in {"load", "open", "write", "rename", "answer"},
           Return(p, at), UNCHANGED <<path, engine>>
    PROVE  [R!RNext]_(R!regVars)
<1> USE DEF TypeOK
<1>1. /\ pc[p] = at /\ pc'[p] = "idle"
      /\ \A q \in Writers \ {p} : pc'[q] = pc[q] /\ job'[q] = job[q]
  BY DEF Return, Step
<1>2. ReqOf' = [ReqOf EXCEPT ![p] = [at |-> "idle"]]
  BY <1>1, RequestsAfter DEF InFlight
<1>3. UNCHANGED <<RegOf, Down>>
  BY DEF RegOf, Down
<1>4. CASE job[p].file \in Overlap
  <2>1. ReqOf[p] = [at |-> "idle"]
    BY <1>4 DEF ReqOf, InFlight
  <2>2. ReqOf' = ReqOf
    BY <1>2, <2>1 DEF ReqOf
  <2> QED
    BY <1>3, <2>2, Stutter
<1>5. CASE job[p].file \notin Overlap /\ at # "answer"
  <2>1. ReqOf[p].at = "asked"
    BY <1>1, <1>5 DEF ReqOf, InFlight
  <2>2. R!Refuse(p)
    BY <1>2, <1>3, <2>1 DEF R!Refuse, R!Idle, ReqOf, RegOf, Calm, Down
  <2> QED
    BY <2>2 DEF R!RNext
<1>6. CASE job[p].file \notin Overlap /\ at = "answer"
  <2>1. ReqOf[p].at = "taken"
    BY <1>1, <1>6 DEF ReqOf, InFlight
  <2>2. R!Answer(p)
    BY <1>2, <1>3, <2>1 DEF R!Answer, R!Idle, ReqOf, RegOf, Calm, Down
  <2> QED
    BY <2>2 DEF R!RNext
<1> QED
  BY <1>4, <1>5, <1>6

(* The rename and the removal are the instant of the save.                  *)
LEMMA TakeStep ==
    ASSUME TypeOK, NEW p \in Writers, pc[p] \in {"rename", "remove"},
           pc'[p] \in {"lock", "answer"}, job[p].file \in Files, UNCHANGED <<job, engine>>,
           \A q \in Writers \ {p} : pc'[q] = pc[q],
           \A f \in Files \ {job[p].file} : path'[f] = path[f],
           job[p].file \notin Overlap => path'[job[p].file] = job[p].text
    PROVE  [R!RNext]_(R!regVars)
<1> USE DEF TypeOK
<1>1. ReqOf' = [ReqOf EXCEPT ![p] = InFlight(p)'] /\ UNCHANGED Down
  BY RequestsAfter DEF Down
<1>2. CASE job[p].file \in Overlap
  <2>1. InFlight(p)' = ReqOf[p]
    BY <1>2 DEF InFlight, ReqOf
  <2>2. ReqOf' = ReqOf
    BY <1>1, <2>1 DEF ReqOf
  <2>3. RegOf' = RegOf
    BY <1>2 DEF RegOf, Calm
  <2> QED
    BY <1>1, <2>2, <2>3, Stutter
<1>3. CASE job[p].file \notin Overlap
  <2>1. ReqOf[p] = [at |-> "asked", file |-> job[p].file, text |-> job[p].text]
    BY <1>3 DEF InFlight, ReqOf
  <2>2. InFlight(p)' = [at |-> "taken", file |-> job[p].file, text |-> job[p].text]
    BY <1>3 DEF InFlight
  <2>3. ReqOf' = [ReqOf EXCEPT ![p].at = "taken"]
    <3>1. ASSUME NEW f, NEW t
          PROVE  [[at |-> "asked", file |-> f, text |-> t] EXCEPT !.at = "taken"]
                    = [at |-> "taken", file |-> f, text |-> t]
      OBVIOUS
    <3>2. [ReqOf[p] EXCEPT !.at = "taken"] = InFlight(p)'
      BY <2>1, <2>2, <3>1
    <3> QED
      BY <1>1, <3>2
  <2>4. RegOf' = [RegOf EXCEPT ![ReqOf[p].file] = ReqOf[p].text]
    <3>1. ReqOf[p].file = job[p].file /\ ReqOf[p].text = job[p].text
      BY <2>1
    <3>2. RegOf' = [f \in Calm |-> IF f = job[p].file THEN job[p].text ELSE path[f]]
      BY <1>3 DEF RegOf, Calm
    <3>3. [RegOf EXCEPT ![job[p].file] = job[p].text]
             = [f \in Calm |-> IF f = job[p].file THEN job[p].text ELSE path[f]]
      BY DEF RegOf
    <3> QED
      BY <3>1, <3>2, <3>3
  <2>5. R!Take(p)
    BY <1>1, <2>1, <2>3, <2>4 DEF R!Take, ReqOf, RegOf, Calm, Down
  <2> QED
    BY <2>5 DEF R!RNext
<1> QED
  BY <1>2, <1>3

(* The other statements of a handler do nothing a reader can see.           *)
LEMMA SilentStep ==
    ASSUME TypeOK, SaveInv, NEW p \in Writers,
           Load(p) \/ Open(p) \/ Write(p) \/ ReloadRead(p) \/ ReloadInstall(p)
    PROVE  [R!RNext]_(R!regVars)
<1> USE DEF TypeOK
<1>1. UNCHANGED <<Down>> /\ \A q \in Writers \ {p} : pc'[q] = pc[q] /\ job'[q] = job[q]
  BY DEF Load, Open, Write, ReloadRead, ReloadInstall, Step, Down
<1>2. \/ job'[p] = job[p]
      \/ job'[p].file = job[p].file /\ job[p].file \in Overlap
  <2>1. CASE Load(p)
    <3>1. job[p].file = Config /\ job[p].text \in TextsOf(Config) /\ path[Config] # Absent
      BY <2>1 DEF Load, Step, LoadConfig, SaveInv, JobInv
    <3>2. job'[p] = [job[p] EXCEPT !.text = Merge(path[Config], job[p].text)]
      BY <2>1 DEF Load, LoadConfig
    <3>3. Config \notin Overlap => path[Config] \in TextsOf(Config)
      BY <3>1, ConfigAssumption DEF SaveInv, WholeFile, IsWhole
    <3>4. Config \notin Overlap => Merge(path[Config], job[p].text) = job[p].text
      BY <3>1, <3>3, MergeWhole
    <3>5. job[p] \in [file : Files \cup {None}, text : Content]
      OBVIOUS
    <3>6. job'[p].file = job[p].file
      BY <3>2, <3>5
    <3>7. Config \notin Overlap => job'[p] = job[p]
      BY <3>2, <3>4, <3>5
    <3> QED
      BY <3>1, <3>6, <3>7
  <2> QED
    BY <2>1 DEF Open, Write, ReloadRead, ReloadInstall
<1>3. InFlight(p)' = InFlight(p)
  <2>1. \/ {pc[p], pc'[p]} \subseteq {"load", "open", "write", "rename"}
        \/ {pc[p], pc'[p]} \subseteq {"lock", "install", "answer"}
    BY DEF Load, Open, Write, ReloadRead, ReloadInstall, Step
  <2> QED
    BY <1>2, <2>1 DEF InFlight
<1>4. ReqOf' = ReqOf
  BY <1>1, <1>3, RequestsAfter DEF ReqOf
<1>5. RegOf' = RegOf
  <2>1. \A f \in Calm : path'[f] = path[f]
    <3>1. CASE Write(p)
      <4>1. pc[p] = "write"
        BY <3>1 DEF Write, Step
      <4>2. CASE job[p].file \in Overlap
        BY <3>1, <4>2 DEF Write, fileVars, Calm
      <4>3. CASE job[p].file \notin Overlap
        BY <3>1, <4>1, <4>3, ConfigAssumption DEF Write, fileVars, SaveInv, FileInv
      <4> QED
        BY <4>2, <4>3
    <3> QED
      BY <3>1 DEF Load, Open, ReloadRead, ReloadInstall
  <2> QED
    BY <2>1 DEF RegOf
<1> QED
  BY <1>1, <1>4, <1>5, Stutter

(* A stop, the operator and a start.                                        *)
LEMMA EngineStep ==
    ASSUME TypeOK, SaveInv, Fire \/ Shutdown \/ Exit \/ Boot \/ \E f \in Files : Edit(f)
    PROVE  [R!RNext]_(R!regVars)
<1> USE DEF TypeOK
<1>1. CASE Fire \/ Shutdown
  <2>1. UNCHANGED <<path, pc, job>> /\ Down' = Down
    BY <1>1 DEF Fire, Shutdown, Down
  <2> QED
    BY <2>1, Stutter DEF RegOf, ReqOf, InFlight
<1>2. CASE Exit
  <2>1. /\ ReqOf' = [p \in Writers |-> [at |-> "idle"]]
        /\ RegOf' = RegOf /\ Down'
    BY <1>2 DEF Exit, ReqOf, InFlight, RegOf, Down, fileVars
  <2>2. R!Cut
    BY <2>1 DEF R!Cut, R!Idle, ReqOf, RegOf, Calm, Down
  <2> QED
    BY <2>2 DEF R!RNext
<1>3. ASSUME NEW f \in Files, Edit(f) PROVE [R!RNext]_(R!regVars)
  <2>1. PICK c \in TextsOf(f) \cup {Absent} : path' = [path EXCEPT ![f] = c]
    BY <1>3 DEF Edit
  <2>2. ReqOf' = ReqOf /\ Down /\ Down' = Down
    BY <1>3 DEF Edit, ReqOf, InFlight, Down
  <2>3. CASE f \in Overlap
    <3>1. RegOf' = RegOf
      BY <2>1, <2>3 DEF RegOf, Calm
    <3> QED
      BY <2>2, <3>1, Stutter
  <2>4. CASE f \notin Overlap
    <3>1. RegOf' = [RegOf EXCEPT ![f] = c]
      BY <2>1, <2>4 DEF RegOf, Calm
    <3>2. c \in Texts \cup {Absent}
      BY WholeTexts
    <3>3. R!Edit(f)
      BY <2>2, <3>1, <3>2 DEF R!Edit, ReqOf, RegOf, Calm, Down
    <3> QED
      BY <2>4, <3>3 DEF R!RNext
  <2> QED
    BY <2>3, <2>4
<1>4. CASE Boot
  <2>1. ReqOf' = ReqOf /\ Down /\ ~Down'
    BY <1>4 DEF Boot, ReqOf, InFlight, Down
  <2>2. \A f \in Calm :
           /\ path[f] # Absent => path'[f] = path[f]
           /\ path'[f] \in Texts \cup {Absent}
    BY <1>4, Constants, WholeTexts DEF Boot, Calm, SaveInv, WholeFile, IsWhole
  <2>3. /\ RegOf' \in [Calm -> Texts \cup {Absent}]
        /\ \A f \in Calm : RegOf[f] # Absent => RegOf'[f] = RegOf[f]
    <3>1. RegOf = [f \in Calm |-> path[f]] /\ RegOf' = [f \in Calm |-> path'[f]]
      BY DEF RegOf, Calm
    <3> HIDE DEF RegOf, Calm
    <3>2. RegOf' \in [Calm -> Texts \cup {Absent}]
      BY <2>2, <3>1
    <3>3. \A f \in Calm : RegOf[f] # Absent => RegOf'[f] = RegOf[f]
      BY <2>2, <3>1
    <3> QED
      BY <3>2, <3>3
  <2>4. R!Boot
    BY <2>1, <2>3 DEF R!Boot, ReqOf, RegOf, Calm, Down
  <2> QED
    BY <2>4 DEF R!RNext
<1> QED
  BY <1>1, <1>2, <1>3, <1>4

LEMMA HandlerStep ==
    ASSUME TypeOK, SaveInv, NEW p \in Writers,
           \/ \E b \in Bodies : AskConfig(p, b)
           \/ \E f \in Files \ {Config}, b \in Bodies \cup Lists : AskFile(p, f, b)
           \/ \E f \in Removable : AskRemove(p, f)
           \/ Handle(p) \/ Fail(p)
    PROVE  [R!RNext]_(R!regVars)
<1> USE DEF TypeOK
<1>1. ASSUME NEW b \in Bodies, AskConfig(p, b) PROVE [R!RNext]_(R!regVars)
  <2>1. Whole(b) \in TextsOf(Config) \cup {Absent} /\ Config \in Files
    BY RequestTexts, ConfigAssumption
  <2> QED
    BY <1>1, <2>1, AskStep DEF AskConfig, Step
<1>2. ASSUME NEW f \in Files \ {Config}, NEW b \in Bodies \cup Lists, AskFile(p, f, b)
      PROVE  [R!RNext]_(R!regVars)
  <2>1. Whole(b) \in TextsOf(f) \cup {Absent}
    BY <1>2, RequestTexts DEF AskFile, ValidBody
  <2> QED
    BY <1>2, <2>1, AskStep DEF AskFile, Step
<1>3. ASSUME NEW f \in Removable, AskRemove(p, f) PROVE [R!RNext]_(R!regVars)
  BY <1>3, AskStep, ConfigAssumption DEF AskRemove, Step
<1>4. CASE Rename(p)
  <2>1. pc[p] = "rename" /\ pc'[p] \in {"lock", "answer"} /\ job[p].file \in Files
    BY <1>4 DEF Rename, Step, SaveInv, JobInv
  <2>2. /\ \A f \in Files \ {job[p].file} : path'[f] = path[f]
        /\ job[p].file \notin Overlap => path'[job[p].file] = job[p].text
    BY <1>4, <2>1 DEF Rename, SaveInv, FileInv
  <2> QED
    BY <1>4, <2>1, <2>2, TakeStep DEF Rename, Step
<1>5. CASE Remove(p)
  <2>1. pc[p] = "remove" /\ pc'[p] = "answer" /\ job[p].file \in Files /\ job[p].text = Absent
    BY <1>5, ConfigAssumption DEF Remove, Step, SaveInv, JobInv
  <2>2. /\ \A f \in Files \ {job[p].file} : path'[f] = path[f]
        /\ path'[job[p].file] = job[p].text
    BY <1>5, <2>1 DEF Remove
  <2> QED
    BY <1>5, <2>1, <2>2, TakeStep DEF Remove, Step
<1>6. CASE Reject(p) \/ RenameMissing(p) \/ Fail(p) \/ Answer(p)
  <2>1. UNCHANGED <<path, engine>>
    BY <1>6 DEF Reject, RenameMissing, Fail, Answer
  <2>2. \E at \in {"load", "open", "write", "rename", "answer"} : Return(p, at)
    BY <1>6 DEF Reject, RenameMissing, Fail, Answer
  <2> QED
    BY <2>1, <2>2, ReturnStep
<1> QED
  BY <1>1, <1>2, <1>3, <1>4, <1>5, <1>6, SilentStep DEF Handle

(* Every save takes effect at one instant between its request and its       *)
(* answer, with the text of that request, or not at all (SavesAreAtomic),   *)
(* for the files whose saves do not overlap: writeFileAtomic and Save.      *)
THEOREM SavesTakeEffectAtOnce == Spec => SavesAreAtomic
<1>1. Init => R!RInit
  <2> SUFFICES ASSUME Init PROVE R!RInit
    OBVIOUS
  <2>1. \A f \in Files : Found(f) \in Texts \cup {Absent}
    BY Constants, WholeTexts
  <2>2. RegOf \in [Calm -> Texts \cup {Absent}]
    BY <2>1 DEF Init, RegOf, Calm
  <2>3. ReqOf = [p \in Writers |-> [at |-> "idle"]] /\ Down = FALSE
    BY DEF Init, ReqOf, InFlight, Down
  <2> QED
    BY <2>2, <2>3 DEF R!RInit, R!Idle, RegOf, ReqOf, Calm, Down
<1>2. TypeOK /\ SaveInv /\ [Next]_vars => [R!RNext]_(R!regVars)
  <2> SUFFICES ASSUME TypeOK, SaveInv, [Next]_vars PROVE [R!RNext]_(R!regVars)
    OBVIOUS
  <2>1. CASE UNCHANGED vars
    <3>1. UNCHANGED <<RegOf, ReqOf, Down>>
      BY <2>1 DEF vars, RegOf, ReqOf, Down, InFlight
    <3> QED
      BY <3>1, Stutter
  <2> QED
    BY <2>1, HandlerStep, EngineStep DEF Next
<1>3. Spec => [](TypeOK /\ SaveInv)
  BY ConfigTypeCorrect, SaveStart, SaveStep, PTL DEF Spec
<1> QED
  BY <1>1, <1>2, <1>3, PTL DEF Spec, SavesAreAtomic, R!RSpec
=============================================================================
