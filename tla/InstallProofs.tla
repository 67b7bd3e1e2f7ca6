---- MODULE InstallProofs ----
(***************************************************************************)
(* Proofs about Install, for any files the administrator may write, any    *)
(* answers given to the script, and any width of integers.                 *)
(***************************************************************************)
EXTENDS Install, TLAPS

---------------------------------------------------------------------------
(* The configuration.                                                      *)

\* What newRunner accepts is what the components rely on, and its durations are what
\* was written or have overflown: Validate looks at the normalized texts, which
\* another trim leaves alone, and at the wrapped durations (config.go:32-226).
LEMMA AcceptedIsUsable ==
    ASSUME NEW doc, Accepts(doc)
    PROVE  /\ Usable(Load(doc))
           /\ LET d == Written(doc).interval IN Exact(d) \/ Overflows(d)
<1> DEFINE w == Written(doc)
           d == [w EXCEPT !.interval = Duration(@), !.timeout = Duration(@)]
           c == Load(doc)
<1>a. w = [f \in Fields |-> w[f]]
  BY DEF Written
<1>b. /\ d = [f \in Fields |-> d[f]]
      /\ d.interval = Duration(w.interval) /\ d.timeout = Duration(w.timeout)
      /\ d.public = w.public /\ d.private = w.private
      /\ d.bark = w.bark /\ d.pushover = w.pushover
      /\ d.sources = w.sources /\ d.keys = w.keys
      /\ d.key = w.key /\ d.token = w.token /\ d.user = w.user
  <2> HIDE DEF w
  <2> QED
    BY <1>a DEF Fields
<1>1. /\ c.interval = Duration(w.interval) /\ c.timeout = Duration(w.timeout)
      /\ c.public = w.public /\ c.private = w.private
      /\ c.bark = w.bark /\ c.pushover = w.pushover
      /\ c.sources = CleanStringSlice(w.sources) /\ c.keys = CleanStringSlice(w.keys)
      /\ c.key = Trim(w.key) /\ c.token = Trim(w.token) /\ c.user = Trim(w.user)
  <2>1. c = Normalize(d)
    BY DEF Load
  <2> HIDE DEF c, d, w
  <2> QED
    BY <1>b, <2>1 DEF Normalize, Fields
<1>2. Valid(c)
  BY DEF Accepts
<1>3. \A s : Trim(Trim(s)) = Trim(s)
  BY DEF Trim, Blank
<1>4. \A S : "" \notin CleanStringSlice(S) /\ \A s \in CleanStringSlice(S) : Trim(s) = s
  BY <1>3 DEF CleanStringSlice
<1>5. ASSUME c.bark PROVE NormalizedKeys(c) # {}
  <2> HIDE DEF c, w
  <2>1. CASE c.key # ""
    <3>1. Trim(c.key) = c.key
      BY <1>1, <1>3
    <3> QED
      BY <2>1, <3>1 DEF NormalizedKeys
  <2>2. CASE c.keys # {}
    <3>1. PICK s \in c.keys : TRUE
      BY <2>2
    <3>2. s # "" /\ Trim(s) = s
      BY <1>1, <1>4, <3>1
    <3> QED
      BY <3>2 DEF NormalizedKeys
  <2> QED
    BY <1>2, <1>5, <2>1, <2>2 DEF Valid
<1>6. Usable(c)
  BY <1>1, <1>2, <1>3, <1>4, <1>5 DEF Valid, Usable, NotifierNames
<1>7. Exact(w.interval) \/ Overflows(w.interval)
  BY DEF Exact, Overflows, Duration, Wrap
<1> QED
  BY <1>6, <1>7

---------------------------------------------------------------------------
(* The inductive invariant.                                                *)

\* Who is where, with what.
Roles ==
    /\ pc # "idle" => report = "none"
    /\ pc \in Tail => opts.by = "script"
    /\ pc = "start" => opts.by = "daemon"
    /\ pc \in Operations => opts.by \in {"daemon", "script"}
    /\ pc \in UpdateMode => opts.by = "update"
    /\ pc = "download" => opts.by \in {"script", "update"}
    /\ opts.by = "script" => opts.answer \in Answers

\* What each operation of install-daemon leaves behind, for the ones after it.
Reloaded == Tail \cup {"start", "enable"}
UnitWritten == Reloaded \cup {"reload"}
StateOwned == UnitWritten \cup {"unit", "fillunit"}
ConfigThere == StateOwned \cup {"statedir", "stateowner"}
ConfigOpen == ConfigThere \cup {"create", "fill", "own"}
UserThere == ConfigOpen \cup {"configdir", "configowner"}
GroupThere == UserThere \cup {"user"}
Copied == GroupThere \cup {"group"}
Enabled == Tail \cup {"start"}

GotThrough == report \in {"installed", "started", "notstarted"}

Progress ==
    /\ pc \in Copied \/ GotThrough => host.binary = "whole"
    /\ pc \in GroupThere \/ GotThrough => host.group
    /\ pc \in UserThere \/ GotThrough => host.user
    /\ pc \in ConfigOpen \/ GotThrough => host.configDir = "open"
    /\ pc \in ConfigThere \cup {"fill", "own"} \/ GotThrough => config # None
    /\ pc \in StateOwned \/ GotThrough => host.stateDir = "service"
    /\ pc \in UnitWritten \/ GotThrough => host.unit = "whole"
    /\ pc \in Reloaded \/ GotThrough => host.loaded = "whole"
    /\ pc \in Enabled \/ GotThrough => host.enabled

\* The configuration on its way: whose it is, and what it was found to be.
Custody ==
    /\ ErrorLeavesNoHalfConfig
    /\ pc = "own" /\ config.by = "installer" => config.doc = Default
    /\ had => config # None
    /\ pc \in {"fill", "own"} => ~had
    /\ pc = "backup" => opts.force
    /\ pc = "overwrite" /\ had => opts.force /\ (meddled \/ backup = config.doc)
    /\ pc = "render" => config.by = "script"
    /\ pc = "ownrendered" => meddled \/ config.by = "script"
    /\ pc \in {"ownstate", "restart"} => meddled \/ Accepts(config.doc)

\* What runs was accepted, and what was launched needs nothing more than it has.
Serving ==
    /\ service = "running" => Accepts(using)
    /\ pc = "restart" => host.stateFile # "root"
    /\ pc \in {"ownstate", "restart"} =>
         meddled \/ Inside(config.doc) \/ host.elsewhere = "root"
    /\ launched =>
         /\ pc = "idle" /\ Installed
         /\ Accepts(config.doc)
         /\ host.stateFile # "root"
         /\ Inside(config.doc) \/ host.elsewhere = "root"
         /\ config.group => service = "running" /\ using = config.doc

IInv == TypeOK /\ Roles /\ Progress /\ Custody /\ Serving

---------------------------------------------------------------------------
(* Types.                                                                  *)

Choices == [by : {"nobody", "daemon", "script", "update"}, start : BOOLEAN,
            force : BOOLEAN, answer : Answers \cup {NoAnswer}]

RunTyped ==
    /\ pc \in PCs
    /\ opts \in Choices
    /\ had \in BOOLEAN
    /\ report \in Successes \cup {"none", "error"}
    /\ backup \in Docs \cup {None}

HostTyped ==
    /\ host \in Hosts
    /\ config \in Files \cup {None}
    /\ service \in {"stopped", "running", "failed"}
    /\ using \in Docs \cup {None}
    /\ meddled \in BOOLEAN
    /\ launched \in BOOLEAN

LEMMA TypeParts ==
    /\ TypeOK <=> RunTyped /\ HostTyped
    /\ TypeOK' <=> RunTyped' /\ HostTyped'
BY DEF TypeOK, RunTyped, HostTyped, Choices

LEMMA FinishType ==
    ASSUME NEW r \in Successes \cup {"none", "error"}, Finish(r)
    PROVE  RunTyped'
<1>1. NoOptions \in Choices
  BY DEF NoOptions, Options, Choices
<1> QED
  BY <1>1 DEF Finish, RunTyped, PCs

LEMMA ThenType ==
    ASSUME RunTyped, NEW next \in PCs \cup Successes, Then(next)
    PROVE  RunTyped'
<1>1. CASE next \in Successes
  BY <1>1, FinishType DEF Then
<1>2. CASE next \notin Successes
  <2>1. pc' = next /\ UNCHANGED runvars /\ next \in PCs
    BY <1>2 DEF Then
  <2> QED
    BY <2>1 DEF RunTyped, runvars, Choices
<1> QED
  BY <1>1, <1>2

LEMMA FailType ==
    ASSUME Fail
    PROVE  RunTyped'
BY FinishType DEF Fail

LEMMA DoType ==
    ASSUME TypeOK, NEW label, NEW h \in Hosts, NEW next \in PCs \cup Successes,
           Do(label, h, next) \/ Run(label, h, next)
    PROVE  TypeOK'
<1>1. RunTyped'
  BY ThenType, FailType, TypeParts DEF Do, Run
<1>2. HostTyped'
  BY TypeParts DEF Do, Run, HostTyped
<1> QED
  BY <1>1, <1>2, TypeParts

\* An update of one field of a host makes a host.
LEMMA HostUpdates ==
    ASSUME NEW h \in Hosts
    PROVE  /\ \A v \in {"absent", "torn", "whole"} : [h EXCEPT !.binary = v] \in Hosts
           /\ \A v \in BOOLEAN : [h EXCEPT !.group = v] \in Hosts
           /\ \A v \in BOOLEAN : [h EXCEPT !.user = v] \in Hosts
           /\ \A v \in {"absent", "closed", "open"} : [h EXCEPT !.configDir = v] \in Hosts
           /\ \A v \in {"absent", "root", "service"} : [h EXCEPT !.stateDir = v] \in Hosts
           /\ \A v \in {"absent", "root", "service"} : [h EXCEPT !.stateFile = v] \in Hosts
           /\ \A v \in {"absent", "root"} : [h EXCEPT !.elsewhere = v] \in Hosts
           /\ \A v \in {"absent", "torn", "whole"} : [h EXCEPT !.unit = v] \in Hosts
           /\ \A v \in {"absent", "torn", "whole"} : [h EXCEPT !.loaded = v] \in Hosts
           /\ \A v \in BOOLEAN : [h EXCEPT !.enabled = v] \in Hosts
<1>1. \A v \in {"absent", "torn", "whole"} : [h EXCEPT !.binary = v] \in Hosts
  BY DEF Hosts
<1>2. \A v \in BOOLEAN : [h EXCEPT !.group = v] \in Hosts
  BY DEF Hosts
<1>3. \A v \in BOOLEAN : [h EXCEPT !.user = v] \in Hosts
  BY DEF Hosts
<1>4. \A v \in {"absent", "closed", "open"} : [h EXCEPT !.configDir = v] \in Hosts
  BY DEF Hosts
<1>5. \A v \in {"absent", "root", "service"} : [h EXCEPT !.stateDir = v] \in Hosts
  BY DEF Hosts
<1>6. \A v \in {"absent", "root", "service"} : [h EXCEPT !.stateFile = v] \in Hosts
  BY DEF Hosts
<1>7. \A v \in {"absent", "torn", "whole"} : [h EXCEPT !.unit = v] \in Hosts
  BY DEF Hosts
<1>8. \A v \in {"absent", "torn", "whole"} : [h EXCEPT !.loaded = v] \in Hosts
  BY DEF Hosts
<1>9. \A v \in BOOLEAN : [h EXCEPT !.enabled = v] \in Hosts
  BY DEF Hosts
<1>10. \A v \in {"absent", "root"} : [h EXCEPT !.elsewhere = v] \in Hosts
  BY DEF Hosts
<1> QED
  BY <1>1, <1>2, <1>3, <1>4, <1>5, <1>6, <1>7, <1>8, <1>9, <1>10

\* The values the operations give it.
LEMMA HostFields ==
    ASSUME host \in Hosts
    PROVE  /\ host.unit \in {"absent", "torn", "whole"}
           /\ host.configDir \in {"absent", "closed", "open"}
           /\ host.stateDir \in {"absent", "root", "service"}
           /\ host.stateFile \in {"absent", "root", "service"}
BY DEF Hosts

LEMMA NextLabel == AfterEnable \in PCs \cup Successes
BY DEF AfterEnable, PCs, Operations, Tail, UpdateMode, Successes

\* What the operations make of the configuration are files.
LEMMA FileUpdates ==
    /\ \A doc \in Docs, group \in BOOLEAN,
          by \in {"admin", "installer", "script", "abandoned"} : File(doc, group, by) \in Files
    /\ \A f \in Files :
         /\ \A doc \in Docs : [f EXCEPT !.doc = doc] \in Files
         /\ [f EXCEPT !.group = TRUE] \in Files
         /\ [f EXCEPT !.by = "abandoned"] \in Files
         /\ f.group \in BOOLEAN /\ f.doc \in Docs
BY DEF Files, File

\* Where the operations need a configuration, there is one.
ConfigHere == ConfigThere \cup {"fill", "own"}

LEMMA RenderedDocs ==
    /\ Default \in Docs /\ Garbage \in Docs
    /\ \A a \in Answers : Rendered(a) \in Docs
    /\ AdminDocs \subseteq Docs
BY DEF Docs

LEMMA DiesType ==
    ASSUME TypeOK, Progress, Dies
    PROVE  RunTyped' /\ config' \in Files \cup {None}
<1>1. RunTyped'
  BY FinishType DEF Dies
<1>2. pc \in {"fill", "own"} => config \in Files
  BY DEF TypeOK, Progress
<1> QED
  BY <1>1, <1>2, FileUpdates DEF Dies, TypeOK

LEMMA ExecuteType ==
    ASSUME TypeOK, Execute
    PROVE  service' \in {"stopped", "running", "failed"} /\ using' \in Docs \cup {None}
BY FileUpdates DEF TypeOK, Execute, Works

\* None is no file.
LEMMA NotNone ==
    ASSUME TypeOK
    PROVE  /\ \A doc \in Docs, group \in BOOLEAN,
                 by \in {"admin", "installer", "script", "abandoned"} :
               File(doc, group, by) # None
           /\ config # None =>
                /\ \A doc \in Docs : [config EXCEPT !.doc = doc] # None
                /\ [config EXCEPT !.group = TRUE] # None
                /\ [config EXCEPT !.by = "abandoned"] # None
<1>1. config # None => config \in Files
  BY DEF TypeOK
<1>2. \A f \in Files : f # None
  BY InstallAssumption
<1>3. \A doc \in Docs, group \in BOOLEAN,
         by \in {"admin", "installer", "script", "abandoned"} : File(doc, group, by) # None
  BY <1>2, FileUpdates
<1>4. ASSUME config # None
      PROVE  /\ \A doc \in Docs : [config EXCEPT !.doc = doc] # None
             /\ [config EXCEPT !.group = TRUE] # None
             /\ [config EXCEPT !.by = "abandoned"] # None
  BY <1>1, <1>2, <1>4, FileUpdates
<1> QED
  BY <1>3, <1>4


\* The fields of the files the operations make.
LEMMA FileFields ==
    /\ \A doc, group, by :
         /\ File(doc, group, by).doc = doc
         /\ File(doc, group, by).group = group
         /\ File(doc, group, by).by = by
    /\ \A f \in Files :
         /\ \A doc : LET g == [f EXCEPT !.doc = doc]
                    IN  g.doc = doc /\ g.group = f.group /\ g.by = f.by
         /\ LET g == [f EXCEPT !.group = TRUE]
            IN  g.doc = f.doc /\ g.group /\ g.by = f.by
         /\ LET g == [f EXCEPT !.by = "abandoned"]
            IN  g.doc = f.doc /\ g.group = f.group /\ g.by = "abandoned"
<1>1. \A doc, group, by :
         /\ File(doc, group, by).doc = doc
         /\ File(doc, group, by).group = group
         /\ File(doc, group, by).by = by
  BY DEF File
<1>2. ASSUME NEW f \in Files, NEW doc
      PROVE  LET g == [f EXCEPT !.doc = doc]
             IN  g.doc = doc /\ g.group = f.group /\ g.by = f.by
  BY DEF Files
<1>3. ASSUME NEW f \in Files
      PROVE  LET g == [f EXCEPT !.group = TRUE]
             IN  g.doc = f.doc /\ g.group /\ g.by = f.by
  BY DEF Files
<1>4. ASSUME NEW f \in Files
      PROVE  LET g == [f EXCEPT !.by = "abandoned"]
             IN  g.doc = f.doc /\ g.group = f.group /\ g.by = "abandoned"
  BY DEF Files
<1> QED
  BY <1>1, <1>2, <1>3, <1>4


\* Every operation keeps the types.
LEMMA TypeStep ==
    ASSUME TypeOK, Roles, Progress, [Next]_vars
    PROVE  TypeOK'
<1> USE TypeParts
<1>1. host \in Hosts /\ RunTyped /\ HostTyped
  BY DEF HostTyped
<1>2. \A l \in {"idle", "copy", "group", "user", "configdir", "configowner", "create",
              "fill", "own", "statedir", "stateowner", "unit", "fillunit", "reload",
              "enable", "start", "download", "backup", "overwrite", "render",
              "ownrendered", "validate", "ownstate", "restart", "replace", "fillbinary",
              "query", "restartactive", "installed", "started", "notstarted", "updated"
             } : l \in PCs \cup Successes
  BY DEF PCs, Operations, Tail, UpdateMode, Successes
<1>a. pc \in Tail \cup {"fill", "own"} => config \in Files
  BY <1>1 DEF HostTyped, Progress, ConfigThere, StateOwned, UnitWritten, Reloaded
<1>c. "overwrite" \in PCs /\ "copy" \in PCs /\ "download" \in PCs
  BY DEF PCs, Operations, Tail
<1>b. pc \in Tail => Rendered(opts.answer) \in Docs
  BY RenderedDocs DEF Roles
<1>3. CASE Copy
  <2>1. [host EXCEPT !.binary = "whole"] \in Hosts
    BY <1>1, HostUpdates, HostFields
  <2> QED
    BY <1>1, <1>2, <2>1, <1>3, DoType, NextLabel DEF Copy
<1>4. CASE EnsureGroup
  <2>1. [host EXCEPT !.group = TRUE] \in Hosts
    BY <1>1, HostUpdates, HostFields
  <2> QED
    BY <1>1, <1>2, <2>1, <1>4, DoType, NextLabel DEF EnsureGroup
<1>5. CASE EnsureUser
  <2>1. [host EXCEPT !.user = TRUE] \in Hosts
    BY <1>1, HostUpdates, HostFields
  <2> QED
    BY <1>1, <1>2, <2>1, <1>5, DoType, NextLabel DEF EnsureUser
<1>6. CASE MakeConfigDir
  <2>1. [host EXCEPT !.configDir = IF @ = "absent" THEN "closed" ELSE @] \in Hosts
    BY <1>1, HostUpdates, HostFields
  <2> QED
    BY <1>1, <1>2, <2>1, <1>6, DoType, NextLabel DEF MakeConfigDir
<1>7. CASE OwnConfigDir
  <2>1. [host EXCEPT !.configDir = "open"] \in Hosts
    BY <1>1, HostUpdates, HostFields
  <2> QED
    BY <1>1, <1>2, <2>1, <1>7, DoType, NextLabel DEF OwnConfigDir
<1>8. CASE MakeStateDir
  <2>1. [host EXCEPT !.stateDir = IF @ = "absent" THEN "root" ELSE @] \in Hosts
    BY <1>1, HostUpdates, HostFields
  <2> QED
    BY <1>1, <1>2, <2>1, <1>8, DoType, NextLabel DEF MakeStateDir
<1>9. CASE OwnStateDir
  <2>1. [host EXCEPT !.stateDir = "service"] \in Hosts
    BY <1>1, HostUpdates, HostFields
  <2> QED
    BY <1>1, <1>2, <2>1, <1>9, DoType, NextLabel DEF OwnStateDir
<1>10. CASE TruncateUnit
  <2>1. [host EXCEPT !.unit = "torn"] \in Hosts
    BY <1>1, HostUpdates, HostFields
  <2> QED
    BY <1>1, <1>2, <2>1, <1>10, DoType, NextLabel DEF TruncateUnit
<1>11. CASE FillUnit
  <2>1. [host EXCEPT !.unit = "whole"] \in Hosts
    BY <1>1, HostUpdates, HostFields
  <2> QED
    BY <1>1, <1>2, <2>1, <1>11, DoType, NextLabel DEF FillUnit
<1>12. CASE Reload
  <2>1. [host EXCEPT !.loaded = host.unit] \in Hosts
    BY <1>1, HostUpdates, HostFields
  <2> QED
    BY <1>1, <1>2, <2>1, <1>12, DoType, NextLabel DEF Reload
<1>13. CASE Enable
  <2>1. [host EXCEPT !.enabled = TRUE] \in Hosts
    BY <1>1, HostUpdates, HostFields
  <2> QED
    BY <1>1, <1>2, <2>1, <1>13, DoType, NextLabel DEF Enable
<1>14. CASE Download
  <2>1. host \in Hosts
    BY <1>1, HostUpdates, HostFields
  <2> QED
    BY <1>1, <1>2, <2>1, <1>14, DoType, NextLabel DEF Download
<1>15. CASE ReplaceBinary
  <2>1. [host EXCEPT !.binary = "torn"] \in Hosts
    BY <1>1, HostUpdates, HostFields
  <2> QED
    BY <1>1, <1>2, <2>1, <1>15, DoType, NextLabel DEF ReplaceBinary
<1>16. CASE FillBinary
  <2>1. [host EXCEPT !.binary = "whole"] \in Hosts
    BY <1>1, HostUpdates, HostFields
  <2> QED
    BY <1>1, <1>2, <2>1, <1>16, DoType, NextLabel DEF FillBinary
<1>17. CASE CreateConfig
  <2>1. RunTyped'
    BY <1>1, <1>2, <1>17, ThenType, FailType DEF CreateConfig
  <2>2. HostTyped'
    BY <1>1, <1>a, <1>b, <1>17, FileUpdates, RenderedDocs DEF CreateConfig, HostTyped, Tail
  <2> QED
    BY <2>1, <2>2
<1>18. CASE FillConfig
  <2>1. RunTyped'
    BY <1>1, <1>2, <1>18, ThenType, FailType DEF FillConfig, RemoveConfig
  <2>2. HostTyped'
    BY <1>1, <1>a, <1>b, <1>18, FileUpdates, RenderedDocs DEF FillConfig,
       RemoveConfig, HostTyped, Tail
  <2> QED
    BY <2>1, <2>2
<1>19. CASE OwnConfig
  <2>1. RunTyped'
    BY <1>1, <1>2, <1>19, ThenType, FailType DEF OwnConfig, RemoveConfig
  <2>2. HostTyped'
    BY <1>1, <1>a, <1>b, <1>19, FileUpdates, RenderedDocs DEF OwnConfig, RemoveConfig,
       HostTyped, Tail
  <2> QED
    BY <2>1, <2>2
<1>20. CASE Start
  <2>1. RunTyped'
    BY <1>1, <1>2, <1>20, ThenType, FailType DEF Start
  <2>2. HostTyped'
    BY <1>1, <1>20, ExecuteType DEF Start, HostTyped
  <2> QED
    BY <2>1, <2>2
<1>21. CASE Overwrite
  <2>1. RunTyped'
    BY <1>1, <1>2, <1>21, ThenType, FailType DEF Overwrite
  <2>2. HostTyped'
    BY <1>1, <1>a, <1>b, <1>21, FileUpdates, RenderedDocs DEF Overwrite, HostTyped, Tail
  <2> QED
    BY <2>1, <2>2
<1>22. CASE Render
  <2>1. RunTyped'
    BY <1>1, <1>2, <1>22, ThenType, FailType DEF Render
  <2>2. HostTyped'
    BY <1>1, <1>a, <1>b, <1>22, FileUpdates, RenderedDocs DEF Render, HostTyped, Tail
  <2> QED
    BY <2>1, <2>2
<1>23. CASE OwnRendered
  <2>1. RunTyped'
    BY <1>1, <1>2, <1>23, ThenType, FailType DEF OwnRendered
  <2>2. HostTyped'
    BY <1>1, <1>a, <1>b, <1>23, FileUpdates, RenderedDocs DEF OwnRendered, HostTyped, Tail
  <2> QED
    BY <2>1, <2>2
<1>24. CASE Query
  <2>1. RunTyped'
    BY <1>1, <1>2, <1>24, ThenType, FailType DEF Query
  <2>2. HostTyped'
    BY <1>1, <1>a, <1>b, <1>24, FileUpdates, RenderedDocs DEF Query, HostTyped, Tail
  <2> QED
    BY <2>1, <2>2
<1>25. CASE RestartActive
  <2>1. RunTyped'
    BY <1>1, <1>2, <1>25, ThenType, FailType DEF RestartActive
  <2>2. HostTyped'
    BY <1>1, <1>25, ExecuteType DEF RestartActive, HostTyped
  <2> QED
    BY <2>1, <2>2
<1>26. CASE Restart
  <2>1. RunTyped'
    BY <1>1, <1>2, <1>26, ThenType, FailType DEF Restart
  <2>2. HostTyped'
    BY <1>1, <1>26, ExecuteType DEF Restart, HostTyped
  <2> QED
    BY <2>1, <2>2
<1>27. CASE Validate
  <2>1. RunTyped'
    BY <1>1, <1>2, <1>27, ThenType, FailType DEF Validate
  <2>2. /\ host' \in {host, SavedByRoot(config.doc)}
        /\ UNCHANGED <<config, service, using, meddled, launched>>
    BY <1>27 DEF Validate
  <2>3. SavedByRoot(config.doc) \in Hosts
    BY <1>1, HostUpdates DEF SavedByRoot
  <2>4. HostTyped'
    BY <1>1, <2>2, <2>3 DEF HostTyped
  <2> QED
    BY <2>1, <2>4
<1>28. CASE OwnState
  <2> DEFINE half == [host EXCEPT !.stateDir = "service"]
                owned == [host EXCEPT !.stateDir = "service",
                                      !.stateFile = IF @ = "absent" THEN @ ELSE "service"]
  <2>1. owned \in Hosts
    BY <1>1 DEF Hosts
  <2>2. host' \in {host, owned} /\ UNCHANGED <<config, service, using, meddled, launched>>
    BY <1>28 DEF OwnState
  <2>3. RunTyped'
    BY <1>1, <1>2, <1>28, ThenType, FailType DEF OwnState
  <2>4. HostTyped'
    BY <1>1, <2>1, <2>2 DEF HostTyped
  <2> QED
    BY <2>3, <2>4
<1>29. CASE Backup
  <2>1. RunTyped'
    BY <1>1, <1>c, <1>a, <1>29, FailType, FileUpdates DEF Backup, RunTyped, Tail
  <2>2. HostTyped'
    BY <1>1, <1>a, <1>b, <1>29, FileUpdates, RenderedDocs DEF Backup, HostTyped, Tail
  <2> QED
    BY <2>1, <2>2
<1>30. CASE BeginDaemon
  <2>1. RunTyped'
    BY <1>1, <1>c, <1>30 DEF BeginDaemon, Options, RunTyped, Choices
  <2>2. HostTyped'
    BY <1>1, <1>a, <1>b, <1>30, FileUpdates, RenderedDocs DEF BeginDaemon, HostTyped, Tail
  <2> QED
    BY <2>1, <2>2
<1>31. CASE BeginScript
  <2>1. opts' \in Choices
    <3>1. PICK start \in BOOLEAN :
             IF host.binary = "whole" THEN opts' = Options("update", start, FALSE, NoAnswer)
             ELSE \E force \in BOOLEAN, a \in Answers :
                    opts' = Options("script", start, force, a)
      BY <1>31 DEF BeginScript
    <3>2. \A by \in {"update", "script"}, force \in BOOLEAN, a \in Answers \cup {NoAnswer} :
            Options(by, start, force, a) \in Choices
      BY DEF Options, Choices
    <3>3. CASE host.binary = "whole"
      BY <3>1, <3>2, <3>3
    <3>4. CASE host.binary # "whole"
      <4>1. PICK force \in BOOLEAN, a \in Answers : opts' = Options("script", start, force, a)
        BY <3>1, <3>4
      <4> QED
        BY <3>2, <4>1
    <3> QED
      BY <3>3, <3>4
  <2>2. RunTyped'
    BY <1>1, <1>c, <1>31, <2>1 DEF BeginScript, RunTyped
  <2>3. HostTyped'
    BY <1>1, <1>31 DEF BeginScript, HostTyped
  <2> QED
    BY <2>2, <2>3
<1>32. CASE AutoRestart
  <2>1. RunTyped'
    BY <1>1, <1>32 DEF AutoRestart, RunTyped, runvars
  <2>2. HostTyped'
    BY <1>1, <1>32, ExecuteType DEF AutoRestart, HostTyped
  <2> QED
    BY <2>1, <2>2
<1>33. CASE DaemonSaves
  <2>1. RunTyped'
    BY <1>1, <1>33 DEF DaemonSaves, RunTyped, runvars
  <2>2. HostTyped'
    BY <1>1, <1>33, HostUpdates, HostFields DEF DaemonSaves, HostTyped
  <2> QED
    BY <2>1, <2>2
<1>34. CASE AdminStarts
  <2>1. RunTyped'
    BY <1>1, <1>34 DEF AdminStarts, RunTyped, runvars
  <2>2. HostTyped'
    BY <1>1, <1>34, HostUpdates, ExecuteType DEF AdminStarts, HostTyped
  <2> QED
    BY <2>1, <2>2
<1>35. CASE AdminStops
  <2>1. RunTyped'
    BY <1>1, <1>35 DEF AdminStops, RunTyped, runvars
  <2>2. HostTyped'
    BY <1>1, <1>a, <1>b, <1>35, FileUpdates, RenderedDocs DEF AdminStops, HostTyped, Tail
  <2> QED
    BY <2>1, <2>2
<1>36. CASE EditConfig
  <2>1. RunTyped'
    BY <1>1, <1>36 DEF EditConfig, RunTyped, runvars
  <2>2. config' \in Files
    <3>1. PICK doc \in AdminDocs, group \in BOOLEAN :
             config' = File(doc, IF config = None THEN group ELSE config.group, "admin")
      BY <1>36 DEF EditConfig
    <3>2. (IF config = None THEN group ELSE config.group) \in BOOLEAN
      BY <1>1, FileUpdates DEF HostTyped
    <3> QED
      BY <3>1, <3>2, FileUpdates, RenderedDocs
  <2>3. host' \in Hosts
    BY <1>1, <1>36, HostUpdates, HostFields DEF EditConfig
  <2>4. HostTyped'
    BY <1>1, <1>36, <2>2, <2>3 DEF EditConfig, HostTyped
  <2> QED
    BY <2>1, <2>4
<1>37. CASE Kill
  <2>1. RunTyped'
    BY <1>37, DiesType DEF Kill
  <2>2. HostTyped'
    BY <1>1, <1>37, DiesType DEF Kill, HostTyped
  <2> QED
    BY <2>1, <2>2
<1>38. CASE Reboot
  <2>1. RunTyped'
    BY <1>38, DiesType DEF Reboot
  <2>2. HostTyped'
    BY <1>1, <1>38, DiesType, ExecuteType, HostUpdates, HostFields DEF Reboot, HostTyped
  <2> QED
    BY <2>1, <2>2
<1>39. CASE UNCHANGED vars
  BY <1>1, <1>39 DEF vars, runvars, RunTyped, HostTyped
<1> QED
  BY <1>3, <1>4, <1>5, <1>6, <1>7, <1>8, <1>9, <1>10, <1>11, <1>12, <1>13, <1>14,
     <1>15, <1>16, <1>17, <1>18, <1>19, <1>20, <1>21, <1>22, <1>23, <1>24, <1>25,
     <1>26, <1>27, <1>28, <1>29, <1>30, <1>31, <1>32, <1>33, <1>34, <1>35, <1>36,
     <1>37, <1>38, <1>39 DEF Next

\* The roles are kept.
LEMMA RolesStep ==
    ASSUME TypeOK, Roles, [Next]_vars
    PROVE  Roles'
<1> USE DEF Then, Finish, Fail, runvars, Successes, NoOptions, Options, Roles, PCs,
           Operations, Tail, UpdateMode
<1>1. CASE BeginDaemon
  BY <1>1 DEF BeginDaemon, Options
<1>2. CASE Copy
  BY <1>2 DEF Copy, Do
<1>3. CASE EnsureGroup
  BY <1>3 DEF EnsureGroup, Run
<1>4. CASE EnsureUser
  BY <1>4 DEF EnsureUser, Run
<1>5. CASE MakeConfigDir
  BY <1>5 DEF MakeConfigDir, Do
<1>6. CASE OwnConfigDir
  BY <1>6 DEF OwnConfigDir, Run
<1>7. CASE CreateConfig
  BY <1>7 DEF CreateConfig, File
<1>8. CASE FillConfig
  BY <1>8 DEF FillConfig, RemoveConfig, File
<1>9. CASE OwnConfig
  BY <1>9 DEF OwnConfig, RemoveConfig, File
<1>10. CASE MakeStateDir
  BY <1>10 DEF MakeStateDir, Do
<1>11. CASE OwnStateDir
  BY <1>11 DEF OwnStateDir, Run
<1>12. CASE TruncateUnit
  BY <1>12 DEF TruncateUnit, Do
<1>13. CASE FillUnit
  BY <1>13 DEF FillUnit, Do
<1>14. CASE Reload
  BY <1>14 DEF Reload, Run
<1>15. CASE Enable
  BY <1>15 DEF Enable, Run, AfterEnable
<1>16. CASE Start
  BY <1>16 DEF Start, Execute, Works, UnitSeen
<1>17. CASE BeginScript
  BY <1>17 DEF BeginScript, Options
<1>18. CASE Download
  BY <1>18 DEF Download, Do
<1>19. CASE Backup
  BY <1>19 DEF Backup
<1>20. CASE Overwrite
  BY <1>20 DEF Overwrite, File
<1>21. CASE Render
  BY <1>21 DEF Render
<1>22. CASE OwnRendered
  BY <1>22 DEF OwnRendered
<1>23. CASE Validate
  BY <1>23 DEF Validate
<1>24. CASE OwnState
  BY <1>24 DEF OwnState
<1>25. CASE Restart
  BY <1>25 DEF Restart, Execute, Works, UnitSeen
<1>26. CASE ReplaceBinary
  BY <1>26 DEF ReplaceBinary, Do
<1>27. CASE FillBinary
  BY <1>27 DEF FillBinary, Do
<1>28. CASE Query
  BY <1>28 DEF Query
<1>29. CASE RestartActive
  BY <1>29 DEF RestartActive, Execute, Works, UnitSeen
<1>30. CASE AutoRestart
  BY <1>30 DEF AutoRestart, Execute, Works
<1>31. CASE DaemonSaves
  BY <1>31 DEF DaemonSaves
<1>32. CASE AdminStarts
  BY <1>32 DEF AdminStarts, Execute, Works, UnitSeen
<1>33. CASE AdminStops
  BY <1>33 DEF AdminStops
<1>34. CASE EditConfig
  BY <1>34 DEF EditConfig, File
<1>35. CASE Kill
  BY <1>35 DEF Kill, Dies
<1>36. CASE Reboot
  BY <1>36 DEF Reboot, Dies, Execute, Works
<1>37. CASE UNCHANGED vars
  BY <1>37 DEF vars
<1> QED
  BY <1>1, <1>2, <1>3, <1>4, <1>5, <1>6, <1>7, <1>8, <1>9, <1>10, <1>11, <1>12, <1>13,
     <1>14, <1>15, <1>16, <1>17, <1>18, <1>19, <1>20, <1>21, <1>22, <1>23, <1>24,
     <1>25, <1>26, <1>27, <1>28, <1>29, <1>30, <1>31, <1>32, <1>33, <1>34, <1>35,
     <1>36, <1>37 DEF Next

\* What one operation sets up stays for the ones after it.
LEMMA ProgressStep ==
    ASSUME TypeOK, Roles, Progress, [Next]_vars
    PROVE  Progress'
<1> USE DEF PCs, Operations, Tail, UpdateMode, Reloaded, UnitWritten, StateOwned,
           ConfigThere, ConfigOpen, UserThere, GroupThere, Copied, Enabled, GotThrough
<1>0. host \in Hosts
  BY DEF TypeOK
<1>a. pc # "idle" => report = "none"
  BY DEF Roles
<1>1. CASE BeginDaemon
  BY <1>1, <1>a DEF BeginDaemon, Options, Then, Finish, Fail, runvars, Successes, Progress
<1>2. CASE Copy
  <2> DEFINE h == [host EXCEPT !.binary = "whole"]
  <2>1. /\ h.binary = "whole"
        /\ h.group = host.group /\ h.user = host.user /\ h.configDir = host.configDir
        /\ h.stateDir = host.stateDir /\ h.stateFile = host.stateFile /\ h.unit = host.unit
        /\ h.loaded = host.loaded /\ h.enabled = host.enabled
    BY <1>0 DEF Hosts
  <2>2. /\ pc = "copy" /\ config' = config
        /\ \/ host' = h /\ pc' = "group" /\ report' = report
           \/ host' \in {h, host} /\ pc' = "idle" /\ report' = "error"
    BY <1>2 DEF Copy, Do, Then, Finish, Fail, runvars, Successes
  <2> HIDE DEF h
  <2> QED
    BY <1>a, <2>1, <2>2 DEF Progress
<1>3. CASE EnsureGroup
  <2> DEFINE h == [host EXCEPT !.group = TRUE]
  <2>1. /\ h.group = TRUE
        /\ h.binary = host.binary /\ h.user = host.user /\ h.configDir = host.configDir
        /\ h.stateDir = host.stateDir /\ h.stateFile = host.stateFile /\ h.unit = host.unit
        /\ h.loaded = host.loaded /\ h.enabled = host.enabled
    BY <1>0 DEF Hosts
  <2>2. /\ pc = "group" /\ config' = config
        /\ \/ host' = h /\ pc' = "user" /\ report' = report
           \/ host' \in {h, host} /\ pc' = "idle" /\ report' = "error"
    BY <1>3 DEF EnsureGroup, Run, Then, Finish, Fail, runvars, Successes
  <2> HIDE DEF h
  <2> QED
    BY <1>a, <2>1, <2>2 DEF Progress
<1>4. CASE EnsureUser
  <2> DEFINE h == [host EXCEPT !.user = TRUE]
  <2>1. /\ h.user = TRUE
        /\ h.binary = host.binary /\ h.group = host.group /\ h.configDir = host.configDir
        /\ h.stateDir = host.stateDir /\ h.stateFile = host.stateFile /\ h.unit = host.unit
        /\ h.loaded = host.loaded /\ h.enabled = host.enabled
    BY <1>0 DEF Hosts
  <2>2. /\ pc = "user" /\ config' = config
        /\ \/ host' = h /\ pc' = "configdir" /\ report' = report
           \/ host' \in {h, host} /\ pc' = "idle" /\ report' = "error"
    BY <1>4 DEF EnsureUser, Run, Then, Finish, Fail, runvars, Successes
  <2> HIDE DEF h
  <2> QED
    BY <1>a, <2>1, <2>2 DEF Progress
<1>5. CASE MakeConfigDir
  <2> DEFINE h == [host EXCEPT !.configDir = IF @ = "absent" THEN "closed" ELSE @]
  <2>1. /\ h.configDir = (IF host.configDir = "absent" THEN "closed" ELSE host.configDir)
        /\ h.binary = host.binary /\ h.group = host.group /\ h.user = host.user
        /\ h.stateDir = host.stateDir /\ h.stateFile = host.stateFile /\ h.unit = host.unit
        /\ h.loaded = host.loaded /\ h.enabled = host.enabled
    BY <1>0 DEF Hosts
  <2>2. /\ pc = "configdir" /\ config' = config
        /\ \/ host' = h /\ pc' = "configowner" /\ report' = report
           \/ host' \in {h, host} /\ pc' = "idle" /\ report' = "error"
    BY <1>5 DEF MakeConfigDir, Do, Then, Finish, Fail, runvars, Successes
  <2> HIDE DEF h
  <2> QED
    BY <1>a, <2>1, <2>2 DEF Progress
<1>6. CASE OwnConfigDir
  <2> DEFINE h == [host EXCEPT !.configDir = "open"]
  <2>1. /\ h.configDir = "open"
        /\ h.binary = host.binary /\ h.group = host.group /\ h.user = host.user
        /\ h.stateDir = host.stateDir /\ h.stateFile = host.stateFile /\ h.unit = host.unit
        /\ h.loaded = host.loaded /\ h.enabled = host.enabled
    BY <1>0 DEF Hosts
  <2>2. /\ pc = "configowner" /\ config' = config
        /\ \/ host' = h /\ pc' = "create" /\ report' = report
           \/ host' \in {h, host} /\ pc' = "idle" /\ report' = "error"
    BY <1>6 DEF OwnConfigDir, Run, Then, Finish, Fail, runvars, Successes
  <2> HIDE DEF h
  <2> QED
    BY <1>a, <2>1, <2>2 DEF Progress
<1>7. CASE CreateConfig
  <2>1. /\ pc = "create" /\ host' = host
        /\ \/ config # None /\ config' = config /\ pc' = "statedir" /\ report' = report
           \/ /\ \E doc \in {Garbage, Default} : config' = File(doc, FALSE, "installer")
              /\ pc' = "fill" /\ report' = report
           \/ config' = config /\ pc' = "idle" /\ report' = "error"
    BY <1>7 DEF CreateConfig, Then, Finish, Fail, runvars, Successes
  <2>2. \A doc \in {Garbage, Default} : File(doc, FALSE, "installer") # None
    BY NotNone, RenderedDocs
  <2> QED
    BY <1>a, <2>1, <2>2 DEF Progress
<1>8. CASE FillConfig
  <2>1. /\ pc = "fill" /\ host' = host
        /\ \/ config' = [config EXCEPT !.doc = Default] /\ pc' = "own" /\ report' = report
           \/ pc' = "idle" /\ report' = "error"
    BY <1>8 DEF FillConfig, Then, Finish, Fail, runvars, Successes
  <2>2. config # None
    BY <2>1 DEF Progress
  <2>3. [config EXCEPT !.doc = Default] # None
    BY <2>2, NotNone, RenderedDocs
  <2> QED
    BY <1>a, <2>1, <2>2, <2>3 DEF Progress
<1>9. CASE OwnConfig
  <2>1. /\ pc = "own" /\ host' = host
        /\ \/ config' = [config EXCEPT !.group = TRUE] /\ pc' = "statedir" /\ report' = report
           \/ pc' = "idle" /\ report' = "error"
    BY <1>9 DEF OwnConfig, Then, Finish, Fail, runvars, Successes
  <2>2. config # None
    BY <2>1 DEF Progress
  <2>3. [config EXCEPT !.group = TRUE] # None
    BY <2>2, NotNone, RenderedDocs
  <2> QED
    BY <1>a, <2>1, <2>2, <2>3 DEF Progress
<1>10. CASE MakeStateDir
  <2> DEFINE h == [host EXCEPT !.stateDir = IF @ = "absent" THEN "root" ELSE @]
  <2>1. /\ h.stateDir = (IF host.stateDir = "absent" THEN "root" ELSE host.stateDir)
        /\ h.binary = host.binary /\ h.group = host.group /\ h.user = host.user
        /\ h.configDir = host.configDir /\ h.stateFile = host.stateFile /\ h.unit = host.unit
        /\ h.loaded = host.loaded /\ h.enabled = host.enabled
    BY <1>0 DEF Hosts
  <2>2. /\ pc = "statedir" /\ config' = config
        /\ \/ host' = h /\ pc' = "stateowner" /\ report' = report
           \/ host' \in {h, host} /\ pc' = "idle" /\ report' = "error"
    BY <1>10 DEF MakeStateDir, Do, Then, Finish, Fail, runvars, Successes
  <2> HIDE DEF h
  <2> QED
    BY <1>a, <2>1, <2>2 DEF Progress
<1>11. CASE OwnStateDir
  <2> DEFINE h == [host EXCEPT !.stateDir = "service"]
  <2>1. /\ h.stateDir = "service"
        /\ h.binary = host.binary /\ h.group = host.group /\ h.user = host.user
        /\ h.configDir = host.configDir /\ h.stateFile = host.stateFile /\ h.unit = host.unit
        /\ h.loaded = host.loaded /\ h.enabled = host.enabled
    BY <1>0 DEF Hosts
  <2>2. /\ pc = "stateowner" /\ config' = config
        /\ \/ host' = h /\ pc' = "unit" /\ report' = report
           \/ host' \in {h, host} /\ pc' = "idle" /\ report' = "error"
    BY <1>11 DEF OwnStateDir, Run, Then, Finish, Fail, runvars, Successes
  <2> HIDE DEF h
  <2> QED
    BY <1>a, <2>1, <2>2 DEF Progress
<1>12. CASE TruncateUnit
  <2> DEFINE h == [host EXCEPT !.unit = "torn"]
  <2>1. /\ h.unit = "torn"
        /\ h.binary = host.binary /\ h.group = host.group /\ h.user = host.user
        /\ h.configDir = host.configDir
        /\ h.stateDir = host.stateDir /\ h.stateFile = host.stateFile
        /\ h.loaded = host.loaded /\ h.enabled = host.enabled
    BY <1>0 DEF Hosts
  <2>2. /\ pc = "unit" /\ config' = config
        /\ \/ host' = h /\ pc' = "fillunit" /\ report' = report
           \/ host' \in {h, host} /\ pc' = "idle" /\ report' = "error"
    BY <1>12 DEF TruncateUnit, Do, Then, Finish, Fail, runvars, Successes
  <2> HIDE DEF h
  <2> QED
    BY <1>a, <2>1, <2>2 DEF Progress
<1>13. CASE FillUnit
  <2> DEFINE h == [host EXCEPT !.unit = "whole"]
  <2>1. /\ h.unit = "whole"
        /\ h.binary = host.binary /\ h.group = host.group /\ h.user = host.user
        /\ h.configDir = host.configDir
        /\ h.stateDir = host.stateDir /\ h.stateFile = host.stateFile
        /\ h.loaded = host.loaded /\ h.enabled = host.enabled
    BY <1>0 DEF Hosts
  <2>2. /\ pc = "fillunit" /\ config' = config
        /\ \/ host' = h /\ pc' = "reload" /\ report' = report
           \/ host' \in {h, host} /\ pc' = "idle" /\ report' = "error"
    BY <1>13 DEF FillUnit, Do, Then, Finish, Fail, runvars, Successes
  <2> HIDE DEF h
  <2> QED
    BY <1>a, <2>1, <2>2 DEF Progress
<1>14. CASE Reload
  <2> DEFINE h == [host EXCEPT !.loaded = host.unit]
  <2>1. /\ h.loaded = host.unit
        /\ h.binary = host.binary /\ h.group = host.group /\ h.user = host.user
        /\ h.configDir = host.configDir
        /\ h.stateDir = host.stateDir /\ h.stateFile = host.stateFile
        /\ h.unit = host.unit /\ h.enabled = host.enabled
    BY <1>0 DEF Hosts
  <2>2. /\ pc = "reload" /\ config' = config
        /\ \/ host' = h /\ pc' = "enable" /\ report' = report
           \/ host' \in {h, host} /\ pc' = "idle" /\ report' = "error"
    BY <1>14 DEF Reload, Run, Then, Finish, Fail, runvars, Successes
  <2> HIDE DEF h
  <2> QED
    BY <1>a, <2>1, <2>2 DEF Progress
<1>15. CASE Enable
  <2> DEFINE h == [host EXCEPT !.enabled = TRUE]
  <2>1. /\ h.enabled = TRUE
        /\ h.binary = host.binary /\ h.group = host.group /\ h.user = host.user
        /\ h.configDir = host.configDir
        /\ h.stateDir = host.stateDir /\ h.stateFile = host.stateFile
        /\ h.unit = host.unit /\ h.loaded = host.loaded
    BY <1>0 DEF Hosts
  <2>2. /\ pc = "enable" /\ config' = config
        /\ \/ /\ host' = h
              /\ pc' \in Enabled \/ (pc' = "idle" /\ report' \in {"installed", "notstarted"})
           \/ host' \in {h, host} /\ pc' = "idle" /\ report' = "error"
    BY <1>15 DEF Enable, Run, AfterEnable, Enabled, Tail, Then, Finish, Fail, runvars,
       Successes
  <2> HIDE DEF h
  <2> QED
    BY <1>a, <2>1, <2>2, NotNone, RenderedDocs DEF Progress
<1>16. CASE Start
  BY <1>16, <1>a DEF Start, Execute, Works, UnitSeen, Then, Finish, Fail, runvars,
     Successes, Progress
<1>17. CASE BeginScript
  BY <1>17, <1>a DEF BeginScript, Options, Then, Finish, Fail, runvars, Successes, Progress
<1>18. CASE Download
  BY <1>18, <1>a DEF Download, Do, Then, Finish, Fail, runvars, Successes, Progress
<1>19. CASE Backup
  BY <1>19, <1>a DEF Backup, Then, Finish, Fail, runvars, Successes, Progress
<1>20. CASE Overwrite
  <2>1. /\ pc = "overwrite" /\ host' = host
        /\ \/ /\ \E doc \in {Garbage, Rendered(opts.answer)} :
                   config' = File(doc, FALSE, "script")
              /\ pc' = "render" /\ report' = report
           \/ config' \in {config, None} /\ pc' = "idle" /\ report' = "error"
    BY <1>20 DEF Overwrite, Then, Finish, Fail, runvars, Successes
  <2>2. opts.answer \in Answers
    BY <2>1 DEF Roles, Tail
  <2>3. \A doc \in {Garbage, Rendered(opts.answer)} : File(doc, FALSE, "script") # None
    BY <2>2, NotNone, RenderedDocs
  <2> QED
    BY <1>a, <2>1, <2>3 DEF Progress
<1>21. CASE Render
  <2>1. /\ pc = "render" /\ host' = host
        /\ \/ /\ config' = [config EXCEPT !.doc = Rendered(opts.answer)]
              /\ pc' = "ownrendered" /\ report' = report
           \/ pc' = "idle" /\ report' = "error"
    BY <1>21 DEF Render, Then, Finish, Fail, runvars, Successes
  <2>2. config # None
    BY <2>1 DEF Progress
  <2>3. [config EXCEPT !.doc = Rendered(opts.answer)] # None
    <3>1. Rendered(opts.answer) \in Docs
      BY <2>1, RenderedDocs DEF Roles, Tail
    <3> QED
      BY <2>2, <3>1, NotNone
  <2> QED
    BY <1>a, <2>1, <2>2, <2>3 DEF Progress
<1>22. CASE OwnRendered
  <2>1. /\ pc = "ownrendered" /\ host' = host
        /\ \/ config' = [config EXCEPT !.group = TRUE] /\ pc' = "validate" /\ report' = report
           \/ pc' = "idle" /\ report' = "error"
    BY <1>22 DEF OwnRendered, Then, Finish, Fail, runvars, Successes
  <2>2. config # None
    BY <2>1 DEF Progress
  <2>3. [config EXCEPT !.group = TRUE] # None
    BY <2>2, NotNone, RenderedDocs
  <2> QED
    BY <1>a, <2>1, <2>2, <2>3 DEF Progress
<1>23. CASE Validate
  <2> DEFINE h == SavedByRoot(config.doc)
  <2>1. /\ h.binary = host.binary /\ h.group = host.group /\ h.user = host.user
        /\ h.configDir = host.configDir /\ h.stateDir = host.stateDir /\ h.unit = host.unit
        /\ h.loaded = host.loaded /\ h.enabled = host.enabled
    BY <1>0 DEF Hosts, SavedByRoot
  <2>2. /\ pc = "validate" /\ config' = config /\ host' \in {host, h}
        /\ \/ pc' = "ownstate" /\ report' = report
           \/ pc' = "idle" /\ report' = "notstarted"
    BY <1>23 DEF Validate, Then, Finish, Fail, runvars, Successes
  <2> HIDE DEF h
  <2> QED
    BY <1>a, <2>1, <2>2, NotNone, RenderedDocs DEF Progress
<1>24. CASE OwnState
  <2> DEFINE h == [host EXCEPT !.stateDir = "service",
                               !.stateFile = IF @ = "absent" THEN @ ELSE "service"]
  <2>1. /\ h.stateDir = "service"
        /\ h.binary = host.binary /\ h.group = host.group /\ h.user = host.user
        /\ h.configDir = host.configDir /\ h.unit = host.unit
        /\ h.loaded = host.loaded /\ h.enabled = host.enabled
    BY <1>0 DEF Hosts
  <2>2. /\ pc = "ownstate" /\ config' = config /\ host' \in {host, h}
        /\ \/ pc' = "restart" /\ report' = report
           \/ pc' = "idle" /\ report' \in {"installed", "notstarted"}
    BY <1>24 DEF OwnState, Then, Finish, Fail, runvars, Successes
  <2> HIDE DEF h
  <2> QED
    BY <1>a, <2>1, <2>2 DEF Progress
<1>25. CASE Restart
  BY <1>25, <1>a DEF Restart, Execute, Works, UnitSeen, Then, Finish, Fail, runvars,
     Successes, Progress
<1>26. CASE ReplaceBinary
  BY <1>26, <1>a DEF ReplaceBinary, Do, Then, Finish, Fail, runvars, Successes, Progress
<1>27. CASE FillBinary
  BY <1>27, <1>a DEF FillBinary, Do, Then, Finish, Fail, runvars, Successes, Progress
<1>28. CASE Query
  BY <1>28, <1>a DEF Query, Then, Finish, Fail, runvars, Successes, Progress
<1>29. CASE RestartActive
  BY <1>29, <1>a DEF RestartActive, Execute, Works, UnitSeen, Then, Finish, Fail,
     runvars, Successes, Progress
<1>30. CASE AutoRestart
  BY <1>30, <1>a DEF AutoRestart, Execute, Works, Then, Finish, Fail, runvars,
     Successes, Progress
<1>31. CASE DaemonSaves
  BY <1>31, <1>a DEF DaemonSaves, Then, Finish, Fail, runvars, Successes, Progress
<1>32. CASE AdminStarts
  BY <1>32, <1>a DEF AdminStarts, Execute, Works, UnitSeen, Then, Finish, Fail,
     runvars, Successes, Progress
<1>33. CASE AdminStops
  BY <1>33, <1>a DEF AdminStops, Then, Finish, Fail, runvars, Successes, Progress
<1>34. CASE EditConfig
  <2> DEFINE h == [host EXCEPT !.configDir = IF @ = "absent" THEN "open" ELSE @]
  <2>1. /\ h.configDir = (IF host.configDir = "absent" THEN "open" ELSE host.configDir)
        /\ h.binary = host.binary /\ h.group = host.group /\ h.user = host.user
        /\ h.stateDir = host.stateDir /\ h.stateFile = host.stateFile /\ h.unit = host.unit
        /\ h.loaded = host.loaded /\ h.enabled = host.enabled
    BY <1>0 DEF Hosts
  <2>2. host' = h /\ pc' = pc /\ report' = report /\ config' # None
    <3>1. PICK doc \in AdminDocs, group \in BOOLEAN :
             config' = File(doc, IF config = None THEN group ELSE config.group, "admin")
      BY <1>34 DEF EditConfig
    <3>2. (IF config = None THEN group ELSE config.group) \in BOOLEAN
      BY FileUpdates DEF TypeOK
    <3>3. doc \in Docs
      BY RenderedDocs
    <3>4. config' # None
      BY <3>1, <3>2, <3>3, NotNone
    <3> QED
      BY <1>34, <3>4 DEF EditConfig, runvars
  <2> HIDE DEF h
  <2> QED
    BY <1>a, <2>1, <2>2, NotNone, RenderedDocs DEF Progress
<1>35. CASE Kill
  BY <1>35, <1>a DEF Kill, Dies, Then, Finish, Fail, runvars, Successes, Progress
<1>36. CASE Reboot
  BY <1>36, <1>a DEF Reboot, Dies, Execute, Works, Then, Finish, Fail, runvars,
     Successes, Progress
<1>37. CASE UNCHANGED vars
  BY <1>37 DEF vars, runvars, GotThrough, Progress
<1> QED
  BY <1>1, <1>2, <1>3, <1>4, <1>5, <1>6, <1>7, <1>8, <1>9, <1>10, <1>11, <1>12, <1>13,
     <1>14, <1>15, <1>16, <1>17, <1>18, <1>19, <1>20, <1>21, <1>22, <1>23, <1>24,
     <1>25, <1>26, <1>27, <1>28, <1>29, <1>30, <1>31, <1>32, <1>33, <1>34, <1>35,
     <1>36, <1>37 DEF Next

\* The custody of the configuration.
LEMMA CustodyStep ==
    ASSUME TypeOK, Roles, Progress, Custody, [Next]_vars
    PROVE  Custody'
<1>a. /\ pc \in Tail \cup {"fill", "own"} => config # None
      /\ config # None => config \in Files
      /\ had \in BOOLEAN /\ meddled \in BOOLEAN
  BY DEF TypeOK, Progress, ConfigThere, StateOwned, UnitWritten, Reloaded
<1>1. CASE BeginDaemon
  BY <1>1, <1>a DEF BeginDaemon, Options, Then, Finish, Fail, runvars, Successes,
     NoOptions, Options, Custody, ErrorLeavesNoHalfConfig
<1>2. CASE Copy
  BY <1>2, <1>a DEF Copy, Do, Then, Finish, Fail, runvars, Successes, NoOptions,
     Options, Custody, ErrorLeavesNoHalfConfig
<1>3. CASE EnsureGroup
  BY <1>3, <1>a DEF EnsureGroup, Run, Then, Finish, Fail, runvars, Successes,
     NoOptions, Options, Custody, ErrorLeavesNoHalfConfig
<1>4. CASE EnsureUser
  BY <1>4, <1>a DEF EnsureUser, Run, Then, Finish, Fail, runvars, Successes,
     NoOptions, Options, Custody, ErrorLeavesNoHalfConfig
<1>5. CASE MakeConfigDir
  BY <1>5, <1>a DEF MakeConfigDir, Do, Then, Finish, Fail, runvars, Successes,
     NoOptions, Options, Custody, ErrorLeavesNoHalfConfig
<1>6. CASE OwnConfigDir
  BY <1>6, <1>a DEF OwnConfigDir, Run, Then, Finish, Fail, runvars, Successes,
     NoOptions, Options, Custody, ErrorLeavesNoHalfConfig
<1>7. CASE CreateConfig
  BY <1>7, <1>a, FileFields, NotNone, RenderedDocs DEF CreateConfig, Then, Finish,
     Fail, runvars, Successes, NoOptions, Options, Custody, ErrorLeavesNoHalfConfig
<1>8. CASE FillConfig
  <2>1. config \in Files
    BY <1>8, <1>a DEF FillConfig
  <2>2. /\ pc = "fill" /\ had' = FALSE
        /\ \/ config' = [config EXCEPT !.doc = Default] /\ pc' = "own"
           \/ config' \in {None, [config EXCEPT !.by = "abandoned"]} /\ pc' = "idle"
    BY <1>8, <1>a DEF FillConfig, RemoveConfig, Then, Finish, Fail, runvars,
       Successes, Custody
  <2>3. /\ [config EXCEPT !.doc = Default].doc = Default
        /\ [config EXCEPT !.by = "abandoned"].by = "abandoned"
    BY <2>1, FileFields
  <2> QED
    BY <2>2, <2>3 DEF Custody, ErrorLeavesNoHalfConfig
<1>9. CASE OwnConfig
  BY <1>9, <1>a, FileFields, NotNone, RenderedDocs DEF OwnConfig, RemoveConfig, Then,
     Finish, Fail, runvars, Successes, NoOptions, Options, Custody,
     ErrorLeavesNoHalfConfig, Tail
<1>10. CASE MakeStateDir
  BY <1>10, <1>a DEF MakeStateDir, Do, Then, Finish, Fail, runvars, Successes,
     NoOptions, Options, Custody, ErrorLeavesNoHalfConfig
<1>11. CASE OwnStateDir
  BY <1>11, <1>a DEF OwnStateDir, Run, Then, Finish, Fail, runvars, Successes,
     NoOptions, Options, Custody, ErrorLeavesNoHalfConfig
<1>12. CASE TruncateUnit
  BY <1>12, <1>a DEF TruncateUnit, Do, Then, Finish, Fail, runvars, Successes,
     NoOptions, Options, Custody, ErrorLeavesNoHalfConfig
<1>13. CASE FillUnit
  BY <1>13, <1>a DEF FillUnit, Do, Then, Finish, Fail, runvars, Successes, NoOptions,
     Options, Custody, ErrorLeavesNoHalfConfig
<1>14. CASE Reload
  BY <1>14, <1>a DEF Reload, Run, Then, Finish, Fail, runvars, Successes, NoOptions,
     Options, Custody, ErrorLeavesNoHalfConfig
<1>15. CASE Enable
  BY <1>15, <1>a DEF Enable, Run, AfterEnable, Then, Finish, Fail, runvars, Successes,
     NoOptions, Options, Custody, ErrorLeavesNoHalfConfig
<1>16. CASE Start
  BY <1>16, <1>a DEF Start, Execute, Works, UnitSeen, Then, Finish, Fail, runvars,
     Successes, NoOptions, Options, Custody, ErrorLeavesNoHalfConfig
<1>17. CASE BeginScript
  BY <1>17, <1>a DEF BeginScript, Options, Then, Finish, Fail, runvars, Successes,
     NoOptions, Options, Custody, ErrorLeavesNoHalfConfig
<1>18. CASE Download
  BY <1>18, <1>a DEF Download, Do, Then, Finish, Fail, runvars, Successes, NoOptions,
     Options, Custody, ErrorLeavesNoHalfConfig
<1>19. CASE Backup
  BY <1>19, <1>a DEF Backup, Then, Finish, Fail, runvars, Successes, NoOptions,
     Options, Custody, ErrorLeavesNoHalfConfig, Tail
<1>20. CASE Overwrite
  <2>1. /\ pc = "overwrite"
        /\ \/ /\ \E doc \in {Garbage, Rendered(opts.answer)} :
                   config' = File(doc, FALSE, "script")
              /\ pc' = "render"
           \/ config' \in {config, None} /\ pc' = "idle" /\ had' = FALSE
    BY <1>20 DEF Overwrite, Then, Finish, Fail, runvars, Successes
  <2>2. opts.answer \in Answers
    BY <2>1 DEF Roles, Tail
  <2>3. \A doc \in {Garbage, Rendered(opts.answer)} : File(doc, FALSE, "script") # None
    BY <2>2, NotNone, RenderedDocs
  <2>4. \A doc : File(doc, FALSE, "script").by = "script"
    BY DEF File
  <2> QED
    BY <2>1, <2>3, <2>4 DEF Custody, ErrorLeavesNoHalfConfig
<1>21. CASE Render
  <2>1. config \in Files /\ Rendered(opts.answer) \in Docs
    BY <1>21, <1>a, RenderedDocs DEF Render, Roles, Tail
  <2>2. /\ pc = "render" /\ meddled' = meddled
        /\ \/ config' = [config EXCEPT !.doc = Rendered(opts.answer)] /\ pc' = "ownrendered"
           \/ config' = config /\ pc' = "idle" /\ had' = FALSE
    BY <1>21 DEF Render, Then, Finish, Fail, runvars, Successes
  <2>3. [config EXCEPT !.doc = Rendered(opts.answer)] # None
    BY <2>1, <1>a, InstallAssumption, NotNone
  <2>4. /\ [config EXCEPT !.doc = Rendered(opts.answer)].by = config.by
        /\ config.by = "script"
    BY <2>1, <2>2, FileFields DEF Custody
  <2> QED
    BY <2>1, <2>2, <2>3, <2>4 DEF Custody, ErrorLeavesNoHalfConfig
<1>22. CASE OwnRendered
  BY <1>22, <1>a, FileFields, NotNone, RenderedDocs DEF OwnRendered, Then, Finish,
     Fail, runvars, Successes, NoOptions, Options, Custody, ErrorLeavesNoHalfConfig,
     Tail
<1>23. CASE Validate
  BY <1>23, <1>a DEF Validate, Then, Finish, Fail, runvars, Successes, NoOptions,
     Options, Custody, ErrorLeavesNoHalfConfig, Tail
<1>24. CASE OwnState
  BY <1>24, <1>a DEF OwnState, Then, Finish, Fail, runvars, Successes, NoOptions,
     Options, Custody, ErrorLeavesNoHalfConfig, Tail
<1>25. CASE Restart
  BY <1>25, <1>a DEF Restart, Execute, Works, UnitSeen, Then, Finish, Fail, runvars,
     Successes, NoOptions, Options, Custody, ErrorLeavesNoHalfConfig, Tail
<1>26. CASE ReplaceBinary
  BY <1>26, <1>a DEF ReplaceBinary, Do, Then, Finish, Fail, runvars, Successes,
     NoOptions, Options, Custody, ErrorLeavesNoHalfConfig
<1>27. CASE FillBinary
  BY <1>27, <1>a DEF FillBinary, Do, Then, Finish, Fail, runvars, Successes,
     NoOptions, Options, Custody, ErrorLeavesNoHalfConfig
<1>28. CASE Query
  BY <1>28, <1>a DEF Query, Then, Finish, Fail, runvars, Successes, NoOptions,
     Options, Custody, ErrorLeavesNoHalfConfig
<1>29. CASE RestartActive
  BY <1>29, <1>a DEF RestartActive, Execute, Works, UnitSeen, Then, Finish, Fail,
     runvars, Successes, NoOptions, Options, Custody, ErrorLeavesNoHalfConfig
<1>30. CASE AutoRestart
  BY <1>30, <1>a DEF AutoRestart, Execute, Works, Then, Finish, Fail, runvars,
     Successes, NoOptions, Options, Custody, ErrorLeavesNoHalfConfig
<1>31. CASE DaemonSaves
  BY <1>31, <1>a DEF DaemonSaves, Then, Finish, Fail, runvars, Successes, NoOptions,
     Options, Custody, ErrorLeavesNoHalfConfig
<1>32. CASE AdminStarts
  BY <1>32, <1>a DEF AdminStarts, Execute, Works, UnitSeen, Then, Finish, Fail,
     runvars, Successes, NoOptions, Options, Custody, ErrorLeavesNoHalfConfig
<1>33. CASE AdminStops
  BY <1>33, <1>a DEF AdminStops, Then, Finish, Fail, runvars, Successes, NoOptions,
     Options, Custody, ErrorLeavesNoHalfConfig
<1>34. CASE EditConfig
  <2>1. config' # None /\ config'.by = "admin"
    <3>1. PICK doc \in AdminDocs, group \in BOOLEAN :
             config' = File(doc, IF config = None THEN group ELSE config.group, "admin")
      BY <1>34 DEF EditConfig
    <3>2. (IF config = None THEN group ELSE config.group) \in BOOLEAN
      BY FileUpdates DEF TypeOK
    <3>3. doc \in Docs
      BY RenderedDocs
    <3> QED
      BY <3>1, <3>2, <3>3, NotNone, FileFields
  <2>2. /\ pc \notin {"fill", "render"} /\ meddled'
        /\ pc' = pc /\ opts' = opts /\ had' = had /\ backup' = backup
    BY <1>34 DEF EditConfig, runvars
  <2> QED
    BY <2>1, <2>2 DEF Custody, ErrorLeavesNoHalfConfig
<1>35. CASE Kill
  BY <1>35, <1>a, FileFields, NotNone, RenderedDocs DEF Kill, Dies, Then, Finish,
     Fail, runvars, Successes, NoOptions, Options, Custody, ErrorLeavesNoHalfConfig
<1>36. CASE Reboot
  BY <1>36, <1>a, FileFields, NotNone, RenderedDocs DEF Reboot, Dies, Execute, Works,
     Then, Finish, Fail, runvars, Successes, NoOptions, Options, Custody,
     ErrorLeavesNoHalfConfig
<1>37. CASE UNCHANGED vars
  BY <1>37 DEF vars, runvars, Custody, ErrorLeavesNoHalfConfig
<1> QED
  BY <1>1, <1>2, <1>3, <1>4, <1>5, <1>6, <1>7, <1>8, <1>9, <1>10, <1>11, <1>12, <1>13,
     <1>14, <1>15, <1>16, <1>17, <1>18, <1>19, <1>20, <1>21, <1>22, <1>23, <1>24,
     <1>25, <1>26, <1>27, <1>28, <1>29, <1>30, <1>31, <1>32, <1>33, <1>34, <1>35,
     <1>36, <1>37 DEF Next

\* What runs, and what was launched.
LEMMA ServingStep ==
    ASSUME TypeOK, Roles, Progress, Custody, Serving, [Next]_vars
    PROVE  Serving'
<1>0. host \in Hosts
  BY DEF TypeOK
<1>a. launched \in BOOLEAN /\ meddled \in BOOLEAN
  BY DEF TypeOK
<1>1. CASE BeginDaemon
  BY <1>1, <1>a DEF BeginDaemon, Options, Then, Finish, Fail, runvars, Successes,
     NoOptions, Options, Serving, Installed
<1>2. CASE Copy
  BY <1>2, <1>a DEF Copy, Do, Then, Finish, Fail, runvars, Successes, NoOptions,
     Options, Serving, Installed
<1>3. CASE EnsureGroup
  BY <1>3, <1>a DEF EnsureGroup, Run, Then, Finish, Fail, runvars, Successes,
     NoOptions, Options, Serving, Installed
<1>4. CASE EnsureUser
  BY <1>4, <1>a DEF EnsureUser, Run, Then, Finish, Fail, runvars, Successes,
     NoOptions, Options, Serving, Installed
<1>5. CASE MakeConfigDir
  BY <1>5, <1>a DEF MakeConfigDir, Do, Then, Finish, Fail, runvars, Successes,
     NoOptions, Options, Serving, Installed
<1>6. CASE OwnConfigDir
  BY <1>6, <1>a DEF OwnConfigDir, Run, Then, Finish, Fail, runvars, Successes,
     NoOptions, Options, Serving, Installed
<1>7. CASE CreateConfig
  BY <1>7, <1>a DEF CreateConfig, Then, Finish, Fail, runvars, Successes, NoOptions,
     Options, Serving, Installed
<1>8. CASE FillConfig
  BY <1>8, <1>a DEF FillConfig, RemoveConfig, Then, Finish, Fail, runvars, Successes,
     NoOptions, Options, Serving, Installed
<1>9. CASE OwnConfig
  BY <1>9, <1>a DEF OwnConfig, RemoveConfig, Then, Finish, Fail, runvars, Successes,
     NoOptions, Options, Serving, Installed
<1>10. CASE MakeStateDir
  BY <1>10, <1>a DEF MakeStateDir, Do, Then, Finish, Fail, runvars, Successes,
     NoOptions, Options, Serving, Installed
<1>11. CASE OwnStateDir
  BY <1>11, <1>a DEF OwnStateDir, Run, Then, Finish, Fail, runvars, Successes,
     NoOptions, Options, Serving, Installed
<1>12. CASE TruncateUnit
  BY <1>12, <1>a DEF TruncateUnit, Do, Then, Finish, Fail, runvars, Successes,
     NoOptions, Options, Serving, Installed
<1>13. CASE FillUnit
  BY <1>13, <1>a DEF FillUnit, Do, Then, Finish, Fail, runvars, Successes, NoOptions,
     Options, Serving, Installed
<1>14. CASE Reload
  BY <1>14, <1>a DEF Reload, Run, Then, Finish, Fail, runvars, Successes, NoOptions,
     Options, Serving, Installed
<1>15. CASE Enable
  BY <1>15, <1>a DEF Enable, Run, AfterEnable, Then, Finish, Fail, runvars, Successes,
     NoOptions, Options, Serving, Installed
<1>16. CASE Start
  BY <1>16, <1>a DEF Start, Execute, Works, UnitSeen, Then, Finish, Fail, runvars,
     Successes, NoOptions, Options, Serving, Installed
<1>17. CASE BeginScript
  BY <1>17, <1>a DEF BeginScript, Options, Then, Finish, Fail, runvars, Successes,
     NoOptions, Options, Serving, Installed
<1>18. CASE Download
  BY <1>18, <1>a DEF Download, Do, Then, Finish, Fail, runvars, Successes, NoOptions,
     Options, Serving, Installed
<1>19. CASE Backup
  BY <1>19, <1>a DEF Backup, Then, Finish, Fail, runvars, Successes, NoOptions,
     Options, Serving, Installed
<1>20. CASE Overwrite
  BY <1>20, <1>a DEF Overwrite, Then, Finish, Fail, runvars, Successes, NoOptions,
     Options, Serving, Installed
<1>21. CASE Render
  BY <1>21, <1>a DEF Render, Then, Finish, Fail, runvars, Successes, NoOptions,
     Options, Serving, Installed
<1>22. CASE OwnRendered
  BY <1>22, <1>a DEF OwnRendered, Then, Finish, Fail, runvars, Successes, NoOptions,
     Options, Serving, Installed
<1>23. CASE Validate
  <2>1. ~Inside(config.doc) => SavedByRoot(config.doc).elsewhere = "root"
    BY <1>0 DEF SavedByRoot, Hosts
  <2>2. /\ pc = "validate" /\ config' = config /\ meddled' = meddled
        /\ service' = service /\ using' = using /\ launched' = launched
        /\ pc' = "idle" \/ (pc' = "ownstate" /\ host' = SavedByRoot(config.doc))
    BY <1>23 DEF Validate, Then, Finish, Fail, runvars, Successes
  <2> QED
    BY <2>1, <2>2 DEF Serving
<1>24. CASE OwnState
  <2> DEFINE h == [host EXCEPT !.stateDir = "service",
                               !.stateFile = IF @ = "absent" THEN @ ELSE "service"]
  <2>1. h.stateFile # "root" /\ h.elsewhere = host.elsewhere
    BY <1>0 DEF Hosts
  <2>2. /\ pc = "ownstate" /\ config' = config /\ meddled' = meddled
        /\ service' = service /\ using' = using /\ launched' = launched
        /\ pc' = "idle" \/ (pc' = "restart" /\ host' = h)
    BY <1>24 DEF OwnState, Then, Finish, Fail, runvars, Successes
  <2> HIDE DEF h
  <2> QED
    BY <2>1, <2>2 DEF Serving
<1>25. CASE Restart
  <2>1. /\ pc = "restart" /\ pc' = "idle" /\ host' = host /\ config' = config
        /\ (service' = service /\ using' = using) \/ Execute
        /\ launched' => (~meddled /\ Execute) \/ launched
    BY <1>25, <1>a DEF Restart, Then, Finish, Fail, Successes
  <2>2. service' = "running" => Accepts(using')
    BY <2>1 DEF Execute, Works, Serving
  <2>3. ~launched
    BY <2>1 DEF Serving
  <2>4. Installed /\ host.stateFile # "root" /\ (meddled \/ Accepts(config.doc))
    BY <2>1, <1>0 DEF Progress, Custody, Serving, Installed, PCs, Operations, Tail,
       UpdateMode, Reloaded, UnitWritten, StateOwned, ConfigThere, ConfigOpen,
       UserThere, GroupThere, Copied, Enabled, GotThrough
  <2>5. ASSUME launched' PROVE config.group => service' = "running" /\ using' = config.doc
    BY <2>1, <2>3, <2>4, <2>5 DEF Execute, Works, Installed
  <2> QED
    BY <2>1, <2>2, <2>3, <2>4, <2>5 DEF Serving, Installed
<1>26. CASE ReplaceBinary
  BY <1>26, <1>a DEF ReplaceBinary, Do, Then, Finish, Fail, runvars, Successes,
     NoOptions, Options, Serving, Installed
<1>27. CASE FillBinary
  BY <1>27, <1>a DEF FillBinary, Do, Then, Finish, Fail, runvars, Successes,
     NoOptions, Options, Serving, Installed
<1>28. CASE Query
  BY <1>28, <1>a DEF Query, Then, Finish, Fail, runvars, Successes, NoOptions,
     Options, Serving, Installed
<1>29. CASE RestartActive
  BY <1>29, <1>a DEF RestartActive, Execute, Works, UnitSeen, Then, Finish, Fail,
     runvars, Successes, NoOptions, Options, Serving, Installed
<1>30. CASE AutoRestart
  BY <1>30, <1>a DEF AutoRestart, Execute, Works, Then, Finish, Fail, runvars,
     Successes, NoOptions, Options, Serving, Installed
<1>31. CASE DaemonSaves
  BY <1>31, <1>a DEF DaemonSaves, Then, Finish, Fail, runvars, Successes, NoOptions,
     Options, Serving, Installed
<1>32. CASE AdminStarts
  BY <1>32, <1>a DEF AdminStarts, Execute, Works, UnitSeen, Then, Finish, Fail,
     runvars, Successes, NoOptions, Options, Serving, Installed
<1>33. CASE AdminStops
  BY <1>33, <1>a DEF AdminStops, Then, Finish, Fail, runvars, Successes, NoOptions,
     Options, Serving, Installed
<1>34. CASE EditConfig
  BY <1>34, <1>a DEF EditConfig, Then, Finish, Fail, runvars, Successes, NoOptions,
     Options, Serving, Installed
<1>35. CASE Kill
  BY <1>35, <1>a DEF Kill, Dies, Then, Finish, Fail, runvars, Successes, NoOptions,
     Options, Serving, Installed
<1>36. CASE Reboot
  BY <1>36, <1>a DEF Reboot, Dies, Execute, Works, Then, Finish, Fail, runvars,
     Successes, NoOptions, Options, Serving, Installed
<1>37. CASE UNCHANGED vars
  BY <1>37 DEF vars, runvars, Serving, Installed
<1> QED
  BY <1>1, <1>2, <1>3, <1>4, <1>5, <1>6, <1>7, <1>8, <1>9, <1>10, <1>11, <1>12, <1>13,
     <1>14, <1>15, <1>16, <1>17, <1>18, <1>19, <1>20, <1>21, <1>22, <1>23, <1>24,
     <1>25, <1>26, <1>27, <1>28, <1>29, <1>30, <1>31, <1>32, <1>33, <1>34, <1>35,
     <1>36, <1>37 DEF Next

---------------------------------------------------------------------------
(* The theorems.                                                           *)

LEMMA InitIInv == Init => IInv
<1> SUFFICES ASSUME Init PROVE IInv
  OBVIOUS
<1>1. host \in Hosts
  BY DEF Init, Hosts
<1>2. NoOptions \in Choices
  BY DEF NoOptions, Options, Choices
<1>3. TypeOK
  BY <1>1, <1>2 DEF Init, TypeOK, Choices, PCs
<1>4. Roles
  BY DEF Init, Roles, NoOptions, Options, PCs, Operations, Tail, UpdateMode
<1>5. Progress
  BY DEF Init, Progress, PCs, Operations, Tail, UpdateMode, Reloaded, UnitWritten,
     StateOwned, ConfigThere, ConfigOpen, UserThere, GroupThere, Copied, Enabled,
     GotThrough
<1>6. Custody
  BY DEF Init, Custody, ErrorLeavesNoHalfConfig
<1>7. Serving
  BY DEF Init, Serving
<1> QED
  BY <1>3, <1>4, <1>5, <1>6, <1>7 DEF IInv

LEMMA Inductive == Spec => []IInv
<1>1. IInv /\ [Next]_vars => IInv'
  BY TypeStep, RolesStep, ProgressStep, CustodyStep, ServingStep DEF IInv
<1> QED
  BY <1>1, InitIInv, PTL DEF Spec

\* Type correctness of the host, its service and the installing process.
THEOREM TypeCorrect == Spec => []TypeOK
<1>1. IInv => TypeOK
  BY DEF IInv
<1> QED
  BY <1>1, Inductive, PTL

\* Whatever earlier runs left, however they ended, an install-daemon that gets through
\* leaves everything in place: each operation sets up its part from any state, and no
\* later one, no reboot and no act of the service or of the administrator undoes it.
THEOREM SuccessIsInstalled == Spec => []SuccessMeansInstalled
<1>1. IInv => SuccessMeansInstalled
  <2> SUFFICES ASSUME Progress, pc \in Enabled \/ GotThrough PROVE Installed
    BY DEF IInv, SuccessMeansInstalled, Enabled, GotThrough
  <2> QED
    BY DEF Installed, Progress, PCs, Operations, Tail, UpdateMode, Reloaded,
       UnitWritten, StateOwned, ConfigThere, ConfigOpen, UserThere, GroupThere,
       Copied, Enabled, GotThrough
<1> QED
  BY <1>1, Inductive, PTL

\* Between two operations a default configuration is complete and readable, unless a
\* kill or a failed removal abandoned it (internal/install/config.go:45-76).
THEOREM NoHalfConfig == Spec => []ErrorLeavesNoHalfConfig
<1>1. IInv => ErrorLeavesNoHalfConfig
  BY DEF IInv, Custody
<1> QED
  BY <1>1, Inductive, PTL

\* What install.sh validated as root and restarted works as ip-notify (install.sh:587-629):
\* for every configuration in place that the service may read it runs with that one; and
\* those that keep their state file in the state directory, and no others, leave it the
\* directory and no file of root's.
THEOREM StartedWorks == Spec => []StartedServiceWorks
<1>1. IInv => StartedServiceWorks
  BY DEF IInv, Serving, Installed, StartedServiceWorks, KeepsState
<1> QED
  BY <1>1, Inductive, PTL

\* For every file an administrator may write and every width of integers, a service
\* that runs has a configuration its components can work with.
THEOREM RunsOnUsable == Spec => []RunsOnUsableConfig
<1>1. IInv => RunsOnUsableConfig
  BY AcceptedIsUsable DEF IInv, Serving, RunsOnUsableConfig
<1> QED
  BY <1>1, Inductive, PTL

\* A step that changes a configuration that was found is taken by the administrator,
\* or by the script under --force-config with a backup of it (install.sh:490-527).
LEMMA KeepsConfigStep ==
    ASSUME IInv, Next, had, ~meddled', config.by = "admin", config' # config
    PROVE  opts.force /\ backup = config.doc
<1>1. config # None /\ pc \notin {"fill", "own"}
  BY DEF IInv, Custody
<1>2. ~ (CreateConfig \/ FillConfig \/ OwnConfig \/ Kill \/ Reboot \/ EditConfig)
  BY <1>1 DEF CreateConfig, FillConfig, OwnConfig, Kill, Reboot, Dies, EditConfig
<1>3. CASE Overwrite
  BY <1>3 DEF Overwrite, IInv, Custody
<1>4. CASE Render
  BY <1>4 DEF Render, IInv, Custody
<1>5. CASE OwnRendered
  BY <1>5 DEF OwnRendered, IInv, Custody
<1>6. \/ BeginDaemon \/ Copy \/ EnsureGroup \/ EnsureUser \/ MakeConfigDir
      \/ OwnConfigDir \/ MakeStateDir \/ OwnStateDir \/ TruncateUnit \/ FillUnit
      \/ Reload \/ Enable \/ Start \/ BeginScript \/ Download \/ Backup \/ Validate
      \/ OwnState \/ Restart \/ ReplaceBinary \/ FillBinary \/ Query \/ RestartActive
      \/ AutoRestart \/ DaemonSaves \/ AdminStarts \/ AdminStops
      => config' = config
  BY DEF BeginDaemon, Copy, EnsureGroup, EnsureUser, MakeConfigDir, OwnConfigDir,
         MakeStateDir, OwnStateDir, TruncateUnit, FillUnit, Reload, Enable, Start,
         BeginScript, Download, Backup, Validate, OwnState, Restart, ReplaceBinary,
         FillBinary, Query, RestartActive, AutoRestart, DaemonSaves, AdminStarts,
         AdminStops, Do, Run
<1> QED
  BY <1>2, <1>3, <1>4, <1>5, <1>6 DEF Next

\* No run touches a configuration of the administrator's that it found, but one with
\* --force-config, and only after its backup.
THEOREM ConfigIsKept == Spec => KeepsConfig
<1>1. IInv /\ [Next]_vars =>
        [had /\ ~meddled' /\ config.by = "admin" /\ config' # config
           => opts.force /\ backup = config.doc]_vars
  BY KeepsConfigStep
<1> QED
  BY <1>1, Inductive, PTL DEF Spec, KeepsConfig
====
