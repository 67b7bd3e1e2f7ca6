---- MODULE Install ----
(***************************************************************************)
(* A host on which `ip-notify install-daemon` and scripts/install.sh run,  *)
(* one at a time and any number of times, fail or are killed at any step,  *)
(* while systemd starts the service, the administrator edits the           *)
(* configuration, and the host reboots.                                    *)
(*                                                                         *)
(* Abstractions.  copyFile is one step (FileReplace).  Downloading and     *)
(* verifying is one step (Update, Extract).  A file that is being written  *)
(* decodes to nothing or already to what is written; the administrator     *)
(* does not open one in the instant it is written.  Dry runs, and refusals *)
(* for want of root, change nothing and are left out.  A configuration has *)
(* its state file in the state directory or in one place outside of it;    *)
(* /tmp, of which the service has one of its own, is left out.             *)
(***************************************************************************)
EXTENDS Config

CONSTANTS
    None,
    AdminDocs,   \* the files the administrator may write
    Answers      \* what the script may be told of a notifier

VARIABLES
    host,      \* the binary, the accounts, the directories, the unit, the state files
    config,    \* the configuration file, or None
    service,   \* stopped, running, or failed and about to be restarted
    using,     \* the file the running service has loaded, or None
    pc,        \* the operation the installing process is at, or idle
    opts,      \* who it is, and its options
    had,       \* there was a configuration when it looked
    report,    \* how the last one ended
    backup,    \* what it copied the configuration to, or None
    meddled,   \* history: the administrator acted since it began
    launched   \* history: the last one validated and restarted, and nobody meddled

runvars == <<opts, had, report, backup>>
vars == <<host, config, service, using, pc, runvars, meddled, launched>>

Answer == [provider : {"", "bark", "pushover"}, url : STRING, keys : SUBSET STRING,
           token : STRING, user : STRING]

\* The configuration the script writes.
Rendered(a) ==
    [Default EXCEPT !.bark = (a.provider = "bark"), !.url = a.url,
                    !.keys = IF a.provider = "bark" THEN CleanStringSlice(a.keys) ELSE {},
                    !.pushover = (a.provider = "pushover"), !.token = a.token, !.user = a.user]

Docs == AdminDocs \cup {Default, Garbage} \cup {Rendered(a) : a \in Answers}

Hosts == [binary : {"absent", "torn", "whole"}, group : BOOLEAN, user : BOOLEAN,
          configDir : {"absent", "closed", "open"},
          stateDir : {"absent", "root", "service"},
          stateFile : {"absent", "root", "service"},
          elsewhere : {"absent", "root"},
          unit : {"absent", "torn", "whole"}, loaded : {"absent", "torn", "whole"},
          enabled : BOOLEAN]

Files == [doc : Docs, group : BOOLEAN, by : {"admin", "installer", "script", "abandoned"}]

ASSUME InstallAssumption ==
    /\ Answers \subseteq Answer
    /\ None \notin Files

\* The list that Plan returns, writing the default configuration and the unit taken apart.
Operations == {"copy", "group", "user", "configdir", "configowner", "create", "fill",
               "own", "statedir", "stateowner", "unit", "fillunit", "reload", "enable"}

\* What the script does before, after, and instead.
Tail == {"backup", "overwrite", "render", "ownrendered", "validate", "ownstate", "restart"}
UpdateMode == {"replace", "fillbinary", "query", "restartactive"}

PCs == Operations \cup Tail \cup UpdateMode \cup {"idle", "download", "start"}

Successes == {"installed", "started", "notstarted", "updated"}

NoAnswer == [provider |-> "", url |-> "", keys |-> {}, token |-> "", user |-> ""]

Options(by, start, force, answer) ==
    [by |-> by, start |-> start, force |-> force, answer |-> answer]

NoOptions == Options("nobody", FALSE, FALSE, NoAnswer)

File(doc, group, by) == [doc |-> doc, group |-> group, by |-> by]

Init ==
    /\ host = [binary |-> "absent", group |-> FALSE, user |-> FALSE,
               configDir |-> "absent", stateDir |-> "absent", stateFile |-> "absent",
               elsewhere |-> "absent", unit |-> "absent", loaded |-> "absent", enabled |-> FALSE]
    /\ config = None
    /\ service = "stopped" /\ using = None
    /\ pc = "idle" /\ opts = NoOptions
    /\ had = FALSE /\ report = "none" /\ backup = None
    /\ meddled = FALSE /\ launched = FALSE

---------------------------------------------------------------------------
(* Ways to go on.                                                          *)

Finish(r) ==
    /\ pc' = "idle" /\ opts' = NoOptions
    /\ had' = FALSE /\ report' = r /\ backup' = None

\* On to the next operation, or to a successful end.
Then(next) ==
    IF next \in Successes THEN Finish(next) ELSE pc' = next /\ UNCHANGED runvars

Fail == Finish("error")

\* A function of the program's own that turns the host into h, or fails.
Do(label, h, next) ==
    /\ pc = label
    /\ \/ host' = h /\ Then(next)
       \/ host' = host /\ Fail
    /\ UNCHANGED <<config, service, using, meddled, launched>>

\* A command: one that fails, or is killed with the context, may have had its effect.
Run(label, h, next) ==
    /\ pc = label
    /\ \/ host' = h /\ Then(next)
       \/ host' \in {host, h} /\ Fail
    /\ UNCHANGED <<config, service, using, meddled, launched>>

---------------------------------------------------------------------------
(* systemd and the service.                                                *)

\* A unit that was never loaded is loaded from the disk.
UnitSeen == IF host.loaded = "absent" THEN host.unit ELSE host.loaded

\* The service's user can execute the binary, and read a configuration newRunner takes.
Works ==
    /\ host.binary = "whole" /\ host.user
    /\ config # None
    /\ host.configDir = "open" /\ config.group
    /\ Accepts(config.doc)

\* Type=simple: the command succeeds with the fork, whatever becomes of the process.
Execute ==
    IF Works THEN service' = "running" /\ using' = config.doc
             ELSE service' = "failed" /\ using' = None

\* Restart=on-failure.
AutoRestart ==
    /\ service = "failed" /\ host.loaded = "whole"
    /\ Execute
    /\ UNCHANGED <<host, config, pc, runvars, meddled, launched>>

\* The configuration keeps its state file in the directory the installation prepares.
Inside(doc) == StatePath(doc) = Default.path

\* The first check of a running service saves the state file, where the unit lets it
\* write (ProtectSystem=strict, ReadWritePaths) and the directory is its own.
DaemonSaves ==
    /\ service = "running"
    /\ Inside(using)
    /\ host.stateFile = "absent" /\ host.stateDir = "service"
    /\ host' = [host EXCEPT !.stateFile = "service"]
    /\ UNCHANGED <<config, service, using, pc, runvars, meddled, launched>>

AdminStarts ==
    /\ UnitSeen = "whole" /\ Execute
    /\ host' = [host EXCEPT !.loaded = "whole"]
    /\ meddled' = TRUE /\ launched' = FALSE
    /\ UNCHANGED <<config, pc, runvars>>

AdminStops ==
    /\ service # "stopped"
    /\ service' = "stopped" /\ using' = None
    /\ meddled' = TRUE /\ launched' = FALSE
    /\ UNCHANGED <<host, config, pc, runvars>>

\* An editor keeps the owner of a file there is.
EditConfig ==
    /\ pc \notin {"fill", "render"}
    /\ \E doc \in AdminDocs, group \in BOOLEAN :
         config' = File(doc, IF config = None THEN group ELSE config.group, "admin")
    /\ host' = [host EXCEPT !.configDir = IF @ = "absent" THEN "open" ELSE @]
    /\ meddled' = TRUE /\ launched' = FALSE
    /\ UNCHANGED <<service, using, pc, runvars>>

---------------------------------------------------------------------------
(* install-daemon.                                                         *)

BeginDaemon ==
    /\ pc = "idle"
    /\ \E start \in BOOLEAN : opts' = Options("daemon", start, FALSE, NoAnswer)
    /\ pc' = "copy" /\ had' = (config # None)
    /\ report' = "none" /\ meddled' = FALSE /\ launched' = FALSE
    /\ UNCHANGED <<host, config, service, using, backup>>

Copy == Do("copy", [host EXCEPT !.binary = "whole"], "group")

EnsureGroup == Run("group", [host EXCEPT !.group = TRUE], "user")

EnsureUser == Run("user", [host EXCEPT !.user = TRUE], "configdir")

\* A new directory is root's, with mode 0750; one there is stays as it is.
MakeConfigDir ==
    Do("configdir", [host EXCEPT !.configDir = IF @ = "absent" THEN "closed" ELSE @],
       "configowner")

OwnConfigDir == Run("configowner", [host EXCEPT !.configDir = "open"], "create")

\* O_EXCL: an existing file is skipped, whatever it holds.
CreateConfig ==
    /\ pc = "create"
    /\ \/ /\ config # None
          /\ Then("statedir") /\ UNCHANGED config
       \/ /\ config = None
          /\ \E doc \in {Garbage, Default} : config' = File(doc, FALSE, "installer")
          /\ Then("fill")
       \/ Fail /\ UNCHANGED config
    /\ UNCHANGED <<host, service, using, meddled, launched>>

\* Mutant: nothing removes the file whose owner could not be set.
KeepConfig == UNCHANGED config

\* Mutant: the file is emptied instead.
EmptyConfig == config' = [config EXCEPT !.doc = None]

\* The removal on an error path, whose own error is dropped.
RemoveConfig == config' \in {None, [config EXCEPT !.by = "abandoned"]}

\* WriteString, Chmod and Close.
FillConfig ==
    /\ pc = "fill"
    /\ \/ config' = [config EXCEPT !.doc = Default] /\ Then("own")
       \/ RemoveConfig /\ Fail
    /\ UNCHANGED <<host, service, using, meddled, launched>>

OwnConfig ==
    /\ pc = "own"
    /\ \/ config' = [config EXCEPT !.group = TRUE] /\ Then("statedir")
       \/ RemoveConfig /\ Fail
    /\ UNCHANGED <<host, service, using, meddled, launched>>

MakeStateDir ==
    Do("statedir", [host EXCEPT !.stateDir = IF @ = "absent" THEN "root" ELSE @],
       "stateowner")

OwnStateDir == Run("stateowner", [host EXCEPT !.stateDir = "service"], "unit")

\* os.WriteFile truncates the unit before it writes it.
TruncateUnit == Do("unit", [host EXCEPT !.unit = "torn"], "fillunit")

FillUnit == Do("fillunit", [host EXCEPT !.unit = "whole"], "reload")

\* Mutant: systemd is not told of a unit that changed.
ReloadFirstTimeOnly ==
    Run("reload", [host EXCEPT !.loaded = IF @ = "absent" THEN host.unit ELSE @], "enable")

Reload == Run("reload", [host EXCEPT !.loaded = host.unit], "enable")

\* What the script was told is enough to write a configuration.
Ready(a) ==
    \/ a.provider = "bark" /\ a.url # "" /\ CleanStringSlice(a.keys) # {}
    \/ a.provider = "pushover" /\ a.token # "" /\ a.user # ""

\* install-daemon ends or starts the service; the script goes on to write_config.
AfterEnable ==
    IF opts.by = "daemon" THEN IF opts.start THEN "start" ELSE "installed"
    ELSE IF had /\ ~opts.force THEN "validate"
    ELSE IF ~Ready(opts.answer) THEN "notstarted"
    ELSE IF had THEN "backup" ELSE "overwrite"

Enable == Run("enable", [host EXCEPT !.enabled = TRUE], AfterEnable)

\* systemctl start leaves a running service alone.
Start ==
    /\ pc = "start"
    /\ \/ /\ UnitSeen = "whole"
          /\ IF service = "running" THEN UNCHANGED <<service, using>> ELSE Execute
          /\ Then("installed") \/ Fail
       \/ Fail /\ UNCHANGED <<service, using>>
    /\ UNCHANGED <<host, config, meddled, launched>>

---------------------------------------------------------------------------
(* scripts/install.sh.                                                     *)

\* The mode, and whether there is a configuration, are decided once, at the beginning.
BeginScript ==
    /\ pc = "idle"
    /\ \E start \in BOOLEAN :
         IF host.binary = "whole" THEN opts' = Options("update", start, FALSE, NoAnswer)
         ELSE \E force \in BOOLEAN, a \in Answers : opts' = Options("script", start, force, a)
    /\ pc' = "download" /\ had' = (config # None)
    /\ report' = "none" /\ meddled' = FALSE /\ launched' = FALSE
    /\ UNCHANGED <<host, config, service, using, backup>>

Download == Do("download", host, IF opts.by = "update" THEN "replace" ELSE "copy")

\* Mutant: a backup that cannot be made does not stop the script.
BackupIgnoresErrors ==
    /\ pc = "backup"
    /\ backup' \in {config.doc, None}
    /\ pc' = "overwrite"
    /\ UNCHANGED <<host, config, service, using, opts, had, report, meddled, launched>>

Backup ==
    /\ pc = "backup"
    /\ \/ /\ backup' = config.doc /\ pc' = "overwrite"
          /\ UNCHANGED <<opts, had, report>>
       \/ Fail
    /\ UNCHANGED <<host, config, service, using, meddled, launched>>

\* install(1) removes the old file and creates a new one of root's.
Overwrite ==
    /\ pc = "overwrite"
    /\ \/ /\ \E doc \in {Garbage, Rendered(opts.answer)} :
               config' = File(doc, FALSE, "script")
          /\ Then("render")
       \/ Fail /\ config' \in {config, None}
    /\ UNCHANGED <<host, service, using, meddled, launched>>

Render ==
    /\ pc = "render"
    /\ \/ config' = [config EXCEPT !.doc = Rendered(opts.answer)] /\ Then("ownrendered")
       \/ Fail /\ UNCHANGED config
    /\ UNCHANGED <<host, service, using, meddled, launched>>

OwnRendered ==
    /\ pc = "ownrendered"
    /\ \/ config' = [config EXCEPT !.group = TRUE] /\ Then("validate")
       \/ config' \in {config, [config EXCEPT !.group = TRUE]} /\ Fail
    /\ UNCHANGED <<host, service, using, meddled, launched>>

\* The host after a `once` of root's: the state file is root's, wherever it is.
SavedByRoot(doc) ==
    IF Inside(doc) THEN [host EXCEPT !.stateFile = "root"]
                   ELSE [host EXCEPT !.elsewhere = "root"]

\* `once` as root: it may read and write any file.  It also fails when detection or
\* saving does; what the providers say is no failure.
Validate ==
    /\ pc = "validate"
    /\ \/ /\ Accepts(config.doc)
          /\ host' = SavedByRoot(config.doc)
          /\ Then("ownstate") \/ Then("notstarted")
       \/ UNCHANGED host /\ Then("notstarted")
    /\ UNCHANGED <<config, service, using, meddled, launched>>

\* Mutant: chown without -R.
OwnStateDirOnly ==
    /\ pc = "ownstate"
    /\ host' = [host EXCEPT !.stateDir = "service"]
    /\ Then(IF opts.start THEN "restart" ELSE "installed") \/ Then("notstarted")
    /\ UNCHANGED <<config, service, using, meddled, launched>>

\* chown -R of the state directory, and of nothing else; its failure is reported, not
\* fatal.
OwnState ==
    /\ pc = "ownstate"
    /\ LET owned == [host EXCEPT !.stateDir = "service",
                                 !.stateFile = IF @ = "absent" THEN @ ELSE "service"]
       IN  \/ host' = owned /\ Then(IF opts.start THEN "restart" ELSE "installed")
           \/ host' \in {host, owned} /\ Then("notstarted")
    /\ UNCHANGED <<config, service, using, meddled, launched>>

Restart ==
    /\ pc = "restart"
    /\ \/ /\ UnitSeen = "whole" /\ Execute
          /\ \/ Then("started") /\ launched' = ~meddled
             \/ Fail /\ UNCHANGED launched
       \/ Fail /\ UNCHANGED <<service, using, launched>>
    /\ UNCHANGED <<host, config, meddled>>

ReplaceBinary == Do("replace", [host EXCEPT !.binary = "torn"], "fillbinary")

FillBinary ==
    Do("fillbinary", [host EXCEPT !.binary = "whole"],
       IF opts.start THEN "query" ELSE "updated")

\* is-active that fails is an inactive service.
Query ==
    /\ pc = "query"
    /\ \/ service = "running" /\ Then("restartactive")
       \/ Then("updated")
    /\ UNCHANGED <<host, config, service, using, meddled, launched>>

RestartActive ==
    /\ pc = "restartactive"
    /\ \/ /\ UnitSeen = "whole" /\ Execute
          /\ Then("updated") \/ Fail
       \/ Fail /\ UNCHANGED <<service, using>>
    /\ UNCHANGED <<host, config, meddled, launched>>

---------------------------------------------------------------------------

\* The process dies where it is, and the default configuration stays as it is.
Dies ==
    /\ Finish("none")
    /\ config' = IF pc \in {"fill", "own"} THEN [config EXCEPT !.by = "abandoned"]
                 ELSE config

Kill ==
    /\ pc # "idle" /\ Dies
    /\ UNCHANGED <<host, service, using, meddled, launched>>

\* systemd reads the units anew and starts what is enabled.
Reboot ==
    /\ Dies
    /\ host' = [host EXCEPT !.loaded = host.unit]
    /\ IF host.enabled /\ host.unit = "whole" THEN Execute
       ELSE service' = "stopped" /\ using' = None
    /\ UNCHANGED <<meddled, launched>>

Next ==
    \/ BeginDaemon \/ Copy \/ EnsureGroup \/ EnsureUser \/ MakeConfigDir \/ OwnConfigDir
    \/ CreateConfig \/ FillConfig \/ OwnConfig \/ MakeStateDir \/ OwnStateDir
    \/ TruncateUnit \/ FillUnit \/ Reload \/ Enable \/ Start
    \/ BeginScript \/ Download \/ Backup \/ Overwrite \/ Render \/ OwnRendered
    \/ Validate \/ OwnState \/ Restart
    \/ ReplaceBinary \/ FillBinary \/ Query \/ RestartActive
    \/ AutoRestart \/ DaemonSaves \/ AdminStarts \/ AdminStops \/ EditConfig
    \/ Kill \/ Reboot

Spec == Init /\ [][Next]_vars

---------------------------------------------------------------------------
(* Properties.                                                             *)

TypeOK ==
    /\ host \in Hosts
    /\ config \in Files \cup {None}
    /\ service \in {"stopped", "running", "failed"}
    /\ using \in Docs \cup {None}
    /\ pc \in PCs
    /\ opts \in [by : {"nobody", "daemon", "script", "update"}, start : BOOLEAN,
                 force : BOOLEAN, answer : Answers \cup {NoAnswer}]
    /\ had \in BOOLEAN
    /\ report \in Successes \cup {"none", "error"}
    /\ backup \in Docs \cup {None}
    /\ meddled \in BOOLEAN
    /\ launched \in BOOLEAN

\* Everything a first, undisturbed run sets up.
Installed ==
    /\ host.binary = "whole"
    /\ host.group /\ host.user
    /\ host.configDir = "open" /\ host.stateDir = "service"
    /\ host.unit = "whole" /\ host.loaded = "whole" /\ host.enabled
    /\ config # None

\* An install-daemon, or a script past it, that got through has repaired whatever
\* earlier runs that failed, were killed or were updates left of the installation.
\* (installer.go:264 stops at the first failure and rolls nothing back.)
SuccessMeansInstalled ==
    pc \in Tail \cup {"start"} \/ report \in {"installed", "started", "notstarted"}
        => Installed

\* install-daemon that ends with an error leaves no default configuration behind that
\* is incomplete or that the service cannot read: the next run would keep it.  Only a
\* kill inside the operation, or a removal that fails, does.
ErrorLeavesNoHalfConfig ==
    config # None /\ config.by = "installer" /\ pc \notin {"fill", "own"}
        => config.doc = Default /\ config.group

\* No state file of root's stands in the way of a service with this configuration.
KeepsState(doc) ==
    IF Inside(doc) THEN host.stateFile # "root" /\ host.stateDir = "service"
                   ELSE host.elsewhere # "root"

\* The script validates as root what the service then runs with as ip-notify.  Still,
\* a service it restarted after validation runs, on the configuration in place, and
\* does so after a reboot, until the administrator or another run interferes.  It can
\* use its state file exactly if the configuration keeps that in the state directory:
\* anywhere else validation has left one of root's, which nobody hands over
\* (install.sh:604, unit.go:38).  (Not if the administrator's own configuration is closed
\* to the service: root's validation does not see that.)
StartedServiceWorks ==
    launched /\ config.group =>
        /\ service = "running" /\ using = config.doc
        /\ KeepsState(using) <=> Inside(using)

\* Whatever the service runs with meets what its ticker, its client, its detector and
\* its notifiers rely on, and its interval is what was written, unless the bare number
\* written is beyond what 64 bits of nanoseconds hold, which nothing detects.
RunsOnUsableConfig ==
    service = "running" =>
        LET interval == Written(using).interval
        IN  /\ Usable(Load(using))
            /\ Exact(interval) \/ Overflows(interval)

\* A configuration of the administrator's that a run found is changed by that run only
\* under --force-config and after a backup of it.
KeepsConfig ==
    [][had /\ ~meddled' /\ config.by = "admin" /\ config' # config
           => opts.force /\ backup = config.doc]_vars
====
