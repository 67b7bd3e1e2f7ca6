---- MODULE Update ----
(***************************************************************************)
(* `ip-notify update` (internal/update): overlapping updaters of one       *)
(* installed binary, the GitHub release they download from, and the systemd*)
(* service that runs the binary.                                           *)
(*                                                                         *)
(* Abstractions.  A build is its tag and how often that tag was built;     *)
(* an archive is the build in it, and SHA256SUMS the build it lists, hashes*)
(* being free of collisions.  One platform's archive stands for both.      *)
(* Damaged stands for any other content.  The fixed names and URLs are left*)
(* out.  replaceBinary is the one step that FileReplace shows it to be.    *)
(* The binaries the path has held are kept in a sequence, and a service    *)
(* runs the one at its index `runs`.                                       *)
(***************************************************************************)
EXTENDS Naturals, Sequences

CONSTANTS
    Updaters,
    Tags,
    Latest,     \* no --version
    Revisions,  \* how often the workflow runs for a tag
    Unusable,   \* builds whose archive extractBinaryFromArchive refuses
    None,
    Damaged,
    Allowance   \* how often each kind of event may happen

Parts == {"archive", "sums"}

Builds == [tag : Tags, rev : 1 .. Revisions]

Kinds == {"update",     \* the administrator starts an update
          "release",    \* the release workflow runs for a tag, or runs again
          "clobber",    \* an asset is deleted before it is uploaded again
          "network",    \* a request fails
          "damage",     \* a download succeeds with another content
          "local",      \* a file operation fails
          "query",      \* `systemctl is-active` fails to answer
          "restart",    \* `systemctl restart` fails
          "cancel",     \* SIGINT or SIGTERM
          "kill",       \* an updater is killed
          "service"}    \* the service crashes, is stopped, or is started

\* An allowance also bounds all of them together.
Bounds == Kinds \cup {"any"}

ASSUME UpdateAssumption ==
    /\ Latest \notin Tags
    /\ Revisions \in Nat \ {0}
    /\ Unusable \subseteq Builds
    /\ None \notin Builds /\ Damaged \notin Builds /\ None # Damaged
    /\ Allowance \in [Bounds -> Nat]

VARIABLES
    built,      \* the revision the workflow last built of each tag; 0 is none
    assets,     \* the revision of each tag's archive and SHA256SUMS; 0 is absent
    latest,     \* the tag of the latest release
    installed,  \* the builds the install path has held; the last is there now
    systemctl,  \* is there a systemctl?
    service,    \* its status, and the index in installed of what it runs
    pc,         \* where each updater is
    tag,        \* the tag it updates to, or Latest
    noRestart,  \* --no-restart
    cancelled,  \* its context is done
    archive,    \* the downloaded archive
    sums,       \* the downloaded SHA256SUMS
    result,     \* how its last update ended
    budget,     \* what is left of Allowance
    \* History, read by properties only:
    listed,     \* every build some published SHA256SUMS has listed
    mine,       \* the index of the updater's own installation, or 0
    blind       \* it skipped the restart without an answer from systemd

release == <<built, assets, latest, listed>>
host    == <<installed, systemctl, service>>
options == <<tag, noRestart>>
files   == <<archive, sums>>
vars    == <<built, assets, latest, installed, systemctl, service, pc, tag, noRestart,
             cancelled, archive, sums, result, budget, listed, mine, blind>>

PCs == {"idle", "resolve", "archive", "sums", "verify", "replace", "query", "restart"}

\* "skipped", "unavailable", "noRestart", "dry" and "restarted" are all exit code 0.
Results == {"none", "error", "dry", "noRestart", "unavailable", "skipped", "restarted"}

Contents == Builds \cup {None, Damaged}

Init ==
    /\ \E t \in Tags :
         /\ latest = t
         /\ built = [x \in Tags |-> IF x = t THEN 1 ELSE 0]
         /\ assets = [x \in Tags |-> [part \in Parts |-> built[x]]]
         /\ listed = {[tag |-> t, rev |-> 1]}
         /\ installed = <<[tag |-> t, rev |-> 1]>>
    /\ systemctl \in BOOLEAN
    /\ service \in [status : {"active", "inactive"}, runs : {1}]
    /\ service.status = "active" => systemctl
    /\ pc = [u \in Updaters |-> "idle"]
    /\ tag = [u \in Updaters |-> Latest]
    /\ noRestart = [u \in Updaters |-> FALSE]
    /\ cancelled = [u \in Updaters |-> FALSE]
    /\ archive = [u \in Updaters |-> None]
    /\ sums = [u \in Updaters |-> None]
    /\ result = [u \in Updaters |-> "none"]
    /\ budget = Allowance
    /\ mine = [u \in Updaters |-> 0]
    /\ blind = [u \in Updaters |-> FALSE]

Spend(k) ==
    /\ budget[k] > 0
    /\ budget["any"] > 0
    /\ budget' = [budget EXCEPT ![k] = @ - 1, !["any"] = @ - 1]

---------------------------------------------------------------------------
(* The release workflow (.github/workflows/release.yml).  Neither `gh       *)
(* release create` nor `gh release upload` promises an order of the files,  *)
(* or that a release is seen with its assets: what the workflow has built   *)
(* appears file by file, and a run may stop half-way and be run again.      *)

\* The workflow builds a pushed tag.  For a new one it creates the release.
Release(t) ==
    /\ Spend("release")
    /\ built[t] < Revisions
    /\ built' = [built EXCEPT ![t] = @ + 1]
    /\ latest' = IF built[t] = 0 THEN t ELSE latest
    /\ UNCHANGED <<assets, listed, host, pc, options, cancelled, files, result, mine, blind>>

\* One file of the build appears, or takes the place of that of an earlier run.
Upload(t, part) ==
    /\ assets[t][part] # built[t]
    /\ assets' = [assets EXCEPT ![t][part] = built[t]]
    /\ listed' = IF part = "sums" THEN listed \cup {[tag |-> t, rev |-> built[t]]}
                 ELSE listed
    /\ UNCHANGED <<built, latest, host, pc, options, cancelled, files, result, budget, mine,
                   blind>>

\* --clobber deletes the asset of an earlier run before it uploads the new one.
Clobber(t, part) ==
    /\ Spend("clobber")
    /\ assets[t][part] \notin {0, built[t]}
    /\ assets' = [assets EXCEPT ![t][part] = 0]
    /\ UNCHANGED <<built, latest, listed, host, pc, options, cancelled, files, result, mine,
                   blind>>

---------------------------------------------------------------------------
(* The service, in systemd's hands: Type=simple, Restart=on-failure.        *)

Present == Len(installed)

\* Whatever starts the service executes what the path holds.
Started == [status |-> "active", runs |-> Present]

ServiceChanges ==
    UNCHANGED <<release, installed, systemctl, pc, options, cancelled, files, result, mine,
                blind>>

ServiceFails ==
    /\ Spend("service")
    /\ service.status = "active"
    /\ service' = [service EXCEPT !.status = "waiting"]
    /\ ServiceChanges

AutoRestart ==
    /\ service.status = "waiting"
    /\ service' = Started
    /\ UNCHANGED budget
    /\ ServiceChanges

AdminStops ==
    /\ Spend("service")
    /\ service.status \in {"active", "waiting"}
    /\ service' = [service EXCEPT !.status = IF @ = "active" THEN "stopping" ELSE "inactive"]
    /\ ServiceChanges

ServiceStopped ==
    /\ service.status = "stopping"
    /\ service' = [service EXCEPT !.status = "inactive"]
    /\ UNCHANGED budget
    /\ ServiceChanges

AdminStarts ==
    /\ Spend("service")
    /\ systemctl
    /\ service.status = "inactive"
    /\ service' = Started
    /\ ServiceChanges

---------------------------------------------------------------------------
(* One update.                                                             *)

Goto(u, label) == pc' = [pc EXCEPT ![u] = label]

\* Update returns; the deferred RemoveAll drops the downloads.
Return(u, r) ==
    /\ Goto(u, "idle")
    /\ result' = [result EXCEPT ![u] = r]
    /\ tag' = [tag EXCEPT ![u] = Latest]
    /\ noRestart' = [noRestart EXCEPT ![u] = FALSE]
    /\ cancelled' = [cancelled EXCEPT ![u] = FALSE]
    /\ archive' = [archive EXCEPT ![u] = None]
    /\ sums' = [sums EXCEPT ![u] = None]

\* The call fails, of itself or because the context is done.  For a download this
\* includes making the directory and writing the file.
Fails(u, kind) ==
    /\ IF cancelled[u] THEN UNCHANGED budget ELSE Spend(kind)
    /\ Return(u, "error")
    /\ UNCHANGED <<release, host, mine, blind>>

\* A dry run, an unsupported platform, or an unknown executable path.
Decline(u) ==
    /\ pc[u] = "idle"
    /\ Spend("update")
    /\ \E r \in {"dry", "error"} : result' = [result EXCEPT ![u] = r]
    /\ mine' = [mine EXCEPT ![u] = 0]
    /\ blind' = [blind EXCEPT ![u] = FALSE]
    /\ UNCHANGED <<release, host, pc, options, cancelled, files>>

Begin(u, version, stay) ==
    /\ pc[u] = "idle"
    /\ Spend("update")
    /\ Goto(u, IF version = Latest THEN "resolve" ELSE "archive")
    /\ tag' = [tag EXCEPT ![u] = version]
    /\ noRestart' = [noRestart EXCEPT ![u] = stay]
    /\ result' = [result EXCEPT ![u] = "none"]
    /\ mine' = [mine EXCEPT ![u] = 0]
    /\ blind' = [blind EXCEPT ![u] = FALSE]
    /\ UNCHANGED <<release, host, cancelled, files>>

Cancel(u) ==
    /\ pc[u] # "idle"
    /\ ~cancelled[u]
    /\ Spend("cancel")
    /\ cancelled' = [cancelled EXCEPT ![u] = TRUE]
    /\ UNCHANGED <<release, host, pc, options, files, result, mine, blind>>

Kill(u) ==
    /\ pc[u] # "idle"
    /\ Spend("kill")
    /\ Return(u, "none")
    /\ UNCHANGED <<release, host, mine, blind>>

ResolveLatest(u) ==
    /\ pc[u] = "resolve"
    /\ ~cancelled[u]
    /\ tag' = [tag EXCEPT ![u] = latest]
    /\ Goto(u, "archive")
    /\ UNCHANGED <<release, host, noRestart, cancelled, files, result, budget, mine, blind>>

\* What a GET of an asset brings.
Downloaded(t, rev, content) ==
    \/ content = [tag |-> t, rev |-> rev] /\ rev # 0 /\ UNCHANGED budget
    \/ content = Damaged /\ rev # 0 /\ Spend("damage")

DownloadArchive(u) ==
    /\ pc[u] = "archive"
    /\ ~cancelled[u]
    /\ \E c \in Contents :
         /\ Downloaded(tag[u], assets[tag[u]]["archive"], c)
         /\ archive' = [archive EXCEPT ![u] = c]
    /\ Goto(u, "sums")
    /\ UNCHANGED <<release, host, options, cancelled, sums, result, mine, blind>>

\* Mutant: the checksum is not verified.
SumsThenReplace(u) ==
    /\ pc[u] = "sums"
    /\ ~cancelled[u]
    /\ \E c \in Contents :
         /\ Downloaded(tag[u], assets[tag[u]]["sums"], c)
         /\ sums' = [sums EXCEPT ![u] = c]
    /\ Goto(u, "replace")
    /\ UNCHANGED <<release, host, options, cancelled, archive, result, mine, blind>>

DownloadSums(u) ==
    /\ pc[u] = "sums"
    /\ ~cancelled[u]
    /\ \E c \in Contents :
         /\ Downloaded(tag[u], assets[tag[u]]["sums"], c)
         /\ sums' = [sums EXCEPT ![u] = c]
    /\ Goto(u, "verify")
    /\ UNCHANGED <<release, host, options, cancelled, archive, result, mine, blind>>

\* Mutant: the requests are not bound to the command's context.
RequestIgnoresContext(u) ==
    /\ pc[u] \in {"resolve", "archive", "sums"}
    /\ ~cancelled[u]
    /\ Fails(u, "network")

RequestFails(u) ==
    /\ pc[u] \in {"resolve", "archive", "sums"}
    /\ Fails(u, "network")

\* --version names a tag that was not released, or the file is not there yet.
NothingThere(u) ==
    /\ pc[u] \in Parts
    /\ assets[tag[u]][pc[u]] = 0
    /\ Return(u, "error")
    /\ UNCHANGED <<release, host, budget, mine, blind>>

\* Mutant: a SHA256SUMS that is not about this archive counts as no objection.
AcceptsUnlisted(a, s) == s = a \/ s = Damaged

\* SHA256SUMS has a line for the archive, and it is the archive's hash.
Verified(a, s) == s \in Builds /\ a = s

Extractable(a) == a \in Builds \ Unusable

Verify(u) ==
    /\ pc[u] = "verify"
    /\ IF Verified(archive[u], sums[u]) /\ Extractable(archive[u])
       THEN /\ Goto(u, "replace")
            /\ UNCHANGED <<options, cancelled, files, result>>
       ELSE Return(u, "error")
    /\ UNCHANGED <<release, host, budget, mine, blind>>

LocalFails(u) ==
    /\ pc[u] \in {"verify", "replace"}
    /\ Spend("local")
    /\ Return(u, "error")
    /\ UNCHANGED <<release, host, mine, blind>>

\* The context is not looked at here, nor in Verify.
Replace(u) ==
    /\ pc[u] = "replace"
    /\ installed' = Append(installed, archive[u])
    /\ mine' = [mine EXCEPT ![u] = Len(installed) + 1]
    /\ IF noRestart[u]
       THEN Return(u, "noRestart")
       ELSE Goto(u, "query") /\ UNCHANGED <<options, cancelled, files, result>>
    /\ UNCHANGED <<release, systemctl, service, budget, blind>>

\* Mutant: the test of is-active's error is inverted.
QueryInverted(u) ==
    /\ pc[u] = "query"
    /\ systemctl
    /\ ~cancelled[u]
    /\ IF service.status # "active"
       THEN Goto(u, "restart") /\ UNCHANGED <<options, cancelled, files, result>>
       ELSE Return(u, "skipped")
    /\ UNCHANGED <<release, host, budget, mine, blind>>

Query(u) ==
    /\ pc[u] = "query"
    /\ systemctl
    /\ ~cancelled[u]
    /\ IF service.status = "active"
       THEN Goto(u, "restart") /\ UNCHANGED <<options, cancelled, files, result>>
       ELSE Return(u, "skipped")
    /\ UNCHANGED <<release, host, budget, mine, blind>>

\* Any failure of is-active, a cancelled context's included, reads as "not active".
QueryFails(u) ==
    /\ pc[u] = "query"
    /\ systemctl
    /\ IF cancelled[u] THEN UNCHANGED budget ELSE Spend("query")
    /\ blind' = [blind EXCEPT ![u] = TRUE]
    /\ Return(u, "skipped")
    /\ UNCHANGED <<release, host, mine>>

NoSystemctl(u) ==
    /\ pc[u] = "query"
    /\ ~systemctl
    /\ Return(u, "unavailable")
    /\ UNCHANGED <<release, host, budget, mine, blind>>

Restart(u) ==
    /\ pc[u] = "restart"
    /\ ~cancelled[u]
    /\ service' = Started
    /\ Return(u, "restarted")
    /\ UNCHANGED <<release, installed, systemctl, budget, mine, blind>>

\* The command failed: systemd was not asked, restarted the service all the same, or
\* could not start it again.
RestartFails(u) ==
    /\ pc[u] = "restart"
    /\ IF cancelled[u]
       THEN UNCHANGED <<budget, service>>
       ELSE /\ Spend("restart")
            /\ service' \in {service, Started, [service EXCEPT !.status = "inactive"]}
    /\ Return(u, "error")
    /\ UNCHANGED <<release, installed, systemctl, mine, blind>>

---------------------------------------------------------------------------

Environment ==
    \/ \E t \in Tags : Release(t)
    \/ \E t \in Tags, part \in Parts : Upload(t, part) \/ Clobber(t, part)
    \/ ServiceFails \/ AutoRestart \/ AdminStops \/ ServiceStopped \/ AdminStarts

Call(u) ==
    \/ Decline(u)
    \/ \E version \in Tags \cup {Latest}, stay \in BOOLEAN : Begin(u, version, stay)
    \/ Cancel(u)
    \/ Kill(u)

\* The steps that wait for a server or for systemd.
RemoteStep(u) ==
    \/ ResolveLatest(u) \/ DownloadArchive(u) \/ DownloadSums(u) \/ NothingThere(u)
    \/ RequestFails(u)
    \/ Query(u) \/ QueryFails(u) \/ Restart(u) \/ RestartFails(u)

LocalStep(u) ==
    \/ Verify(u) \/ LocalFails(u) \/ Replace(u) \/ NoSystemctl(u)

Next == Environment \/ \E u \in Updaters : Call(u) \/ RemoteStep(u) \/ LocalStep(u)

Spec == Init /\ [][Next]_vars

\* An updater is scheduled and its file operations return.  Nothing else is assumed:
\* http.DefaultClient has no timeout, so a request may hang, until the context ends.
Fairness ==
    \A u \in Updaters : WF_vars(LocalStep(u)) /\ WF_vars(cancelled[u] /\ RemoteStep(u))

FairSpec == Spec /\ Fairness

---------------------------------------------------------------------------
(* Properties.                                                             *)

TypeOK ==
    /\ built \in [Tags -> 0 .. Revisions]
    /\ assets \in [Tags -> [Parts -> 0 .. Revisions]]
    /\ latest \in Tags
    /\ listed \subseteq Builds
    /\ installed \in Seq(Builds) /\ Len(installed) > 0
    /\ systemctl \in BOOLEAN
    /\ service \in [status : {"active", "waiting", "stopping", "inactive"},
                    runs : 1 .. Len(installed)]
    /\ pc \in [Updaters -> PCs]
    /\ tag \in [Updaters -> Tags \cup {Latest}]
    /\ noRestart \in [Updaters -> BOOLEAN]
    /\ cancelled \in [Updaters -> BOOLEAN]
    /\ archive \in [Updaters -> Contents]
    /\ sums \in [Updaters -> Contents]
    /\ result \in [Updaters -> Results]
    /\ budget \in [Bounds -> Nat]
    /\ mine \in [Updaters -> 0 .. Len(installed)]
    /\ blind \in [Updaters -> BOOLEAN]

\* Whatever is damaged on the way, released again between the two downloads, or
\* installed by another updater meanwhile, the install path only ever holds a build
\* that a published SHA256SUMS listed and whose archive could be extracted.
InstalledIsListed ==
    \A i \in 2 .. Len(installed) : installed[i] \in listed \ Unusable

\* An updater that finished with a restart, or with systemd's word that the service
\* was not active, leaves no service running a build older than the one it installed:
\* is-active comes after the rename, so what starts later executes the new binary.
NoOldServiceAfterUpdate ==
    \A u \in Updaters :
        /\ result[u] \in {"restarted", "skipped"}
        /\ ~blind[u]
        /\ service.status = "active"
        => service.runs >= mine[u]

\* An interrupted update ends, even if the server or systemd never answers.
StopsWhenCancelled == \A u \in Updaters : cancelled[u] ~> pc[u] = "idle"

---------------------------------------------------------------------------
(* What the documentation and the messages say and the code does not do.   *)

\* internal/update/update.go:324, "%s is not active; skipping restart": an updater that
\* said so does not leave the service running the old build.
SkippedServiceIsNotOld ==
    \A u \in Updaters :
        result[u] = "skipped" /\ service.status = "active" => service.runs >= mine[u]
====
