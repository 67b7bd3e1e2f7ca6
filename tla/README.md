# A verification of ip-notify

TLA+ specifications of `ip-notify-client`, the daemon that watches a host's
addresses and notifies Bark and Pushover when they change, with the TLC
configurations that check them and the theorems TLAPS proves about them.
References such as `store.go:128` are to the repository's files.

    tlc -workers 2 -config runner_single.cfg MCRunner     # one run
    tlapm RunnerProofs.tla                                # one proof module

`PROJECT.json` lists the components, runs, mutants, source lines of every
definition, findings, hazards and theorems.

## The system

| component | state it keeps | operations | talks to |
|---|---|---|---|
| check loop (`internal/daemon`) | a ticker, a context; during a check a copy of the record, the snapshot, the rest of the notifiers | `Run`, `ProcessOnceResultWithOptions`, `runCheck` | state store, detector, notifiers |
| state record and store (`internal/state`) | the file: current and previous snapshot, per notifier the last delivered and the last refused hash, the skipped initial hash | `Load`, `Save`, `RecordSnapshot`, `Mark...` | file system, shared by every process |
| notifiers (`internal/notify`) | none | `Notify`: one POST, read as delivered, permanent or transient | Bark, Pushover |
| address detection (`internal/ipdetect`) | none | `Detect`: public sources in order, interfaces, normalize, hash | HTTP, the kernel |
| configuration (`internal/config`) | a file | `Load`, `Normalize`, `Validate`, `Redacted` | read once per process, written by the installer, the script and the administrator |
| command line (`internal/cli`, `cmd`) | none | `run`, `once`, `install-daemon`, `update` | all of the above |
| updater (`internal/update`) | a temporary directory, the binary | resolve, download, verify, extract, replace, restart | GitHub, systemd, file system |
| installer (`internal/install`) | accounts, directories, configuration, binary, unit | a list of operations, run until one fails | system commands, file system |
| install script (`scripts/install.sh`) | the mode, and whether there was a configuration, both decided at its beginning | first installation: `install-daemon`, configuration, validation by `once`, restart; update: binary, restart | the installer, systemd, GitHub |
| logging, version, build | none | output | |

What interacts: the daemon and every `ip-notify once` share the state file and
the providers, with no lock; an update and the installer share the binary with
each other and with systemd, which executes it; the installer, the script and the
administrator write the configuration that systemd's next start of the service reads;
every wait ends with the process's context. What is hard: two processes between one's load and save; an
answer that is lost after the provider took the message; a crash between the
notification and the save; `select` choosing between a signal and a tick; files that
change owner, or lie where the unit lets nobody write; a release replaced between two downloads; a service that
stops, fails or starts between `is-active` and `restart`; an error at every
system call; an installation that stops half way and is run again. What makes each part correct is stated with its properties below.

## Modules

| module | models | checked by | proofs |
|---|---|---|---|
| `StateRecord` | the record's operations | (part of `Runner`) | in `RunnerProofs` |
| `Providers` | how replies are classified, and what services mean by them | (part of `Runner`) | in `RunnerProofs` |
| `Runner` | the check loop in the daemon and in `once` commands | `runner_*` | `RunnerProofs` |
| `Ledger` | abstract: what the state file promises about deliveries | refined by `Runner` | in `RunnerProofs` |
| `FileReplace` | the write-and-rename protocol in its three forms | `file` | `FileReplaceProofs` |
| `AtomicFile` | abstract: a file that changes in one step | refined by `FileReplace` | in `FileReplaceProofs` |
| `Update` | overlapping updaters, releases, the service | `update`, `update_interrupted` | `UpdateProofs` |
| `Extract` | the loops over `SHA256SUMS` and the archive | `extract` | `ExtractProofs` |
| `Detect` | the sources, the walk over the interfaces, normalization | `detect` | `DetectProofs`, `NormalFormProofs` |
| `Config` | the configuration: decoding, durations, normalization, validation | (part of `Install`) | in `InstallProofs` |
| `Install` | `install-daemon`, `install.sh`, the service they leave | `install` | `InstallProofs` |
| `MC*` | instances for TLC | | |

`Runner` EXTENDS `StateRecord` and `Providers`, and instantiates `Ledger`.
`Install` EXTENDS `Config`. `FileReplace` instantiates `AtomicFile`; on the strength of that refinement
`Runner` takes `Store.Save`, `Update` takes `replaceBinary`, and `Install` takes `copyFile`, for
one step that either happens or reports an error. `Update` likewise takes the two loops that
`Extract` models for the predicates `Verified` and `Extractable`, and `Runner` takes for
one step the detection that `Detect` takes apart.

### Runner

A process is `off`, at `boot`, `idle` in the daemon's `select`, or in a check:
`detect` (record loaded), `loop` (between notifiers, or before the save), `wait`
(inside `Notify`). The steps are the points at which somebody else can be seen:
loading, detecting, each exchange with a provider, saving. What happens in
between is part of the step before it: `Detect` also records the snapshot and
takes the two early exits for the initial snapshot, `Respond` also marks the record.

| code | action |
|---|---|
| `newRunner`; `run`, `once [--force]` | `StartService`, `StartOnce` |
| `NotifyContext` | `Signal` |
| `runner.go:84-101`, ticker and `select` | `Tick`, `Stop`, guard `MayCheck` |
| `Store.Load` | `LoadState`, `LoadFails` |
| `Detect`, `RecordSnapshot`, initial skip | `Detect`, `DetectFails` |
| loop, skip branches | `SkipHandled` |
| loop, `Notify` and its result | `Send`, `ProviderTakes`, `Respond` |
| network | `Delay`, `ArriveLate` |
| `saveState` | `Save`, `SaveFails` |
| kill -9, out of memory | `Crash` |
| host, administrator | `ChangeAddress`, `EditConfig` |

A cancelled context makes detection and every client call fail, but a save
still happens. A provider takes a message in a step of its own, after which the
answer can be lost: status 0, an unreadable body, a 5xx. Or the network holds the message
back (`Delay`) until its client has timed out or died; it then arrives after any number of
later messages, or never (`ArriveLate`, in any order). A reply is a status and what becomes
of its body: unread, garbled, accepted or refused. `Plausible` excludes only replies that would make
the service itself a liar: one that acknowledges what it has not taken, or refuses what it has. A
200 of Pushover's with a blank or undecodable body is neither, and may come in either case; the client
records it as a permanent failure (`Unintelligible`, `pushover.go:91-103`), which is
why `rejected` holds it beside the refusals. The state file carries the user who
saved it last, for `CreateTemp` makes it 0600.

`wanted` is systemd's part: it wants the service started at boot, and after a kill
(`Restart=on-failure`, `unit.go:32`), but not after the clean exit that follows a signal
(`runner.go:95-97`), nor, possibly, after a kill that ends a slow stop. The administrator may start it at any time.

Four history variables are read by properties only: what each provider has
taken and refused, what it has shown the user last (`inbox`), and how often it
showed again, unforced or late, what it had shown last.

### FileReplace

`Store.Save`, `copyFile` and `replaceBinary` share create, write, chmod, close,
rename. They differ in `fsync`, which only `replaceBinary` does, and in the
deferred removal, which the first two make unconditionally; `Save` and `copyFile`
are one form as far as the model goes, so `copy` stands for both in the runs. Each
call can fail, a failed write leaves some of the bytes, the removal itself can
fail, a process can be killed anywhere, and a power loss brings back any of the
directory entries that were not superseded on disk, with arbitrary content where the
file was not synced.

### Update and Extract

An updater resolves the tag, downloads archive and checksums, verifies and
extracts, replaces, asks `is-active`, restarts: one action each, with the errors.
The release workflow builds a tag (`Release`), and again when it is run again, and its files
appear one by one (`Upload`): `gh release create` and `gh release upload` promise no order, nor that a release
is seen with all its files. `--clobber` deletes an old file before the new one comes (`Clobber`), and the
workflow may stop anywhere in between (`release.yml:62-82`). One
platform's archive stands for both. Systemd's service is active, stopping, waiting for its automatic
restart, or inactive; whatever starts it executes the binary that the path holds
then, by its index in the sequence of all installations. `Extract` has one
step for each turn of either loop.

### Detect

A detection asks the sources in their order (`SourceAnswers`, `SourceFails`), lists the
interfaces with their flags (`ListInterfaces`, `ListFails`), reads one interface
after the other (`SkipInterface`, `ReadAddresses`, `ReadFails`) and normalizes
(`Finish`, `CollectNothing`). The host may change, and the context end (`Cancel`,
then `Stopped`), between any two of these, so a snapshot may mix moments; the variable
`history` keeps what was there at some time and what was there throughout.

Normalization is the code's: a fold that appends each unmapped pair not yet seen
(`AppendNew`), then the sort. `sort.Slice` is modelled by where it puts an item: `Sorted`
has at each place the item with that `Rank`, the number of items before it. Equal
items keep their order, which never matters, since the fold leaves none.

Why one step is enough for `Runner`: what the walk delivers is some set between the
two, and `Runner` lets the host change arbitrarily before and after `Detect`; a host that
stands still has one snapshot only (`StillHostHasOneSnapshot`), as the host's snapshot in `Runner` is one value; and a
process whose context is done at its beginning fails there, which is the guard of `Runner`'s
`Detect`.

### Config

A file is `Garbage`, or the function from the fields it sets to their values; `Load`
puts these over the defaults, multiplies bare numbers to durations in two's complement
(`Wrap`), and trims. `StatePath` is where `once` and the daemon keep the state file. `Valid` is `Validate`. `Usable` says what the components
rely on, each read from the component: a ticker needs a positive period, a client a timeout, a
detector a source, a notifier an addressee.

### Install

One process installs at a time, any number one after the other. `host` is what the
operations set up; a directory, the state file or the configuration carries what decides
whether the service's user may use it. The state file is where the configuration says: in the state
directory (`Inside`), which the installation prepares, to which the unit restricts the service's writing
(`unit.go:38`) and which alone is handed over after validation (`install.sh:604`), or
`elsewhere`, where validation leaves a file of root's and the service writes nothing.

| code | action |
|---|---|
| `install-daemon` | `BeginDaemon` |
| operations of `Plan`, in order | `Copy`, `EnsureGroup`, `EnsureUser`, `MakeConfigDir`, `OwnConfigDir`, `CreateConfig`, `FillConfig`, `OwnConfig`, `MakeStateDir`, `OwnStateDir`, `TruncateUnit`, `FillUnit`, `Reload`, `Enable`, `Start` |
| `install.sh`, first installation | `BeginScript`, `Download`, the operations, `Backup`, `Overwrite`, `Render`, `OwnRendered`, `Validate`, `OwnState`, `Restart` |
| `install.sh`, update mode | `BeginScript`, `Download`, `ReplaceBinary`, `FillBinary`, `Query`, `RestartActive` |
| systemd and the service | `AutoRestart`, `DaemonSaves` |
| the administrator | `EditConfig`, `AdminStarts`, `AdminStops` |
| kill, reboot | `Kill`, `Reboot` |

An operation of the program's own (`Do`) happens or fails; a command (`Run`) may also have
had its effect when it fails, being killed with the context for instance. The first failure ends the process and
leaves everything as it is; only a default configuration that was just created is removed,
and the error of that removal is dropped. The service is started with whatever configuration is there at
that moment: if the user cannot read it, or `newRunner` refuses it, the service fails and systemd tries again.
Two history variables, `meddled` and `launched`, and the mark `abandoned` on a default
configuration that a kill or a failed removal left, are read by properties only.

## Runs

| run | shows | properties | states |
|---|---|---|---|
| `runner_single` | checks that do not overlap, all faults that lose outcomes | `NoNeedlessSend`, `RepeatsArePaidFor`, `RecordMatchesInbox`, `PreviousFollowsCurrent` | 759k |
| `runner_overlap` | the daemon and a `once` of either user at any time, every event | `TypeOK`, `Truthful`, `KeepsPromise` | 1.4M |
| `runner_live` | recovery from faults and overlap; signals | `Converges`, `StopsWhenSignalled` | 893k |
| `file` | an installation and an update of one binary, errors, kills, power losses | `TypeOK`, `AlwaysWhole`, `NoLitter`, `ReplacesAtomically` | 615k |
| `update` | two updates, releases and re-releases file by file, damage, interrupts, the service | `TypeOK`, `InstalledIsListed`, `NoOldServiceAfterUpdate`, `StopsWhenCancelled` | 713k |
| `detect` | detections on every small host while it changes | `TypeOK`, `NothingInvented`, `NothingSteadyIsMissed`, `SnapshotIsCanonical`, `FirstAnswerWins`, `FailsForAReason`, `CancelledDetectionFails` | 2.1M |
| `extract` | all short archives and checksum files | `TypeOK`, `AcceptsExactly` | 581k |
| `install` | installations and updates that fail, are killed and are run again | `TypeOK`, `SuccessMeansInstalled`, `ErrorLeavesNoHalfConfig`, `StartedServiceWorks`, `RunsOnUsableConfig`, `KeepsConfig` | 1.3M |

Four further runs each end in a violation; they are the findings below. Every
property of a passing run has a mutant in `PROJECT.json`, a plausible bug in
one of the mapped definitions under which the same run fails.

**Bounds.** Events of the environment are bounded by `Allowance`, the number of
each kind; the program's own steps are not bounded. Two snapshots suffice for a change
and a return; in `runner_single` two changes, a `once`, two delayed messages, which can overtake
each other, and one each of crash, lost answer, failed save, refusal and transient failure occur, four of them in
one behaviour, which is enough for a change, its return and two faults.
`runner_overlap` allows any three of eleven kinds. Two processes are
the smallest number that overlaps; a third adds a second stale save, which for these
properties is the first one again, and the theorems hold for every number. `update` has
two updates and any three other events, among them a run of the workflow for one of two tags, new or
published before, a file deleted by `--clobber`, a damaged download and a service event; its uploads are not counted. `detect` has three interfaces, one of
whose names begins with another's, and one change of the host: each property is about
one pair or one source, so that one change between its reads is what can spoil it; the
number of detections is not bounded. `install` needs no bound on events, since a host has
finitely many states: eight files of the administrator's, one for each way to be refused, accepted or
overflow and one with its state file elsewhere, and three answers to the script, of which one is no provider, one has a blank
among its keys and one a blank credential. Its integers have six bits and a second five
nanoseconds, so that of the three bare numbers one fits, one overflows to a positive duration
and one is zero; the theorems hold for every width. Snapshots, and contents of files, are symmetric
where no liveness is checked. Deadlock is checked in the runs of `Runner`,
`FileReplace`, `Detect` and `Install`; an updater that has finished, and an archive that has been
judged, may stop (`CHECK_DEADLOCK FALSE`).

**Fairness.** `Runner`: weak fairness of the service's start only while systemd wants it (at boot, and after
a kill), never after a clean exit; of the ticker; and of the
daemon's steps taken together (its goroutine runs, its client has a timeout).
Strong fairness of `Stop`, since `select` picks at random among ready cases and
a tick may be ready every time. Nothing is assumed of `once`. `Update`: weak
fairness of local steps, and of remote ones once the context is done; the HTTP
client has no timeout, so a server may stay silent until then. `Install` assumes no fairness.

## What holds

- **Truthful, KeepsPromise.** Nothing that fails, crashes or overlaps makes the
  record claim a delivery or a refusal that did not happen; the file refines a
  ledger that may forget entries but never invents one.
- **RepeatsArePaidFor, NoNeedlessSend, RecordMatchesInbox.** Without overlap the
  program is at-least-once with each repetition paid for by a lost answer, a delayed
  message, a kill or a failed save, whatever the order in which delayed messages arrive; what it sends is what the file calls for; and with
  none of these the record says what the user saw last.
- **Converges.** Overlap and faults are overcome: unless the service was stopped and nobody starts it
  again, the file settles on the host's snapshot with an outcome for each notifier.
- **PreviousFollowsCurrent, StopsWhenSignalled.** The history of the record is
  linear without overlap; a signal ends the daemon.
- **ReplacesAtomically, AlwaysWhole, NoLitter.** The three replacements are
  atomic for every observer, with a true result, and clean up.
- **InstalledIsListed, NoOldServiceAfterUpdate, StopsWhenCancelled.** An update
  installs only what was published, listed and extractable, and leaves no older build running when
  systemd answered it; it can always be interrupted.
- **NothingInvented, NothingSteadyIsMissed, SnapshotIsCanonical.** A snapshot holds
  what was on the host all the time, nothing that never was, and equal addresses
  make equal snapshots; what one unreadable interface costs is its own addresses.
- **FirstAnswerWins, FailsForAReason, CancelledDetectionFails.** The order of the sources
  decides, one of them is enough, and a context that is done before the last look at it
  yields no snapshot, not even of what was already found.
- **SuccessMeansInstalled, ErrorLeavesNoHalfConfig.** An installation that gets through
  has repaired whatever earlier ones left, and one that ends with an error leaves no
  default configuration that later runs would keep and the service could not use.
- **StartedServiceWorks, KeepsConfig.** A service restarted after validation as root runs
  on what was validated, unless it cannot read that file. It can use its state file exactly if
  `state.path` is in the state directory: elsewhere validation leaves a file of root's that
  nobody hands over, and the unit lets the service write none. (README.md:188 names no such limit; the
  property says what the code does.) What the administrator wrote is overwritten only when asked
  for, after a backup.
- **RunsOnUsableConfig.** What passes validation is enough for every component. Its one
  exception is stated in the property: a bare number of seconds that overflows to a positive
  duration (18446744074 becomes less than a third of a second) is accepted.
- **AcceptsExactly.** The early returns of the loops add up to the declarative
  definition of an acceptable archive.

## Findings

| run | what the code does | what is said of it |
|---|---|---|
| `runner_lost_answer` | A delivered, B's answer lost, back to A: A is skipped though the user saw B last | README.md:285 |
| `runner_initial_skip` | the initial snapshot is skipped for good, not "while the hash remains unchanged" | README.md:290 |
| `runner_root_once` | a root `once` takes the state file away from the service | install.sh:381-383 |
| `update_interrupted` | an interrupted update installs, calls the active service inactive, exits 0 | update.go:324 |

Some hazards have no property, each with its reason in `PROJECT.json`. A `once` that overlaps the
daemon's check may send a snapshot again (`repeats` is not bounded in `runner_overlap`);
README.md:15 promises deduplication, though not against a second process. Bark's errors are all transient, so that what Bark refuses
is sent again at every interval; `bark_test.go` expects just that. A message that Pushover took but answered
with a garbled 200 is recorded as refused. While every public source is down, changes of the interfaces go
unreported. A kill while the default configuration is written, or a failed chown of a rendered one, leaves a file the
service cannot read and later runs keep. And `is-active` and
`restart` are two commands, so that a service stopped in between is started; `Update` has
both steps.

## What is proved

The theorems hold for every value of the constants, under each module's ASSUME only
(and `~Overlap`, or the limits of an allowance, where stated): any number of processes, snapshots, statuses,
configurations, builds, files, faults.

*RunnerProofs.* `TypeCorrect` needs `Phases` (a check past detection has a
snapshot; only a check inside `Notify` has an exchange). `RecordIsTruthful` adds
`TakenIsAccepted`: an exchange marked as taken is in `accepted`, which is what
makes an acknowledgement evidence. `RunnerKeepsPromise` maps each action: the
provider's step to `Accept`, a refusing `Respond` to `Refuse`, `Save` to
`Publish`, the rest to stutters. For the theorems without overlap the key is
`Solo`: at most one process is in a check, so that its copy of the record has
`Agrees` with the file up to what it has itself learned. `NothingNeedlessIsSent`
follows; `RepetitionsArePaidFor` carries `Debts`, an accounting that ties each
provider's repetitions, the messages that may yet come late and what the record owes it to the
outcomes lost so far; a
bound on `repeats` alone is not inductive, because the loss precedes the repetition.
`PreviousIsReplaced` adds `Linear`: the record a check is about to save `Follows` the file.
Two theorems bound the findings. `ChangeIsKnownUnlessOutcomeLost` (from `Solo` and `Debts`): without
overlap and lost outcomes, what `runner_lost_answer` violates holds. `StateIsReadableWithoutRoot`
(from `OneUser`): if `once` runs as ip-notify only, so does what `runner_root_once`
violates, overlap or not.

*UpdateProofs.* `OnlyListedIsInstalled` rests on `Published` (an uploaded
`SHA256SUMS` is listed, and nothing is uploaded that was not built) and `Sound` (what an updater
read from a checksum file was listed; what it is about to install was
verified). `UpdatedServiceIsNew` adds `Undecided`: an updater under way has no
result, so the installation it makes cannot spoil an older claim of its own.
`SkippedIsNotOldUninterrupted` bounds the finding of `update_interrupted`: with no interruption and
no failing `is-active` its property holds, because then no updater is `blind` (`Answered`).

*FileReplaceProofs.* `Made` and `Gone` say what the calls before the one at hand have made of a
writer's temporary file, and `Placed` that whatever was renamed is complete and, where it was
synced, survives; `DestinationIsWhole` and `NothingIsLittered` read off them. `FileIsReplacedAtomically`
maps each step to one of `AtomicFile`: the rename to `Install`, the end of the
call to `Succeed` or `Fail`, a kill to `Die`, the calls in between to stutters.

*InstallProofs.* `SuccessIsInstalled` needs `Progress`: a process that is at an operation has
everything the operations before it set up, whatever the host was at the beginning; nothing
that others do takes it away. `NoHalfConfig` and `ConfigIsKept` need `Custody`, which says whose file is in place
between creation and chown. `StartedWorks` needs `Serving`: from the chown to the restart nobody
makes the file in the state directory root's or takes away one elsewhere, and only the administrator
changes the configuration that was validated. `RunsOnUsable` rests on the lemma `AcceptedIsUsable` about `Config`.
`Roles` ties each operation to the processes that reach it.

*ExtractProofs.* `ExtractionIsExact` is two loop invariants, `LinesSeen` and
`EntriesSeen`, which say of the lines and entries before `i` what
`AcceptsExactly` says of all of them.

*DetectProofs.* `CancelledNeverDelivers` needs `Hopeless`: a detection whose context was done while it
was `Unfinished` stays so, for each look at the context fails it. `PublicIsFirstAnswer` and `FailureHasAReason`
need the loop invariant `Asking` (all sources before `i` have failed), what it leaves
behind (`Answered`), and `SeesNow`. The interface list needs a second invariant, `WInv`, on top of that one and of
`DetectTypes`: `Witnessed` (while a detection runs, its history covers the
host as it is, so that a read cannot find anything new to it nor miss anything steady), `Fresh` (it starts
without results), `ListKept` (an interface that the list admits, with flags that may be
stale by now, was admitted when it was listed, and those of all steady addresses are in
the list), and `ResultsKept` (the results were all there, and hold what is steady of every
interface passed and read). `SnapshotInventsNothing` and
`SnapshotMissesNothingSteady` follow at `Finish`, where the walk has passed the whole list.
The module's ASSUME takes the interfaces and the addresses of each to be finitely many: the
kernel's lists end.

*NormalFormProofs.* What the fold and the sort of `Normalize` do to a list of any length. The
library's induction theorems have operator parameters; its well-foundedness of `<` on the
naturals has none, and `NatSetInduction` is derived from it for sets. With it `IterateExists` shows that the
recursive function inside `FoldLeft` exists, `FoldSteps` turns it into steps, and
`FoldDeduplicates` and `FoldFixes` are inductions over them. `Less` is a strict total order of names
(`LessTransitive`, `LessTotal`, by the first place where two names depart), hence `Before` of
unmapped pairs. The sort needs no induction: without duplicates `Rank` is injective into
`0..n-1`, so it is onto (`RankIsBijective`), and what has the ranks in their order
ascends (`SortedAscends`). `AscendingIsUnique` counts: the place of an item in an
ascending list is the number of the items below it. So `NormalForm`, `NormalFormIsFixed`,
and `SameAddressesSameForm`: two lists have one normal form exactly if they have the same
addresses. `SnapshotsAreCanonical` and `StillHostHasOneSnapshot` take these to the detection.

Only model-checked: liveness (`Converges`, `StopsWhenSignalled`,
`StopsWhenCancelled`), which rests on fairness and ENABLED and is out of the prover's reach. Every
other property of a passing run is also a theorem.

## Not modelled

- `Config.Redacted`, which only tests call (it overwrites the device keys of the
  configuration it is called on, whose slice it shares), and the fields of the configuration that no
  decision depends on. The lists are sets, except in `Detect`, where their order matters.
- Two installations at once, and an update by the program during an installation by the script: `Update`
  and `FileReplace` have the overlap on the binary. Directories of the administrator's own that the service cannot
  enter. The words of the script, its arguments, its check of the platform and of sudo.
- A state file in `/tmp`, of which the unit gives the service one of its own (`PrivateTmp`); all other places
  outside of the state directory are one.
- Dry runs and the refusals without root, which change nothing.
- Names made by `os.CreateTemp`, which never recur here. Message text, JSON forms,
  logging, version and flags, since no property is about them.
- A power loss under `Store.Save`, which does not sync, can leave a torn state file that no later
  check repairs: `file` has the power loss, but no document promises otherwise, so `AlwaysWhole`
  speaks of power losses only where the file was synced, in `replaceBinary`.
