---- MODULE Runner ----
(***************************************************************************)
(* The check-and-notify loop of ip-notify: the daemon started by           *)
(* `ip-notify run` (internal/daemon, Run) and any number of concurrent     *)
(* `ip-notify once [--force]` commands, sharing one state file.            *)
(*                                                                         *)
(* A check loads the state file, detects the snapshot, asks each enabled   *)
(* notifier in turn to deliver it, and saves the file.  The steps of       *)
(* ProcessOnceResultWithOptions at which another process, the network, a   *)
(* provider or a crash can be observed are actions of their own; what the  *)
(* code does between two of them is part of the action before.             *)
(*                                                                         *)
(* Abstractions.  Detect reads the host's snapshot in one step.  Store.Save*)
(* is atomic: it either installs the whole record or reports an error.     *)
(* Time is a ticker that is sometimes due.                                 *)
(***************************************************************************)
EXTENDS Integers, Sequences, StateRecord, Providers

Seqs == INSTANCE SequencesExt

CONSTANTS
    Daemon,      \* the process of the systemd service
    OnceUsers,   \* the processes that run `ip-notify once`
    OnceUids,    \* the users an administrator runs `once` as
    Configs,     \* the valid configurations: [initial, enabled]
    Overlap,     \* may a check begin while another one is in progress?
    NoFile,      \* the state file does not exist
    Allowance    \* how often each kind of event below may happen

Procs == {Daemon} \cup OnceUsers

Uids == {"root", "ip-notify"}

\* Events the environment is free to cause, each bounded by Allowance.
Kinds == {"change",     \* the host's addresses change
          "configure",  \* the administrator edits the config file
          "once",       \* the administrator runs `once`
          "stop",       \* SIGINT or SIGTERM
          "crash",      \* a process is killed
          "input",      \* reading the state file or detecting fails
          "transient",  \* a provider fails to take a message, but may later
          "refuse",     \* a provider refuses a message, or answers it with nonsense
          "lostack",    \* a provider takes a message and the client cannot tell
          "delay",      \* a message is not taken before its client gives up
          "save"}       \* writing the state file fails

\* An allowance also bounds all of them together.
Bounds == Kinds \cup {"any"}

ASSUME RunnerAssumption ==
    /\ Daemon \notin OnceUsers
    /\ OnceUids \subseteq Uids
    /\ Configs \subseteq [initial : BOOLEAN, enabled : SUBSET Notifiers]
    /\ \A c \in Configs : c.enabled # {}
    /\ Overlap \in BOOLEAN
    /\ NoFile \notin [owner : Uids, data : State]
    /\ Allowance \in [Bounds -> Nat]

VARIABLES
    net,        \* the hash of the host's present snapshot
    config,     \* the configuration file
    late,       \* the delayed messages on their way to each provider
    disk,       \* the state file: NoFile or its owner and content
    pc,         \* where each process is
    cfg,        \* the configuration each process read at its start
    uid,        \* the user each process runs as
    force,      \* `once --force`
    cancelled,  \* the process's context is done
    wanted,     \* systemd is to start the service: at boot, or after a failure
    tick,       \* the daemon's ticker: not created, quiet, or due
    mem,        \* the State a check works on
    snap,       \* the snapshot it detected
    todo,       \* the notifiers its loop has not reached
    wire,       \* its exchange with a provider: idle, sent, or taken
    budget,     \* what is left of Allowance
    \* History, read by properties only:
    inbox,      \* the last snapshot each provider has shown the user
    accepted,   \* every snapshot each provider has taken
    rejected,   \* every snapshot each provider has refused, or has answered with
                \* a success status and nothing intelligible
    repeats     \* unforced or late messages that told the user what inbox already said

env     == <<net, config, late, wanted>>
session == <<cfg, uid, force>>
check   == <<mem, snap, todo, wire>>
history == <<inbox, accepted, rejected, repeats>>
vars    == <<net, config, late, disk, pc, cfg, uid, force, cancelled, wanted,
             tick, mem, snap, todo, wire, budget, inbox, accepted, rejected, repeats>>

---------------------------------------------------------------------------

\* off: no process; boot: started, nothing read; idle: the daemon's select;
\* detect: state loaded; loop: in the notifier loop, or at the save after it;
\* wait: inside Notify.
PCs == {"off", "boot", "idle", "detect", "loop", "wait"}

File == [owner : Uids, data : State]

NoConfig == [initial |-> FALSE, enabled |-> {}]

InCheck(p) == pc[p] \in {"detect", "loop", "wait"}

\* buildNotifiers appends Bark before Pushover, and the loop follows that order.
IsNext(n, p) ==
    /\ n \in todo[p]
    /\ n = "pushover" => "bark" \notin todo[p]

\* What Load returns when it succeeds.
Stored == IF disk = NoFile THEN NewState ELSE disk.data

\* Save creates a fresh 0600 temporary file, so the file belongs to the last saver.
CanRead(u) == disk # NoFile => u \in {"root", disk.owner}

Spend(k) ==
    /\ budget[k] > 0
    /\ budget["any"] > 0
    /\ budget' = [budget EXCEPT ![k] = @ - 1, !["any"] = @ - 1]

Spent(k) == Allowance[k] - budget[k]

\* Mutant: --force overrides a permanent failure, too.
ForceOverridesTerminal(p, n) ==
    ~force[p] /\ snap[p] \in {mem[p].terminal[n], mem[p].delivered[n]}

\* Mutant: a permanent failure of any snapshot suppresses the notifier.
TerminalForever(p, n) ==
    \/ mem[p].terminal[n] # NoHash
    \/ mem[p].delivered[n] = snap[p] /\ ~force[p]

\* The loop skips a refused snapshot always and a delivered one unless forced.
Handled(p, n) ==
    \/ mem[p].terminal[n] = snap[p]
    \/ mem[p].delivered[n] = snap[p] /\ ~force[p]

---------------------------------------------------------------------------

Init ==
    /\ net \in Hashes
    /\ config \in Configs
    /\ late = [n \in Notifiers |-> <<>>]
    /\ disk = NoFile
    /\ pc = [p \in Procs |-> "off"]
    /\ cfg = [p \in Procs |-> NoConfig]
    /\ uid = [p \in Procs |-> "ip-notify"]
    /\ force = [p \in Procs |-> FALSE]
    /\ cancelled = [p \in Procs |-> FALSE]
    /\ wanted = TRUE
    /\ tick = "none"
    /\ mem = [p \in Procs |-> NewState]
    /\ snap = [p \in Procs |-> NoHash]
    /\ todo = [p \in Procs |-> {}]
    /\ wire = [p \in Procs |-> "idle"]
    /\ budget = Allowance
    /\ inbox = [n \in Notifiers |-> NoHash]
    /\ accepted = [n \in Notifiers |-> {}]
    /\ rejected = [n \in Notifiers |-> {}]
    /\ repeats = [n \in Notifiers |-> 0]

---------------------------------------------------------------------------
(* The environment.                                                        *)

ChangeAddress ==
    /\ Spend("change")
    /\ net' \in Hashes \ {net}
    /\ UNCHANGED <<config, late, wanted, disk, pc, session, cancelled, tick, check,
                   history>>

EditConfig ==
    /\ Spend("configure")
    /\ config' \in Configs \ {config}
    /\ UNCHANGED <<net, late, wanted, disk, pc, session, cancelled, tick, check,
                   history>>

\* newRunner reads and validates the config file once, before the loop.
Start(p, u, f) ==
    /\ pc[p] = "off"
    /\ pc' = [pc EXCEPT ![p] = "boot"]
    /\ cfg' = [cfg EXCEPT ![p] = config]
    /\ uid' = [uid EXCEPT ![p] = u]
    /\ force' = [force EXCEPT ![p] = f]
    /\ UNCHANGED <<net, config, late, disk, cancelled, tick, check, history>>

\* By systemd when it wants the service, or by the administrator at any time.
StartService ==
    /\ Start(Daemon, "ip-notify", FALSE)
    /\ wanted' = FALSE
    /\ UNCHANGED budget

StartOnce(p) ==
    /\ Spend("once")
    /\ UNCHANGED wanted
    /\ \E u \in OnceUids, f \in BOOLEAN : Start(p, u, f)

Signal(p) ==
    /\ pc[p] # "off"
    /\ ~cancelled[p]
    /\ Spend("stop")
    /\ cancelled' = [cancelled EXCEPT ![p] = TRUE]
    /\ UNCHANGED <<env, disk, pc, session, tick, check, history>>

\* The ticker's channel holds one tick; the runtime drops the ones after it.
Tick ==
    /\ tick = "quiet"
    /\ tick' = "due"
    /\ UNCHANGED <<env, disk, pc, session, cancelled, check, budget, history>>

---------------------------------------------------------------------------
(* The ends of a check and of a process.                                   *)

Forget(p) ==
    /\ mem' = [mem EXCEPT ![p] = NewState]
    /\ snap' = [snap EXCEPT ![p] = NoHash]
    /\ todo' = [todo EXCEPT ![p] = {}]
    /\ wire' = [wire EXCEPT ![p] = "idle"]

Exit(p) ==
    /\ pc' = [pc EXCEPT ![p] = "off"]
    /\ cfg' = [cfg EXCEPT ![p] = NoConfig]
    /\ uid' = [uid EXCEPT ![p] = "ip-notify"]
    /\ force' = [force EXCEPT ![p] = FALSE]
    /\ cancelled' = [cancelled EXCEPT ![p] = FALSE]
    /\ tick' = IF p = Daemon THEN "none" ELSE tick
    /\ Forget(p)

\* runCheck logs the error and Run goes on to its select, having created the
\* ticker after the first check; `once` exits.
EndCheck(p) ==
    IF p = Daemon
    THEN /\ pc' = [pc EXCEPT ![p] = "idle"]
         /\ tick' = IF tick = "due" /\ pc[p] # "idle" THEN "due" ELSE "quiet"
         /\ Forget(p)
         /\ UNCHANGED <<session, cancelled>>
    ELSE Exit(p)

\* Mutant: the select has no case for the context.
StopBeforeFirstCheckOnly ==
    /\ pc[Daemon] = "boot"
    /\ cancelled[Daemon]
    /\ Exit(Daemon)
    /\ UNCHANGED <<env, disk, budget, history>>

\* Run returns nil when its context is done: before the first check, or in the
\* select.  For Restart=on-failure that is a clean exit, and the service stays off.
Stop ==
    /\ pc[Daemon] \in {"boot", "idle"}
    /\ cancelled[Daemon]
    /\ Exit(Daemon)
    /\ UNCHANGED <<env, disk, budget, history>>

\* Restart=on-failure starts a killed service again, unless it was being stopped:
\* the signal may have been systemd's own, before the kill that ends a slow stop.
Crash(p) ==
    /\ pc[p] # "off"
    /\ Spend("crash")
    /\ Exit(p)
    /\ IF p = Daemon THEN wanted' \in {TRUE, ~cancelled[p]} ELSE UNCHANGED wanted
    /\ UNCHANGED <<net, config, late, disk, history>>

---------------------------------------------------------------------------
(* One check.                                                              *)

\* The daemon checks at once after its start, unless already cancelled, and then
\* when the ticker is due: with a cancelled context too, for select picks at
\* random among its ready cases.
MayCheck(p) ==
    /\ \/ pc[p] = "boot" /\ (p = Daemon => ~cancelled[p])
       \/ pc[p] = "idle" /\ tick = "due"
    /\ Overlap \/ \A q \in Procs : ~InCheck(q)

LoadState(p) ==
    /\ MayCheck(p)
    /\ CanRead(uid[p])
    /\ pc' = [pc EXCEPT ![p] = "detect"]
    /\ mem' = [mem EXCEPT ![p] = Stored]
    /\ tick' = IF pc[p] = "idle" THEN "quiet" ELSE tick
    /\ UNCHANGED <<env, disk, session, cancelled, snap, todo, wire, budget, history>>

LoadFails(p) ==
    /\ MayCheck(p)
    /\ IF CanRead(uid[p]) THEN Spend("input") ELSE UNCHANGED budget
    /\ EndCheck(p)
    /\ UNCHANGED <<env, disk, history>>

\* The first snapshot of a fresh record is only remembered when notify_initial is
\* off, and a snapshot so remembered is never notified: the loop is not entered.
Recorded(p, h) ==
    LET s == RecordSnapshot(mem[p], h) IN
    IF mem[p].current = NoHash /\ ~cfg[p].initial THEN MarkInitialSkipped(s, h) ELSE s

Detect(p) ==
    /\ pc[p] = "detect"
    /\ ~cancelled[p]
    /\ pc' = [pc EXCEPT ![p] = "loop"]
    /\ snap' = [snap EXCEPT ![p] = net]
    /\ mem' = [mem EXCEPT ![p] = Recorded(p, net)]
    /\ todo' = [todo EXCEPT ![p] =
                   IF Recorded(p, net).skipped = net THEN {} ELSE cfg[p].enabled]
    /\ UNCHANGED <<env, disk, session, cancelled, tick, wire, budget, history>>

\* Both sources look at the context first, so a cancelled check cannot succeed.
DetectFails(p) ==
    /\ pc[p] = "detect"
    /\ IF cancelled[p] THEN UNCHANGED budget ELSE Spend("input")
    /\ EndCheck(p)
    /\ UNCHANGED <<env, disk, history>>

SkipHandled(p, n) ==
    /\ pc[p] = "loop"
    /\ IsNext(n, p)
    /\ Handled(p, n)
    /\ todo' = [todo EXCEPT ![p] = @ \ {n}]
    /\ UNCHANGED <<env, disk, pc, session, cancelled, tick, mem, snap, wire, budget,
                   history>>

\* A client with a cancelled context sends nothing.
Send(p, n) ==
    /\ pc[p] = "loop"
    /\ IsNext(n, p)
    /\ ~Handled(p, n)
    /\ pc' = [pc EXCEPT ![p] = "wait"]
    /\ wire' = [wire EXCEPT ![p] = IF cancelled[p] THEN "idle" ELSE "sent"]
    /\ UNCHANGED <<env, disk, session, cancelled, tick, mem, snap, todo, budget, history>>

\* The provider accepts a message and shows it to the user.
Show(n, h, forced) ==
    /\ inbox' = [inbox EXCEPT ![n] = h]
    /\ accepted' = [accepted EXCEPT ![n] = @ \cup {h}]
    /\ repeats' = [repeats EXCEPT ![n] = IF inbox[n] = h /\ ~forced THEN @ + 1 ELSE @]

ProviderTakes(p, n) ==
    /\ wire[p] = "sent"
    /\ IsNext(n, p)
    /\ wire' = [wire EXCEPT ![p] = "taken"]
    /\ Show(n, snap[p], force[p])
    /\ UNCHANGED <<env, disk, pc, session, cancelled, tick, mem, snap, todo, budget,
                   rejected>>

\* The client will hear no more of its message, whether it then times out or dies.
Delay(p, n) ==
    /\ wire[p] = "sent"
    /\ IsNext(n, p)
    /\ Spend("delay")
    /\ late' = [late EXCEPT ![n] = Append(@, snap[p])]
    /\ wire' = [wire EXCEPT ![p] = "idle"]
    /\ UNCHANGED <<net, config, wanted, disk, pc, session, cancelled, tick, mem, snap,
                   todo, history>>

\* Delayed messages arrive in any order, after any later one, or never.
ArriveLate(n) ==
    /\ \E i \in 1 .. Len(late[n]) :
         /\ late' = [late EXCEPT ![n] = Seqs!RemoveAt(@, i)]
         /\ Show(n, late[n][i], FALSE)
    /\ UNCHANGED <<net, config, wanted, disk, pc, session, cancelled, tick, check,
                   budget, rejected>>

\* What Notify's result does to the record.
Marked(s, n, h, outcome) ==
    IF outcome = "delivered" THEN MarkNotifierSuccess(s, n, h)
    ELSE IF outcome = "permanent" THEN MarkNotifierTerminalFailure(s, n, h)
    ELSE s

\* A permanent failure, as far as the client is told.
FailsForGood(n, r) == Refuses(n, r) \/ Unintelligible(n, r)

\* What the environment spends on a reply.
Account(p, n, r) ==
    IF wire[p] = "taken"
    THEN IF Outcome(n, r) = "delivered" THEN UNCHANGED budget ELSE Spend("lostack")
    ELSE IF wire[p] = "idle" \/ (cancelled[p] /\ r = NoReply) THEN UNCHANGED budget
    ELSE IF FailsForGood(n, r) THEN Spend("refuse")
    ELSE Spend("transient")

\* Notify returns: the provider answered, or the client gave up.
Respond(p, n) ==
    /\ pc[p] = "wait"
    /\ IsNext(n, p)
    /\ \E r \in Replies \cup {NoReply} :
         /\ wire[p] = "idle" => r = NoReply
         /\ Plausible(n, wire[p] = "taken", r)
         /\ Account(p, n, r)
         /\ mem' = [mem EXCEPT ![p] = Marked(@, n, snap[p], Outcome(n, r))]
         /\ rejected' = [rejected EXCEPT ![n] =
                            IF FailsForGood(n, r) THEN @ \cup {snap[p]} ELSE @]
    /\ pc' = [pc EXCEPT ![p] = "loop"]
    /\ todo' = [todo EXCEPT ![p] = @ \ {n}]
    /\ wire' = [wire EXCEPT ![p] = "idle"]
    /\ UNCHANGED <<env, disk, session, cancelled, tick, snap, inbox, accepted, repeats>>

AtSave(p) == pc[p] = "loop" /\ todo[p] = {}

Save(p) ==
    /\ AtSave(p)
    /\ disk' = [owner |-> uid[p], data |-> mem[p]]
    /\ EndCheck(p)
    /\ UNCHANGED <<env, budget, history>>

SaveFails(p) ==
    /\ AtSave(p)
    /\ Spend("save")
    /\ EndCheck(p)
    /\ UNCHANGED <<env, disk, history>>

---------------------------------------------------------------------------

Next ==
    \/ ChangeAddress
    \/ EditConfig
    \/ StartService
    \/ Tick
    \/ Stop
    \/ \E p \in OnceUsers : StartOnce(p)
    \/ \E p \in Procs :
         \/ Signal(p)
         \/ Crash(p)
         \/ LoadState(p)
         \/ LoadFails(p)
         \/ Detect(p)
         \/ DetectFails(p)
         \/ Save(p)
         \/ SaveFails(p)
    \/ \E n \in Notifiers : ArriveLate(n)
    \/ \E p \in Procs, n \in Notifiers :
         \/ SkipHandled(p, n)
         \/ Send(p, n)
         \/ ProviderTakes(p, n)
         \/ Delay(p, n)
         \/ Respond(p, n)

Spec == Init /\ [][Next]_vars

---------------------------------------------------------------------------
(* Fairness.  The daemon's goroutine is scheduled, its HTTP client and file *)
(* calls return, and the ticker ticks; systemd starts the service when it   *)
(* wants it: at boot and after a failure (Restart=on-failure), never after  *)
(* a clean exit.  A select with both cases ready picks one at random, hence *)
(* SF on Stop.  Nothing is assumed of the administrator and of `once`.      *)

DaemonStep ==
    \/ LoadState(Daemon) \/ LoadFails(Daemon)
    \/ Detect(Daemon) \/ DetectFails(Daemon)
    \/ Save(Daemon) \/ SaveFails(Daemon)
    \/ \E n \in Notifiers :
         \/ SkipHandled(Daemon, n) \/ Send(Daemon, n)
         \/ ProviderTakes(Daemon, n) \/ Respond(Daemon, n)

Fairness ==
    /\ WF_vars(wanted /\ StartService)
    /\ WF_vars(Tick)
    /\ WF_vars(DaemonStep)
    /\ SF_vars(Stop)

FairSpec == Spec /\ Fairness

---------------------------------------------------------------------------
(* Properties.                                                             *)

TypeOK ==
    /\ net \in Hashes
    /\ config \in Configs
    /\ late \in [Notifiers -> Seq(Hashes)]
    /\ disk \in File \cup {NoFile}
    /\ pc \in [Procs -> PCs]
    /\ cfg \in [Procs -> Configs \cup {NoConfig}]
    /\ uid \in [Procs -> Uids]
    /\ force \in [Procs -> BOOLEAN]
    /\ cancelled \in [Procs -> BOOLEAN]
    /\ wanted \in BOOLEAN
    /\ tick \in {"none", "quiet", "due"}
    /\ mem \in [Procs -> State]
    /\ snap \in [Procs -> MaybeHash]
    /\ todo \in [Procs -> SUBSET Notifiers]
    /\ wire \in [Procs -> {"idle", "sent", "taken"}]
    /\ budget \in [Bounds -> Nat]
    /\ inbox \in [Notifiers -> MaybeHash]
    /\ accepted \in [Notifiers -> SUBSET Hashes]
    /\ rejected \in [Notifiers -> SUBSET Hashes]
    /\ repeats \in [Notifiers -> Nat]

\* The outcomes s records are among those that took place.
Evidenced(s, acc, rej) ==
    \A n \in Notifiers :
        /\ s.delivered[n] \in acc[n] \cup {NoHash}
        /\ s.terminal[n] \in rej[n] \cup {NoHash}

\* The record never claims an outcome that did not happen: in the file and in any
\* check's memory, a snapshot marked delivered was taken by that provider, and one
\* marked terminal was refused by it, or answered with a success status and nothing
\* intelligible (pushover.go:91-103), whatever fails, restarts or overlaps.
Truthful ==
    /\ Evidenced(Stored, accepted, rejected)
    /\ \A p \in Procs : Evidenced(mem[p], accepted, rejected)

\* While no two checks overlap, a message in flight is one the file on disk calls
\* for: not terminal for that provider even if forced, not delivered unless forced,
\* not the snapshot skipped at the start, and not the first one when notify_initial
\* is off.  (ProcessOnceResultWithOptions decides from its own copy of the file.)
NoNeedlessSend ==
    \A p \in Procs, n \in Notifiers :
        pc[p] = "wait" /\ IsNext(n, p) =>
            /\ n \in cfg[p].enabled
            /\ Stored.terminal[n] # snap[p]
            /\ force[p] \/ NeedsNotification(Stored, n, snap[p])
            /\ Stored.skipped # snap[p]
            /\ Stored.current = NoHash => cfg[p].initial

OutcomesLost == Spent("lostack") + Spent("delay") + Spent("crash") + Spent("save")

\* Delivery is at-least-once, and each repetition is paid for: while no two checks
\* overlap, a provider tells the user again what it told last, without --force, at
\* most once per lost answer, delayed message, killed process or failed save, however
\* late and in whatever order the delayed ones arrive.
RepeatsArePaidFor ==
    \A n \in Notifiers : repeats[n] <= OutcomesLost

\* As long as no outcome was lost and no two checks overlap, the latest record (the
\* running check's, else the file's) names for each provider exactly the snapshot
\* the user was last shown, so a skip as already handled leaves nobody misinformed.
RecordMatchesInbox ==
    OutcomesLost = 0 =>
        \A n \in Notifiers :
            /\ (\A p \in Procs : ~InCheck(p)) => Stored.delivered[n] = inbox[n]
            /\ \A p \in Procs :
                 InCheck(p) /\ ~(wire[p] = "taken" /\ IsNext(n, p))
                     => mem[p].delivered[n] = inbox[n]

\* While no two checks overlap, the file's previous snapshot is the one its current
\* snapshot replaced, and it stays until the next replacement.
PreviousFollowsCurrent ==
    [][ /\ Stored'.current = Stored.current => Stored'.previous = Stored.previous
        /\ Stored'.current # Stored.current => Stored'.previous = Stored.current ]_vars

Settled ==
    LET s == Stored IN
    /\ pc[Daemon] # "off"
    /\ s.current = net
    /\ \A n \in cfg[Daemon].enabled :
         net \in {s.delivered[n], s.terminal[n], s.skipped}

StoppedForGood == pc[Daemon] = "off" /\ ~wanted

\* Once faults and changes are over, the file comes to hold the host's snapshot with
\* every enabled notifier's outcome for it, and remains so, unless the service was
\* stopped (unit.go:32) and nobody has started it again; `once` commands that overlap
\* the daemon and save a stale record are overcome.
Converges == <>[]StoppedForGood \/ <>[]Settled

\* A daemon that was signalled exits, whatever check it is in the middle of.
StopsWhenSignalled == cancelled[Daemon] ~> pc[Daemon] = "off"

\* The file, whoever saves it, keeps the promise of a ledger: see Ledger.tla.
Promise == INSTANCE Ledger WITH
    Services  <- Notifiers,
    Messages  <- Hashes,
    None      <- NoHash,
    refused   <- rejected,
    delivered <- Stored.delivered,
    terminal  <- Stored.terminal

\* Every behaviour of the processes, faults and overlaps included, is one of the
\* ledger: entries are published only when the outcome they name has happened.
KeepsPromise == Promise!Spec

---------------------------------------------------------------------------
(* What the documentation says and the code does not do.                   *)

\* README.md:285, "A changed snapshot is sent to every enabled notifier": when the
\* snapshot changed and a provider is skipped as already handled, the user has at
\* least been shown that snapshot last.
ChangedSnapshotIsKnown ==
    \A p \in Procs, n \in Notifiers :
        /\ pc[p] = "loop" /\ IsNext(n, p)
        /\ Stored.current # snap[p]
        /\ mem[p].delivered[n] = snap[p]
        => ~Handled(p, n) \/ inbox[n] = snap[p]

\* README.md:290, the first snapshot is "skipped while the hash remains unchanged":
\* a snapshot is skipped as the initial one only if nothing else came in between.
InitialSkipEndsOnChange ==
    \A p \in Procs :
        pc[p] = "loop" /\ mem[p].skipped = snap[p]
            => Stored.current \in {NoHash, snap[p]}

\* scripts/install.sh:381-383 tells the administrator to run `once` and then to
\* restart the service: the service can read the state file it finds.
DaemonCanReadState == pc[Daemon] # "off" => CanRead(uid[Daemon])
====
