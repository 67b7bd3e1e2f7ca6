---- MODULE Detect ----
(***************************************************************************)
(* One process's detections of the host's addresses (internal/ipdetect):   *)
(* the public sources in their order, then a walk over the interfaces,     *)
(* while the host changes.  Runner takes a detection for one step.         *)
(*                                                                         *)
(* Abstractions.  Addresses are numbers in the order of netip.Addr.Less, a *)
(* name is the sequence of its characters, themselves numbers.  A public   *)
(* source answers with the address it sees the host come from.  The        *)
(* configuration has been validated.  An interface that is deleted and     *)
(* created again under its name counts as the same one.                    *)
(***************************************************************************)
EXTENDS Naturals, Sequences, FiniteSets, SequencesExt

CONSTANTS
    Names,       \* of interfaces
    IPs,
    Global,      \* the global unicast ones
    Sources,     \* public sources
    Statuses,    \* HTTP statuses
    LinkStates,  \* what an interface may be
    Views,       \* what the sources may see of the host
    Configs,     \* check.* of the configuration
    None,
    Absent,      \* no such interface
    Unsupported, \* an interface address that is not an IP address
    Garbage,     \* a body that is not an IP address
    MaxChanges   \* bound on the host's changes

Address == [ip : IPs, mapped : BOOLEAN]

Link == [up : BOOLEAN, loopback : BOOLEAN, addrs : SUBSET (Address \cup {Unsupported})]

Config == [public : BOOLEAN, private : BOOLEAN, sources : Seq(Sources),
           allow : SUBSET Names, exclude : SUBSET Seq(Nat)]

Snapshot == [public : Address \cup {None}, interfaces : Seq([iface : Names, ip : Address])]

ASSUME DetectAssumption ==
    /\ Names \subseteq Seq(Nat) \ {<<>>} /\ IsFiniteSet(Names)
    /\ IPs \subseteq Nat /\ Global \subseteq IPs
    /\ Statuses \subseteq Nat
    /\ LinkStates \subseteq Link \cup {Absent}
    /\ \A l \in LinkStates \ {Absent} : IsFiniteSet(l.addrs)
    /\ Views \subseteq [Sources -> Address]
    /\ \A c \in Configs : /\ c \in Config
                          /\ c.public \/ c.private
                          /\ c.public => c.sources # <<>>
    /\ None \notin Address /\ None \notin Snapshot
    /\ Unsupported \notin Address /\ Garbage \notin Address
    /\ Absent \notin Link
    /\ MaxChanges \in Nat

VARIABLES
    links,      \* the host's interfaces
    view,       \* where each source sees the host come from
    changes,    \* how often the host has changed
    cancelled,  \* the process's context is done
    config,     \* of the current or last detection
    phase,      \* idle, public, list, walk, failed, or done
    i,          \* the source or the interface a loop is at
    listed,     \* Interfaces(), with the flags of that moment
    public,     \* publicIP
    results,    \* what the walk has found
    outcome,    \* the snapshot, when done
    history     \* of the current or last detection, for properties only

host   == <<links, view, changes>>
locals == <<config, phase, i, listed, public, results, outcome>>
vars   == <<host, cancelled, locals, history>>

---------------------------------------------------------------------------
(* Addresses, names, and the snapshot's normal form.                       *)

Unmap(a) == [a EXCEPT !.mapped = FALSE]

\* parseInterfaceAddr and isUsableInterfaceAddr.
Usable(raw) == raw # Unsupported /\ raw.ip \in Global

\* HasPrefix, but an empty prefix excludes nothing.
ExcludedByPrefix(name, prefixes) ==
    \E p \in prefixes : p # <<>> /\ IsPrefix(p, name)

Eligible(c, name, link) ==
    /\ c.allow = {} \/ name \in c.allow
    /\ ~ExcludedByPrefix(name, c.exclude)
    /\ link.up
    /\ ~link.loopback

\* Go's order of strings.
Less(s, t) ==
    \/ IsStrictPrefix(s, t)
    \/ \E k \in DOMAIN s \cap DOMAIN t :
           s[k] < t[k] /\ \A j \in 1..(k - 1) : s[j] = t[j]

Before(x, y) ==
    IF x.iface # y.iface THEN Less(x.iface, y.iface) ELSE x.ip.ip < y.ip.ip

\* Mutant: no set of the pairs seen.
AppendAlways(seq, x) == Append(seq, x)

AppendNew(seq, x) == IF x \in ToSet(seq) THEN seq ELSE Append(seq, x)

\* Where sorting puts the k-th item: past those before it.
Rank(items, k) ==
    Cardinality({j \in DOMAIN items :
                     \/ Before(items[j], items[k])
                     \/ j < k /\ ~Before(items[k], items[j])})

Sorted(items) ==
    [p \in DOMAIN items |-> items[CHOOSE k \in DOMAIN items : Rank(items, k) = p - 1]]

UnmapAll(items) == [k \in DOMAIN items |-> [items[k] EXCEPT !.ip = Unmap(@)]]

NormalizeList(items) == Sorted(FoldLeft(AppendNew, <<>>, UnmapAll(items)))

Normalize(s) ==
    [public |-> IF s.public = None THEN None ELSE Unmap(s.public),
     interfaces |-> NormalizeList(s.interfaces)]
---------------------------------------------------------------------------
(* What the history keeps of the host: whatever an interface held, which   *)
(* interfaces were eligible, and what was there all the time.              *)

Present(ls) == {n \in Names : ls[n] # Absent}

AddressesOf(ls, n) ==
    IF ls[n] = Absent THEN {}
    ELSE {[iface |-> n, ip |-> Unmap(a)] : a \in {b \in ls[n].addrs : Usable(b)}}

EligibleIn(c, ls) == {n \in Present(ls) : Eligible(c, n, ls[n])}

Observe(c, ls, v) ==
    [held     |-> UNION {AddressesOf(ls, n) : n \in Names},
     eligible |-> EligibleIn(c, ls),
     steady   |-> UNION {AddressesOf(ls, n) : n \in EligibleIn(c, ls)},
     seen     |-> [s \in Sources |-> {Unmap(v[s])}],
     deaf     |-> {},      \* positions of the sources that failed
     unread   |-> {},      \* positions of the interfaces that could not be read
     unlisted |-> FALSE,   \* listing the interfaces failed
     doomed   |-> cancelled] \* the context was done before the last look at it

Extend(h, o) ==
    [h EXCEPT !.held     = @ \cup o.held,
              !.eligible = @ \cup o.eligible,
              !.steady   = @ \cap o.steady,
              !.seen     = [s \in Sources |-> @[s] \cup o.seen[s]]]

---------------------------------------------------------------------------
Init ==
    /\ links \in [Names -> LinkStates \cup {Absent}]
    /\ view \in Views
    /\ changes = 0
    /\ cancelled = FALSE
    /\ config \in Configs
    /\ phase = "idle"
    /\ i = 1
    /\ listed = <<>>
    /\ public = None
    /\ results = <<>>
    /\ outcome = None
    /\ history = Observe(config, links, view)

Running == phase \in {"public", "list", "walk"}

\* Mutant: the results are not a local variable of Collect.
BeginKeepsResults ==
    /\ ~Running
    /\ \E c \in Configs :
           /\ config' = c
           /\ phase' = IF c.public THEN "public" ELSE "list"
           /\ history' = Observe(c, links, view)
    /\ i' = 1
    /\ listed' = <<>>
    /\ public' = None
    /\ outcome' = None
    /\ UNCHANGED <<host, cancelled, results>>

Begin ==
    /\ ~Running
    /\ \E c \in Configs :
           /\ config' = c
           /\ phase' = IF c.public THEN "public" ELSE "list"
           /\ history' = Observe(c, links, view)
    /\ i' = 1
    /\ listed' = <<>>
    /\ public' = None
    /\ results' = <<>>
    /\ outcome' = None
    /\ UNCHANGED <<host, cancelled>>

Fail ==
    /\ phase' = "failed"
    /\ UNCHANGED <<host, cancelled, config, i, listed, public, results, outcome>>

Deliver(interfaces) ==
    /\ phase' = "done"
    /\ outcome' = Normalize([public |-> public, interfaces |-> interfaces])
    /\ UNCHANGED <<host, cancelled, config, i, listed, public, results, history>>

(* resolveOne and the loop over the sources.                               *)

Source == config.sources[i]

NoAnswer == [status |-> 0, body |-> Garbage]

\* A done context fails every request, a body that breaks off included.
Replies ==
    {NoAnswer} \cup
    (IF cancelled THEN {} ELSE [status : Statuses, body : {view[Source], Garbage}])

Accepted(r) == r.status >= 200 /\ r.status <= 299 /\ r.body # Garbage

SourceAnswers ==
    /\ phase = "public"
    /\ \E r \in Replies :
           /\ Accepted(r)
           /\ public' = Unmap(r.body)
    /\ phase' = "list"
    /\ UNCHANGED <<host, cancelled, config, i, listed, results, outcome, history>>

\* Mutant: the bound of the loop is off by one.
SourceFailsTooFar ==
    /\ phase = "public"
    /\ \E r \in Replies : ~Accepted(r)
    /\ history' = [history EXCEPT !.deaf = @ \cup {i}]
    /\ IF i <= Len(config.sources)
       THEN /\ i' = i + 1
            /\ UNCHANGED <<host, cancelled, config, phase, listed, public, results, outcome>>
       ELSE Fail

\* Mutant: a snapshot without the public address is better than none.
SourceFailureIsForgiven ==
    /\ phase = "public"
    /\ \E r \in Replies : ~Accepted(r)
    /\ history' = [history EXCEPT !.deaf = @ \cup {i}]
    /\ IF i < Len(config.sources) THEN i' = i + 1 /\ phase' = phase
                                  ELSE i' = i /\ phase' = "list"
    /\ UNCHANGED <<host, cancelled, config, listed, public, results, outcome>>

SourceFails ==
    /\ phase = "public"
    /\ \E r \in Replies : ~Accepted(r)
    /\ history' = [history EXCEPT !.deaf = @ \cup {i}]
    /\ IF i < Len(config.sources)
       THEN /\ i' = i + 1
            /\ UNCHANGED <<host, cancelled, config, phase, listed, public, results, outcome>>
       ELSE Fail

(* InterfaceCollector.Collect.                                             *)

CollectNothing ==
    /\ phase = "list"
    /\ ~config.private
    /\ Deliver(<<>>)

ListInterfaces ==
    /\ phase = "list"
    /\ config.private
    /\ ~cancelled
    /\ \E order \in SetToSeqs(Present(links)) :
           listed' = [k \in DOMAIN order |-> [name |-> order[k], link |-> links[order[k]]]]
    /\ phase' = "walk"
    /\ i' = 1
    /\ UNCHANGED <<host, cancelled, config, public, results, outcome, history>>

ListFails ==
    /\ phase = "list"
    /\ config.private
    /\ ~cancelled
    /\ history' = [history EXCEPT !.unlisted = TRUE]
    /\ Fail

\* The detection has a source to ask or an interface to look at.
Unfinished ==
    \/ phase = "public"
    \/ phase = "list" /\ config.private
    \/ phase = "walk" /\ i <= Len(listed)

Stopped ==
    /\ cancelled
    /\ phase \in {"list", "walk"}
    /\ Unfinished
    /\ Fail
    /\ UNCHANGED history

\* Mutant: no look at the context between two interfaces.
ScanningOn == phase = "walk" /\ i <= Len(listed)

Scanning == phase = "walk" /\ i <= Len(listed) /\ ~cancelled

EligibleHere == Eligible(config, listed[i].name, listed[i].link)

SkipInterface ==
    /\ Scanning
    /\ ~EligibleHere
    /\ i' = i + 1
    /\ UNCHANGED <<host, cancelled, config, phase, listed, public, results, outcome, history>>

\* Addrs tells what the interface holds now; one that is gone holds nothing.
UsableHere ==
    IF links[listed[i].name] = Absent THEN {}
    ELSE {a \in links[listed[i].name].addrs : Usable(a)}

ReadAddresses ==
    /\ Scanning
    /\ EligibleHere
    /\ \E order \in SetToSeqs(UsableHere) :
           results' = results \o [k \in DOMAIN order |->
                          [iface |-> listed[i].name, ip |-> Unmap(order[k])]]
    /\ i' = i + 1
    /\ UNCHANGED <<host, cancelled, config, phase, listed, public, outcome, history>>

\* Mutant: break for continue.
ReadFailureEndsWalk ==
    /\ Scanning
    /\ EligibleHere
    /\ history' = [history EXCEPT !.unread = @ \cup {i}]
    /\ i' = Len(listed) + 1
    /\ UNCHANGED <<host, cancelled, config, phase, listed, public, results, outcome>>

\* Mutant: return for continue.
ReadFailureFails ==
    /\ Scanning
    /\ EligibleHere
    /\ history' = [history EXCEPT !.unread = @ \cup {i}]
    /\ Fail

ReadFails ==
    /\ Scanning
    /\ EligibleHere
    /\ history' = [history EXCEPT !.unread = @ \cup {i}]
    /\ i' = i + 1
    /\ UNCHANGED <<host, cancelled, config, phase, listed, public, results, outcome>>

Finish ==
    /\ phase = "walk"
    /\ ~Unfinished
    /\ Deliver(NormalizeList(results))

(* The process's context, and the host.                                    *)

Cancel ==
    /\ ~cancelled
    /\ cancelled' = TRUE
    /\ history' = [history EXCEPT !.doomed = @ \/ Unfinished]
    /\ UNCHANGED <<host, locals>>

HostChanges ==
    /\ changes < MaxChanges
    /\ changes' = changes + 1
    /\ \/ /\ \E n \in Names, l \in LinkStates \cup {Absent} : links' = [links EXCEPT ![n] = l]
          /\ UNCHANGED view
       \/ /\ view' \in Views
          /\ UNCHANGED links
    /\ history' = IF Running THEN Extend(history, Observe(config, links', view'))
                  ELSE history
    /\ UNCHANGED <<cancelled, locals>>

Next ==
    \/ Begin
    \/ SourceAnswers \/ SourceFails
    \/ CollectNothing \/ ListInterfaces \/ ListFails
    \/ Stopped \/ SkipInterface \/ ReadAddresses \/ ReadFails \/ Finish
    \/ Cancel \/ HostChanges

Spec == Init /\ [][Next]_vars

---------------------------------------------------------------------------
\* The types of a detection's variables; a loop is never past its end.
TypeOK ==
    /\ links \in [Names -> LinkStates \cup {Absent}]
    /\ view \in Views
    /\ changes \in 0..MaxChanges
    /\ cancelled \in BOOLEAN
    /\ config \in Configs
    /\ phase \in {"idle", "public", "list", "walk", "failed", "done"}
    /\ i \in Nat \ {0}
    /\ phase = "public" => i \in DOMAIN config.sources
    /\ phase = "walk" => i <= Len(listed) + 1
    /\ listed \in Seq([name : Names, link : LinkStates])
    /\ public \in Address \cup {None}
    /\ results \in Seq([iface : Names, ip : Address])
    /\ outcome \in Snapshot \cup {None}
    /\ (outcome # None) = (phase = "done")

Delivered == phase = "done"

Found == ToSet(outcome.interfaces)

\* A snapshot may mix moments, for the loop reads one interface after the
\* other, but every pair in it was on the host during the detection, on an
\* interface that the configuration admits (interfaces.go:64-111).
NothingInvented ==
    Delivered =>
        \A e \in Found : e \in history.held /\ e.iface \in history.eligible

\* What was on an admitted interface throughout the detection is in the
\* snapshot, however the others come and go; a failed listing loses that
\* interface's addresses and no others (interfaces.go:91-95).
NothingSteadyIsMissed ==
    Delivered /\ config.private =>
        \A e \in history.steady :
            \/ e \in Found
            \/ \E k \in history.unread : listed[k].name = e.iface

\* Equal addresses make equal snapshots, and so equal hashes, whatever the
\* order and the form in which the kernel lists them: the list is in strictly
\* ascending order, and normalizing it once more, as Hash does, changes
\* nothing (snapshot.go:28-74).
SnapshotIsCanonical ==
    Delivered =>
        /\ \A k \in DOMAIN outcome.interfaces :
               \A j \in 1..(k - 1) : Before(outcome.interfaces[j], outcome.interfaces[k])
        /\ \A e \in Found : ~e.ip.mapped
        /\ Normalize(outcome) = outcome

\* The public address is what the first source that did not fail answered
\* during this detection (public.go:26-39).
FirstAnswerWins ==
    Delivered /\ config.public =>
        \E k \in DOMAIN config.sources :
            /\ history.deaf = 1..(k - 1)
            /\ outcome.public \in history.seen[config.sources[k]]

\* A detection fails only if its context is done, every source has failed, or
\* the interfaces could not be listed: one interface or one source does not
\* fail it (detector.go:27-38).
FailsForAReason ==
    phase = "failed" =>
        \/ cancelled
        \/ history.unlisted
        \/ config.public /\ history.deaf = DOMAIN config.sources

\* A detection whose context is done while it still has a source to ask or an
\* interface to look at delivers nothing, not even what it has found so far;
\* the check loop counts on it to end (interfaces.go:41-68, runner.go:131-139).
CancelledDetectionFails == history.doomed => ~Delivered
====
