---- MODULE DetectProofs ----
(* Theorems about Detect, for every host, configuration and set of sources. *)
EXTENDS NormalFormProofs

(* What the three properties below need of the types.                      *)
Histories ==
    [held : SUBSET [iface : Names, ip : Address], eligible : SUBSET Names,
     steady : SUBSET [iface : Names, ip : Address], seen : [Sources -> SUBSET Address],
     deaf : SUBSET Nat, unread : SUBSET Nat, unlisted : BOOLEAN, doomed : BOOLEAN]

Typed ==
    /\ links \in [Names -> LinkStates \cup {Absent}]
    /\ view \in [Sources -> Address]
    /\ cancelled \in BOOLEAN
    /\ config \in Configs
    /\ phase \in {"idle", "public", "list", "walk", "failed", "done"}
    /\ i \in Nat
    /\ history \in Histories

\* What a source sees now counts as seen.
SeesNow == Running => \A s \in Sources : Unmap(view[s]) \in history.seen[s]

\* The loop over the sources is at the first one that has not failed.
Asking ==
    phase = "public" =>
        /\ config.public
        /\ i \in DOMAIN config.sources
        /\ history.deaf = 1..(i - 1)

\* Past that loop, the address is the answer of the first that did not.
Answered ==
    phase \in {"list", "walk"} /\ config.public =>
        /\ public \in Address
        /\ Unmap(public) = public
        /\ \E k \in DOMAIN config.sources :
               /\ history.deaf = 1..(k - 1)
               /\ public \in history.seen[config.sources[k]]

\* A detection that has yet to look at its done context is never past that look.
Hopeless ==
    history.doomed =>
        /\ cancelled
        /\ phase # "done"
        /\ Running => Unfinished

IInv == Typed /\ SeesNow /\ Asking /\ Answered /\ Hopeless /\ FirstAnswerWins /\ FailsForAReason

LEMMA Assumed ==
    /\ \A c \in Configs :
           /\ c \in Config
           /\ c.public \/ c.private
           /\ c.public => c.sources # <<>>
           /\ Len(c.sources) \in Nat
           /\ DOMAIN c.sources = 1..Len(c.sources)
           /\ \A k \in DOMAIN c.sources : c.sources[k] \in Sources
    /\ None \notin Address /\ Garbage \notin Address
  BY DetectAssumption DEF Config

LEMMA UnmapIdempotent ==
    ASSUME NEW a \in Address
    PROVE  Unmap(a) \in Address /\ Unmap(Unmap(a)) = Unmap(a)
  BY DEF Unmap, Address

\* What a host holds, as the history keeps it.
LEMMA ObserveType ==
    ASSUME NEW c \in Configs,
           NEW ls \in [Names -> LinkStates \cup {Absent}],
           NEW v \in [Sources -> Address],
           cancelled \in BOOLEAN
    PROVE  /\ Observe(c, ls, v) \in Histories
           /\ \A s \in Sources : Unmap(v[s]) \in Observe(c, ls, v).seen[s]
           /\ Observe(c, ls, v).deaf = {}
           /\ Observe(c, ls, v).unlisted = FALSE
           /\ Observe(c, ls, v).doomed = cancelled
  <1>1. ASSUME NEW n \in Names
        PROVE  AddressesOf(ls, n) \subseteq [iface : Names, ip : Address]
    <2>1. CASE ls[n] = Absent
      BY <2>1 DEF AddressesOf
    <2>2. CASE ls[n] # Absent
      <3>1. ls[n].addrs \subseteq Address \cup {Unsupported}
        BY <2>2, DetectAssumption DEF Link
      <3>2. \A a \in ls[n].addrs : Usable(a) => Unmap(a) \in Address
        BY <3>1, UnmapIdempotent DEF Usable
      <3> QED BY <2>2, <3>2 DEF AddressesOf
    <2> QED BY <2>1, <2>2
  <1>2. EligibleIn(c, ls) \subseteq Names
    BY DEF EligibleIn, Present
  <1>3. \A s \in Sources : Unmap(v[s]) \in Address
    BY UnmapIdempotent
  <1> QED BY <1>1, <1>2, <1>3 DEF Observe, Histories

LEMMA ExtendType ==
    ASSUME NEW h \in Histories, NEW o \in Histories
    PROVE  /\ Extend(h, o) \in Histories
           /\ \A s \in Sources : o.seen[s] \cup h.seen[s] \subseteq Extend(h, o).seen[s]
           /\ Extend(h, o).deaf = h.deaf
           /\ Extend(h, o).unlisted = h.unlisted
           /\ Extend(h, o).doomed = h.doomed
  BY DEF Extend, Histories

LEMMA InvInit == Init => IInv
  <1> SUFFICES ASSUME Init PROVE IInv
    OBVIOUS
  <1>1. view \in [Sources -> Address] /\ cancelled \in BOOLEAN
    BY DetectAssumption DEF Init
  <1>2. history \in Histories /\ history.doomed = FALSE
    BY <1>1, ObserveType DEF Init
  <1>3. Typed
    BY <1>1, <1>2 DEF Init, Typed
  <1> QED BY <1>2, <1>3 DEF Init, IInv, SeesNow, Running, Asking, Answered, Hopeless,
                            FirstAnswerWins, Delivered, FailsForAReason

LEMMA BeginStep == ASSUME IInv, Begin PROVE IInv'
  <1>1. PICK c \in Configs :
            /\ config' = c
            /\ phase' = IF c.public THEN "public" ELSE "list"
            /\ history' = Observe(c, links, view)
    BY DEF Begin
  <1>2. /\ history' \in Histories
        /\ \A s \in Sources : Unmap(view[s]) \in history'.seen[s]
        /\ history'.deaf = {} /\ history'.doomed = cancelled
    BY <1>1, ObserveType DEF IInv, Typed
  <1>3. i' = 1 /\ outcome' = None /\ UNCHANGED <<host, cancelled>>
    BY DEF Begin
  <1>4. Typed'
    BY <1>1, <1>2, <1>3 DEF IInv, Typed, host
  <1>5. SeesNow'
    BY <1>2, <1>3 DEF SeesNow, host
  <1>6. Asking'
    BY <1>1, <1>2, <1>3, Assumed DEF Asking
  <1>7. Answered'
    BY <1>1 DEF Answered
  <1>8. Hopeless'
    BY <1>1, <1>2, <1>3, Assumed DEF Hopeless, Running, Unfinished
  <1>9. FirstAnswerWins' /\ FailsForAReason'
    BY <1>1 DEF FirstAnswerWins, Delivered, FailsForAReason
  <1> QED BY <1>4, <1>5, <1>6, <1>7, <1>8, <1>9 DEF IInv

LEMMA AnswersStep == ASSUME IInv, SourceAnswers PROVE IInv'
  <1> USE DEF IInv
  <1>1. PICK r \in Replies : Accepted(r) /\ public' = Unmap(r.body)
    BY DEF SourceAnswers
  <1>2. /\ phase = "public" /\ phase' = "list"
        /\ UNCHANGED <<host, cancelled, config, i, history>>
    BY DEF SourceAnswers
  <1>3. ~cancelled /\ r.body = view[Source]
    <2>1. r # NoAnswer
      BY <1>1 DEF Accepted, NoAnswer
    <2> QED BY <1>1, <2>1 DEF Replies, Accepted, Typed
  <1>4. i \in DOMAIN config.sources /\ Source \in Sources /\ history.deaf = 1..(i - 1)
    BY <1>2, Assumed DEF Asking, Typed, Source
  <1>5. /\ public' \in Address /\ Unmap(public') = public'
        /\ public' \in history.seen[Source]
    BY <1>1, <1>2, <1>3, <1>4, UnmapIdempotent DEF Typed, SeesNow, Running
  <1>6. Typed' /\ SeesNow'
    BY <1>2 DEF Typed, SeesNow, Running, host
  <1>7. Answered'
    BY <1>2, <1>4, <1>5 DEF Answered, Source
  <1>8. Hopeless'
    BY <1>2, <1>3 DEF Hopeless, Running, Unfinished
  <1> QED BY <1>2, <1>6, <1>7, <1>8 DEF Asking, FirstAnswerWins, Delivered, FailsForAReason

LEMMA FailsStep == ASSUME IInv, SourceFails PROVE IInv'
  <1> USE DEF IInv
  <1>1. /\ phase = "public"
        /\ history' = [history EXCEPT !.deaf = @ \cup {i}]
        /\ UNCHANGED <<host, cancelled, config>>
    BY DEF SourceFails, Fail
  <1>2. /\ config.public /\ i \in DOMAIN config.sources
        /\ history.deaf = 1..(i - 1)
        /\ i \in 1..Len(config.sources) /\ Len(config.sources) \in Nat
    BY <1>1, Assumed DEF Asking, Typed
  <1>3. /\ history' \in Histories
        /\ history'.deaf = 1..i
        /\ history'.seen = history.seen /\ history'.doomed = history.doomed
    BY <1>1, <1>2 DEF Typed, Histories
  <1>4. CASE i < Len(config.sources)
    <2>1. i' = i + 1 /\ phase' = phase
      BY <1>4 DEF SourceFails
    <2>2. Typed' /\ SeesNow'
      BY <1>1, <1>2, <1>3, <2>1 DEF Typed, SeesNow, Running, host
    <2>3. Asking'
      BY <1>1, <1>2, <1>3, <1>4, <2>1, Assumed DEF Asking, Typed
    <2> QED BY <1>1, <1>3, <2>1, <2>2, <2>3
            DEF Answered, Hopeless, Unfinished, FirstAnswerWins, Delivered, FailsForAReason
  <1>5. CASE ~(i < Len(config.sources))
    <2>1. i' = i /\ phase' = "failed"
      BY <1>5 DEF SourceFails, Fail
    <2>2. Typed' /\ SeesNow'
      BY <1>1, <1>3, <2>1 DEF Typed, SeesNow, Running, host
    <2>3. history'.deaf = DOMAIN config'.sources
      BY <1>1, <1>2, <1>3, <1>5, Assumed DEF Typed
    <2>4. FailsForAReason'
      BY <1>1, <1>2, <2>3 DEF FailsForAReason
    <2> QED BY <1>1, <1>3, <2>1, <2>2, <2>4
            DEF Running, Asking, Answered, Hopeless, FirstAnswerWins, Delivered
  <1> QED BY <1>4, <1>5

\* The walk goes on, and may note an interface it could not read.
LEMMA WalkStep ==
    ASSUME IInv, ListInterfaces \/ SkipInterface \/ ReadAddresses \/ ReadFails
    PROVE  IInv'
  <1> USE DEF IInv
  <1>1. /\ phase \in {"list", "walk"} /\ phase' = "walk" /\ ~cancelled
        /\ i' \in Nat
        /\ UNCHANGED <<host, cancelled, config, public>>
    BY DEF ListInterfaces, SkipInterface, ReadAddresses, ReadFails, Scanning, Typed
  <1>2. /\ history' \in Histories
        /\ history'.deaf = history.deaf
        /\ history'.seen = history.seen /\ history'.doomed = history.doomed
    <2>1. CASE ReadFails
      BY <2>1 DEF ReadFails, Typed, Histories
    <2>2. CASE ListInterfaces \/ SkipInterface \/ ReadAddresses
      BY <2>2 DEF ListInterfaces, SkipInterface, ReadAddresses, Typed
    <2> QED BY <2>1, <2>2
  <1>3. Typed' /\ SeesNow' /\ Answered' /\ Hopeless'
    BY <1>1, <1>2 DEF Typed, SeesNow, Running, host, Answered, Hopeless, Unfinished
  <1> QED BY <1>1, <1>3 DEF Asking, FirstAnswerWins, Delivered, FailsForAReason

\* Failing past the sources: the list, or the context.
LEMMA CollectFailsStep == ASSUME IInv, ListFails \/ Stopped PROVE IInv'
  <1> USE DEF IInv
  <1>1. /\ phase' = "failed"
        /\ UNCHANGED <<host, cancelled, config, i>>
    BY DEF ListFails, Stopped, Fail
  <1>2. /\ history' \in Histories
        /\ history'.doomed = history.doomed
        /\ cancelled \/ history'.unlisted
    BY DEF ListFails, Stopped, Typed, Histories
  <1>3. Typed' /\ Hopeless' /\ FailsForAReason'
    BY <1>1, <1>2 DEF Typed, host, Hopeless, Running, FailsForAReason
  <1> QED BY <1>1, <1>3 DEF SeesNow, Running, Asking, Answered, FirstAnswerWins, Delivered

LEMMA DeliverStep == ASSUME IInv, CollectNothing \/ Finish PROVE IInv'
  <1> USE DEF IInv
  <1>1. PICK interfaces : Deliver(interfaces)
    BY DEF CollectNothing, Finish
  <1>2. /\ phase' = "done"
        /\ outcome'.public = IF public = None THEN None ELSE Unmap(public)
        /\ UNCHANGED <<host, cancelled, config, i, history>>
    BY <1>1 DEF Deliver, Normalize
  <1>3. /\ phase \in {"list", "walk"} /\ ~Unfinished
        /\ phase = "list" => ~config.private
    BY DEF CollectNothing, Finish, Unfinished
  <1>4. Typed'
    BY <1>2 DEF Typed, host
  <1>5. FirstAnswerWins'
    BY <1>2, <1>3, Assumed DEF FirstAnswerWins, Delivered, Answered
  <1>6. Hopeless'
    BY <1>2, <1>3 DEF Hopeless, Running
  <1> QED BY <1>2, <1>4, <1>5, <1>6 DEF SeesNow, Running, Asking, Answered, FailsForAReason

LEMMA CancelStep == ASSUME IInv, Cancel PROVE IInv'
  <1> USE DEF IInv
  <1>1. /\ cancelled' = TRUE
        /\ UNCHANGED <<host, locals>>
    BY DEF Cancel
  <1>2. /\ history' \in Histories
        /\ history'.deaf = history.deaf /\ history'.seen = history.seen
        /\ history'.unlisted = history.unlisted
        /\ history'.doomed => Unfinished
    BY DEF Cancel, Typed, Histories, Hopeless
  <1>3. Typed' /\ SeesNow'
    BY <1>1, <1>2 DEF host, locals, Typed, SeesNow, Running
  <1>4. Hopeless'
    BY <1>1, <1>2 DEF locals, Hopeless, Unfinished, Running
  <1> QED BY <1>1, <1>2, <1>3, <1>4
          DEF locals, Asking, Answered, FirstAnswerWins, Delivered, FailsForAReason

LEMMA HostStep == ASSUME IInv, HostChanges PROVE IInv'
  <1> USE DEF IInv
  <1>1. UNCHANGED <<cancelled, config, phase, i, listed, public, outcome>>
    BY DEF HostChanges, locals
  <1>2. /\ links' \in [Names -> LinkStates \cup {Absent}]
        /\ view' \in [Sources -> Address]
    BY DetectAssumption DEF HostChanges, Typed
  <1>3. CASE ~Running
    <2>1. history' = history
      BY <1>3 DEF HostChanges
    <2> QED BY <1>1, <1>2, <1>3, <2>1
            DEF Typed, SeesNow, Running, Asking, Answered, Hopeless,
                FirstAnswerWins, Delivered, FailsForAReason
  <1>4. CASE Running
    <2> DEFINE now == Observe(config, links', view')
    <2>1. now \in Histories /\ \A s \in Sources : Unmap(view'[s]) \in now.seen[s]
      BY <1>2, ObserveType DEF Typed
    <2>2. history' = Extend(history, now)
      BY <1>4 DEF HostChanges
    <2>3. /\ history' \in Histories
          /\ \A s \in Sources : now.seen[s] \cup history.seen[s] \subseteq history'.seen[s]
          /\ history'.deaf = history.deaf /\ history'.doomed = history.doomed
      BY <2>1, <2>2, ExtendType DEF Typed
    <2>4. Typed' /\ SeesNow'
      BY <1>1, <1>2, <2>1, <2>3 DEF Typed, SeesNow
    <2>5. Answered'
      BY <1>1, <2>3, Assumed DEF Typed, Answered
    <2> QED BY <1>1, <1>4, <2>3, <2>4, <2>5
            DEF Running, Asking, Hopeless, Unfinished, FirstAnswerWins, Delivered, FailsForAReason
  <1> QED BY <1>3, <1>4

LEMMA InvNext == IInv /\ [Next]_vars => IInv'
  <1> SUFFICES ASSUME IInv, [Next]_vars PROVE IInv'
    OBVIOUS
  <1>1. CASE UNCHANGED vars
    BY <1>1 DEF IInv, vars, host, locals, Typed, SeesNow, Running, Asking, Answered,
                Hopeless, Unfinished, FirstAnswerWins, Delivered, FailsForAReason
  <1> QED BY <1>1, BeginStep, AnswersStep, FailsStep, WalkStep, CollectFailsStep,
             DeliverStep, CancelStep, HostStep DEF Next

THEOREM DetectionInvariant == Spec => []IInv
  BY InvInit, InvNext, PTL DEF Spec

\* A detection whose context is done before its last look at it never delivers
\* a snapshot, whatever the configuration and the host (detector.go:23-46).
THEOREM CancelledNeverDelivers == Spec => []CancelledDetectionFails
  <1>1. IInv => CancelledDetectionFails
    BY DEF IInv, Hopeless, CancelledDetectionFails, Delivered
  <1> QED BY <1>1, DetectionInvariant, PTL

\* The public address of a snapshot is the answer of the first source that did
\* not fail, for any number of sources (public.go:20-42).
THEOREM PublicIsFirstAnswer == Spec => []FirstAnswerWins
  <1>1. IInv => FirstAnswerWins
    BY DEF IInv
  <1> QED BY <1>1, DetectionInvariant, PTL

\* A detection fails only with its context, with all its sources, or with the
\* list of the interfaces (detector.go:27-38).
THEOREM FailureHasAReason == Spec => []FailsForAReason
  <1>1. IInv => FailsForAReason
    BY DEF IInv
  <1> QED BY <1>1, DetectionInvariant, PTL

---------------------------------------------------------------------------
(* The types of the list, of the results and of the snapshot.              *)

\* Any order in which the kernel lists a finite set has each element once.
LEMMA OrderOf ==
    ASSUME NEW S, IsFiniteSet(S), NEW order \in SetToSeqs(S)
    PROVE  /\ order \in Seq(S)
           /\ \A x \in S : \E k \in DOMAIN order : order[k] = x
  <1> DEFINE n == Cardinality(S)
  <1>1. n \in Nat
    BY FS_CardinalityType
  <1>2. IsFiniteSet(1..n) /\ Cardinality(1..n) = n
    BY <1>1, IntervalSize
  <1>3. order \in [1..n -> S] /\ \A j, k \in 1..n : j # k => order[j] # order[k]
    BY DEF SetToSeqs
  <1> HIDE DEF n
  <1>4. order \in Injection(1..n, S)
    BY <1>3 DEF Injection, IsInjective
  <1>5. order \in Surjection(1..n, S)
    BY <1>2, <1>4, FS_Injection DEF n
  <1> QED BY <1>1, <1>3, <1>5 DEF Surjection

LEMMA PresentFinite ==
    ASSUME NEW ls \in [Names -> LinkStates \cup {Absent}]
    PROVE  IsFiniteSet(Present(ls)) /\ Present(ls) \subseteq Names
  <1>1. Present(ls) \in SUBSET Names
    BY DEF Present
  <1> QED BY <1>1, FS_Subset, DetectAssumption

LEMMA AddressesFinite ==
    ASSUME NEW l \in LinkStates, l # Absent
    PROVE  IsFiniteSet(l.addrs) /\ l.addrs \subseteq Address \cup {Unsupported}
  BY DetectAssumption DEF Link

LEMMA ConcatSet ==
    ASSUME NEW S, NEW s \in Seq(S), NEW t \in Seq(S)
    PROVE  s \o t \in Seq(S) /\ ToSet(s \o t) = ToSet(s) \cup ToSet(t)
  <1>1. /\ s \o t \in Seq(S)
        /\ Len(s \o t) = Len(s) + Len(t)
        /\ \A k \in 1..Len(s \o t) : (s \o t)[k] = IF k <= Len(s) THEN s[k] ELSE t[k - Len(s)]
    OBVIOUS
  <1>2. \A k \in DOMAIN s : k \in DOMAIN (s \o t) /\ (s \o t)[k] = s[k]
    BY <1>1
  <1>3. \A k \in DOMAIN t : k + Len(s) \in DOMAIN (s \o t) /\ (s \o t)[k + Len(s)] = t[k]
    BY <1>1
  <1>4. \A k \in DOMAIN (s \o t) : k \in DOMAIN s \/ k - Len(s) \in DOMAIN t
    BY <1>1
  <1> DEFINE u == s \o t
  <1>5. DOMAIN u = 1..Len(u) /\ u \in Seq(S)
    BY <1>1
  <1> HIDE DEF u
  <1>6. ToSet(u) \subseteq ToSet(s) \cup ToSet(t)
    <2> SUFFICES ASSUME NEW k \in DOMAIN u PROVE u[k] \in ToSet(s) \cup ToSet(t)
      BY DEF ToSet
    <2>1. CASE k \in DOMAIN s
      BY <1>2, <2>1 DEF u, ToSet
    <2>2. CASE k - Len(s) \in DOMAIN t
      <3>1. (k - Len(s)) + Len(s) = k
        BY <1>5
      <3>2. u[k] = t[k - Len(s)]
        BY <1>3, <2>2, <3>1 DEF u
      <3> QED BY <2>2, <3>2 DEF ToSet
    <2> QED BY <1>4, <2>1, <2>2 DEF u
  <1>7. ToSet(s) \subseteq ToSet(u) /\ ToSet(t) \subseteq ToSet(u)
    BY <1>2, <1>3 DEF ToSet, u
  <1>8. ToSet(u) = ToSet(s) \cup ToSet(t)
    BY <1>6, <1>7
  <1> QED BY <1>5, <1>8 DEF u

\* What Collect lists: every present interface, with its flags of that moment.
LEMMA ListingKeeps ==
    ASSUME IInv, ListInterfaces
    PROVE  /\ listed' \in Seq([name : Names, link : LinkStates])
           /\ \A k \in DOMAIN listed' :
                  /\ listed'[k].name \in Present(links)
                  /\ listed'[k].link = links[listed'[k].name]
           /\ \A n \in Present(links) : \E k \in DOMAIN listed' : listed'[k].name = n
  <1>1. PICK order \in SetToSeqs(Present(links)) :
            listed' = [k \in DOMAIN order |-> [name |-> order[k], link |-> links[order[k]]]]
    BY DEF ListInterfaces
  <1>2. links \in [Names -> LinkStates \cup {Absent}]
    BY DEF IInv, Typed
  <1>3. IsFiniteSet(Present(links)) /\ Present(links) \subseteq Names
    BY <1>2, PresentFinite
  <1>4. /\ order \in Seq(Present(links))
        /\ \A n \in Present(links) : \E k \in DOMAIN order : order[k] = n
    BY <1>3, OrderOf
  <1>5. \A n \in Present(links) : links[n] \in LinkStates
    BY <1>2, <1>3 DEF Present
  <1>6. \A k \in DOMAIN order : order[k] \in Present(links)
    BY <1>4
  <1>7. listed' \in Seq([name : Names, link : LinkStates])
    <2>1. \A k \in 1..Len(order) :
              [name |-> order[k], link |-> links[order[k]]] \in [name : Names, link : LinkStates]
      BY <1>3, <1>4, <1>5, <1>6
    <2>2. Len(order) \in Nat /\ DOMAIN order = 1..Len(order)
      BY <1>4
    <2> QED BY <1>1, <2>1, <2>2
  <1> QED BY <1>1, <1>4, <1>6, <1>7

\* Entry is what the loop over the interfaces finds in the list.
Entry == [name : Names, link : LinkStates]

LEMMA ListedEntries ==
    ASSUME TypeOK
    PROVE  \A k \in DOMAIN listed : listed[k] \in Entry /\ listed[k].name \in Names
  <1>1. listed \in Seq(Entry)
    BY DEF TypeOK, Entry
  <1>2. \A k \in DOMAIN listed : listed[k] \in Entry
    BY <1>1
  <1> QED BY <1>2 DEF Entry

LEMMA ListedHere ==
    ASSUME TypeOK, Scanning
    PROVE  i \in DOMAIN listed /\ listed[i].name \in Names
  <1>1. i \in Nat \ {0} /\ i <= Len(listed) /\ listed \in Seq(Entry)
    BY DEF TypeOK, Scanning, Entry
  <1>2. i \in DOMAIN listed
    BY <1>1
  <1> QED BY <1>2, ListedEntries

\* What a read appends: the addresses that the interface holds at that moment.
LEMMA ReadingKeeps ==
    ASSUME IInv, TypeOK, ReadAddresses
    PROVE  /\ results' \in Seq(Item)
           /\ ToSet(results') = ToSet(results) \cup AddressesOf(links, listed[i].name)
           /\ \A e \in AddressesOf(links, listed[i].name) :
                  e \in Pair /\ e.iface = listed[i].name
  <1> DEFINE n == listed[i].name
             Made(a) == [iface |-> n, ip |-> Unmap(a)]
  <1>1. PICK order \in SetToSeqs(UsableHere) :
            results' = results \o [k \in DOMAIN order |-> Made(order[k])]
    BY DEF ReadAddresses
  <1>2. i \in DOMAIN listed /\ n \in Names
    BY ListedHere DEF ReadAddresses
  <1>3. IsFiniteSet(UsableHere) /\ UsableHere \subseteq Address
    <2>1. CASE links[n] = Absent
      BY <2>1, FS_EmptySet DEF UsableHere
    <2>2. CASE links[n] # Absent
      <3>1. UsableHere = {a \in links[n].addrs : Usable(a)}
        BY <2>2 DEF UsableHere
      <3>2. links[n] \in LinkStates
        BY <1>2, <2>2 DEF TypeOK
      <3>3. IsFiniteSet(links[n].addrs) /\ links[n].addrs \subseteq Address \cup {Unsupported}
        BY <2>2, <3>2, AddressesFinite
      <3>4. UsableHere \in SUBSET links[n].addrs
        BY <3>1
      <3>5. UsableHere \subseteq Address
        BY <3>1, <3>3 DEF Usable
      <3> QED BY <3>3, <3>4, <3>5, FS_Subset
    <2> QED BY <2>1, <2>2
  <1>4. /\ order \in Seq(UsableHere)
        /\ \A x \in UsableHere : \E k \in DOMAIN order : order[k] = x
    BY <1>3, OrderOf
  <1>5. AddressesOf(links, n) = {Made(a) : a \in UsableHere}
    BY DEF AddressesOf, UsableHere
  <1>6. \A a \in UsableHere : Made(a) \in Pair /\ Made(a).iface = n
    BY <1>2, <1>3, UnmapType DEF Pair, Item
  <1> HIDE DEF Made, n
  <1> DEFINE new == [k \in DOMAIN order |-> Made(order[k])]
  <1>7. new \in Seq(Item) /\ DOMAIN new = DOMAIN order /\ Len(new) = Len(order)
    BY <1>4, <1>6 DEF Pair
  <1>8. ToSet(new) = AddressesOf(links, n)
    BY <1>4, <1>5 DEF ToSet
  <1>9. results \in Seq(Item)
    BY DEF TypeOK, Item
  <1> HIDE DEF new
  <1>10. results' = results \o new
    BY <1>1 DEF new
  <1>11. results' \in Seq(Item) /\ ToSet(results') = ToSet(results) \cup ToSet(new)
    BY <1>7, <1>9, <1>10, ConcatSet
  <1> QED BY <1>5, <1>6, <1>8, <1>11 DEF n

\* Both ways to a snapshot hand Normalize a typed list.
LEMMA Delivers ==
    ASSUME TypeOK, CollectNothing \/ Finish
    PROVE  /\ phase' = "done"
           /\ UNCHANGED <<host, cancelled, config, i, listed, public, results, history>>
           /\ outcome' \in Snapshot /\ outcome' # None
           /\ outcome'.interfaces \in Seq(Pair)
           /\ Ascending(outcome'.interfaces)
           /\ Normalize(outcome') = outcome'
           /\ Finish => ToSet(outcome'.interfaces) = {Unmapped(e) : e \in ToSet(results)}
  <1>1. results \in Seq(Item) /\ public \in Address \cup {None}
    BY DEF TypeOK, Item
  <1>2. /\ NormalizeList(results) \in Seq(Pair)
        /\ ToSet(NormalizeList(results)) = {Unmapped(e) : e \in ToSet(results)}
        /\ NormalizeList(NormalizeList(results)) = NormalizeList(results)
    BY <1>1, NormalForm, NormalFormIsFixed
  <1>3. PICK interfaces \in Seq(Item) :
            /\ Deliver(interfaces)
            /\ Finish => interfaces = NormalizeList(results)
    <2>1. \A e \in Pair : e \in Item
      BY DEF Pair
    <2>2. NormalizeList(results) \in Seq(Item) /\ <<>> \in Seq(Item)
      BY <1>2, <2>1
    <2>3. CASE Finish
      BY <2>2, <2>3 DEF Finish
    <2>4. CASE CollectNothing /\ ~Finish
      BY <2>2, <2>4 DEF CollectNothing
    <2> QED BY <2>3, <2>4
  <1>4. outcome' = Normalize([public |-> public, interfaces |-> interfaces])
    BY <1>3 DEF Deliver
  <1>5. /\ outcome' \in Snapshot
        /\ outcome'.interfaces \in Seq(Pair)
        /\ Ascending(outcome'.interfaces)
        /\ Normalize(outcome') = outcome'
    BY <1>1, <1>4, NormalizedIsCanonical
  <1>6. Finish => outcome'.interfaces = NormalizeList(results)
    <2>1. outcome'.interfaces = NormalizeList(interfaces)
      BY <1>4 DEF Normalize
    <2> QED BY <1>2, <1>3, <2>1
  <1>7. outcome' # None
    BY <1>5, DetectAssumption
  <1>8. /\ phase' = "done"
        /\ UNCHANGED <<host, cancelled, config, i, listed, public, results, history>>
    BY <1>3 DEF Deliver
  <1> QED BY <1>2, <1>5, <1>6, <1>7, <1>8

LEMMA TypeInit == Init => TypeOK
  <1> SUFFICES ASSUME Init PROVE TypeOK
    OBVIOUS
  <1>1. changes \in 0..MaxChanges
    BY DetectAssumption DEF Init
  <1>2. /\ listed \in Seq([name : Names, link : LinkStates])
        /\ results \in Seq([iface : Names, ip : Address])
        /\ i \in Nat \ {0}
    BY DEF Init
  <1> QED BY <1>1, <1>2 DEF Init, TypeOK

LEMMA TypeNext == IInv /\ IInv' /\ TypeOK /\ [Next]_vars => TypeOK'
  <1> SUFFICES ASSUME IInv, IInv', TypeOK, [Next]_vars PROVE TypeOK'
    OBVIOUS
  <1> DEFINE Kept == /\ view' \in Views /\ changes' \in 0..MaxChanges
             Locals == /\ i' # 0
                       /\ phase' = "walk" => i' <= Len(listed') + 1
                       /\ listed' \in Seq([name : Names, link : LinkStates])
                       /\ public' \in Address \cup {None}
                       /\ results' \in Seq([iface : Names, ip : Address])
                       /\ outcome' \in Snapshot \cup {None}
                       /\ (outcome' # None) = (phase' = "done")
  <1>1. /\ links' \in [Names -> LinkStates \cup {Absent}]
        /\ cancelled' \in BOOLEAN
        /\ config' \in Configs
        /\ phase' \in {"idle", "public", "list", "walk", "failed", "done"}
        /\ i' \in Nat
        /\ phase' = "public" => i' \in DOMAIN config'.sources
    BY DEF IInv, Typed, Asking
  <1>2. SUFFICES Kept /\ Locals
    BY <1>1 DEF TypeOK
  <1>3. CASE UNCHANGED vars
    BY <1>3 DEF vars, host, locals, TypeOK
  <1>4. CASE Begin
    <2>1. Kept
      BY <1>4 DEF Begin, host, TypeOK
    <2>2. /\ phase' \in {"public", "list"} /\ i' = 1
          /\ listed' = <<>> /\ public' = None /\ results' = <<>> /\ outcome' = None
      BY <1>4 DEF Begin
    <2> QED BY <2>1, <2>2
  <1>5. CASE SourceAnswers
    <2>1. public' \in Address
      BY <1>5 DEF SourceAnswers, IInv, Asking, Answered
    <2> QED BY <1>5, <2>1 DEF SourceAnswers, host, TypeOK
  <1>6. CASE SourceFails
    BY <1>6 DEF SourceFails, Fail, host, TypeOK
  <1>7. CASE CollectNothing \/ Finish
    <2>1. /\ phase' = "done"
          /\ UNCHANGED <<host, i, listed, public, results>>
          /\ outcome' \in Snapshot /\ outcome' # None
      BY <1>7, Delivers
    <2> QED BY <2>1 DEF host, TypeOK
  <1>8. CASE ListInterfaces
    <2>1. listed' \in Seq([name : Names, link : LinkStates])
      BY <1>8, ListingKeeps
    <2>2. Len(listed') \in Nat
      BY <2>1
    <2> QED BY <1>8, <2>1, <2>2 DEF ListInterfaces, host, TypeOK
  <1>9. CASE ListFails \/ Stopped
    BY <1>9 DEF ListFails, Stopped, Fail, host, TypeOK
  <1>10. CASE SkipInterface \/ ReadFails
    <2>1. Len(listed) \in Nat
      BY DEF TypeOK
    <2> QED BY <1>10, <2>1 DEF SkipInterface, ReadFails, Scanning, host, TypeOK
  <1>11. CASE ReadAddresses
    <2>1. Len(listed) \in Nat
      BY DEF TypeOK
    <2>2. results' \in Seq([iface : Names, ip : Address])
      BY <1>11, ReadingKeeps DEF Item
    <2> QED BY <1>11, <2>1, <2>2 DEF ReadAddresses, Scanning, host, TypeOK
  <1>12. CASE Cancel
    BY <1>12 DEF Cancel, host, locals, TypeOK
  <1>13. CASE HostChanges
    <2>1. Kept
      BY <1>13, DetectAssumption DEF HostChanges, TypeOK
    <2> QED BY <1>13, <2>1 DEF HostChanges, locals, TypeOK
  <1> QED BY <1>3, <1>4, <1>5, <1>6, <1>7, <1>8, <1>9, <1>10, <1>11, <1>12, <1>13 DEF Next

\* A detection's variables have their types, its loops never pass their end,
\* and a snapshot is there exactly when it is done.
THEOREM DetectTypes == Spec => []TypeOK
  BY DetectionInvariant, TypeInit, TypeNext, PTL DEF Spec

---------------------------------------------------------------------------
(* The walk, against what the host held meanwhile.                         *)

\* While a detection runs, its history covers the host as it is.
Witnessed ==
    Running =>
        /\ \A n \in Names : AddressesOf(links, n) \subseteq history.held
        /\ EligibleIn(config, links) \subseteq history.eligible
        /\ \A e \in history.steady :
               e.iface \in EligibleIn(config, links) /\ e \in AddressesOf(links, e.iface)

\* A detection starts without results.
Fresh == phase \in {"public", "list"} => results = <<>>

Walked(k) == Eligible(config, listed[k].name, listed[k].link)

\* The flags of the list, which may be stale, were true when it was made.
ListKept ==
    phase = "walk" =>
        /\ \A k \in DOMAIN listed : Walked(k) => listed[k].name \in history.eligible
        /\ \A e \in history.steady :
               \E k \in DOMAIN listed : Walked(k) /\ listed[k].name = e.iface

\* The results hold nothing that was not there, and of the interfaces passed
\* all that stayed, but for those that could not be read.
ResultsKept ==
    phase = "walk" =>
        /\ \A e \in ToSet(results) :
               e \in history.held /\ e.iface \in history.eligible /\ e \in Pair
        /\ \A e \in history.steady, k \in 1..(i - 1) :
               Walked(k) /\ listed[k].name = e.iface
                   => e \in ToSet(results) \/ k \in history.unread

Snapshots == NothingInvented /\ NothingSteadyIsMissed /\ SnapshotIsCanonical

WInv == Witnessed /\ Fresh /\ ListKept /\ ResultsKept /\ Snapshots

LEMMA AddressesNameTheirs ==
    ASSUME NEW ls, NEW n, NEW e \in AddressesOf(ls, n)
    PROVE  e.iface = n
  BY DEF AddressesOf

\* An observation is what it observes.
LEMMA Observes ==
    ASSUME NEW c, NEW ls, NEW v
    PROVE  /\ \A n \in Names : AddressesOf(ls, n) \subseteq Observe(c, ls, v).held
           /\ Observe(c, ls, v).eligible = EligibleIn(c, ls)
           /\ \A e \in Observe(c, ls, v).steady :
                  e.iface \in EligibleIn(c, ls) /\ e \in AddressesOf(ls, e.iface)
           /\ Observe(c, ls, v).unread = {}
  <1>1. \A e \in Observe(c, ls, v).steady : \E n \in EligibleIn(c, ls) : e \in AddressesOf(ls, n)
    BY DEF Observe
  <1>2. \A e \in Observe(c, ls, v).steady :
            e.iface \in EligibleIn(c, ls) /\ e \in AddressesOf(ls, e.iface)
    BY <1>1, AddressesNameTheirs
  <1> QED BY <1>2 DEF Observe

\* Outside a walk and a delivery, only the history has to cover the host.
LEMMA OnlyWitnessed ==
    ASSUME Witnessed', Fresh', phase' \notin {"walk", "done"}
    PROVE  WInv'
  BY DEF WInv, Snapshots, ListKept, ResultsKept, NothingInvented, NothingSteadyIsMissed,
         SnapshotIsCanonical, Delivered

LEMMA WInit == Init => WInv
  <1> SUFFICES ASSUME Init PROVE WInv
    OBVIOUS
  <1> QED BY DEF Init, WInv, Snapshots, Witnessed, Running, Fresh, ListKept, ResultsKept,
                 NothingInvented, NothingSteadyIsMissed, SnapshotIsCanonical, Delivered

LEMMA WBegin == ASSUME Begin PROVE WInv'
  <1>1. PICK c \in Configs : config' = c /\ history' = Observe(c, links, view)
    BY DEF Begin
  <1>2. links' = links /\ phase' \in {"public", "list"} /\ results' = <<>>
    BY DEF Begin, host
  <1>3. Witnessed' /\ Fresh'
    BY <1>1, <1>2, Observes DEF Witnessed, Fresh
  <1> QED BY <1>2, <1>3, OnlyWitnessed

\* The steps that change neither the host nor what the history says of it.
LEMMA WQuiet ==
    ASSUME IInv, WInv, SourceAnswers \/ SourceFails \/ ListFails \/ Stopped
    PROVE  WInv'
  <1>1. /\ links' = links /\ config' = config /\ Running
        /\ phase' \notin {"walk", "done"}
    BY DEF SourceAnswers, SourceFails, ListFails, Stopped, Fail, host, Running
  <1>2. /\ history'.held = history.held /\ history'.eligible = history.eligible
        /\ history'.steady = history.steady
    BY DEF SourceAnswers, SourceFails, ListFails, Stopped, IInv, Typed, Histories
  <1>3. Witnessed'
    BY <1>1, <1>2 DEF WInv, Witnessed
  <1>4. Fresh'
    BY DEF WInv, Fresh, SourceAnswers, SourceFails, ListFails, Stopped, Fail
  <1> QED BY <1>1, <1>3, <1>4, OnlyWitnessed

LEMMA WList == ASSUME IInv, WInv, ListInterfaces PROVE WInv'
  <1>1. /\ Running /\ phase' = "walk" /\ i' = 1
        /\ UNCHANGED <<host, config, results, history>>
    BY DEF ListInterfaces, Running
  <1>2. /\ \A k \in DOMAIN listed' :
               /\ listed'[k].name \in Present(links)
               /\ listed'[k].link = links[listed'[k].name]
        /\ \A n \in Present(links) : \E k \in DOMAIN listed' : listed'[k].name = n
    BY ListingKeeps
  <1>3. \A k \in DOMAIN listed' :
            (Walked(k))' <=> listed'[k].name \in EligibleIn(config, links)
    BY <1>1, <1>2 DEF Walked, EligibleIn
  <1>4. Witnessed'
    BY <1>1 DEF WInv, Witnessed, host
  <1>5. ListKept'
    <2>1. \A e \in history.steady : e.iface \in EligibleIn(config, links)
      BY <1>1 DEF WInv, Witnessed
    <2>2. EligibleIn(config, links) \subseteq history.eligible
      BY <1>1 DEF WInv, Witnessed
    <2>3. EligibleIn(config, links) \subseteq Present(links)
      BY DEF EligibleIn
    <2> QED BY <1>1, <1>2, <1>3, <2>1, <2>2, <2>3 DEF ListKept
  <1>6. ResultsKept'
    <2>1. ToSet(results') = {}
      BY <1>1 DEF ListInterfaces, WInv, Fresh, ToSet
    <2>2. 1..(i' - 1) = {}
      BY <1>1
    <2> QED BY <2>1, <2>2 DEF ResultsKept
  <1> QED BY <1>1, <1>4, <1>5, <1>6
          DEF WInv, Fresh, Snapshots, NothingInvented, NothingSteadyIsMissed,
              SnapshotIsCanonical, Delivered

\* Passing an interface, which is no candidate or could not be read.
LEMMA WPass == ASSUME IInv, TypeOK, WInv, SkipInterface \/ ReadFails PROVE WInv'
  <1>1. /\ Running /\ Scanning /\ phase = "walk" /\ phase' = "walk" /\ i' = i + 1
        /\ UNCHANGED <<host, config, listed, results>>
    BY DEF SkipInterface, ReadFails, Scanning, Running
  <1>2. /\ history'.held = history.held /\ history'.eligible = history.eligible
        /\ history'.steady = history.steady
        /\ history.unread \subseteq history'.unread
        /\ Walked(i) => i \in history'.unread
    BY DEF SkipInterface, ReadFails, EligibleHere, Walked, IInv, Typed, Histories
  <1>3. Witnessed'
    BY <1>1, <1>2 DEF WInv, Witnessed, host
  <1>4. \A k : (Walked(k))' <=> Walked(k)
    BY <1>1 DEF Walked
  <1>5. ListKept'
    BY <1>1, <1>2, <1>4 DEF WInv, ListKept
  <1>6. i \in Nat
    BY DEF TypeOK
  <1>7. ResultsKept'
    <2>1. \A k \in 1..(i' - 1) : k \in 1..(i - 1) \/ k = i
      BY <1>1, <1>6
    <2> QED BY <1>1, <1>2, <1>4, <2>1 DEF WInv, ResultsKept
  <1> QED BY <1>1, <1>3, <1>5, <1>7
          DEF WInv, Fresh, Snapshots, NothingInvented, NothingSteadyIsMissed,
              SnapshotIsCanonical, Delivered

\* A read finds what stayed on the interface, and what is on it now.
LEMMA WRead == ASSUME IInv, TypeOK, WInv, ReadAddresses PROVE WInv'
  <1> DEFINE n == listed[i].name
             now == AddressesOf(links, n)
  <1>1. /\ Running /\ Scanning /\ phase = "walk" /\ phase' = "walk" /\ i' = i + 1
        /\ UNCHANGED <<host, config, listed, history>>
        /\ Walked(i)
    BY DEF ReadAddresses, Scanning, Running, EligibleHere, Walked
  <1>2. ToSet(results') = ToSet(results) \cup now /\ \A e \in now : e \in Pair /\ e.iface = n
    BY ReadingKeeps
  <1>3. i \in DOMAIN listed /\ n \in Names
    BY <1>1, ListedHere
  <1> HIDE DEF n, now
  <1>4. Witnessed'
    BY <1>1 DEF WInv, Witnessed, host
  <1>5. \A k : (Walked(k))' <=> Walked(k)
    BY <1>1 DEF Walked
  <1>6. ListKept'
    BY <1>1, <1>5 DEF WInv, ListKept
  <1>7. now \subseteq history.held /\ n \in history.eligible
    BY <1>1, <1>3 DEF WInv, Witnessed, ListKept, n, now
  <1>8. \A e \in history.steady : e.iface = n => e \in now
    BY <1>1 DEF WInv, Witnessed, now
  <1>9. i \in Nat
    BY DEF TypeOK
  <1>10. ResultsKept'
    <2>1. \A k \in 1..(i' - 1) : k \in 1..(i - 1) \/ k = i
      BY <1>1, <1>9
    <2>2. \A e \in ToSet(results') :
              e \in history.held /\ e.iface \in history.eligible /\ e \in Pair
      BY <1>1, <1>2, <1>7 DEF WInv, ResultsKept
    <2>3. ASSUME NEW e \in history.steady, NEW k \in 1..(i' - 1),
                 Walked(k), listed[k].name = e.iface
          PROVE  e \in ToSet(results') \/ k \in history.unread
      <3>1. CASE k \in 1..(i - 1)
        BY <1>1, <1>2, <2>3, <3>1 DEF WInv, ResultsKept
      <3>2. CASE k = i
        BY <1>2, <1>8, <2>3, <3>2 DEF n
      <3> QED BY <2>1, <3>1, <3>2
    <2> QED BY <1>1, <1>5, <2>2, <2>3 DEF ResultsKept
  <1> QED BY <1>1, <1>4, <1>6, <1>10
          DEF WInv, Fresh, Snapshots, NothingInvented, NothingSteadyIsMissed,
              SnapshotIsCanonical, Delivered

\* A delivery: the snapshot holds the results, each once and in order.
LEMMA WDeliver == ASSUME IInv, TypeOK, WInv, CollectNothing \/ Finish PROVE WInv'
  <1>1. /\ phase' = "done"
        /\ UNCHANGED <<config, i, listed, results, history>>
        /\ outcome'.interfaces \in Seq(Pair)
        /\ Ascending(outcome'.interfaces)
        /\ Normalize(outcome') = outcome'
    BY Delivers
  <1> DEFINE l == outcome'.interfaces
  <1>2. CollectNothing => l = <<>> /\ ~config.private
    <2> SUFFICES ASSUME CollectNothing PROVE l = <<>> /\ ~config.private
      OBVIOUS
    <2>1. outcome' = Normalize([public |-> public, interfaces |-> <<>>]) /\ ~config.private
      BY DEF CollectNothing, Deliver
    <2>2. <<>> \in Seq(Pair) /\ Ascending(<<>>)
      BY DEF Ascending
    <2>3. NormalizeList(<<>>) = <<>>
      BY <2>2, NormalFormIsFixed
    <2> QED BY <2>1, <2>3 DEF Normalize
  <1>3. Finish => ToSet(l) = ToSet(results)
    <2> SUFFICES ASSUME Finish PROVE ToSet(l) = ToSet(results)
      OBVIOUS
    <2>1. ToSet(l) = {Unmapped(e) : e \in ToSet(results)}
      BY Delivers
    <2>2. \A e \in ToSet(results) : e \in Pair
      BY DEF Finish, WInv, ResultsKept
    <2>3. \A e \in Pair : Unmapped(e) = e
      BY UnmappedType DEF Pair
    <2> QED BY <2>1, <2>2, <2>3
  <1>4. \A e \in ToSet(l) : e \in Pair
    BY <1>1 DEF ToSet
  <1>5. SnapshotIsCanonical'
    <2>1. \A e \in ToSet(l) : ~e.ip.mapped
      BY <1>4 DEF Pair
    <2> QED BY <1>1, <2>1 DEF SnapshotIsCanonical, Ascending, Found
  <1>6. NothingInvented'
    <2>1. ASSUME NEW e \in ToSet(l)
          PROVE  e \in history.held /\ e.iface \in history.eligible
      <3>1. CASE CollectNothing
        BY <1>2, <2>1, <3>1 DEF ToSet
      <3>2. CASE Finish
        BY <1>3, <2>1, <3>2 DEF Finish, WInv, ResultsKept
      <3> QED BY <3>1, <3>2
    <2> QED BY <1>1, <2>1 DEF NothingInvented, Found
  <1>7. NothingSteadyIsMissed'
    <2>1. CASE CollectNothing
      BY <1>1, <1>2, <2>1 DEF NothingSteadyIsMissed
    <2>2. CASE Finish
      <3>1. ASSUME NEW e \in history.steady
            PROVE  e \in ToSet(l) \/ \E k \in history.unread : listed[k].name = e.iface
        <4>1. PICK k \in DOMAIN listed : Walked(k) /\ listed[k].name = e.iface
          BY <2>2 DEF Finish, WInv, ListKept
        <4>2. k \in 1..(i - 1)
          <5>1. /\ listed \in Seq([name : Names, link : LinkStates])
                /\ i \in Nat /\ ~(i <= Len(listed))
            BY <2>2 DEF TypeOK, Finish, Unfinished
          <5>2. k \in 1..Len(listed) /\ Len(listed) \in Nat
            BY <5>1
          <5> QED BY <5>1, <5>2
        <4> QED BY <1>3, <2>2, <4>1, <4>2 DEF Finish, WInv, ResultsKept
      <3> QED BY <1>1, <3>1 DEF NothingSteadyIsMissed, Found
    <2> QED BY <2>1, <2>2
  <1> QED BY <1>1, <1>5, <1>6, <1>7
          DEF WInv, Snapshots, Witnessed, Running, Fresh, ListKept, ResultsKept

LEMMA WCancel == ASSUME IInv, WInv, Cancel \/ UNCHANGED vars PROVE WInv'
  <1>1. UNCHANGED <<host, locals>>
    BY DEF Cancel, vars
  <1>2. /\ history'.held = history.held /\ history'.eligible = history.eligible
        /\ history'.steady = history.steady /\ history'.unread = history.unread
    BY DEF Cancel, vars, IInv, Typed, Histories
  <1> QED BY <1>1, <1>2 DEF host, locals, WInv, Snapshots, Witnessed, Running, Fresh, ListKept,
                            Walked, ResultsKept, NothingInvented, NothingSteadyIsMissed,
                            SnapshotIsCanonical, Delivered, Found

\* The host changes: more has been there, less has stayed.
LEMMA WHost == ASSUME IInv, WInv, HostChanges PROVE WInv'
  <1>1. UNCHANGED locals
    BY DEF HostChanges
  <1>2. CASE ~Running
    <2>1. UNCHANGED history
      BY <1>2 DEF HostChanges
    <2> QED BY <1>1, <1>2, <2>1
            DEF locals, WInv, Snapshots, Witnessed, Running, Fresh, ListKept, ResultsKept,
                NothingInvented, NothingSteadyIsMissed, SnapshotIsCanonical, Delivered, Found
  <1>3. CASE Running
    <2> DEFINE o == Observe(config, links', view')
    <2>1. history' = Extend(history, o)
      BY <1>3 DEF HostChanges
    <2>2. history \in Histories
      BY DEF IInv, Typed
    <2>3. /\ history'.held = history.held \cup o.held
          /\ history'.eligible = history.eligible \cup o.eligible
          /\ history'.steady = history.steady \cap o.steady
          /\ history'.unread = history.unread
      BY <2>1, <2>2 DEF Extend, Histories
    <2>4. /\ \A n \in Names : AddressesOf(links', n) \subseteq o.held
          /\ o.eligible = EligibleIn(config, links')
          /\ \A e \in o.steady :
                 e.iface \in EligibleIn(config, links') /\ e \in AddressesOf(links', e.iface)
      BY Observes
    <2> HIDE DEF o
    <2>5. Witnessed'
      BY <1>1, <2>3, <2>4 DEF locals, Witnessed
    <2>6. \A k : (Walked(k))' <=> Walked(k)
      BY <1>1 DEF locals, Walked
    <2>7. ListKept'
      BY <1>1, <2>3, <2>6 DEF locals, WInv, ListKept
    <2>8. ResultsKept'
      BY <1>1, <2>3, <2>6 DEF locals, WInv, ResultsKept
    <2> QED BY <1>1, <1>3, <2>5, <2>7, <2>8
            DEF locals, Running, WInv, Fresh, Snapshots, NothingInvented,
                NothingSteadyIsMissed, SnapshotIsCanonical, Delivered
  <1> QED BY <1>2, <1>3

LEMMA WNext == IInv /\ TypeOK /\ WInv /\ [Next]_vars => WInv'
  BY WBegin, WQuiet, WList, WPass, WRead, WDeliver, WCancel, WHost DEF Next

THEOREM WalkInvariant == Spec => []WInv
  BY DetectionInvariant, DetectTypes, WInit, WNext, PTL DEF Spec

\* Whatever the host does during a detection, its snapshot holds no pair that
\* was not there meanwhile, and none of an interface that was at no moment
\* admitted (interfaces.go:64-111).
THEOREM SnapshotInventsNothing == Spec => []NothingInvented
  <1>1. WInv => NothingInvented
    BY DEF WInv, Snapshots
  <1> QED BY <1>1, WalkInvariant, PTL

\* Whatever else changes, an address that stayed on an admitted interface is in
\* the snapshot, unless that interface could not be read (interfaces.go:91-95).
THEOREM SnapshotMissesNothingSteady == Spec => []NothingSteadyIsMissed
  <1>1. WInv => NothingSteadyIsMissed
    BY DEF WInv, Snapshots
  <1> QED BY <1>1, WalkInvariant, PTL

\* Every snapshot is in normal form, so that the hash depends on the addresses
\* and on nothing else (snapshot.go:28-74).
THEOREM SnapshotsAreCanonical == Spec => []SnapshotIsCanonical
  <1>1. WInv => SnapshotIsCanonical
    BY DEF WInv, Snapshots
  <1> QED BY <1>1, WalkInvariant, PTL

\* What was there at all, on an interface that was admitted at all, stayed.
StoodStill == history.steady = {e \in history.held : e.iface \in history.eligible}

\* Which is so of a host that did not change during the detection.
LEMMA ObservedStands ==
    ASSUME NEW c \in Configs, NEW ls \in [Names -> LinkStates \cup {Absent}], NEW v
    PROVE  LET o == Observe(c, ls, v)
           IN  o.steady = {e \in o.held : e.iface \in o.eligible}
  <1>1. EligibleIn(c, ls) \subseteq Names
    BY DEF EligibleIn, Present
  <1>2. \A n, e : e \in AddressesOf(ls, n) => e.iface = n
    BY AddressesNameTheirs
  <1> DEFINE o == Observe(c, ls, v)
  <1>3. /\ o.held = UNION {AddressesOf(ls, n) : n \in Names}
        /\ o.steady = UNION {AddressesOf(ls, n) : n \in EligibleIn(c, ls)}
        /\ o.eligible = EligibleIn(c, ls)
    BY DEF Observe
  <1> HIDE DEF o
  <1> QED BY <1>1, <1>2, <1>3 DEF o

OneSnapshot ==
    Delivered /\ config.private /\ StoodStill /\ history.unread = {} =>
        \A s \in Seq(Item) :
            ToSet(s) = history.steady => outcome.interfaces = NormalizeList(s)

\* A host that stands still has one snapshot, that of its addresses in any
\* order: however the kernel lists them, no check sees a change that did not
\* happen (runner.go:141-147, snapshot.go:28-74).
THEOREM StillHostHasOneSnapshot == Spec => []OneSnapshot
  <1>1. TypeOK /\ WInv => OneSnapshot
    <2> SUFFICES ASSUME TypeOK, WInv, Delivered, config.private, StoodStill,
                        history.unread = {},
                        NEW s \in Seq(Item), ToSet(s) = history.steady
                 PROVE  outcome.interfaces = NormalizeList(s)
      BY DEF OneSnapshot
    <2> DEFINE l == outcome.interfaces
    <2>1. \A e \in ToSet(l) : e \in history.steady
      BY DEF WInv, Snapshots, NothingInvented, Found, StoodStill
    <2>2. \A e \in history.steady : e \in ToSet(l)
      BY DEF WInv, Snapshots, NothingSteadyIsMissed, Found
    <2>3. NormalizeList(l) = l
      BY DEF WInv, Snapshots, SnapshotIsCanonical, Normalize
    <2>4. l \in Seq(Item)
      BY DEF TypeOK, Delivered, Snapshot, Item
    <2>5. ToSet(l) = ToSet(s)
      BY <2>1, <2>2
    <2> HIDE DEF l
    <2>6. NormalizeList(l) = NormalizeList(s)
      BY <2>4, <2>5, SameAddressesSameForm
    <2> QED BY <2>3, <2>6 DEF l
  <1> QED BY <1>1, DetectTypes, WalkInvariant, PTL
====
