---- MODULE UpdateProofs ----
(* Theorems about Update, for every set of updaters, tags and builds, and  *)
(* for every allowance.                                                    *)
EXTENDS Update, TLAPS

---------------------------------------------------------------------------
(* Type correctness.                                                       *)

LEMMA SpendType ==
    ASSUME budget \in [Bounds -> Nat], NEW k \in Kinds, Spend(k)
    PROVE  budget' \in [Bounds -> Nat]
  BY DEF Spend, Kinds, Bounds

\* No asset is of a build yet to come, and what SHA256SUMS lists is listed.
Published ==
    \A t \in Tags :
        /\ \A part \in Parts : assets[t][part] <= built[t]
        /\ assets[t]["sums"] # 0 => [tag |-> t, rev |-> assets[t]["sums"]] \in listed

\* Past the resolution of "latest" an updater has a tag, what it knows from
\* SHA256SUMS was listed, and what it is about to install was verified.
Sound(u) ==
    /\ pc[u] \notin {"idle", "resolve"} => tag[u] \in Tags
    /\ sums[u] \in Builds => sums[u] \in listed
    /\ pc[u] = "replace" => archive[u] \in listed \ Unusable

Typed == TypeOK /\ Published /\ \A u \in Updaters : Sound(u)

\* What Return and Goto assign keeps its type.
CallTypes ==
    /\ pc \in [Updaters -> PCs]
    /\ tag \in [Updaters -> Tags \cup {Latest}]
    /\ noRestart \in [Updaters -> BOOLEAN]
    /\ cancelled \in [Updaters -> BOOLEAN]
    /\ archive \in [Updaters -> Contents]
    /\ sums \in [Updaters -> Contents]
    /\ result \in [Updaters -> Results]

LEMMA ReturnTypes ==
    ASSUME CallTypes, NEW u \in Updaters, NEW r \in Results, Return(u, r)
    PROVE  CallTypes'
  BY DEF CallTypes, Return, Goto, PCs, Contents

LEMMA GotoTypes ==
    ASSUME CallTypes, NEW u \in Updaters, NEW l \in PCs, Goto(u, l),
           UNCHANGED <<options, cancelled, files, result>>
    PROVE  CallTypes'
  BY DEF CallTypes, Goto, options, files

\* The service after a start, and with another status, keeps its type.
Statuses == {"active", "waiting", "stopping", "inactive"}

LEMMA ServiceType ==
    ASSUME TypeOK
    PROVE  /\ Started \in [status : Statuses, runs : 1 .. Len(installed)]
           /\ \A s \in Statuses : [service EXCEPT !.status = s]
                                    \in [status : Statuses, runs : 1 .. Len(installed)]
  <1>1. Len(installed) \in 1 .. Len(installed)
    BY DEF TypeOK
  <1>2. service \in [status : Statuses, runs : 1 .. Len(installed)]
    BY DEF TypeOK, Statuses
  <1> QED BY <1>1, <1>2 DEF Started, Present, Statuses

\* An upload, or a deletion before one.
LEMMA AssetsType ==
    ASSUME TypeOK, NEW t \in Tags, NEW part \in Parts, NEW r \in 0 .. Revisions
    PROVE  [assets EXCEPT ![t][part] = r]
             \in [Tags -> [Parts -> 0 .. Revisions]]
  BY DEF TypeOK, Parts

LEMMA TypeInit == Init => Typed
  <1> SUFFICES ASSUME Init PROVE Typed
    OBVIOUS
  <1> USE UpdateAssumption
  <1>1. PICK t \in Tags :
          /\ latest = t
          /\ built = [x \in Tags |-> IF x = t THEN 1 ELSE 0]
          /\ assets = [x \in Tags |-> [part \in Parts |-> built[x]]]
          /\ listed = {[tag |-> t, rev |-> 1]}
          /\ installed = <<[tag |-> t, rev |-> 1]>>
    BY DEF Init
  <1>2. [tag |-> t, rev |-> 1] \in Builds
    BY DEF Builds
  <1>3. installed \in Seq(Builds) /\ Len(installed) = 1
    BY <1>1, <1>2
  <1>4. service \in [status : Statuses, runs : 1 .. Len(installed)]
    BY <1>3 DEF Init, Statuses
  <1>5. /\ built \in [Tags -> 0 .. Revisions]
        /\ assets \in [Tags -> [Parts -> 0 .. Revisions]]
    BY <1>1
  <1>6. TypeOK
    BY <1>1, <1>2, <1>3, <1>4, <1>5 DEF Init, TypeOK, PCs, Contents, Results, Statuses
  <1>7. Published
    <2>1. \A x \in Tags, part \in Parts : assets[x][part] = built[x] /\ built[x] \in {0, 1}
      BY <1>1
    <2>2. \A x \in Tags : built[x] # 0 => [tag |-> x, rev |-> built[x]] \in listed
      BY <1>1
    <2> QED BY <2>1, <2>2 DEF Published, Parts
  <1>8. \A u \in Updaters : Sound(u)
    BY DEF Init, Sound
  <1> QED BY <1>6, <1>7, <1>8 DEF Typed

LEMMA TypeStep == Typed /\ [Next]_vars => TypeOK'
  <1> SUFFICES ASSUME TypeOK, Published, \A u \in Updaters : Sound(u), [Next]_vars
               PROVE  TypeOK'
    BY DEF Typed
  <1> USE UpdateAssumption
  <1>0. CallTypes
    BY DEF TypeOK, CallTypes
  <1>1. ASSUME NEW t \in Tags, Release(t) PROVE TypeOK'
    <2>1. budget' \in [Bounds -> Nat]
      BY <1>1, SpendType DEF Release, Kinds, TypeOK
    <2>2. built[t] \in 0 .. Revisions /\ built[t] + 1 \in 0 .. Revisions
      BY <1>1 DEF Release, TypeOK
    <2>3. built' \in [Tags -> 0 .. Revisions]
      BY <1>1, <2>2 DEF Release, TypeOK
    <2> QED BY <1>1, <2>1, <2>3 DEF Release, TypeOK, host, options, files
  <1>2. ASSUME NEW t \in Tags, NEW part \in Parts, Upload(t, part) PROVE TypeOK'
    <2>1. built[t] \in 1 .. Revisions
      <3>1. built[t] \in 0 .. Revisions /\ assets[t][part] \in 0 .. Revisions
        BY DEF TypeOK
      <3>2. assets[t][part] <= built[t] /\ assets[t][part] # built[t]
        BY <1>2 DEF Upload, Published
      <3> QED BY <3>1, <3>2
    <2>2. assets' \in [Tags -> [Parts -> 0 .. Revisions]]
      BY <1>2, <2>1, AssetsType DEF Upload, TypeOK
    <2>3. [tag |-> t, rev |-> built[t]] \in Builds
      BY <2>1 DEF Builds
    <2> QED BY <1>2, <2>2, <2>3 DEF Upload, TypeOK, host, options, files
  <1>3. ASSUME NEW t \in Tags, NEW part \in Parts, Clobber(t, part) PROVE TypeOK'
    <2>1. budget' \in [Bounds -> Nat]
      BY <1>3, SpendType DEF Clobber, Kinds, TypeOK
    <2>2. assets' \in [Tags -> [Parts -> 0 .. Revisions]]
      BY <1>3, AssetsType DEF Clobber, TypeOK
    <2> QED BY <1>3, <2>1, <2>2 DEF Clobber, TypeOK, host, options, files
  <1>4. ASSUME ServiceChanges, budget' \in [Bounds -> Nat],
               service' \in [status : Statuses, runs : 1 .. Len(installed)]
        PROVE  TypeOK'
    BY <1>4 DEF ServiceChanges, TypeOK, Statuses, release, options, files
  <1>5. CASE ServiceFails
    BY <1>5, <1>4, ServiceType, SpendType DEF ServiceFails, Statuses, Kinds, TypeOK
  <1>6. CASE AutoRestart
    BY <1>6, <1>4, ServiceType DEF AutoRestart, TypeOK
  <1>7. CASE AdminStops
    <2>1. service' \in [status : Statuses, runs : 1 .. Len(installed)]
      BY <1>7, ServiceType DEF AdminStops, Statuses, TypeOK
    <2> QED BY <1>7, <2>1, <1>4, SpendType DEF AdminStops, Kinds, TypeOK
  <1>8. CASE ServiceStopped
    BY <1>8, <1>4, ServiceType DEF ServiceStopped, Statuses, TypeOK
  <1>9. CASE AdminStarts
    BY <1>9, <1>4, ServiceType, SpendType DEF AdminStarts, Kinds, TypeOK
  <1>10. ASSUME NEW u \in Updaters, Decline(u) PROVE TypeOK'
    <2>1. budget' \in [Bounds -> Nat]
      BY <1>10, SpendType DEF Decline, Kinds, TypeOK
    <2>2. mine' \in [Updaters -> 0 .. Len(installed)]
      BY <1>10 DEF Decline, TypeOK
    <2> QED BY <1>10, <2>1, <2>2
            DEF Decline, TypeOK, Results, release, host, options, files
  <1>11. ASSUME NEW u \in Updaters, NEW v \in Tags \cup {Latest}, NEW s \in BOOLEAN,
                Begin(u, v, s)
         PROVE  TypeOK'
    <2>1. budget' \in [Bounds -> Nat]
      BY <1>11, SpendType DEF Begin, Kinds, TypeOK
    <2>2. mine' \in [Updaters -> 0 .. Len(installed)]
      BY <1>11 DEF Begin, TypeOK
    <2> QED BY <1>11, <2>1, <2>2
            DEF Begin, Goto, TypeOK, PCs, Results, release, host, files
  <1>12. ASSUME NEW u \in Updaters, Cancel(u) PROVE TypeOK'
    BY <1>12, SpendType DEF Cancel, TypeOK, Kinds, release, host, options, files
  <1>13. ASSUME NEW u \in Updaters, NEW r \in Results, Return(u, r),
                UNCHANGED <<release, host, mine>>, budget' \in [Bounds -> Nat],
                blind' \in [Updaters -> BOOLEAN]
         PROVE  TypeOK'
    <2>1. CallTypes'
      BY <1>0, <1>13, ReturnTypes
    <2> QED BY <2>1, <1>13 DEF CallTypes, TypeOK, release, host
  <1>14. ASSUME NEW u \in Updaters, Kill(u) PROVE TypeOK'
    BY <1>14, <1>13, SpendType DEF Kill, TypeOK, Kinds, Results
  <1>15. ASSUME NEW u \in Updaters, ResolveLatest(u) PROVE TypeOK'
    BY <1>15 DEF ResolveLatest, Goto, TypeOK, PCs, release, host, files
  <1>16. ASSUME NEW u \in Updaters, DownloadArchive(u) PROVE TypeOK'
    <2>1. budget' \in [Bounds -> Nat]
      BY <1>16, SpendType DEF DownloadArchive, Downloaded, Kinds, TypeOK
    <2> QED BY <1>16, <2>1
            DEF DownloadArchive, Goto, TypeOK, PCs, release, host, options
  <1>17. ASSUME NEW u \in Updaters, DownloadSums(u) PROVE TypeOK'
    <2>1. budget' \in [Bounds -> Nat]
      BY <1>17, SpendType DEF DownloadSums, Downloaded, Kinds, TypeOK
    <2> QED BY <1>17, <2>1 DEF DownloadSums, Goto, TypeOK, PCs, release, host, options
  <1>18. ASSUME NEW u \in Updaters, RequestFails(u) PROVE TypeOK'
    BY <1>18, <1>13, SpendType DEF RequestFails, Fails, TypeOK, Kinds, Results
  <1>19. ASSUME NEW u \in Updaters, NothingThere(u) PROVE TypeOK'
    BY <1>19, <1>13 DEF NothingThere, TypeOK, Results
  <1>20. ASSUME NEW u \in Updaters, NEW l \in PCs, Goto(u, l),
                UNCHANGED <<options, cancelled, files, result>>,
                UNCHANGED <<release, host, budget, mine, blind>>
         PROVE  TypeOK'
    <2>1. CallTypes'
      BY <1>0, <1>20, GotoTypes
    <2> QED BY <2>1, <1>20 DEF CallTypes, TypeOK, release, host
  <1>21. ASSUME NEW u \in Updaters, Verify(u) PROVE TypeOK'
    BY <1>21, <1>13, <1>20 DEF Verify, TypeOK, Results, PCs
  <1>22. ASSUME NEW u \in Updaters, LocalFails(u) PROVE TypeOK'
    BY <1>22, <1>13, SpendType DEF LocalFails, TypeOK, Kinds, Results
  <1>23. ASSUME NEW u \in Updaters, Replace(u) PROVE TypeOK'
    <2>1. archive[u] \in Builds
      BY <1>23 DEF Replace, Sound, TypeOK
    <2>2. /\ installed' \in Seq(Builds)
          /\ Len(installed') = Len(installed) + 1
      BY <1>23, <2>1 DEF Replace, TypeOK
    <2>3. CallTypes'
      BY <1>0, <1>23, ReturnTypes, GotoTypes DEF Replace, Results, PCs
    <2>4. /\ service' \in [status : Statuses, runs : 1 .. Len(installed')]
          /\ mine' \in [Updaters -> 0 .. Len(installed')]
      BY <1>23, <2>2 DEF Replace, TypeOK, Statuses
    <2> QED BY <1>23, <2>2, <2>3, <2>4
            DEF Replace, CallTypes, TypeOK, Statuses, release
  <1>24. ASSUME NEW u \in Updaters, Query(u) PROVE TypeOK'
    BY <1>24, <1>13, <1>20 DEF Query, TypeOK, Results, PCs
  <1>25. ASSUME NEW u \in Updaters, QueryFails(u) PROVE TypeOK'
    BY <1>25, <1>13, SpendType DEF QueryFails, TypeOK, Kinds, Results
  <1>26. ASSUME NEW u \in Updaters, NoSystemctl(u) PROVE TypeOK'
    BY <1>26, <1>13 DEF NoSystemctl, TypeOK, Results
  <1>27. ASSUME NEW u \in Updaters, NEW r \in Results, Return(u, r),
                UNCHANGED <<release, installed, systemctl, mine, blind>>,
                budget' \in [Bounds -> Nat],
                service' \in [status : Statuses, runs : 1 .. Len(installed)]
         PROVE  TypeOK'
    <2>1. CallTypes'
      BY <1>0, <1>27, ReturnTypes
    <2> QED BY <2>1, <1>27 DEF CallTypes, TypeOK, Statuses, release
  <1>28. ASSUME NEW u \in Updaters, Restart(u) PROVE TypeOK'
    BY <1>28, <1>27, ServiceType DEF Restart, TypeOK, Results
  <1>29. ASSUME NEW u \in Updaters, RestartFails(u) PROVE TypeOK'
    <2>1. budget' \in [Bounds -> Nat]
      BY <1>29, SpendType DEF RestartFails, Kinds, TypeOK
    <2>2. service \in [status : Statuses, runs : 1 .. Len(installed)]
      BY DEF TypeOK, Statuses
    <2>3. service' \in [status : Statuses, runs : 1 .. Len(installed)]
      BY <1>29, <2>2, ServiceType DEF RestartFails, Statuses
    <2> QED BY <1>29, <2>1, <2>3, <1>27 DEF RestartFails, Results
  <1>30. CASE UNCHANGED vars
    BY <1>30 DEF vars, TypeOK
  <1> QED BY <1>1, <1>2, <1>3, <1>5, <1>6, <1>7, <1>8, <1>9, <1>10, <1>11, <1>12, <1>14,
             <1>15, <1>16, <1>17, <1>18, <1>19, <1>21, <1>22, <1>23, <1>24, <1>25, <1>26,
             <1>28, <1>29, <1>30
          DEF Next, Environment, Call, RemoteStep, LocalStep

---------------------------------------------------------------------------
(* What is installed was listed.                                           *)

LEMMA PublishedStep == Typed /\ [Next]_vars => Published'
  <1> SUFFICES ASSUME TypeOK, Published, [Next]_vars PROVE Published'
    BY DEF Typed
  <1>0. \A t \in Tags : /\ assets[t] \in [Parts -> 0 .. Revisions]
                         /\ built[t] \in Nat
    BY UpdateAssumption DEF TypeOK
  <1>1. ASSUME NEW t \in Tags, Release(t) PROVE Published'
    BY <1>0, <1>1 DEF Release, Published, TypeOK
  <1>2. ASSUME NEW t \in Tags, NEW part \in Parts, Upload(t, part) PROVE Published'
    <2>1. \A s \in Tags, q \in Parts :
            assets'[s][q] = IF s = t /\ q = part THEN built[t] ELSE assets[s][q]
      BY <1>0, <1>2 DEF Upload, TypeOK
    <2>2. ASSUME NEW s \in Tags, NEW q \in Parts PROVE assets'[s][q] <= built'[s]
      <3>1. built' = built /\ assets'[s][q] \in {built[t], assets[s][q]}
        BY <1>2, <2>1 DEF Upload
      <3>2. assets[s][q] <= built[s] /\ built[s] \in Nat
        BY <1>0 DEF Published
      <3> QED BY <2>1, <3>1, <3>2
    <2>3. ASSUME NEW s \in Tags, assets'[s]["sums"] # 0
          PROVE  [tag |-> s, rev |-> assets'[s]["sums"]] \in listed'
      <3>1. listed \subseteq listed' /\ "sums" \in Parts
        BY <1>2 DEF Upload, Parts
      <3>2. CASE s = t /\ part = "sums"
        BY <1>2, <2>1, <2>3, <3>1, <3>2 DEF Upload
      <3>3. CASE ~(s = t /\ part = "sums")
        <4>1. assets'[s]["sums"] = assets[s]["sums"]
          BY <2>1, <3>1, <3>3
        <4>2. assets[s]["sums"] # 0 => [tag |-> s, rev |-> assets[s]["sums"]] \in listed
          BY DEF Published
        <4> QED BY <2>3, <3>1, <4>1, <4>2
      <3> QED BY <3>2, <3>3
    <2> QED BY <2>2, <2>3 DEF Published
  <1>3. ASSUME NEW t \in Tags, NEW part \in Parts, Clobber(t, part) PROVE Published'
    <2>1. \A s \in Tags, q \in Parts :
            assets'[s][q] = IF s = t /\ q = part THEN 0 ELSE assets[s][q]
      BY <1>0, <1>3 DEF Clobber, TypeOK
    <2>2. ASSUME NEW s \in Tags, NEW q \in Parts PROVE assets'[s][q] <= built'[s]
      <3>1. built' = built /\ assets'[s][q] \in {0, assets[s][q]}
        BY <1>3, <2>1 DEF Clobber
      <3>2. assets[s][q] <= built[s] /\ built[s] \in Nat
        BY <1>0 DEF Published
      <3> QED BY <2>1, <3>1, <3>2
    <2>3. ASSUME NEW s \in Tags, assets'[s]["sums"] # 0
          PROVE  [tag |-> s, rev |-> assets'[s]["sums"]] \in listed'
      <3>1. listed \subseteq listed' /\ "sums" \in Parts
        BY <1>3 DEF Clobber, Parts
      <3>2. CASE s = t /\ part = "sums"
        BY <1>3, <2>1, <2>3, <3>1, <3>2 DEF Clobber
      <3>3. CASE ~(s = t /\ part = "sums")
        <4>1. assets'[s]["sums"] = assets[s]["sums"]
          BY <2>1, <3>1, <3>3
        <4>2. assets[s]["sums"] # 0 => [tag |-> s, rev |-> assets[s]["sums"]] \in listed
          BY DEF Published
        <4> QED BY <2>3, <3>1, <4>1, <4>2
      <3> QED BY <3>2, <3>3
    <2> QED BY <2>2, <2>3 DEF Published
  <1>4. CASE UNCHANGED release
    BY <1>4 DEF release, Published
  <1> QED BY <1>1, <1>2, <1>3, <1>4
          DEF Next, Environment, Call, RemoteStep, LocalStep, ServiceFails, AutoRestart,
              AdminStops, ServiceStopped, AdminStarts, ServiceChanges, Decline, Begin,
              Cancel, Kill, ResolveLatest, DownloadArchive, DownloadSums, RequestFails,
              Fails, NothingThere, Verify, LocalFails, Replace, Query, QueryFails,
              NoSystemctl, Restart, RestartFails, vars, release

\* What is listed stays listed, so a step that leaves an updater's downloads and
\* place alone, or ends its update, keeps Sound.
LEMMA ReturnIsSound ==
    ASSUME TypeOK, NEW u \in Updaters, NEW r, Return(u, r),
           \A x \in Updaters : Sound(x), listed \subseteq listed'
    PROVE  \A x \in Updaters : Sound(x)'
  BY UpdateAssumption DEF Return, Goto, Sound, TypeOK

LEMMA IdleIsSound ==
    ASSUME UNCHANGED <<pc, options, files>>, listed \subseteq listed',
           \A x \in Updaters : Sound(x)
    PROVE  \A x \in Updaters : Sound(x)'
  BY DEF options, files, Sound

LEMMA SoundStep == Typed /\ [Next]_vars => \A x \in Updaters : Sound(x)'
  <1> SUFFICES ASSUME TypeOK, Published, \A x \in Updaters : Sound(x), [Next]_vars
               PROVE  \A x \in Updaters : Sound(x)'
    BY DEF Typed
  <1>1. CASE Environment
    BY <1>1, IdleIsSound
    DEF Environment, Release, Upload, Clobber, ServiceFails, AutoRestart,
        AdminStops, ServiceStopped, AdminStarts, ServiceChanges, release
  <1>2. ASSUME NEW u \in Updaters, Decline(u) \/ Cancel(u)
        PROVE  \A x \in Updaters : Sound(x)'
    BY <1>2, IdleIsSound DEF Decline, Cancel, release
  <1>3. ASSUME NEW u \in Updaters, NEW v \in Tags \cup {Latest}, NEW s, Begin(u, v, s)
        PROVE  \A x \in Updaters : Sound(x)'
    BY <1>3 DEF Begin, Goto, Sound, TypeOK, release, files
  <1>4. ASSUME NEW u \in Updaters,
               \/ Kill(u) \/ RequestFails(u) \/ NothingThere(u) \/ LocalFails(u)
               \/ QueryFails(u) \/ NoSystemctl(u) \/ Restart(u) \/ RestartFails(u)
        PROVE  \A x \in Updaters : Sound(x)'
    BY <1>4, ReturnIsSound
    DEF Kill, RequestFails, Fails, NothingThere, LocalFails, QueryFails, NoSystemctl,
        Restart, RestartFails, release
  <1>5. ASSUME NEW u \in Updaters, ResolveLatest(u) PROVE \A x \in Updaters : Sound(x)'
    BY <1>5 DEF ResolveLatest, Goto, Sound, TypeOK, release, files
  <1>6. ASSUME NEW u \in Updaters, DownloadArchive(u)
        PROVE  \A x \in Updaters : Sound(x)'
    BY <1>6 DEF DownloadArchive, Goto, Sound, TypeOK, release, options
  <1>7. ASSUME NEW u \in Updaters, DownloadSums(u) PROVE \A x \in Updaters : Sound(x)'
    <2>1. tag[u] \in Tags
      BY <1>7 DEF DownloadSums, Sound
    <2>2. PICK c \in Contents :
            /\ Downloaded(tag[u], assets[tag[u]]["sums"], c)
            /\ sums' = [sums EXCEPT ![u] = c]
      BY <1>7 DEF DownloadSums
    <2>3. c \in Builds => c \in listed
      BY <2>1, <2>2, UpdateAssumption DEF Downloaded, Published
    <2> QED BY <1>7, <2>1, <2>2, <2>3 DEF DownloadSums, Goto, Sound, TypeOK, release, options
  <1>8. ASSUME NEW u \in Updaters, Verify(u) PROVE \A x \in Updaters : Sound(x)'
    <2>1. CASE Verified(archive[u], sums[u]) /\ Extractable(archive[u])
      <3>1. archive[u] \in listed \ Unusable
        BY <2>1 DEF Verified, Extractable, Sound
      <3> QED BY <1>8, <2>1, <3>1 DEF Verify, Goto, Sound, TypeOK, release, options, files
    <2>2. CASE ~(Verified(archive[u], sums[u]) /\ Extractable(archive[u]))
      BY <1>8, <2>2, ReturnIsSound DEF Verify, release
    <2> QED BY <2>1, <2>2
  <1>9. ASSUME NEW u \in Updaters, Replace(u) \/ Query(u)
        PROVE  \A x \in Updaters : Sound(x)'
    <2>1. CASE \E r : Return(u, r)
      BY <1>9, <2>1, ReturnIsSound DEF Replace, Query, release
    <2>2. CASE /\ Goto(u, "query") \/ Goto(u, "restart")
               /\ pc[u] \in {"replace", "query"}
               /\ UNCHANGED <<release, options, files>>
      BY <2>2 DEF Goto, Sound, TypeOK, release, options, files
    <2> QED BY <1>9, <2>1, <2>2 DEF Replace, Query
  <1>10. CASE UNCHANGED vars
    BY <1>10, IdleIsSound DEF vars, options, files
  <1> QED BY <1>1, <1>2, <1>3, <1>4, <1>5, <1>6, <1>7, <1>8, <1>9, <1>10
          DEF Next, Call, RemoteStep, LocalStep

LEMMA TypedAlways == Spec => []Typed
  <1>1. Typed /\ [Next]_vars => Typed'
    BY TypeStep, PublishedStep, SoundStep DEF Typed
  <1> QED BY TypeInit, <1>1, PTL DEF Spec

\* Update's variables keep their types.
THEOREM TypeCorrect == Spec => []TypeOK
  <1>1. Typed => TypeOK
    BY DEF Typed
  <1> QED BY TypedAlways, <1>1, PTL

LEMMA InstalledInit == Init => InstalledIsListed
  BY DEF Init, InstalledIsListed

LEMMA InstalledStep == Typed /\ InstalledIsListed /\ [Next]_vars => InstalledIsListed'
  <1> SUFFICES ASSUME Typed, InstalledIsListed, [Next]_vars PROVE InstalledIsListed'
    OBVIOUS
  <1>1. ASSUME NEW u \in Updaters, Replace(u) PROVE InstalledIsListed'
    <2>1. archive[u] \in listed \ Unusable
      BY <1>1 DEF Replace, Typed, Sound
    <2>2. installed \in Seq(Builds) /\ archive[u] \in Builds
      BY <2>1 DEF Typed, TypeOK
    <2>3. /\ Len(installed') = Len(installed) + 1
          /\ \A i \in 1 .. Len(installed) : installed'[i] = installed[i]
          /\ installed'[Len(installed) + 1] = archive[u]
      BY <1>1, <2>2 DEF Replace
    <2>4. listed' = listed
      BY <1>1 DEF Replace, release
    <2> QED BY <2>1, <2>2, <2>3, <2>4 DEF InstalledIsListed
  <1>2. ASSUME UNCHANGED installed, listed \subseteq listed' PROVE InstalledIsListed'
    BY <1>2 DEF InstalledIsListed
  <1> QED BY <1>1, <1>2
          DEF Next, Environment, Call, RemoteStep, LocalStep, Release, Upload,
              Clobber, ServiceFails, AutoRestart, AdminStops, ServiceStopped,
              AdminStarts, ServiceChanges, Decline, Begin, Cancel, Kill, ResolveLatest,
              DownloadArchive, DownloadSums, RequestFails, Fails, NothingThere, Verify,
              LocalFails, Query, QueryFails, NoSystemctl, Restart, RestartFails, vars,
              release, host

\* Only listed builds with an extractable archive are ever installed, whatever is
\* damaged, released again or installed by others meanwhile.
THEOREM OnlyListedIsInstalled == Spec => []InstalledIsListed
  <1>1. Typed /\ InstalledIsListed /\ [Next]_vars => InstalledIsListed'
    BY InstalledStep
  <1> QED BY InstalledInit, TypedAlways, <1>1, PTL DEF Spec

---------------------------------------------------------------------------
(* No old service after an update.                                         *)

\* An updater under way has no result yet.
Undecided == \A u \in Updaters : pc[u] # "idle" => result[u] = "none"

Fresh == Undecided /\ NoOldServiceAfterUpdate

LEMMA FreshInit == Init => Fresh
  BY DEF Init, Fresh, Undecided, NoOldServiceAfterUpdate

LEMMA UndecidedStep == Typed /\ Undecided /\ [Next]_vars => Undecided'
  <1> SUFFICES ASSUME TypeOK, Undecided, [Next]_vars PROVE Undecided'
    BY DEF Typed
  <1>1. ASSUME NEW u \in Updaters, NEW r, Return(u, r) PROVE Undecided'
    BY <1>1 DEF Return, Goto, Undecided, TypeOK
  <1>2. ASSUME NEW u \in Updaters, NEW l, Goto(u, l), pc[u] # "idle", UNCHANGED result
        PROVE  Undecided'
    BY <1>2 DEF Goto, Undecided, TypeOK
  <1>3. ASSUME NEW u \in Updaters, NEW v \in Tags \cup {Latest}, NEW s, Begin(u, v, s)
        PROVE  Undecided'
    BY <1>3 DEF Begin, Goto, Undecided, TypeOK
  <1>4. ASSUME NEW u \in Updaters, Decline(u) PROVE Undecided'
    BY <1>4 DEF Decline, Undecided, TypeOK
  <1>5. CASE UNCHANGED <<pc, result>>
    BY <1>5 DEF Undecided
  <1> QED BY <1>1, <1>2, <1>3, <1>4, <1>5
          DEF Next, Environment, Call, RemoteStep, LocalStep, Release, Upload,
              Clobber, ServiceFails, AutoRestart, AdminStops, ServiceStopped,
              AdminStarts, ServiceChanges, Cancel, Kill, ResolveLatest,
              DownloadArchive, DownloadSums, RequestFails, Fails, NothingThere, Verify,
              LocalFails, Replace, Query, QueryFails, NoSystemctl, Restart, RestartFails,
              vars

\* A step that starts no service and reports no answer from systemd keeps the claim.
LEMMA QuietStep ==
    ASSUME NoOldServiceAfterUpdate, UNCHANGED <<mine, service>>,
           \A u \in Updaters :
               result'[u] \in {"restarted", "skipped"} /\ ~blind'[u]
                   => result[u] = result'[u] /\ ~blind[u]
    PROVE  NoOldServiceAfterUpdate'
  BY DEF NoOldServiceAfterUpdate

\* What is started now is as new as any installation.
LEMMA StartedStep ==
    ASSUME TypeOK, service' = Started, UNCHANGED mine
    PROVE  NoOldServiceAfterUpdate'
  <1>1. \A u \in Updaters : mine[u] \in 0 .. Len(installed) /\ Len(installed) \in Nat
    BY DEF TypeOK
  <1> QED BY <1>1 DEF NoOldServiceAfterUpdate, Started, Present

\* A service that is not active runs no old build.
LEMMA InactiveStep == ASSUME service'.status # "active" PROVE NoOldServiceAfterUpdate'
  BY DEF NoOldServiceAfterUpdate

LEMMA FreshStep == Typed /\ Fresh /\ [Next]_vars => NoOldServiceAfterUpdate'
  <1> SUFFICES ASSUME TypeOK, Undecided, NoOldServiceAfterUpdate, [Next]_vars
               PROVE  NoOldServiceAfterUpdate'
    BY DEF Typed, Fresh
  <1>1. CASE Environment
    <2>1. CASE service' = service
      BY <1>1, <2>1, QuietStep
      DEF Environment, Release, Upload, Clobber, ServiceFails, AutoRestart,
          AdminStops, ServiceStopped, AdminStarts, ServiceChanges
    <2>2. CASE service' # service
      <3>1. service' = Started \/ service'.status # "active"
        BY <1>1, <2>2
        DEF Environment, Release, Upload, Clobber, ServiceFails, AutoRestart,
            AdminStops, ServiceStopped, AdminStarts, host, TypeOK
      <3>2. UNCHANGED mine
        BY <1>1
        DEF Environment, Release, Upload, Clobber, ServiceFails, AutoRestart,
            AdminStops, ServiceStopped, AdminStarts, ServiceChanges
      <3> QED BY <3>1, <3>2, StartedStep, InactiveStep
    <2> QED BY <2>1, <2>2
  <1>2. ASSUME NEW u \in Updaters, Decline(u) PROVE NoOldServiceAfterUpdate'
    BY <1>2 DEF Decline, NoOldServiceAfterUpdate, TypeOK, host
  <1>3. ASSUME NEW u \in Updaters, NEW v, NEW s, Begin(u, v, s)
        PROVE  NoOldServiceAfterUpdate'
    BY <1>3 DEF Begin, NoOldServiceAfterUpdate, TypeOK, host
  <1>4. ASSUME NEW u \in Updaters, NEW r \in {"none", "error", "unavailable"},
               Return(u, r), UNCHANGED <<mine, service, blind>>
        PROVE  NoOldServiceAfterUpdate'
    BY <1>4, QuietStep DEF Return, TypeOK
  <1>5. ASSUME NEW u \in Updaters, Replace(u) PROVE NoOldServiceAfterUpdate'
    <2>1. result'[u] \notin {"restarted", "skipped"}
      BY <1>5 DEF Replace, Return, Undecided, TypeOK
    <2>2. \A x \in Updaters \ {u} : result'[x] = result[x] /\ mine'[x] = mine[x]
      BY <1>5 DEF Replace, Return, TypeOK
    <2> QED BY <1>5, <2>1, <2>2 DEF Replace, NoOldServiceAfterUpdate
  <1>6. ASSUME NEW u \in Updaters, Query(u) PROVE NoOldServiceAfterUpdate'
    <2>1. CASE service.status = "active"
      BY <1>6, <2>1, QuietStep DEF Query, host
    <2>2. CASE service.status # "active"
      BY <1>6, <2>2, InactiveStep DEF Query, host
    <2> QED BY <2>1, <2>2
  <1>7. ASSUME NEW u \in Updaters, QueryFails(u) PROVE NoOldServiceAfterUpdate'
    BY <1>7, QuietStep DEF QueryFails, Return, TypeOK, host
  <1>8. ASSUME NEW u \in Updaters, Restart(u) PROVE NoOldServiceAfterUpdate'
    BY <1>8, StartedStep DEF Restart
  <1>9. ASSUME NEW u \in Updaters, RestartFails(u) PROVE NoOldServiceAfterUpdate'
    <2>1. CASE service' = service
      BY <1>9, <2>1, <1>4 DEF RestartFails
    <2>2. CASE service' = Started
      BY <1>9, <2>2, StartedStep DEF RestartFails
    <2>3. CASE service' = [service EXCEPT !.status = "inactive"]
      BY <2>3, InactiveStep DEF TypeOK
    <2> QED BY <1>9, <2>1, <2>2, <2>3 DEF RestartFails
  <1>10. CASE UNCHANGED <<mine, service, result, blind>>
    BY <1>10, QuietStep
  <1> QED BY <1>1, <1>2, <1>3, <1>4, <1>5, <1>6, <1>7, <1>8, <1>9, <1>10
          DEF Next, Call, RemoteStep, LocalStep, Cancel, Kill, ResolveLatest,
              DownloadArchive, DownloadSums, RequestFails, Fails, NothingThere, Verify,
              LocalFails, NoSystemctl, vars, host

\* An update that ended with a restart, or with systemd's word that the service was
\* not active, leaves no service running an older build.
THEOREM UpdatedServiceIsNew == Spec => []NoOldServiceAfterUpdate
  <1>1. Typed /\ Fresh /\ [Next]_vars => Fresh'
    BY UndecidedStep, FreshStep DEF Fresh
  <1>2. Fresh => NoOldServiceAfterUpdate
    BY DEF Fresh
  <1> QED BY FreshInit, TypedAlways, <1>1, <1>2, PTL DEF Spec

\* Only a context that is done, or is-active failing of itself, makes an updater skip
\* the restart without systemd's word.
Answered ==
    /\ budget["cancel"] = 0 /\ budget["query"] = 0
    /\ \A u \in Updaters : ~cancelled[u] /\ ~blind[u]

LEMMA AnsweredStep == Typed /\ Answered /\ [Next]_vars => Answered'
  <1> SUFFICES ASSUME TypeOK, Answered, [Next]_vars PROVE Answered'
    BY DEF Typed
  <1>1. ASSUME NEW k, Spend(k)
        PROVE  budget'["cancel"] = 0 /\ budget'["query"] = 0 /\ k \notin {"cancel", "query"}
    BY <1>1 DEF Spend, Answered, TypeOK, Kinds, Bounds
  <1>2. \A u \in Updaters : ~Cancel(u) /\ ~QueryFails(u)
    BY <1>1 DEF Cancel, QueryFails, Answered
  <1>3. budget'["cancel"] = 0 /\ budget'["query"] = 0
    <2>1. CASE UNCHANGED budget
      BY <2>1 DEF Answered
    <2>2. CASE Environment
      BY <1>1, <2>1, <2>2
      DEF Environment, Release, Upload, Clobber, ServiceFails, AutoRestart,
          AdminStops, ServiceStopped, AdminStarts
    <2>3. ASSUME NEW u \in Updaters, Call(u)
          PROVE  budget'["cancel"] = 0 /\ budget'["query"] = 0
      BY <1>1, <1>2, <2>3 DEF Call, Decline, Begin, Kill
    <2>4. ASSUME NEW u \in Updaters, DownloadArchive(u) \/ DownloadSums(u)
          PROVE  budget'["cancel"] = 0 /\ budget'["query"] = 0
      BY <1>1, <2>1, <2>4 DEF DownloadArchive, DownloadSums, Downloaded
    <2>5. ASSUME NEW u \in Updaters, RequestFails(u) \/ LocalFails(u) \/ RestartFails(u)
          PROVE  budget'["cancel"] = 0 /\ budget'["query"] = 0
      BY <1>1, <2>1, <2>5 DEF RequestFails, Fails, LocalFails, RestartFails
    <2>6. ASSUME NEW u \in Updaters, RemoteStep(u) \/ LocalStep(u)
          PROVE  budget'["cancel"] = 0 /\ budget'["query"] = 0
      BY <1>2, <2>1, <2>4, <2>5, <2>6
      DEF RemoteStep, LocalStep, ResolveLatest, NothingThere, Verify, Replace, Query,
          NoSystemctl, Restart
    <2> QED BY <2>1, <2>2, <2>3, <2>6 DEF Next, vars
  <1>4. \A u \in Updaters : ~cancelled'[u]
    <2>1. CASE UNCHANGED cancelled
      BY <2>1 DEF Answered
    <2>2. ASSUME NEW u \in Updaters, NEW r, Return(u, r)
          PROVE  \A x \in Updaters : ~cancelled'[x]
      BY <2>2 DEF Return, Answered, TypeOK
    <2>3. CASE Environment
      BY <2>1, <2>3
      DEF Environment, Release, Upload, Clobber, ServiceFails, AutoRestart,
          AdminStops, ServiceStopped, AdminStarts, ServiceChanges
    <2>4. ASSUME NEW u \in Updaters, Call(u) PROVE \A x \in Updaters : ~cancelled'[x]
      BY <1>2, <2>1, <2>2, <2>4 DEF Call, Decline, Begin, Kill
    <2>5. ASSUME NEW u \in Updaters, RemoteStep(u) \/ LocalStep(u)
          PROVE  \A x \in Updaters : ~cancelled'[x]
      BY <1>2, <2>1, <2>2, <2>5
      DEF RemoteStep, LocalStep, ResolveLatest, DownloadArchive, DownloadSums,
          RequestFails, Fails, NothingThere, Verify, LocalFails, Replace, Query,
          NoSystemctl, Restart, RestartFails
    <2> QED BY <2>1, <2>3, <2>4, <2>5 DEF Next, vars
  <1>5. \A u \in Updaters : ~blind'[u]
    BY <1>2
    DEF Next, Environment, Call, RemoteStep, LocalStep, Release, Upload,
        Clobber, ServiceFails, AutoRestart, AdminStops, ServiceStopped, AdminStarts,
        ServiceChanges, Decline, Begin, Kill, ResolveLatest, DownloadArchive,
        DownloadSums, RequestFails, Fails, NothingThere, Verify, LocalFails, Replace,
        Query, NoSystemctl, Restart, RestartFails, Answered, TypeOK, vars
  <1> QED BY <1>3, <1>4, <1>5 DEF Answered

\* The message of update.go:324 is wrong only through is-active: if no update is
\* interrupted and is-active never fails of itself, a service called not active does
\* not go on running the old build, however the service, the releases, the other
\* updaters and the kills fall between the rename, the question and the answer.
THEOREM SkippedIsNotOldUninterrupted ==
    ASSUME Allowance["cancel"] = 0, Allowance["query"] = 0
    PROVE  Spec => []SkippedServiceIsNotOld
  <1>1. Init => Answered
    BY DEF Init, Answered
  <1>2. Answered /\ NoOldServiceAfterUpdate => SkippedServiceIsNotOld
    BY DEF Answered, NoOldServiceAfterUpdate, SkippedServiceIsNotOld
  <1> QED BY TypedAlways, AnsweredStep, UpdatedServiceIsNew, <1>1, <1>2, PTL DEF Spec
====
