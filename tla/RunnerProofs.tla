---- MODULE RunnerProofs ----
(* Theorems about Runner, for every set of processes, hashes, statuses,    *)
(* configurations and allowances.                                          *)
EXTENDS Runner, SequenceTheorems, TLAPS

---------------------------------------------------------------------------
(* The operations of the state record keep its type.                       *)

LEMMA NewStateType == NewState \in State
  BY DEF NewState, State, MaybeHash

LEMMA RecordedType ==
    ASSUME mem \in [Procs -> State], NEW p \in Procs, NEW h \in Hashes
    PROVE  Recorded(p, h) \in State
  BY DEF Recorded, RecordSnapshot, MarkInitialSkipped, State, MaybeHash

LEMMA MarkedType ==
    ASSUME NEW s \in State, NEW n \in Notifiers, NEW h \in MaybeHash, NEW o
    PROVE  Marked(s, n, h, o) \in State
  BY DEF Marked, MarkNotifierSuccess, MarkNotifierTerminalFailure, State, MaybeHash

LEMMA StoredType ==
    ASSUME disk \in File \cup {NoFile}
    PROVE  Stored \in State
  BY NewStateType DEF Stored, File

---------------------------------------------------------------------------
(* Type correctness, one step per action.                                  *)

LEMMA SpendType ==
    ASSUME budget \in [Bounds -> Nat], NEW k \in Kinds, Spend(k)
    PROVE  budget' \in [Bounds -> Nat]
  BY DEF Spend, Kinds, Bounds

LEMMA RemoveAtType ==
    ASSUME NEW S, NEW s \in Seq(S), NEW i \in 1 .. Len(s)
    PROVE  Seqs!RemoveAt(s, i) \in Seq(S) /\ Len(Seqs!RemoveAt(s, i)) = Len(s) - 1
  <1> DEFINE front == SubSeq(s, 1, i - 1)
             back  == SubSeq(s, i + 1, Len(s))
  <1>0. Len(s) \in Nat /\ i \in Nat /\ i >= 1 /\ i <= Len(s)
    OBVIOUS
  <1>1. front \in Seq(S) /\ Len(front) = i - 1
    BY <1>0, SubSeqProperties
  <1>2. back \in Seq(S) /\ Len(back) = Len(s) - i
    BY <1>0, SubSeqProperties
  <1>3. Seqs!RemoveAt(s, i) = front \o back
    BY DEF Seqs!RemoveAt
  <1> HIDE DEF front, back
  <1>4. front \o back \in Seq(S) /\ Len(front \o back) = Len(front) + Len(back)
    BY <1>1, <1>2, ConcatProperties
  <1> QED
    BY <1>0, <1>1, <1>2, <1>3, <1>4

\* What the ends of a check and of a process assign keeps its type.
ProcessTypes ==
    /\ pc \in [Procs -> PCs]
    /\ cfg \in [Procs -> Configs \cup {NoConfig}]
    /\ uid \in [Procs -> Uids]
    /\ force \in [Procs -> BOOLEAN]
    /\ cancelled \in [Procs -> BOOLEAN]
    /\ tick \in {"none", "quiet", "due"}
    /\ mem \in [Procs -> State]
    /\ snap \in [Procs -> MaybeHash]
    /\ todo \in [Procs -> SUBSET Notifiers]
    /\ wire \in [Procs -> {"idle", "sent", "taken"}]

LEMMA ForgetTypes ==
    ASSUME ProcessTypes, NEW p \in Procs, Forget(p)
    PROVE  /\ mem' \in [Procs -> State]
           /\ snap' \in [Procs -> MaybeHash]
           /\ todo' \in [Procs -> SUBSET Notifiers]
           /\ wire' \in [Procs -> {"idle", "sent", "taken"}]
  BY NewStateType DEF ProcessTypes, Forget, MaybeHash

LEMMA ExitTypes ==
    ASSUME ProcessTypes, NEW p \in Procs, Exit(p)
    PROVE  ProcessTypes'
  BY ForgetTypes DEF ProcessTypes, Exit, PCs, Uids

LEMMA EndCheckTypes ==
    ASSUME ProcessTypes, NEW p \in Procs, EndCheck(p)
    PROVE  ProcessTypes'
  BY ForgetTypes, ExitTypes DEF ProcessTypes, EndCheck, PCs, session

\* What TypeOK needs to be inductive: a check past detection has a snapshot, and
\* only a check inside Notify has an exchange.
InPhase(p) ==
    /\ pc[p] \in {"loop", "wait"} => snap[p] \in Hashes
    /\ wire[p] # "idle" => pc[p] = "wait"
    /\ pc[p] = "idle" => p = Daemon

Phases == \A p \in Procs : InPhase(p)

Typed == TypeOK /\ Phases

LEMMA TypeInit == Init => Typed
  BY RunnerAssumption, NewStateType
  DEF Init, Typed, TypeOK, Phases, InPhase, PCs, Uids, MaybeHash, Procs

LEMMA TypeStep == Typed /\ [Next]_vars => TypeOK'
  <1> SUFFICES ASSUME TypeOK, Phases, [Next]_vars PROVE TypeOK'
    BY DEF Typed
  <1> USE RunnerAssumption
  <1>0. ProcessTypes
    BY DEF TypeOK, ProcessTypes
  <1>1. CASE ChangeAddress
    BY <1>1, SpendType DEF ChangeAddress, TypeOK, Kinds, session, check, history
  <1>2. CASE EditConfig
    BY <1>2, SpendType DEF EditConfig, TypeOK, Kinds, session, check, history
  <1>3. ASSUME NEW p \in Procs, NEW u \in Uids, NEW f \in BOOLEAN, Start(p, u, f),
               budget' \in [Bounds -> Nat], wanted' \in BOOLEAN
        PROVE  TypeOK'
    BY <1>3 DEF Start, TypeOK, PCs, env, check, history
  <1>4. CASE StartService
    BY <1>4, <1>3 DEF StartService, Procs, Uids, TypeOK
  <1>5. CASE Tick
    BY <1>5 DEF Tick, TypeOK, env, session, check, history
  <1>6. CASE Stop
    <2>1. ProcessTypes'
      BY <1>0, <1>6, ExitTypes DEF Stop, Procs
    <2> QED BY <1>6, <2>1 DEF Stop, ProcessTypes, TypeOK, env, history
  <1>7. ASSUME NEW p \in OnceUsers, StartOnce(p) PROVE TypeOK'
    <2>1. budget' \in [Bounds -> Nat]
      BY <1>7, SpendType DEF StartOnce, Kinds, TypeOK
    <2>2. PICK u \in OnceUids, f \in BOOLEAN : Start(p, u, f)
      BY <1>7 DEF StartOnce
    <2>3. p \in Procs /\ u \in Uids
      BY DEF Procs
    <2>4. wanted' \in BOOLEAN
      BY <1>7 DEF StartOnce, TypeOK
    <2> QED BY <1>3, <2>1, <2>2, <2>3, <2>4
  <1>8. ASSUME NEW p \in Procs, Signal(p) PROVE TypeOK'
    BY <1>8, SpendType DEF Signal, TypeOK, Kinds, env, session, check, history
  <1>9. ASSUME NEW p \in Procs, Crash(p) PROVE TypeOK'
    <2>1. ProcessTypes'
      BY <1>0, <1>9, ExitTypes DEF Crash
    <2>2. budget' \in [Bounds -> Nat]
      BY <1>9, SpendType DEF Crash, Kinds, TypeOK
    <2>3. wanted' \in BOOLEAN
      BY <1>9 DEF Crash, TypeOK
    <2> QED BY <1>9, <2>1, <2>2, <2>3 DEF Crash, ProcessTypes, TypeOK, history
  <1>10. ASSUME NEW p \in Procs, LoadState(p) PROVE TypeOK'
    BY <1>10, StoredType
    DEF LoadState, TypeOK, PCs, env, session, history
  <1>11. ASSUME NEW p \in Procs, LoadFails(p) PROVE TypeOK'
    <2>1. ProcessTypes'
      BY <1>0, <1>11, EndCheckTypes DEF LoadFails
    <2>2. budget' \in [Bounds -> Nat]
      BY <1>11, SpendType DEF LoadFails, Kinds, TypeOK
    <2> QED BY <1>11, <2>1, <2>2 DEF LoadFails, ProcessTypes, TypeOK, env, history
  <1>12. ASSUME NEW p \in Procs, Detect(p) PROVE TypeOK'
    <2>1. Recorded(p, net) \in State
      BY RecordedType DEF TypeOK
    <2>2. cfg[p].enabled \subseteq Notifiers
      BY <1>0 DEF ProcessTypes, NoConfig
    <2> QED BY <1>12, <2>1, <2>2
            DEF Detect, TypeOK, PCs, MaybeHash, env, session, history
  <1>13. ASSUME NEW p \in Procs, DetectFails(p) PROVE TypeOK'
    <2>1. ProcessTypes'
      BY <1>0, <1>13, EndCheckTypes DEF DetectFails
    <2>2. budget' \in [Bounds -> Nat]
      BY <1>13, SpendType DEF DetectFails, Kinds, TypeOK
    <2> QED BY <1>13, <2>1, <2>2 DEF DetectFails, ProcessTypes, TypeOK, env, history
  <1>14. ASSUME NEW p \in Procs, Save(p) PROVE TypeOK'
    <2>1. ProcessTypes'
      BY <1>0, <1>14, EndCheckTypes DEF Save
    <2>2. disk' \in File
      BY <1>14 DEF Save, File, TypeOK
    <2> QED BY <1>14, <2>1, <2>2 DEF Save, ProcessTypes, TypeOK, env, history
  <1>15. ASSUME NEW p \in Procs, SaveFails(p) PROVE TypeOK'
    <2>1. ProcessTypes'
      BY <1>0, <1>15, EndCheckTypes DEF SaveFails
    <2>2. budget' \in [Bounds -> Nat]
      BY <1>15, SpendType DEF SaveFails, Kinds, TypeOK
    <2> QED BY <1>15, <2>1, <2>2 DEF SaveFails, ProcessTypes, TypeOK, env, history
  <1>16. ASSUME NEW p \in Procs, NEW n \in Notifiers, SkipHandled(p, n) PROVE TypeOK'
    BY <1>16 DEF SkipHandled, TypeOK, env, session, history
  <1>17. ASSUME NEW p \in Procs, NEW n \in Notifiers, Send(p, n) PROVE TypeOK'
    BY <1>17 DEF Send, TypeOK, PCs, env, session, history
  <1>18. ASSUME NEW p \in Procs, NEW n \in Notifiers, ProviderTakes(p, n) PROVE TypeOK'
    <2>1. snap[p] \in Hashes
      BY <1>18 DEF ProviderTakes, Phases, InPhase, TypeOK
    <2> QED BY <1>18, <2>1 DEF ProviderTakes, Show, TypeOK, env, session
  <1>19. ASSUME NEW p \in Procs, NEW n \in Notifiers, Respond(p, n) PROVE TypeOK'
    <2>1. snap[p] \in Hashes
      BY <1>19 DEF Respond, Phases, InPhase, TypeOK
    <2>2. PICK r \in Replies \cup {NoReply} :
            /\ Account(p, n, r)
            /\ mem' = [mem EXCEPT ![p] = Marked(@, n, snap[p], Outcome(n, r))]
            /\ rejected' = [rejected EXCEPT ![n] =
                               IF FailsForGood(n, r) THEN @ \cup {snap[p]} ELSE @]
      BY <1>19 DEF Respond
    <2>3. budget' \in [Bounds -> Nat]
      BY <2>2, SpendType DEF Account, Kinds, TypeOK
    <2>4. mem' \in [Procs -> State]
      BY <2>2, MarkedType DEF TypeOK
    <2>5. rejected' \in [Notifiers -> SUBSET Hashes]
      BY <2>1, <2>2 DEF TypeOK
    <2> QED BY <1>19, <2>3, <2>4, <2>5 DEF Respond, TypeOK, PCs, env, session
  <1>20. CASE UNCHANGED vars
    BY <1>20 DEF vars, TypeOK
  <1>21. ASSUME NEW p \in Procs, NEW n \in Notifiers, Delay(p, n) PROVE TypeOK'
    <2>1. snap[p] \in Hashes
      BY <1>21 DEF Delay, Phases, InPhase, TypeOK
    <2>2. budget' \in [Bounds -> Nat]
      BY <1>21, SpendType DEF Delay, Kinds, TypeOK
    <2>3. late' \in [Notifiers -> Seq(Hashes)]
      BY <1>21, <2>1 DEF Delay, TypeOK
    <2> QED BY <1>21, <2>2, <2>3 DEF Delay, TypeOK, session, history
  <1>22. ASSUME NEW n \in Notifiers, ArriveLate(n) PROVE TypeOK'
    <2>1. PICK i \in 1 .. Len(late[n]) :
            /\ late' = [late EXCEPT ![n] = Seqs!RemoveAt(@, i)]
            /\ Show(n, late[n][i], FALSE)
      BY <1>22 DEF ArriveLate
    <2>2. late[n] \in Seq(Hashes) /\ late[n][i] \in Hashes
      BY DEF TypeOK
    <2>3. late' \in [Notifiers -> Seq(Hashes)]
      BY <2>1, <2>2, RemoveAtType DEF TypeOK
    <2>4. /\ inbox' \in [Notifiers -> MaybeHash]
          /\ accepted' \in [Notifiers -> SUBSET Hashes]
          /\ repeats' \in [Notifiers -> Nat]
      BY <2>1, <2>2 DEF Show, TypeOK, MaybeHash
    <2> QED BY <1>22, <2>3, <2>4 DEF ArriveLate, TypeOK, session, check
  <1> QED
    BY <1>1, <1>2, <1>4, <1>5, <1>6, <1>7, <1>8, <1>9, <1>10, <1>11, <1>12, <1>13,
       <1>14, <1>15, <1>16, <1>17, <1>18, <1>19, <1>20, <1>21, <1>22 DEF Next

LEMMA PhasesStep == Typed /\ [Next]_vars => Phases'
  <1> SUFFICES ASSUME TypeOK, Phases, [Next]_vars, NEW q \in Procs
               PROVE  InPhase(q)'
    BY DEF Typed, Phases
  <1> USE DEF Phases, InPhase, TypeOK
  <1>1. CASE ChangeAddress \/ EditConfig \/ Tick \/ UNCHANGED vars
    BY <1>1 DEF ChangeAddress, EditConfig, Tick, vars, check
  <1>2. CASE StartService \/ \E p \in OnceUsers : StartOnce(p)
    BY <1>2 DEF StartService, StartOnce, Start, Procs, check
  <1>3. CASE Stop \/ \E p \in Procs : Crash(p)
    BY <1>3 DEF Stop, Crash, Exit, Forget, Procs
  <1>4. ASSUME NEW p \in Procs, Signal(p) \/ LoadState(p) \/ Detect(p)
        PROVE  InPhase(q)'
    BY <1>4 DEF Signal, LoadState, Detect, MayCheck, check
  <1>5. ASSUME NEW p \in Procs, EndCheck(p)
        PROVE  InPhase(q)'
    BY <1>5 DEF EndCheck, Exit, Forget
  <1>6. ASSUME NEW p \in Procs,
               LoadFails(p) \/ DetectFails(p) \/ Save(p) \/ SaveFails(p)
        PROVE  EndCheck(p)
    BY <1>6 DEF LoadFails, DetectFails, Save, SaveFails
  <1>7. ASSUME NEW p \in Procs, NEW n \in Notifiers,
               \/ SkipHandled(p, n) \/ Send(p, n) \/ ProviderTakes(p, n)
               \/ Delay(p, n) \/ Respond(p, n)
        PROVE  InPhase(q)'
    BY <1>7 DEF SkipHandled, Send, ProviderTakes, Delay, Respond
  <1>8. ASSUME NEW n \in Notifiers, ArriveLate(n) PROVE InPhase(q)'
    BY <1>8 DEF ArriveLate, check
  <1> QED
    BY <1>1, <1>2, <1>3, <1>4, <1>5, <1>6, <1>7, <1>8 DEF Next

\* Every variable keeps its type in every reachable state, whatever the processes,
\* faults and overlaps: no operation of the store or of the runner ever puts
\* anything but a known hash, or none, into the record.
THEOREM TypeCorrect == Spec => []TypeOK
  <1>1. Typed /\ [Next]_vars => Typed'
    BY TypeStep, PhasesStep DEF Typed
  <1>2. Typed => TypeOK
    BY DEF Typed
  <1> QED
    BY TypeInit, <1>1, <1>2, PTL DEF Spec

---------------------------------------------------------------------------
(* What the answers of the providers prove, and what is done with them.    *)

LEMMA NextIsUnique ==
    ASSUME NEW p \in Procs, NEW n \in Notifiers, NEW m \in Notifiers,
           IsNext(n, p), IsNext(m, p)
    PROVE  n = m
  BY DEF IsNext, Notifiers

\* An answer the client reads as a delivery comes only after the message was taken,
\* and one it reads as a permanent failure is a refusal or says nothing at all.
LEMMA OutcomeIsEarned ==
    ASSUME NEW n \in Notifiers, NEW r \in Replies \cup {NoReply}, NEW w,
           Plausible(n, w = "taken", r)
    PROVE  /\ Outcome(n, r) = "delivered" => w = "taken"
           /\ Outcome(n, r) = "permanent" => FailsForGood(n, r)
           /\ Outcome(n, r) \in Outcomes
  BY StatusesAssumption
  DEF Plausible, Outcome, BarkOutcome, PushoverOutcome, Acknowledges, Refuses,
      Unintelligible, FailsForGood, Outcomes, Replies, Bodies, NoReply, Notifiers

LEMMA MarkedFields ==
    ASSUME NEW s \in State, NEW n \in Notifiers, NEW h \in MaybeHash, NEW o \in Outcomes
    PROVE  LET t == Marked(s, n, h, o) IN
           /\ t.current = s.current /\ t.previous = s.previous /\ t.skipped = s.skipped
           /\ t.delivered = [s.delivered EXCEPT
                                ![n] = IF o = "delivered" THEN h ELSE @]
           /\ \A m \in Notifiers :
                t.terminal[m] = IF m # n \/ o = "transient" THEN s.terminal[m]
                                ELSE IF o = "delivered" THEN NoHash ELSE h
  BY DEF Marked, MarkNotifierSuccess, MarkNotifierTerminalFailure, Outcomes, State,
         MaybeHash

LEMMA RecordedFields ==
    ASSUME mem \in [Procs -> State], NEW p \in Procs, NEW h \in Hashes
    PROVE  LET t == Recorded(p, h) IN
           /\ t.current = h
           /\ t.delivered = mem[p].delivered /\ t.terminal = mem[p].terminal
           /\ t.skipped = IF mem[p].current = NoHash /\ ~cfg[p].initial
                          THEN h ELSE mem[p].skipped
  BY DEF Recorded, RecordSnapshot, MarkInitialSkipped, State, MaybeHash

---------------------------------------------------------------------------
(* The record is truthful.                                                 *)

\* What Truthful needs to be inductive: the message an exchange has seen taken is
\* among those its provider accepted.
TakenIsAccepted ==
    \A p \in Procs, n \in Notifiers :
        wire[p] = "taken" /\ IsNext(n, p) => snap[p] \in accepted[n]

Evidence == Typed /\ Truthful /\ TakenIsAccepted

LEMMA NewStateEvidenced ==
    ASSUME NEW acc, NEW rej PROVE Evidenced(NewState, acc, rej)
  BY DEF Evidenced, NewState

LEMMA EvidenceInit == Init => Evidence
  BY TypeInit, NewStateEvidenced
  DEF Init, Evidence, Truthful, TakenIsAccepted, Stored, Procs

\* Evidence is never withdrawn.
LEMMA HistoryGrows ==
    ASSUME Typed, [Next]_vars, NEW n \in Notifiers
    PROVE  accepted[n] \subseteq accepted'[n] /\ rejected[n] \subseteq rejected'[n]
  <1> USE DEF Typed, TypeOK, history
  <1>1. ASSUME NEW p \in Procs, NEW m \in Notifiers, Respond(p, m)
        PROVE  accepted' = accepted /\ rejected[n] \subseteq rejected'[n]
    BY <1>1 DEF Respond
  <1>2. ASSUME NEW p \in Procs, NEW m \in Notifiers, ProviderTakes(p, m)
        PROVE  accepted[n] \subseteq accepted'[n] /\ rejected' = rejected
    BY <1>2 DEF ProviderTakes, Show
  <1>5. ASSUME NEW m \in Notifiers, ArriveLate(m)
        PROVE  accepted[n] \subseteq accepted'[n] /\ rejected' = rejected
    BY <1>5 DEF ArriveLate, Show
  <1>3. ASSUME UNCHANGED history \/ UNCHANGED vars
        PROVE  accepted' = accepted /\ rejected' = rejected
    BY <1>3 DEF vars
  <1>4. ASSUME NEW p \in Procs, NEW m \in Notifiers,
               SkipHandled(p, m) \/ Send(p, m) \/ Delay(p, m)
        PROVE  UNCHANGED history
    BY <1>4 DEF SkipHandled, Send, Delay
  <1> QED
    BY <1>1, <1>2, <1>3, <1>4, <1>5
    DEF Next, ChangeAddress, EditConfig, StartService, Tick, Stop, StartOnce, Start,
        Signal, Crash, LoadState, LoadFails, Detect, DetectFails, Save, SaveFails

\* The memories of a step: each check's own, unless it loads, detects, or hears an
\* answer, and nothing once it is over.
LEMMA EndCheckMemory ==
    ASSUME Typed, NEW p \in Procs, EndCheck(p) \/ Exit(p)
    PROVE  /\ mem' = [mem EXCEPT ![p] = NewState]
           /\ wire' = [wire EXCEPT ![p] = "idle"]
           /\ snap' = [snap EXCEPT ![p] = NoHash]
           /\ todo' = [todo EXCEPT ![p] = {}]
  BY DEF EndCheck, Exit, Forget

LEMMA EvidenceKept ==
    ASSUME Typed, [Next]_vars, NEW s,
           Evidenced(s, accepted, rejected)
    PROVE  Evidenced(s, accepted', rejected')
  BY HistoryGrows DEF Evidenced

LEMMA EvidenceStep == Evidence /\ [Next]_vars => Truthful' /\ TakenIsAccepted'
  <1> SUFFICES ASSUME Typed, Truthful, TakenIsAccepted, [Next]_vars
               PROVE  Truthful' /\ TakenIsAccepted'
    BY DEF Evidence
  <1> USE DEF Typed, TypeOK
  <1> DEFINE Proved(s) == Evidenced(s, accepted', rejected')
  <1>a. Proved(NewState)
    BY NewStateEvidenced
  <1>b. \A p \in Procs : Proved(mem[p])
    BY EvidenceKept DEF Truthful
  <1>c. Proved(Stored)
    BY EvidenceKept DEF Truthful
  <1> HIDE DEF Proved
  \* It is enough to look at the process that moved.
  <1>d. ASSUME NEW p \in Procs, UNCHANGED disk, NEW s,
               mem' = [mem EXCEPT ![p] = s], Proved(s)
        PROVE  Truthful'
    BY <1>b, <1>c, <1>d DEF Truthful, Stored, Proved
  <1>e. ASSUME UNCHANGED <<disk, mem>> PROVE Truthful'
    BY <1>e, <1>b, <1>c DEF Truthful, Stored, Proved
  <1>f. ASSUME NEW p \in Procs, NEW w \in {"idle", "sent"}, wire' = [wire EXCEPT ![p] = w],
               \A q \in Procs \ {p} : todo'[q] = todo[q] /\ snap'[q] = snap[q]
        PROVE  TakenIsAccepted'
    BY <1>f, HistoryGrows DEF TakenIsAccepted, IsNext
  <1>g. ASSUME UNCHANGED <<wire, todo, snap>> PROVE TakenIsAccepted'
    BY <1>g, HistoryGrows DEF TakenIsAccepted, IsNext
  <1>1. CASE ChangeAddress \/ EditConfig \/ Tick \/ UNCHANGED vars
    BY <1>1, <1>e, <1>g DEF ChangeAddress, EditConfig, Tick, vars, check
  <1>2. CASE StartService \/ \E p \in OnceUsers : StartOnce(p)
    BY <1>2, <1>e, <1>g DEF StartService, StartOnce, Start, check
  <1>3. ASSUME NEW p \in Procs, Signal(p) PROVE Truthful' /\ TakenIsAccepted'
    BY <1>3, <1>e, <1>g DEF Signal, check
  <1>4. ASSUME NEW p \in Procs, EndCheck(p) \/ Exit(p), UNCHANGED disk
        PROVE  Truthful' /\ TakenIsAccepted'
    <2>1. /\ mem' = [mem EXCEPT ![p] = NewState]
          /\ wire' = [wire EXCEPT ![p] = "idle"]
          /\ \A q \in Procs \ {p} : todo'[q] = todo[q] /\ snap'[q] = snap[q]
      BY <1>4, EndCheckMemory
    <2> QED BY <1>4, <1>a, <1>d, <1>f, <2>1
  <1>5. CASE Stop
    BY <1>5, <1>4 DEF Stop, Procs
  <1>6. ASSUME NEW p \in Procs,
               Crash(p) \/ LoadFails(p) \/ DetectFails(p) \/ SaveFails(p)
        PROVE  Truthful' /\ TakenIsAccepted'
    BY <1>6, <1>4 DEF Crash, LoadFails, DetectFails, SaveFails
  <1>7. ASSUME NEW p \in Procs, LoadState(p) PROVE Truthful' /\ TakenIsAccepted'
    BY <1>7, <1>c, <1>d, <1>g DEF LoadState
  <1>8. ASSUME NEW p \in Procs, Detect(p) PROVE Truthful' /\ TakenIsAccepted'
    <2>1. Proved(Recorded(p, net))
      BY <1>b, RecordedFields DEF Proved, Evidenced
    <2>2. wire[p] = "idle"
      BY <1>8 DEF Detect, Phases, InPhase
    <2>3. wire' = [wire EXCEPT ![p] = "idle"]
      BY <1>8, <2>2 DEF Detect
    <2> QED BY <1>8, <2>1, <2>3, <1>d, <1>f DEF Detect
  <1>9. ASSUME NEW p \in Procs, Save(p) PROVE Truthful' /\ TakenIsAccepted'
    <2>1. Stored' = mem[p]
      BY <1>9, RunnerAssumption DEF Save, Stored, File
    <2>2. EndCheck(p)
      BY <1>9 DEF Save
    <2> QED BY <1>9, <1>a, <1>b, <1>f, <2>1, <2>2, EndCheckMemory DEF Truthful, Proved
  <1>10. ASSUME NEW p \in Procs, NEW n \in Notifiers,
                SkipHandled(p, n) \/ Send(p, n)
         PROVE  Truthful' /\ TakenIsAccepted'
    BY <1>10, <1>e, <1>f DEF SkipHandled, Send, Phases, InPhase
  <1>14. ASSUME NEW p \in Procs, NEW n \in Notifiers, Delay(p, n)
         PROVE  Truthful' /\ TakenIsAccepted'
    BY <1>14, <1>e, <1>f DEF Delay
  <1>13. ASSUME NEW n \in Notifiers, ArriveLate(n) PROVE Truthful' /\ TakenIsAccepted'
    BY <1>13, <1>e, <1>g DEF ArriveLate, check
  <1>11. ASSUME NEW p \in Procs, NEW n \in Notifiers, ProviderTakes(p, n)
         PROVE  Truthful' /\ TakenIsAccepted'
    BY <1>11, <1>e, HistoryGrows, NextIsUnique
    DEF ProviderTakes, Show, TakenIsAccepted, IsNext
  <1>12. ASSUME NEW p \in Procs, NEW n \in Notifiers, Respond(p, n)
         PROVE  Truthful' /\ TakenIsAccepted'
    <2>1. PICK r \in Replies \cup {NoReply} :
            /\ Plausible(n, wire[p] = "taken", r)
            /\ mem' = [mem EXCEPT ![p] = Marked(@, n, snap[p], Outcome(n, r))]
            /\ rejected' = [rejected EXCEPT ![n] =
                               IF FailsForGood(n, r) THEN @ \cup {snap[p]} ELSE @]
      BY <1>12 DEF Respond
    <2>2. Outcome(n, r) = "delivered" => snap[p] \in accepted'[n]
      BY <1>12, <2>1, OutcomeIsEarned DEF Respond, TakenIsAccepted
    <2>3. Outcome(n, r) = "permanent" => snap[p] \in rejected'[n]
      BY <2>1, OutcomeIsEarned
    <2>4. Proved(Marked(mem[p], n, snap[p], Outcome(n, r)))
      <3> DEFINE o == Outcome(n, r)
                 t == Marked(mem[p], n, snap[p], o)
      <3>1. mem[p] \in State /\ snap[p] \in MaybeHash /\ o \in Outcomes
        BY <2>1, OutcomeIsEarned
      <3> HIDE DEF o
      <3>2. /\ t.delivered = [mem[p].delivered EXCEPT
                                ![n] = IF o = "delivered" THEN snap[p] ELSE @]
            /\ \A m \in Notifiers :
                 t.terminal[m] = IF m # n \/ o = "transient" THEN mem[p].terminal[m]
                                 ELSE IF o = "delivered" THEN NoHash ELSE snap[p]
        BY <3>1, MarkedFields
      <3> HIDE DEF t
      <3>3. ASSUME NEW m \in Notifiers
            PROVE  /\ t.delivered[m] \in accepted'[m] \cup {NoHash}
                   /\ t.terminal[m] \in rejected'[m] \cup {NoHash}
        <4>1. /\ mem[p].delivered[m] \in accepted'[m] \cup {NoHash}
              /\ mem[p].terminal[m] \in rejected'[m] \cup {NoHash}
          BY <1>b DEF Proved, Evidenced
        <4>2. mem[p].delivered \in [Notifiers -> MaybeHash]
          BY <3>1 DEF State
        <4> QED BY <2>2, <2>3, <3>1, <3>2, <4>1, <4>2 DEF o, Outcomes
      <3> QED BY <3>3 DEF Proved, Evidenced, t, o
    <2> QED BY <1>12, <2>1, <2>4, <1>d, <1>f DEF Respond
  <1> QED
    BY <1>1, <1>2, <1>3, <1>5, <1>6, <1>7, <1>8, <1>9, <1>10, <1>11, <1>12, <1>13, <1>14
    DEF Next

LEMMA EvidenceInvariant == Spec => []Evidence
  <1>1. Evidence /\ [Next]_vars => Evidence'
    BY TypeStep, PhasesStep, EvidenceStep DEF Evidence, Typed
  <1> QED
    BY EvidenceInit, <1>1, PTL DEF Spec

\* The state file never records a delivery no provider took, nor a permanent failure
\* no provider's answer stands for: for any number of overlapping processes and faults.
THEOREM RecordIsTruthful == Spec => []Truthful
  <1>1. Evidence => Truthful
    BY DEF Evidence
  <1> QED
    BY EvidenceInvariant, <1>1, PTL

---------------------------------------------------------------------------
(* The runner implements the ledger.                                       *)

LEMMA LedgerInit == Init => Promise!Init
  BY DEF Init, Promise!Init, Stored, NewState

LEMMA LedgerStep == Evidence /\ [Next]_vars => [Promise!Next]_(Promise!vars)
  <1> SUFFICES ASSUME Typed, Truthful, [Next]_vars
               PROVE  Promise!Next \/ UNCHANGED Promise!vars
    BY DEF Evidence
  <1> USE DEF Typed, TypeOK
  \* Only a save changes the file, and only two answers of a provider the history.
  <1>1. ASSUME UNCHANGED <<disk, accepted, rejected>>
        PROVE  UNCHANGED Promise!vars
    BY <1>1 DEF Promise!vars, Stored
  <1>2. ASSUME NEW p \in Procs, Save(p) PROVE Promise!Publish
    <2>1. Stored' = mem[p] /\ UNCHANGED <<accepted, rejected>>
      BY <1>2, RunnerAssumption DEF Save, Stored, File, history
    <2>2. /\ mem[p].delivered \in [Notifiers -> Hashes \cup {NoHash}]
          /\ mem[p].terminal \in [Notifiers -> Hashes \cup {NoHash}]
      BY DEF State, MaybeHash
    <2>3. Evidenced(mem[p], accepted, rejected)
      BY DEF Truthful
    <2> QED BY <2>1, <2>2, <2>3 DEF Promise!Publish, Evidenced
  <1>3. ASSUME NEW p \in Procs, NEW n \in Notifiers, ProviderTakes(p, n)
        PROVE  Promise!Accept(n, snap[p]) /\ snap[p] \in Hashes
    BY <1>3 DEF ProviderTakes, Show, Promise!Accept, Stored, Phases, InPhase
  <1>4. ASSUME NEW p \in Procs, NEW n \in Notifiers, Respond(p, n)
        PROVE  Promise!Next \/ UNCHANGED Promise!vars
    <2>1. PICK r \in Replies \cup {NoReply} :
            rejected' = [rejected EXCEPT ![n] =
                            IF FailsForGood(n, r) THEN @ \cup {snap[p]} ELSE @]
      BY <1>4 DEF Respond
    <2>2. snap[p] \in Hashes /\ UNCHANGED <<disk, accepted>>
      BY <1>4 DEF Respond, Phases, InPhase
    <2>3. CASE FailsForGood(n, r)
      BY <2>1, <2>2, <2>3 DEF Promise!Next, Promise!Refuse, Stored
    <2>4. CASE ~FailsForGood(n, r)
      BY <2>1, <2>2, <2>4, <1>1
    <2> QED BY <2>3, <2>4
  <1>5. ASSUME NEW p \in Procs, NEW n \in Notifiers,
               SkipHandled(p, n) \/ Send(p, n) \/ Delay(p, n)
        PROVE  UNCHANGED <<disk, accepted, rejected>>
    BY <1>5 DEF SkipHandled, Send, Delay, history
  <1>8. ASSUME NEW n \in Notifiers, ArriveLate(n)
        PROVE  \E h \in Hashes : Promise!Accept(n, h)
    <2>1. PICK i \in 1 .. Len(late[n]) : Show(n, late[n][i], FALSE)
      BY <1>8 DEF ArriveLate
    <2>2. late[n] \in Seq(Hashes) /\ late[n][i] \in Hashes
      OBVIOUS
    <2> QED BY <1>8, <2>1, <2>2 DEF ArriveLate, Show, Promise!Accept, Stored
  <1>6. ASSUME NEW p \in Procs,
               \/ Signal(p) \/ Crash(p) \/ LoadState(p) \/ LoadFails(p)
               \/ Detect(p) \/ DetectFails(p) \/ SaveFails(p)
        PROVE  UNCHANGED <<disk, accepted, rejected>>
    BY <1>6 DEF Signal, Crash, LoadState, LoadFails, Detect, DetectFails, SaveFails,
                history
  <1>7. ASSUME \/ ChangeAddress \/ EditConfig \/ StartService \/ Tick \/ Stop
               \/ \E p \in OnceUsers : StartOnce(p)
               \/ UNCHANGED vars
        PROVE  UNCHANGED <<disk, accepted, rejected>>
    BY <1>7 DEF ChangeAddress, EditConfig, StartService, Tick, Stop, StartOnce, Start,
                vars, history
  <1> QED
    BY <1>1, <1>2, <1>3, <1>4, <1>5, <1>6, <1>7, <1>8
    DEF Next, Promise!Next

\* Whatever the processes, overlaps and faults, the runner implements the ledger:
\* each save publishes only outcomes that took place.
THEOREM RunnerKeepsPromise == Spec => KeepsPromise
  BY LedgerInit, LedgerStep, EvidenceInvariant, PTL DEF Spec, KeepsPromise, Promise!Spec

---------------------------------------------------------------------------
(* What an answer does to the record, and to the environment's allowance.  *)

LEMMA RespondEffect ==
    ASSUME Typed, NEW p \in Procs, NEW n \in Notifiers, Respond(p, n)
    PROVE  \E o \in Outcomes :
             /\ mem'[p].delivered = [mem[p].delivered EXCEPT
                                       ![n] = IF o = "delivered" THEN snap[p] ELSE @]
             /\ \A m \in Notifiers \ {n} : mem'[p].terminal[m] = mem[p].terminal[m]
             /\ \A q \in Procs \ {p} : mem'[q] = mem[q]
             /\ o = "delivered" => wire[p] = "taken"
             /\ wire[p] = "taken" /\ o # "delivered" => Spend("lostack")
             /\ UNCHANGED budget \/ \E k \in Kinds : Spend(k)
  <1> USE DEF Typed, TypeOK
  <1>1. PICK r \in Replies \cup {NoReply} :
          /\ Plausible(n, wire[p] = "taken", r)
          /\ Account(p, n, r)
          /\ mem' = [mem EXCEPT ![p] = Marked(@, n, snap[p], Outcome(n, r))]
    BY DEF Respond
  <1>2. PICK o \in Outcomes : o = Outcome(n, r)
    BY <1>1, OutcomeIsEarned
  <1>3. mem'[p] = Marked(mem[p], n, snap[p], o)
    BY <1>1, <1>2
  <1>4. mem[p] \in State /\ snap[p] \in MaybeHash
    OBVIOUS
  <1>5. /\ mem'[p].delivered = [mem[p].delivered EXCEPT
                                  ![n] = IF o = "delivered" THEN snap[p] ELSE @]
        /\ \A m \in Notifiers \ {n} : mem'[p].terminal[m] = mem[p].terminal[m]
    BY <1>3, <1>4, MarkedFields
  <1>6. o = "delivered" => wire[p] = "taken"
    BY <1>1, <1>2, OutcomeIsEarned
  <1>7. /\ wire[p] = "taken" /\ o # "delivered" => Spend("lostack")
        /\ UNCHANGED budget \/ \E k \in Kinds : Spend(k)
    BY <1>1, <1>2 DEF Account, Kinds
  <1> QED
    BY <1>1, <1>5, <1>6, <1>7

---------------------------------------------------------------------------
(* Checks that do not overlap.                                             *)

Alone == \A p, q \in Procs : InCheck(p) /\ InCheck(q) => p = q

\* What a check still relies on is what the file says: the whole record until it
\* detects, then the entries of the notifiers its loop has not reached.
Agrees(p) ==
    /\ pc[p] = "detect" => mem[p] = Stored
    /\ pc[p] \in {"loop", "wait"} =>
         \A n \in todo[p] :
            /\ n \in cfg[p].enabled
            /\ mem[p].delivered[n] = Stored.delivered[n]
            /\ mem[p].terminal[n] = Stored.terminal[n]
            /\ Stored.skipped # snap[p]
            /\ Stored.current = NoHash => cfg[p].initial
    /\ pc[p] = "wait" => \A n \in Notifiers : IsNext(n, p) => ~Handled(p, n)

Solo == Typed /\ Alone /\ \A p \in Procs : Agrees(p)

LEMMA SoloInit == Init => Solo
  BY TypeInit DEF Init, Solo, Alone, Agrees, InCheck, Procs

\* The process-local variables of q, all but mem.
Locals(q) == <<pc[q], cfg[q], force[q], snap[q], todo[q]>>

LEMMA AgreesKept ==
    ASSUME NEW q \in Procs, Agrees(q), UNCHANGED <<disk, Locals(q), mem[q]>>
    PROVE  Agrees(q)'
  BY DEF Agrees, Locals, Stored, Handled, IsNext

LEMMA EndLocals ==
    ASSUME Typed, NEW p \in Procs, EndCheck(p) \/ Exit(p)
    PROVE  /\ ~InCheck(p)'
           /\ \A q \in Procs \ {p} : UNCHANGED <<Locals(q), mem[q]>>
  BY DEF Typed, TypeOK, EndCheck, Exit, Forget, Locals, InCheck, session

LEMMA SoloStep ==
    ASSUME ~Overlap, Solo, [Next]_vars
    PROVE  Alone' /\ \A p \in Procs : Agrees(p)'
  <1> USE DEF Typed, TypeOK, Solo
  <1>a. ASSUME UNCHANGED <<disk, mem>>, \A q \in Procs : UNCHANGED Locals(q)
        PROVE  Alone' /\ \A p \in Procs : Agrees(p)'
    BY <1>a, AgreesKept DEF Alone, InCheck, Locals
  \* One process p moves, within its check or to its end.
  <1>b. ASSUME NEW p \in Procs, UNCHANGED disk,
               \A q \in Procs \ {p} : UNCHANGED <<Locals(q), mem[q]>>,
               InCheck(p)' => InCheck(p), Agrees(p)'
        PROVE  Alone' /\ \A q \in Procs : Agrees(q)'
    BY <1>b, AgreesKept DEF Alone, InCheck, Locals
  <1>c. ASSUME NEW p \in Procs, ~InCheck(p) PROVE Agrees(p)
    BY <1>c DEF Agrees, InCheck
  <1>d. ASSUME NEW p \in Procs, ~InCheck(p)' PROVE Agrees(p)'
    BY <1>d DEF Agrees, InCheck
  <1>1. CASE ChangeAddress \/ EditConfig \/ Tick \/ UNCHANGED vars
    BY <1>1, <1>a DEF ChangeAddress, EditConfig, Tick, vars, check, session, Locals
  <1>2. ASSUME NEW p \in Procs, NEW u, NEW f, Start(p, u, f)
        PROVE  Alone' /\ \A q \in Procs : Agrees(q)'
    <2>1. ~InCheck(p)' /\ \A q \in Procs \ {p} : UNCHANGED <<Locals(q), mem[q]>>
      BY <1>2 DEF Start, InCheck, Locals, check
    <2> QED BY <1>2, <2>1, <1>b, <1>d DEF Start
  <1>3. CASE StartService \/ \E p \in OnceUsers : StartOnce(p)
    BY <1>3, <1>2 DEF StartService, StartOnce, Procs
  <1>4. ASSUME NEW p \in Procs, Signal(p)
        PROVE  Alone' /\ \A q \in Procs : Agrees(q)'
    BY <1>4, <1>a DEF Signal, check, session, Locals
  <1>5. ASSUME NEW p \in Procs, EndCheck(p) \/ Exit(p), UNCHANGED disk
        PROVE  Alone' /\ \A q \in Procs : Agrees(q)'
    BY <1>5, <1>b, <1>d, EndLocals
  <1>6. CASE Stop
    BY <1>6, <1>5 DEF Stop, Procs
  <1>7. ASSUME NEW p \in Procs,
               Crash(p) \/ LoadFails(p) \/ DetectFails(p) \/ SaveFails(p)
        PROVE  Alone' /\ \A q \in Procs : Agrees(q)'
    BY <1>7, <1>5 DEF Crash, LoadFails, DetectFails, SaveFails
  <1>8. ASSUME NEW p \in Procs, LoadState(p)
        PROVE  Alone' /\ \A q \in Procs : Agrees(q)'
    <2>1. \A q \in Procs : ~InCheck(q)
      BY <1>8 DEF LoadState, MayCheck
    <2>2. \A q \in Procs \ {p} : ~InCheck(q)'
      BY <1>8, <2>1 DEF LoadState, InCheck
    <2>3. Agrees(p)'
      BY <1>8 DEF LoadState, Agrees, Stored
    <2> QED BY <2>2, <2>3, <1>d DEF Alone
  <1>9. ASSUME NEW p \in Procs, Detect(p)
        PROVE  Alone' /\ \A q \in Procs : Agrees(q)'
    <2>1. mem[p] = Stored
      BY <1>9 DEF Detect, Agrees
    <2>2. \A n \in todo'[p] :
            /\ n \in cfg[p].enabled
            /\ Stored.skipped # net
            /\ Stored.current = NoHash => cfg[p].initial
      BY <1>9, <2>1, RecordedFields DEF Detect
    <2>3. Agrees(p)'
      BY <1>9, <2>1, <2>2, RecordedFields DEF Detect, Agrees, Stored, session
    <2> QED BY <1>9, <2>3, <1>b DEF Detect, InCheck, Locals, session
  <1>10. ASSUME NEW p \in Procs, Save(p)
         PROVE  Alone' /\ \A q \in Procs : Agrees(q)'
    <2>1. InCheck(p) /\ EndCheck(p)
      BY <1>10 DEF Save, AtSave, InCheck
    <2>2. \A q \in Procs : ~InCheck(q)'
      BY <2>1, EndLocals DEF Alone, InCheck, Locals
    <2> QED BY <2>2, <1>d DEF Alone
  <1>11. ASSUME NEW p \in Procs, NEW n \in Notifiers, SkipHandled(p, n)
         PROVE  Alone' /\ \A q \in Procs : Agrees(q)'
    <2>1. Agrees(p)'
      BY <1>11 DEF SkipHandled, Agrees, Stored, session
    <2> QED BY <1>11, <2>1, <1>b DEF SkipHandled, InCheck, Locals, session
  <1>12. ASSUME NEW p \in Procs, NEW n \in Notifiers, Send(p, n)
         PROVE  Alone' /\ \A q \in Procs : Agrees(q)'
    <2>1. \A m \in Notifiers : IsNext(m, p) => m = n
      BY <1>12, NextIsUnique DEF Send
    <2>2. Agrees(p)'
      BY <1>12, <2>1 DEF Send, Agrees, Stored, IsNext, Handled, session
    <2> QED BY <1>12, <2>2, <1>b DEF Send, InCheck, Locals, session
  <1>13. ASSUME NEW p \in Procs, NEW n \in Notifiers, ProviderTakes(p, n)
         PROVE  Alone' /\ \A q \in Procs : Agrees(q)'
    BY <1>13, <1>a DEF ProviderTakes, Locals, session
  <1>15. ASSUME NEW p \in Procs, NEW n \in Notifiers, Delay(p, n)
         PROVE  Alone' /\ \A q \in Procs : Agrees(q)'
    BY <1>15, <1>a DEF Delay, Locals, session
  <1>16. ASSUME NEW n \in Notifiers, ArriveLate(n)
         PROVE  Alone' /\ \A q \in Procs : Agrees(q)'
    BY <1>16, <1>a DEF ArriveLate, Locals, session, check
  <1>14. ASSUME NEW p \in Procs, NEW n \in Notifiers, Respond(p, n)
         PROVE  Alone' /\ \A q \in Procs : Agrees(q)'
    <2>1. PICK o \in Outcomes :
            /\ mem'[p].delivered = [mem[p].delivered EXCEPT
                                      ![n] = IF o = "delivered" THEN snap[p] ELSE @]
            /\ \A m \in Notifiers \ {n} : mem'[p].terminal[m] = mem[p].terminal[m]
            /\ \A q \in Procs \ {p} : mem'[q] = mem[q]
      BY <1>14, RespondEffect
    <2>2. \A m \in todo[p] \ {n} :
            /\ mem'[p].delivered[m] = mem[p].delivered[m]
            /\ mem'[p].terminal[m] = mem[p].terminal[m]
      BY <2>1 DEF State
    <2>3. Agrees(p)'
      BY <1>14, <2>2 DEF Respond, Agrees, Stored, session
    <2> QED BY <1>14, <2>1, <2>3, <1>b DEF Respond, InCheck, Locals, session
  <1> QED
    BY <1>1, <1>3, <1>4, <1>6, <1>7, <1>8, <1>9, <1>10, <1>11, <1>12, <1>13, <1>14,
       <1>15, <1>16
    DEF Next

LEMMA SoloInvariant ==
    ASSUME ~Overlap
    PROVE  Spec => []Solo
  <1>1. Solo /\ [Next]_vars => Solo'
    BY TypeStep, PhasesStep, SoloStep DEF Solo, Typed
  <1> QED
    BY SoloInit, <1>1, PTL DEF Spec

\* While no two checks overlap, no message is ever in flight that the file on disk
\* does not call for, whatever crashes, failed saves and lost answers came before.
THEOREM NothingNeedlessIsSent ==
    ASSUME ~Overlap
    PROVE  Spec => []NoNeedlessSend
  <1>1. Solo => NoNeedlessSend
    BY DEF Solo, Agrees, NoNeedlessSend, NeedsNotification, Handled, IsNext
  <1> QED
    BY SoloInvariant, <1>1, PTL

---------------------------------------------------------------------------
(* Every repetition is paid for.                                           *)

\* One if the user was last shown something other than h.
Owed(shown, h) == IF shown = h THEN 0 ELSE 1

\* The repetitions so far, and the messages that may yet come late.
Bill(n) == repeats[n] + Len(late[n])

\* What p's check has n's record say, or is about to when the message is taken.
Claimed(n, p) ==
    IF wire[p] = "taken" /\ IsNext(n, p) THEN snap[p] ELSE mem[p].delivered[n]

\* The next unforced message may tell the user what it already knows only if the
\* record that counts (the running check's, else the file's) says something else.
Debts ==
    \A n \in Notifiers :
        /\ (\A p \in Procs : ~InCheck(p)) =>
             Bill(n) + Owed(inbox[n], Stored.delivered[n]) <= OutcomesLost
        /\ \A p \in Procs :
             InCheck(p) => Bill(n) + Owed(inbox[n], Claimed(n, p)) <= OutcomesLost

LEMMA OwedType == \A a, b : Owed(a, b) \in {0, 1} /\ (Owed(a, b) = 0 <=> a = b)
  BY DEF Owed

LEMMA LateType == Typed => \A n \in Notifiers : Len(late[n]) \in Nat
  <1>1. Typed => \A n \in Notifiers : late[n] \in Seq(Hashes)
    BY DEF Typed, TypeOK
  <1> QED BY <1>1

LEMMA BillType == Typed => \A n \in Notifiers : Bill(n) \in Int /\ Bill(n) >= repeats[n]
  <1>1. Typed => \A n \in Notifiers : repeats[n] \in Nat
    BY DEF Typed, TypeOK
  <1> QED BY <1>1, LateType DEF Bill

LEMMA LostGrows ==
    ASSUME Typed, NEW k \in Kinds, Spend(k)
    PROVE  /\ OutcomesLost' \in Int /\ OutcomesLost \in Int
           /\ OutcomesLost' >= OutcomesLost
           /\ k \in {"lostack", "delay", "crash", "save"}
                => OutcomesLost' = OutcomesLost + 1
  <1>1. budget \in [Bounds -> Nat] /\ Allowance \in [Bounds -> Nat]
    BY RunnerAssumption DEF Typed, TypeOK
  <1>2. \A j \in Kinds : budget'[j] = IF j = k THEN budget[j] - 1 ELSE budget[j]
    BY <1>1 DEF Spend, Kinds, Bounds
  <1>3. \A j \in Kinds : budget[j] \in Int /\ Allowance[j] \in Int
    BY <1>1 DEF Bounds
  <1>4. \A j \in Kinds : /\ Spent(j) \in Int
                         /\ Spent(j)' = IF j = k THEN Spent(j) + 1 ELSE Spent(j)
    BY <1>2, <1>3 DEF Spent
  <1>5. /\ Spent("lostack") \in Int /\ Spent("delay") \in Int
        /\ Spent("crash") \in Int /\ Spent("save") \in Int
        /\ Spent("lostack")' = IF "lostack" = k THEN Spent("lostack") + 1 ELSE Spent("lostack")
        /\ Spent("delay")' = IF "delay" = k THEN Spent("delay") + 1 ELSE Spent("delay")
        /\ Spent("crash")' = IF "crash" = k THEN Spent("crash") + 1 ELSE Spent("crash")
        /\ Spent("save")' = IF "save" = k THEN Spent("save") + 1 ELSE Spent("save")
    BY <1>4 DEF Kinds
  <1> QED
    BY <1>5 DEF OutcomesLost

LEMMA LostType == Typed => OutcomesLost \in Int
  <1>1. Typed => \A j \in Kinds : Spent(j) \in Int
    BY RunnerAssumption DEF Typed, TypeOK, Spent, Bounds
  <1>2. {"lostack", "delay", "crash", "save"} \subseteq Kinds
    BY DEF Kinds
  <1> QED BY <1>1, <1>2 DEF OutcomesLost

LEMMA DebtsInit == Init => Debts
  <1> SUFFICES ASSUME Init PROVE Debts
    OBVIOUS
  <1>1. \A k \in Kinds : Spent(k) = 0
    BY RunnerAssumption DEF Init, Spent, Bounds
  <1>2. OutcomesLost = 0
    BY <1>1 DEF OutcomesLost, Kinds
  <1>3. \A n \in Notifiers : Bill(n) = 0
    BY DEF Init, Bill
  <1> QED
    BY <1>2, <1>3 DEF Init, Debts, Owed, Stored, NewState, InCheck

LEMMA LostNeverShrinks ==
    ASSUME Typed, [Next]_vars
    PROVE  OutcomesLost' \in Int /\ OutcomesLost' >= OutcomesLost
  <1>1. ASSUME UNCHANGED budget PROVE OutcomesLost' = OutcomesLost
    BY <1>1 DEF OutcomesLost, Spent
  <1>2. ASSUME NEW p \in Procs, NEW n \in Notifiers, Respond(p, n)
        PROVE  UNCHANGED budget \/ \E k \in Kinds : Spend(k)
    BY <1>2, RespondEffect
  <1>3. ASSUME NEW p \in Procs,
               \/ Signal(p) \/ Crash(p) \/ LoadState(p) \/ LoadFails(p)
               \/ Detect(p) \/ DetectFails(p) \/ Save(p) \/ SaveFails(p)
        PROVE  UNCHANGED budget \/ \E k \in Kinds : Spend(k)
    BY <1>3 DEF Signal, Crash, LoadState, LoadFails, Detect, DetectFails, Save,
                SaveFails, Kinds
  <1>4. ASSUME NEW p \in Procs, NEW n \in Notifiers,
               \/ SkipHandled(p, n) \/ Send(p, n) \/ ProviderTakes(p, n)
               \/ Delay(p, n)
        PROVE  UNCHANGED budget \/ \E k \in Kinds : Spend(k)
    BY <1>4 DEF SkipHandled, Send, ProviderTakes, Delay, Kinds
  <1>5. ASSUME \/ ChangeAddress \/ EditConfig \/ StartService \/ Tick \/ Stop
               \/ \E p \in OnceUsers : StartOnce(p)
               \/ \E n \in Notifiers : ArriveLate(n)
               \/ UNCHANGED vars
        PROVE  UNCHANGED budget \/ \E k \in Kinds : Spend(k)
    BY <1>5 DEF ChangeAddress, EditConfig, StartService, Tick, Stop, StartOnce,
                ArriveLate, vars, Kinds
  <1>6. UNCHANGED budget \/ \E k \in Kinds : Spend(k)
    BY <1>2, <1>3, <1>4, <1>5 DEF Next
  <1> QED
    BY <1>1, <1>6, LostGrows, LostType

LEMMA DebtsStep ==
    ASSUME ~Overlap, Solo, Debts, [Next]_vars
    PROVE  Debts'
  <1>s. Typed /\ Alone /\ Phases /\ \A p \in Procs : Agrees(p)
    BY DEF Solo, Typed
  <1>t. /\ pc \in [Procs -> PCs] /\ mem \in [Procs -> State]
        /\ snap \in [Procs -> MaybeHash] /\ todo \in [Procs -> SUBSET Notifiers]
        /\ wire \in [Procs -> {"idle", "sent", "taken"}]
        /\ inbox \in [Notifiers -> MaybeHash] /\ repeats \in [Notifiers -> Nat]
        /\ net \in Hashes
    BY <1>s DEF Typed, TypeOK
  <1>u. late \in [Notifiers -> Seq(Hashes)]
    BY <1>s DEF Typed, TypeOK
  <1>i. /\ \A n \in Notifiers : Bill(n) \in Int
        /\ OutcomesLost \in Int /\ OutcomesLost' \in Int /\ OutcomesLost' >= OutcomesLost
    BY <1>s, BillType, LostType, LostNeverShrinks
  \* Nothing a provider does: what was covered for a record still is.
  <1>k. ASSUME UNCHANGED <<late, inbox, repeats>>, NEW n \in Notifiers, NEW h,
               Bill(n) + Owed(inbox[n], h) <= OutcomesLost
        PROVE  Bill(n)' + Owed(inbox'[n], h) <= OutcomesLost'
    <2>1. Bill(n)' = Bill(n)
      BY <1>k DEF Bill
    <2> QED BY <1>i, <1>k, <2>1, OwedType
  <1>a. ASSUME \A q \in Procs : InCheck(q)' = InCheck(q),
               \A q \in Procs : InCheck(q) => UNCHANGED <<mem[q], wire[q], todo[q], snap[q]>>,
               UNCHANGED <<disk, late, inbox, repeats>>
        PROVE  Debts'
    <2>1. \A q \in Procs, n \in Notifiers : InCheck(q) => Claimed(n, q)' = Claimed(n, q)
      BY <1>a DEF Claimed, IsNext
    <2>2. Stored' = Stored
      BY <1>a DEF Stored
    <2> QED BY <1>a, <1>k, <2>1, <2>2 DEF Debts
  \* The end of p's check, or of p.
  <1>b. ASSUME NEW p \in Procs, EndCheck(p) \/ Exit(p), InCheck(p),
               \A n \in Notifiers :
                  Bill(n)' + Owed(inbox'[n], Stored'.delivered[n]) <= OutcomesLost'
        PROVE  Debts'
    <2>1. \A q \in Procs : ~InCheck(q)'
      BY <1>b, <1>s, EndLocals DEF Alone, InCheck, Locals
    <2> QED BY <1>b, <2>1 DEF Debts
  <1>c. ASSUME NEW p \in Procs, EndCheck(p) \/ Exit(p), ~InCheck(p),
               UNCHANGED <<disk, late, inbox, repeats>>
        PROVE  Debts'
    <2>1. \A q \in Procs : InCheck(q)' = InCheck(q)
      BY <1>c, <1>s, EndLocals DEF InCheck, Locals
    <2>2. \A q \in Procs \ {p} : UNCHANGED <<mem[q], wire[q], todo[q], snap[q]>>
      BY <1>c, <1>s, <1>t, EndCheckMemory
    <2> QED BY <1>c, <2>1, <2>2, <1>a
  <1>d. ASSUME NEW p \in Procs, EndCheck(p) \/ Exit(p),
               UNCHANGED <<disk, late, inbox, repeats>>, OutcomesLost' = OutcomesLost + 1
        PROVE  Debts'
    <2>1. CASE InCheck(p)
      <3>1. \A n \in Notifiers : Bill(n) <= OutcomesLost
        BY <1>i, <2>1, OwedType DEF Debts
      <3>2. \A n \in Notifiers : Bill(n)' = Bill(n)
        BY <1>d DEF Bill
      <3>3. \A n \in Notifiers :
              Bill(n)' + Owed(inbox'[n], Stored'.delivered[n]) <= OutcomesLost'
        BY <1>d, <1>i, <3>1, <3>2, OwedType
      <3> QED BY <1>d, <2>1, <3>3, <1>b
    <2>2. CASE ~InCheck(p)
      BY <1>d, <2>2, <1>c
    <2> QED BY <2>1, <2>2
  <1>1. CASE ChangeAddress \/ EditConfig \/ Tick \/ UNCHANGED vars
    BY <1>1, <1>a
    DEF ChangeAddress, EditConfig, Tick, vars, check, history, env, InCheck
  <1>2. ASSUME NEW p \in Procs, NEW u, NEW f, Start(p, u, f) PROVE Debts'
    <2>1. \A q \in Procs : InCheck(q)' = InCheck(q)
      BY <1>2, <1>t DEF Start, InCheck
    <2> QED BY <1>2, <2>1, <1>a DEF Start, check, history, env
  <1>3. CASE StartService \/ \E p \in OnceUsers : StartOnce(p)
    BY <1>3, <1>2 DEF StartService, StartOnce, Procs
  <1>4. ASSUME NEW p \in Procs, Signal(p) PROVE Debts'
    BY <1>4, <1>a DEF Signal, check, history, env, InCheck
  <1>5. CASE Stop
    BY <1>5, <1>c DEF Stop, Procs, history, env, InCheck
  <1>6. ASSUME NEW p \in Procs, Crash(p) \/ SaveFails(p) PROVE Debts'
    <2>1. OutcomesLost' = OutcomesLost + 1
      BY <1>6, <1>s, LostGrows DEF Crash, SaveFails, Kinds
    <2> QED BY <1>6, <2>1, <1>d DEF Crash, SaveFails, history, env
  <1>7. ASSUME NEW p \in Procs, LoadFails(p) PROVE Debts'
    BY <1>7, <1>c DEF LoadFails, MayCheck, InCheck, history, env
  <1>8. ASSUME NEW p \in Procs, DetectFails(p) PROVE Debts'
    <2>1. InCheck(p) /\ wire[p] # "taken" /\ mem[p] = Stored
      BY <1>8, <1>s DEF DetectFails, InCheck, Phases, InPhase, Agrees
    <2>2. \A n \in Notifiers : Claimed(n, p) = Stored'.delivered[n]
      BY <1>8, <2>1 DEF DetectFails, Claimed, Stored
    <2>3. \A n \in Notifiers :
            Bill(n)' + Owed(inbox'[n], Stored'.delivered[n]) <= OutcomesLost'
      BY <1>8, <1>k, <2>1, <2>2 DEF DetectFails, Debts, history, env
    <2> QED BY <1>8, <2>1, <2>3, <1>b DEF DetectFails
  <1>9. ASSUME NEW p \in Procs, LoadState(p) PROVE Debts'
    <2>1. \A q \in Procs : ~InCheck(q)
      BY <1>9 DEF LoadState, MayCheck
    <2>2. \A q \in Procs : InCheck(q)' => q = p
      BY <1>9, <1>t, <2>1 DEF LoadState, InCheck
    <2>3. wire[p] # "taken"
      BY <1>s, <2>1 DEF Phases, InPhase, InCheck
    <2>4. \A n \in Notifiers : Claimed(n, p)' = Stored.delivered[n]
      BY <1>9, <1>t, <2>3 DEF LoadState, Claimed
    <2>5. \A n \in Notifiers : Bill(n)' + Owed(inbox'[n], Claimed(n, p)') <= OutcomesLost'
      BY <1>9, <1>k, <2>1, <2>4 DEF LoadState, Debts, history, env
    <2>6. InCheck(p)'
      BY <1>9, <1>t DEF LoadState, InCheck
    <2> QED BY <2>2, <2>5, <2>6 DEF Debts
  <1>10. ASSUME NEW p \in Procs, Save(p) PROVE Debts'
    <2>0. uid \in [Procs -> Uids]
      BY <1>s DEF Typed, TypeOK
    <2>1. InCheck(p) /\ wire[p] # "taken" /\ Stored' = mem[p]
      <3>1. InCheck(p) /\ wire[p] # "taken"
        BY <1>10, <1>s DEF Save, AtSave, InCheck, Phases, InPhase
      <3>2. Stored' = mem[p]
        BY <1>10, <1>t, <2>0, RunnerAssumption DEF Save, Stored
      <3> QED BY <3>1, <3>2
    <2>2. \A n \in Notifiers : Claimed(n, p) = Stored'.delivered[n]
      BY <2>1 DEF Claimed
    <2>3. \A n \in Notifiers :
            Bill(n)' + Owed(inbox'[n], Stored'.delivered[n]) <= OutcomesLost'
      BY <1>10, <1>k, <2>1, <2>2 DEF Save, Debts, history, env
    <2> QED BY <1>10, <2>1, <2>3, <1>b DEF Save
  \* From here on p stays in its check, alone.
  <1>e. ASSUME NEW p \in Procs, InCheck(p), InCheck(p)',
               \A q \in Procs \ {p} : UNCHANGED pc[q],
               \A n \in Notifiers :
                  Bill(n)' + Owed(inbox'[n], Claimed(n, p)') <= OutcomesLost'
        PROVE  Debts'
    <2>1. \A q \in Procs : InCheck(q)' => q = p
      BY <1>e, <1>s DEF Alone, InCheck
    <2> QED BY <1>e, <2>1 DEF Debts
  <1>11. ASSUME NEW p \in Procs,
                \/ Detect(p)
                \/ \E n \in Notifiers : SkipHandled(p, n) \/ Send(p, n)
         PROVE  Debts'
    <2>1. InCheck(p) /\ InCheck(p)' /\ wire[p] # "taken" /\ wire'[p] # "taken"
      BY <1>11, <1>s, <1>t DEF Detect, SkipHandled, Send, InCheck, Phases, InPhase
    <2>2. mem'[p].delivered = mem[p].delivered
      BY <1>11, <1>t, RecordedFields DEF Detect, SkipHandled, Send
    <2>3. \A n \in Notifiers : Claimed(n, p)' = Claimed(n, p)
      BY <2>1, <2>2 DEF Claimed
    <2>4. \A n \in Notifiers : Bill(n)' + Owed(inbox'[n], Claimed(n, p)') <= OutcomesLost'
      BY <1>11, <1>k, <2>1, <2>3 DEF Detect, SkipHandled, Send, Debts, history, env
    <2> QED BY <1>11, <1>t, <2>1, <2>4, <1>e DEF Detect, SkipHandled, Send
  <1>12. ASSUME NEW p \in Procs, NEW n \in Notifiers, ProviderTakes(p, n) PROVE Debts'
    <2>1. pc[p] = "wait" /\ InCheck(p) /\ InCheck(p)'
      BY <1>12, <1>s DEF ProviderTakes, InCheck, Phases, InPhase
    <2>2. \A m \in Notifiers : Claimed(m, p) = mem[p].delivered[m]
      BY <1>12 DEF ProviderTakes, Claimed
    <2>3. \A m \in Notifiers :
            Bill(m) + Owed(inbox[m], mem[p].delivered[m]) <= OutcomesLost
      BY <2>1, <2>2 DEF Debts
    \* A message that repeats is not one the record says delivered: it was owed.
    <2>4. inbox[n] = snap[p] /\ ~force[p] => mem[p].delivered[n] # inbox[n]
      BY <1>12, <1>s, <2>1 DEF ProviderTakes, Agrees, Handled
    <2>5. \A m \in Notifiers :
            Bill(m)' = IF m = n /\ inbox[n] = snap[p] /\ ~force[p] THEN Bill(m) + 1
                       ELSE Bill(m)
      <3>1. \A m \in Notifiers :
              repeats'[m] = IF m = n /\ inbox[n] = snap[p] /\ ~force[p]
                            THEN repeats[m] + 1 ELSE repeats[m]
        BY <1>12, <1>t DEF ProviderTakes, Show
      <3>2. late' = late
        BY <1>12 DEF ProviderTakes, env
      <3> QED BY <1>s, <1>t, <3>1, <3>2, LateType DEF Bill
    <2>6. \A m \in Notifiers : Claimed(m, p)' = IF m = n THEN snap[p]
                                                ELSE mem[p].delivered[m]
      BY <1>12, <1>t, NextIsUnique DEF ProviderTakes, Claimed, IsNext
    <2>7. \A m \in Notifiers : inbox'[m] = IF m = n THEN snap[p] ELSE inbox[m]
      BY <1>12, <1>t DEF ProviderTakes, Show
    <2>8. ASSUME NEW m \in Notifiers
          PROVE  Bill(m)' + Owed(inbox'[m], Claimed(m, p)') <= OutcomesLost'
      BY <1>i, <2>3, <2>4, <2>5, <2>6, <2>7, OwedType
    <2> QED BY <1>12, <2>1, <2>8, <1>e DEF ProviderTakes
  <1>13. ASSUME NEW p \in Procs, NEW n \in Notifiers, Delay(p, n) PROVE Debts'
    <2>1. pc[p] = "wait" /\ InCheck(p) /\ InCheck(p)'
      BY <1>13, <1>s DEF Delay, InCheck, Phases, InPhase
    <2>2. \A m \in Notifiers : Claimed(m, p)' = Claimed(m, p)
      BY <1>13, <1>t DEF Delay, Claimed, IsNext
    <2>3. OutcomesLost' = OutcomesLost + 1
      BY <1>13, <1>s, LostGrows DEF Delay, Kinds
    <2>4. Len(Append(late[n], snap[p])) = Len(late[n]) + 1
      <3>1. snap[p] \in Hashes /\ late[n] \in Seq(Hashes)
        BY <1>s, <1>u, <2>1 DEF Phases, InPhase
      <3> QED BY <3>1
    <2>5. \A m \in Notifiers : Bill(m)' = IF m = n THEN Bill(m) + 1 ELSE Bill(m)
      <3>1. \A m \in Notifiers : Len(late'[m]) = IF m = n THEN Len(late[m]) + 1
                                                 ELSE Len(late[m])
        <4>1. late' = [late EXCEPT ![n] = Append(@, snap[p])]
          BY <1>13 DEF Delay
        <4> QED BY <1>u, <2>4, <4>1
      <3>2. repeats' = repeats
        BY <1>13 DEF Delay, history
      <3>3. \A m \in Notifiers : repeats[m] \in Nat /\ Len(late[m]) \in Nat
        BY <1>s, <1>t, LateType
      <3> QED BY <3>1, <3>2, <3>3 DEF Bill
    <2>6. inbox' = inbox
      BY <1>13 DEF Delay, history
    <2>7. ASSUME NEW m \in Notifiers
          PROVE  Bill(m)' + Owed(inbox'[m], Claimed(m, p)') <= OutcomesLost'
      <3>1. Bill(m) + Owed(inbox[m], Claimed(m, p)) <= OutcomesLost
        BY <2>1 DEF Debts
      <3> QED BY <1>i, <2>2, <2>3, <2>5, <2>6, <3>1, OwedType
    <2> QED BY <1>13, <2>1, <2>7, <1>e DEF Delay
  <1>14. ASSUME NEW n \in Notifiers, ArriveLate(n) PROVE Debts'
    <2>1. PICK i \in 1 .. Len(late[n]) :
            /\ late' = [late EXCEPT ![n] = Seqs!RemoveAt(@, i)]
            /\ Show(n, late[n][i], FALSE)
      BY <1>14 DEF ArriveLate
    <2>2. PICK h : h = late[n][i]
      OBVIOUS
    <2>3. \A m \in Notifiers : Len(late'[m]) = IF m = n THEN Len(late[m]) - 1
                                               ELSE Len(late[m])
      <3>1. late[n] \in Seq(Hashes)
        BY <1>u
      <3>2. Len(Seqs!RemoveAt(late[n], i)) = Len(late[n]) - 1
        BY <3>1, RemoveAtType
      <3> QED BY <1>u, <2>1, <3>2
    <2>4. \A m \in Notifiers : /\ inbox'[m] = IF m = n THEN h ELSE inbox[m]
                               /\ repeats'[m] = IF m = n /\ inbox[m] = h
                                                THEN repeats[m] + 1 ELSE repeats[m]
      BY <1>t, <2>1, <2>2 DEF Show
    <2>5. \A m \in Notifiers : Bill(m)' = IF m = n /\ inbox[m] # h THEN Bill(m) - 1
                                          ELSE Bill(m)
      BY <1>s, <1>t, <2>3, <2>4, LateType DEF Bill
    <2>6. UNCHANGED <<disk, pc, mem, wire, todo, snap>> /\ OutcomesLost' = OutcomesLost
      BY <1>14 DEF ArriveLate, check, OutcomesLost, Spent
    <2>7. ASSUME NEW m \in Notifiers, NEW s,
                 Bill(m) + Owed(inbox[m], s) <= OutcomesLost
          PROVE  Bill(m)' + Owed(inbox'[m], s) <= OutcomesLost'
      BY <1>i, <2>4, <2>5, <2>6, <2>7, OwedType
    <2>8. /\ Stored' = Stored
          /\ \A q \in Procs : InCheck(q)' = InCheck(q)
          /\ \A q \in Procs, m \in Notifiers : Claimed(m, q)' = Claimed(m, q)
      BY <2>6 DEF Stored, InCheck, Claimed, IsNext
    <2> QED BY <2>7, <2>8 DEF Debts
  <1>15. ASSUME NEW p \in Procs, NEW n \in Notifiers, Respond(p, n) PROVE Debts'
    <2>1. InCheck(p) /\ InCheck(p)' /\ wire'[p] # "taken"
      BY <1>15, <1>t DEF Respond, InCheck
    <2>2. PICK o \in Outcomes :
            /\ mem'[p].delivered = [mem[p].delivered EXCEPT
                                      ![n] = IF o = "delivered" THEN snap[p] ELSE @]
            /\ o = "delivered" => wire[p] = "taken"
            /\ wire[p] = "taken" /\ o # "delivered" => Spend("lostack")
      BY <1>15, <1>s, RespondEffect
    <2>3. \A m \in Notifiers : Claimed(m, p)' =
                                 IF m = n /\ o = "delivered" THEN snap[p]
                                 ELSE mem[p].delivered[m]
      <3>1. mem[p].delivered \in [Notifiers -> MaybeHash]
        BY <1>t DEF State
      <3> QED BY <2>1, <2>2, <3>1 DEF Claimed
    <2>4. wire[p] = "taken" /\ o # "delivered" => OutcomesLost' = OutcomesLost + 1
      BY <1>s, <2>2, LostGrows DEF Kinds
    <2>5. UNCHANGED <<late, inbox, repeats>> /\ IsNext(n, p)
      BY <1>15 DEF Respond, env
    <2>6. ASSUME NEW m \in Notifiers
          PROVE  Bill(m)' + Owed(inbox'[m], Claimed(m, p)') <= OutcomesLost'
      <3>1. Bill(m) + Owed(inbox[m], Claimed(m, p)) <= OutcomesLost
        BY <2>1 DEF Debts
      <3>2. CASE m = n /\ wire[p] = "taken" /\ o # "delivered"
        <4>1. Bill(m)' = Bill(m)
          BY <2>5 DEF Bill
        <4> QED BY <1>i, <2>4, <3>1, <3>2, <4>1, OwedType
      <3>3. CASE ~(m = n /\ wire[p] = "taken" /\ o # "delivered")
        <4>1. Claimed(m, p)' = Claimed(m, p)
          BY <2>2, <2>3, <2>5, <3>3, NextIsUnique DEF Claimed
        <4> QED BY <1>k, <2>5, <3>1, <4>1
      <3> QED BY <3>2, <3>3
    <2> QED BY <1>15, <1>t, <2>1, <2>6, <1>e DEF Respond
  <1> QED
    BY <1>1, <1>3, <1>4, <1>5, <1>6, <1>7, <1>8, <1>9, <1>10, <1>11, <1>12, <1>13,
       <1>14, <1>15
    DEF Next

LEMMA DebtsInvariant ==
    ASSUME ~Overlap
    PROVE  Spec => [](Solo /\ Debts)
  <1>1. Solo /\ Debts /\ [Next]_vars => Solo' /\ Debts'
    BY TypeStep, PhasesStep, SoloStep, DebtsStep DEF Solo, Typed
  <1> QED
    BY SoloInit, DebtsInit, <1>1, PTL DEF Spec

\* Delivery repeats itself only for a reason: while no two checks overlap, however
\* often the snapshot changes, checks run, `once` is used and messages come late, no
\* provider tells the user again what it told last more often than outcomes were lost.
THEOREM RepetitionsArePaidFor ==
    ASSUME ~Overlap
    PROVE  Spec => []RepeatsArePaidFor
  <1>1. Solo /\ Debts => RepeatsArePaidFor
    <2> SUFFICES ASSUME Solo, Debts, NEW n \in Notifiers
                 PROVE  repeats[n] <= OutcomesLost
      BY DEF RepeatsArePaidFor
    <2>1. Bill(n) \in Int /\ Bill(n) >= repeats[n] /\ OutcomesLost \in Int
      BY BillType, LostType DEF Solo
    <2>2. repeats[n] \in Int
      BY DEF Solo, Typed, TypeOK
    <2>3. \E k \in {0, 1} : Bill(n) + k <= OutcomesLost
      BY OwedType DEF Debts
    <2> QED BY <2>1, <2>2, <2>3
  <1> QED
    BY DebtsInvariant, <1>1, PTL

\* As long as no outcome is lost and no two checks overlap, the record and the
\* user agree on what each provider said last.
THEOREM RecordAgreesWithInbox ==
    ASSUME ~Overlap
    PROVE  Spec => []RecordMatchesInbox
  <1>1. Solo /\ Debts => RecordMatchesInbox
    <2> SUFFICES ASSUME Solo, Debts, OutcomesLost = 0, NEW n \in Notifiers
                 PROVE  /\ (\A p \in Procs : ~InCheck(p)) => Stored.delivered[n] = inbox[n]
                        /\ \A p \in Procs :
                             InCheck(p) /\ ~(wire[p] = "taken" /\ IsNext(n, p))
                                 => mem[p].delivered[n] = inbox[n]
      BY DEF RecordMatchesInbox
    <2>1. Bill(n) \in Int /\ Bill(n) >= 0
      <3>1. repeats[n] \in Nat
        BY DEF Solo, Typed, TypeOK
      <3> QED BY <3>1, BillType DEF Solo
    <2>2. ASSUME NEW h, Bill(n) + Owed(inbox[n], h) <= OutcomesLost
          PROVE  h = inbox[n]
      BY <2>1, <2>2, OwedType
    <2> QED BY <2>2 DEF Debts, Claimed
  <1> QED
    BY DebtsInvariant, <1>1, PTL

---------------------------------------------------------------------------
(* The previous snapshot.                                                  *)

\* A record has a previous snapshot only after a current one, and what a check is to
\* save follows the file's snapshot, or repeats it with its predecessor.
Follows(p) ==
    pc[p] \in {"loop", "wait"} =>
        /\ mem[p].current # NoHash
        /\ mem[p].current = Stored.current => mem[p].previous = Stored.previous
        /\ mem[p].current # Stored.current => mem[p].previous = Stored.current

Linear ==
    /\ Stored.current = NoHash => Stored.previous = NoHash
    /\ \A p \in Procs : Follows(p)

LEMMA RecordedPrevious ==
    ASSUME mem \in [Procs -> State], NEW p \in Procs, NEW h \in Hashes
    PROVE  LET t == Recorded(p, h) IN
           t.previous = IF mem[p].current \in {h, NoHash} THEN mem[p].previous
                        ELSE mem[p].current
  BY NoHashAssumption DEF Recorded, RecordSnapshot, MarkInitialSkipped, State, MaybeHash

LEMMA MarkKeepsSnapshots ==
    ASSUME NEW s \in State, NEW n \in Notifiers, NEW h \in MaybeHash, NEW o \in Outcomes
    PROVE  /\ Marked(s, n, h, o).current = s.current
           /\ Marked(s, n, h, o).previous = s.previous
  BY DEF Marked, MarkNotifierSuccess, MarkNotifierTerminalFailure, Outcomes, State,
         MaybeHash

LEMMA LinearInit == Init => Linear
  BY DEF Init, Linear, Follows, Stored, NewState

LEMMA LinearStep ==
    ASSUME ~Overlap, Solo, Linear, [Next]_vars
    PROVE  /\ Linear'
           /\ Stored'.current = Stored.current => Stored'.previous = Stored.previous
           /\ Stored'.current # Stored.current => Stored'.previous = Stored.current
  <1> DEFINE Kept == /\ Stored'.current = Stored.current => Stored'.previous = Stored.previous
                     /\ Stored'.current # Stored.current => Stored'.previous = Stored.current
  <1> USE DEF Typed, TypeOK, Solo
  <1>a. ASSUME UNCHANGED disk, \A q \in Procs : Follows(q)'
        PROVE  Linear' /\ Kept
    BY <1>a DEF Linear, Stored
  <1>b. ASSUME NEW q \in Procs, UNCHANGED <<disk, pc[q], mem[q]>>
        PROVE  Follows(q)'
    BY <1>b DEF Linear, Follows, Stored
  <1>c. ASSUME UNCHANGED disk, NEW p \in Procs, Follows(p)',
               \A q \in Procs \ {p} : UNCHANGED <<pc[q], mem[q]>>
        PROVE  Linear' /\ Kept
    BY <1>a, <1>b, <1>c
  <1>1. CASE ChangeAddress \/ EditConfig \/ Tick \/ UNCHANGED vars
    BY <1>1, <1>a, <1>b DEF ChangeAddress, EditConfig, Tick, vars, check
  <1>2. ASSUME NEW p \in Procs, NEW u, NEW f, Start(p, u, f)
        PROVE  Linear' /\ Kept
    BY <1>2, <1>c DEF Start, check, Follows
  <1>3. CASE StartService \/ \E p \in OnceUsers : StartOnce(p)
    BY <1>3, <1>2 DEF StartService, StartOnce, Procs
  <1>4. ASSUME NEW p \in Procs,
               \/ Signal(p)
               \/ \E n \in Notifiers :
                    SkipHandled(p, n) \/ ProviderTakes(p, n) \/ Delay(p, n)
        PROVE  Linear' /\ Kept
    BY <1>4, <1>a, <1>b DEF Signal, SkipHandled, ProviderTakes, Delay, check
  <1>13. ASSUME NEW n \in Notifiers, ArriveLate(n) PROVE Linear' /\ Kept
    BY <1>13, <1>a, <1>b DEF ArriveLate, check
  <1>5. ASSUME NEW p \in Procs, EndCheck(p) \/ Exit(p)
        PROVE  Follows(p)' /\ \A q \in Procs \ {p} : UNCHANGED <<pc[q], mem[q]>>
    BY <1>5, EndLocals DEF Follows, InCheck, Locals
  <1>6. CASE Stop
    BY <1>6, <1>5, <1>c DEF Stop, Procs
  <1>7. ASSUME NEW p \in Procs,
               Crash(p) \/ LoadFails(p) \/ DetectFails(p) \/ SaveFails(p)
        PROVE  Linear' /\ Kept
    BY <1>7, <1>5, <1>c DEF Crash, LoadFails, DetectFails, SaveFails
  <1>8. ASSUME NEW p \in Procs, LoadState(p)
        PROVE  Linear' /\ Kept
    BY <1>8, <1>c DEF LoadState, Follows
  <1>9. ASSUME NEW p \in Procs, Detect(p)
        PROVE  Linear' /\ Kept
    <2>1. mem[p] = Stored /\ net \in Hashes
      BY <1>9 DEF Detect, Agrees
    <2>2. /\ mem'[p].current = net
          /\ mem'[p].previous = IF mem[p].current \in {net, NoHash} THEN mem[p].previous
                                ELSE mem[p].current
      BY <1>9, <2>1, RecordedFields, RecordedPrevious DEF Detect
    <2>3. Stored' = Stored
      BY <1>9 DEF Detect, Stored
    <2>4. Follows(p)'
      BY <2>1, <2>2, <2>3, NoHashAssumption DEF Follows, Linear
    <2> QED BY <1>9, <2>4, <1>c DEF Detect
  <1>10. ASSUME NEW p \in Procs, Save(p)
         PROVE  Linear' /\ Kept
    <2>1. InCheck(p) /\ EndCheck(p) /\ Stored' = mem[p]
      <3>1. disk' = [owner |-> uid[p], data |-> mem[p]]
        BY <1>10 DEF Save
      <3>2. disk' \in [owner : Uids, data : State]
        BY <3>1
      <3>3. disk' # NoFile
        BY <3>2, RunnerAssumption
      <3> QED BY <1>10, <3>1, <3>3 DEF Save, AtSave, InCheck, Stored
    <2>2. \A q \in Procs : ~InCheck(q)'
      BY <2>1, EndLocals DEF Alone, InCheck, Locals
    <2>3. \A q \in Procs : Follows(q)'
      BY <2>2 DEF Follows, InCheck
    <2>4. /\ mem[p].current # NoHash
          /\ mem[p].current = Stored.current => mem[p].previous = Stored.previous
          /\ mem[p].current # Stored.current => mem[p].previous = Stored.current
      BY <1>10 DEF Save, AtSave, Linear, Follows
    <2> QED BY <2>1, <2>3, <2>4 DEF Linear
  <1>11. ASSUME NEW p \in Procs, NEW n \in Notifiers, Send(p, n)
         PROVE  Linear' /\ Kept
    <2>1. Follows(p)'
      BY <1>11 DEF Send, Linear, Follows, Stored
    <2> QED BY <1>11, <2>1, <1>c DEF Send
  <1>12. ASSUME NEW p \in Procs, NEW n \in Notifiers, Respond(p, n)
         PROVE  Linear' /\ Kept
    <2>1. PICK r \in Replies \cup {NoReply} :
            /\ Plausible(n, wire[p] = "taken", r)
            /\ mem' = [mem EXCEPT ![p] = Marked(@, n, snap[p], Outcome(n, r))]
      BY <1>12 DEF Respond
    <2>2. Outcome(n, r) \in Outcomes
      BY <2>1, OutcomeIsEarned
    <2>3. mem'[p].current = mem[p].current /\ mem'[p].previous = mem[p].previous
      <3>1. mem[p] \in State /\ snap[p] \in MaybeHash
        OBVIOUS
      <3>2. mem'[p] = Marked(mem[p], n, snap[p], Outcome(n, r))
        BY <2>1
      <3> QED BY <2>2, <3>1, <3>2, MarkKeepsSnapshots
    <2>4. pc[p] = "wait" /\ Stored' = Stored
      BY <1>12 DEF Respond, Stored
    <2>5. Follows(p)'
      BY <2>3, <2>4 DEF Linear, Follows
    <2>6. UNCHANGED disk /\ \A q \in Procs \ {p} : UNCHANGED <<pc[q], mem[q]>>
      BY <1>12, <2>1 DEF Respond
    <2> QED BY <2>5, <2>6, <1>c
  <1> QED
    BY <1>1, <1>3, <1>4, <1>6, <1>7, <1>8, <1>9, <1>10, <1>11, <1>12,
       <1>13
    DEF Next

\* While no two checks overlap, the file's history has no gap: its previous snapshot is
\* the one that its current snapshot replaced (store.go:69-85).
THEOREM PreviousIsReplaced ==
    ASSUME ~Overlap
    PROVE  Spec => PreviousFollowsCurrent
  <1>1. Solo /\ Linear /\ [Next]_vars => Solo' /\ Linear'
    BY TypeStep, PhasesStep, SoloStep, LinearStep DEF Solo, Typed
  <1>2. Solo /\ Linear /\ [Next]_vars =>
          [ /\ Stored'.current = Stored.current => Stored'.previous = Stored.previous
            /\ Stored'.current # Stored.current => Stored'.previous = Stored.current ]_vars
    BY LinearStep
  <1> QED
    BY SoloInit, LinearInit, <1>1, <1>2, PTL DEF Spec, PreviousFollowsCurrent

---------------------------------------------------------------------------
(* Where two claims of the documentation, which the code does not keep in  *)
(* general, do hold.                                                       *)

\* README.md:285 fails through lost outcomes and overlapping checks only: while no
\* check overlaps another and no outcome was lost, a provider that is skipped after a
\* change has shown the user the snapshot, even one that has come back after others.
THEOREM ChangeIsKnownUnlessOutcomeLost ==
    ASSUME ~Overlap
    PROVE  Spec => [](OutcomesLost = 0 => ChangedSnapshotIsKnown)
  <1>1. Solo /\ RecordMatchesInbox => (OutcomesLost = 0 => ChangedSnapshotIsKnown)
    <2> SUFFICES ASSUME Solo, RecordMatchesInbox, OutcomesLost = 0,
                        NEW p \in Procs, NEW n \in Notifiers,
                        pc[p] = "loop", mem[p].delivered[n] = snap[p]
                 PROVE  inbox[n] = snap[p]
      BY DEF ChangedSnapshotIsKnown
    <2>1. InCheck(p) /\ wire[p] # "taken"
      BY DEF InCheck, Solo, Typed, TypeOK, Phases, InPhase
    <2> QED BY <2>1 DEF RecordMatchesInbox
  <1>2. Solo /\ Debts => Solo
    OBVIOUS
  <1> QED
    BY DebtsInvariant, RecordAgreesWithInbox, <1>1, <1>2, PTL

\* Every process, and so every file, belongs to the service's user.
OneUser ==
    /\ \A p \in Procs : uid[p] = "ip-notify"
    /\ disk # NoFile => disk.owner = "ip-notify"

LEMMA OneUserStep ==
    ASSUME OnceUids \subseteq {"ip-notify"}, Typed, OneUser, [Next]_vars
    PROVE  OneUser'
  <1> USE DEF Typed, TypeOK, OneUser
  <1>1. ASSUME NEW p \in Procs, Start(p, "ip-notify", FALSE) \/ Start(p, "ip-notify", TRUE)
        PROVE  OneUser'
    BY <1>1 DEF Start
  <1>2. CASE StartService \/ \E p \in OnceUsers : StartOnce(p)
    BY <1>2, <1>1 DEF StartService, StartOnce, Procs
  <1>3. ASSUME NEW p \in Procs, EndCheck(p) \/ Exit(p)
        PROVE  \A q \in Procs : uid'[q] = "ip-notify"
    BY <1>3 DEF EndCheck, Exit, session
  <1>4. CASE Stop
    BY <1>4, <1>3 DEF Stop, Procs
  <1>5. ASSUME NEW p \in Procs,
               Crash(p) \/ LoadFails(p) \/ DetectFails(p) \/ SaveFails(p)
        PROVE  OneUser'
    BY <1>5, <1>3 DEF Crash, LoadFails, DetectFails, SaveFails
  <1>6. ASSUME NEW p \in Procs, Save(p) PROVE OneUser'
    BY <1>6, <1>3 DEF Save
  <1>7. CASE UNCHANGED <<uid, disk>>
    BY <1>7
  <1> QED
    BY <1>2, <1>4, <1>5, <1>6, <1>7
    DEF Next, ChangeAddress, EditConfig, Tick, Signal, LoadState, Detect, ArriveLate,
        SkipHandled, Send, ProviderTakes, Delay, Respond, env, session, vars

\* What scripts/install.sh:381-383 tells the administrator to run breaks the service
\* through a `once` of root only: if `once` runs as ip-notify, the service can read the
\* state file, in every interleaving, overlaps and crashes included.
THEOREM StateIsReadableWithoutRoot ==
    ASSUME OnceUids \subseteq {"ip-notify"}
    PROVE  Spec => []DaemonCanReadState
  <1>1. Init => Typed /\ OneUser
    BY TypeInit DEF Init, OneUser
  <1>2. Typed /\ OneUser /\ [Next]_vars => Typed' /\ OneUser'
    BY TypeStep, PhasesStep, OneUserStep DEF Typed
  <1>3. OneUser => DaemonCanReadState
    BY DEF OneUser, DaemonCanReadState, CanRead, Procs
  <1> QED BY <1>1, <1>2, <1>3, PTL DEF Spec
====
