---- MODULE FileReplaceProofs ----
(***************************************************************************)
(* Proofs about FileReplace, for any number of writers in any mixture of   *)
(* the three forms, any contents, with or without power losses.            *)
(***************************************************************************)
EXTENDS FileReplace, TLAPS

---------------------------------------------------------------------------
(* The inductive invariant.                                                *)

\* While the temporary file is being made it is there, is the writer's own, and has
\* had every call made on it that comes before the one at hand.
Made(w) ==
    /\ pc[w] # "idle" => job[w] \in Contents
    /\ pc[w] \in {"write", "chmod", "sync", "close", "rename"} =>
         temp[w] \in File /\ temp[w].content = job[w] /\ temp[w].form = Protocol[w]
    /\ pc[w] \in {"chmod", "sync", "close", "rename"} => temp[w].bytes = "all"
    /\ pc[w] \in {"sync", "close", "rename"} => temp[w].final
    /\ pc[w] \in {"close", "rename"} /\ Protocol[w] = "replace" => temp[w].synced

\* Where the temporary file is gone, and why the removal is run.
Gone(w) ==
    /\ pc[w] \in {"idle", "create"} /\ ~excused[w] => temp[w] = None
    /\ pc[w] = "syncdir" => temp[w] = None
    /\ pc[w] = "remove" /\ ~failed[w] => temp[w] = None
    /\ failed[w] => pc[w] = "remove"

\* What may be said of any file that was ever renamed to the destination.
Renamed(f) ==
    f # None =>
        /\ f.content \in past
        /\ (f.bytes = "all" /\ f.final) \/ (blackout /\ f.form # "replace")
        /\ f.form = "replace" => f.synced

Placed ==
    /\ None \in past
    /\ Renamed(dest)
    /\ \A f \in persisted : Renamed(f)

IInv ==
    /\ TypeOK
    /\ \A w \in Writers : Made(w) /\ Gone(w)
    /\ Placed

---------------------------------------------------------------------------
(* Steps of one writer.                                                    *)

\* One step of the writer w, with what it leaves of the others' state.
Acts(w) ==
    \/ \E c \in Contents : Call(w, c)
    \/ Create(w) \/ Write(w) \/ Chmod(w) \/ Sync(w) \/ Close(w)
    \/ Rename(w) \/ SyncDir(w) \/ Remove(w) \/ Kill(w)

\* The files that the calls make of a temporary file.
LEMMA FileCalls ==
    ASSUME NEW f \in File
    PROVE  /\ \A b \in {"none", "some", "all"} :
                LET g == [f EXCEPT !.bytes = b]
                IN  /\ g \in File /\ g.content = f.content /\ g.form = f.form
                    /\ g.bytes = b /\ g.final = f.final /\ g.synced = f.synced
           /\ LET g == [f EXCEPT !.final = TRUE]
              IN  /\ g \in File /\ g.content = f.content /\ g.form = f.form
                  /\ g.bytes = f.bytes /\ g.final /\ g.synced = f.synced
           /\ LET g == [f EXCEPT !.synced = TRUE]
              IN  /\ g \in File /\ g.content = f.content /\ g.form = f.form
                  /\ g.bytes = f.bytes /\ g.final = f.final /\ g.synced
<1>1. ASSUME NEW b \in {"none", "some", "all"}
      PROVE  LET g == [f EXCEPT !.bytes = b]
             IN  /\ g \in File /\ g.content = f.content /\ g.form = f.form
                 /\ g.bytes = b /\ g.final = f.final /\ g.synced = f.synced
  BY DEF File
<1>2. LET g == [f EXCEPT !.final = TRUE]
      IN  /\ g \in File /\ g.content = f.content /\ g.form = f.form
          /\ g.bytes = f.bytes /\ g.final /\ g.synced = f.synced
  BY DEF File
<1>3. LET g == [f EXCEPT !.synced = TRUE]
      IN  /\ g \in File /\ g.content = f.content /\ g.form = f.form
          /\ g.bytes = f.bytes /\ g.final = f.final /\ g.synced
  BY DEF File
<1> QED
  BY <1>1, <1>2, <1>3

\* A file just created.
LEMMA NewFile ==
    ASSUME NEW c \in Contents, NEW p \in Protocols
    PROVE  LET f == [content |-> c, bytes |-> "none", final |-> FALSE, synced |-> FALSE,
                     form |-> p]
           IN  f \in File /\ f.content = c /\ f.form = p
BY DEF File

\* What a power loss leaves of a file is a file of the same content and form.
LEMMA SurvivorTypes ==
    ASSUME NEW f \in File \cup {None}
    PROVE  /\ Survivors(f) \subseteq File \cup {None}
           /\ f # None => \A g \in Survivors(f) : g.content = f.content /\ g.form = f.form
<1>1. CASE f = None
  BY <1>1 DEF Survivors
<1>2. CASE f \in File
  <2>1. \A b \in {"none", "some", "all"} :
          LET g == [f EXCEPT !.bytes = b]
          IN  g \in File /\ g.content = f.content /\ g.form = f.form
    BY <1>2, FileCalls
  <2>2. ASSUME NEW g \in Survivors(f)
        PROVE  g \in File /\ g.content = f.content /\ g.form = f.form
    <3>1. f # None
      BY <1>2, FileReplaceAssumption
    <3>2. CASE g = f
      BY <1>2, <3>2
    <3>3. CASE g # f
      <4>1. PICK b \in {"none", "some", "all"} : g = [f EXCEPT !.bytes = b]
        BY <3>1, <3>3 DEF Survivors
      <4> QED
        BY <2>1, <4>1
    <3> QED
      BY <3>2, <3>3
  <2> QED
    BY <2>2
<1> QED
  BY <1>1, <1>2

LEMMA ProtocolTypes == \A w \in Writers : Protocol[w] \in Protocols
BY FileReplaceAssumption

\* A call on the temporary file, made or failed.
LEMMA StepEffect ==
    ASSUME TypeOK, NEW w \in Writers, NEW label, NEW f \in File, NEW next \in PCs,
           temp[w] \in File, Step(w, label, f, next)
    PROVE  /\ TypeOK'
           /\ \/ temp'[w] = f /\ pc'[w] = next /\ failed'[w] = failed[w]
              \/ Fails(w)
<1> DEFINE some == [temp[w] EXCEPT !.bytes = "some"]
<1>1. some \in File
  BY FileCalls
<1>2. \E g \in {f, some, temp[w]} : temp' = [temp EXCEPT ![w] = g]
  <2>1. [temp EXCEPT ![w].bytes = "some"] = [temp EXCEPT ![w] = some]
    OBVIOUS
  <2>2. temp = [temp EXCEPT ![w] = temp[w]]
    BY DEF TypeOK
  <2> HIDE DEF some
  <2> QED
    BY <2>1, <2>2 DEF Step
<1> HIDE DEF some
<1>3. temp' \in [Writers -> File \cup {None}]
  BY <1>1, <1>2 DEF TypeOK
<1>4. pc' \in [Writers -> PCs] /\ failed' \in [Writers -> BOOLEAN]
  BY DEF TypeOK, Step, Fails, Goto, PCs
<1>5. TypeOK'
  BY <1>3, <1>4 DEF TypeOK, Step
<1> QED
  BY <1>5 DEF Step, Goto, TypeOK

\* Every call keeps the types.
LEMMA TypeStep ==
    ASSUME TypeOK, \A w \in Writers : Made(w), [Next]_vars
    PROVE  TypeOK'
<1> USE DEF TypeOK
<1>1. ASSUME NEW w \in Writers, NEW c \in Contents, Call(w, c)
      PROVE  TypeOK'
  BY <1>1 DEF Call, Goto, PCs
<1>2. ASSUME NEW w \in Writers, Create(w)
      PROVE  TypeOK'
  <2>1. pc[w] = "create" /\ job[w] \in Contents
    BY <1>2 DEF Create, Made
  <2>2. [content |-> job[w], bytes |-> "none", final |-> FALSE, synced |-> FALSE,
         form |-> Protocol[w]] \in File
    BY <2>1, NewFile, ProtocolTypes
  <2> QED
    BY <1>2, <2>2 DEF Create, Return, Goto, PCs
<1>3. ASSUME NEW w \in Writers, Write(w) \/ Chmod(w) \/ Sync(w) \/ Close(w)
      PROVE  TypeOK'
  <2>1. pc[w] \in {"write", "chmod", "sync", "close"} /\ temp[w] \in File
    BY <1>3 DEF Write, Chmod, Sync, Close, Step, Made
  <2>2. {"chmod", "sync", "close", "rename"} \subseteq PCs
    BY DEF PCs
  <2>3. CASE Write(w)
    BY <2>1, <2>2, <2>3, StepEffect, FileCalls DEF Write
  <2>4. CASE Chmod(w)
    BY <2>1, <2>2, <2>4, StepEffect, FileCalls DEF Chmod, AfterChmod
  <2>5. CASE Sync(w)
    BY <2>1, <2>2, <2>5, StepEffect, FileCalls DEF Sync
  <2>6. CASE Close(w)
    BY <2>1, <2>2, <2>6, StepEffect DEF Close
  <2> QED
    BY <1>3, <2>3, <2>4, <2>5, <2>6
<1>4. ASSUME NEW w \in Writers, Rename(w)
      PROVE  TypeOK'
  <2>1. temp[w] \in File /\ temp[w].content \in Contents
    BY <1>4 DEF Rename, Made
  <2> QED
    BY <1>4, <2>1 DEF Rename, AfterRename, Fails, Goto, PCs
<1>5. ASSUME NEW w \in Writers, SyncDir(w) \/ Remove(w) \/ Kill(w)
      PROVE  TypeOK'
  BY <1>5 DEF SyncDir, Remove, Kill, Return, Goto, PCs
<1>6. CASE PowerLoss
  <2>1. \A f \in persisted : Survivors(f) \subseteq File \cup {None}
    BY SurvivorTypes
  <2> QED
    BY <1>6, <2>1 DEF PowerLoss, PCs
<1>7. CASE UNCHANGED vars
  BY <1>7 DEF vars
<1> QED
  BY <1>1, <1>2, <1>3, <1>4, <1>5, <1>6, <1>7 DEF Next

---------------------------------------------------------------------------
(* What the writers have made.                                             *)

\* A step of one writer leaves the other writers' files alone.
LEMMA OthersAreLeftAlone ==
    ASSUME TypeOK, NEW w \in Writers, Acts(w), NEW v \in Writers \ {w}
    PROVE  /\ temp'[v] = temp[v] /\ pc'[v] = pc[v] /\ failed'[v] = failed[v]
           /\ job'[v] = job[v] /\ excused'[v] = excused[v]
BY DEF TypeOK, Acts, Call, Create, Write, Chmod, Sync, Close, Step, Rename, SyncDir, Remove,
       Kill, Fails, Return, Goto

\* Each call leaves its writer's file as far as the next call needs it.
LEMMA OwnFile ==
    ASSUME TypeOK, NEW w \in Writers, Made(w), Gone(w), Acts(w)
    PROVE  Made(w)' /\ Gone(w)'
<1> USE DEF TypeOK
<1>1. ASSUME NEW c \in Contents, Call(w, c)
      PROVE  Made(w)' /\ Gone(w)'
  BY <1>1 DEF Call, Goto, Made, Gone
<1>2. CASE Create(w)
  <2> DEFINE f == [content |-> job[w], bytes |-> "none", final |-> FALSE,
                   synced |-> FALSE, form |-> Protocol[w]]
  <2>1. pc[w] = "create" /\ job[w] \in Contents
    BY <1>2 DEF Create, Made
  <2>2. f \in File /\ f.content = job[w] /\ f.form = Protocol[w]
    BY <2>1, NewFile, ProtocolTypes
  <2>3. \/ /\ temp'[w] = f /\ pc'[w] = "write" /\ failed'[w] = failed[w]
           /\ job'[w] = job[w]
        \/ pc'[w] = "idle" /\ temp'[w] = temp[w] /\ failed'[w] = FALSE
    BY <1>2 DEF Create, Return, Goto
  <2>4. excused'[w] = excused[w]
    BY <1>2 DEF Create
  <2> HIDE DEF f
  <2> QED
    BY <2>1, <2>2, <2>3, <2>4 DEF Made, Gone
<1>3. CASE Write(w) \/ Chmod(w) \/ Sync(w) \/ Close(w)
  <2>1. pc[w] \in {"write", "chmod", "sync", "close"} /\ temp[w] \in File
    BY <1>3 DEF Write, Chmod, Sync, Close, Step, Made
  <2>2. job'[w] = job[w] /\ excused'[w] = excused[w]
    BY <1>3 DEF Write, Chmod, Sync, Close, Step
  <2>3. CASE Fails(w)
    BY <2>1, <2>2, <2>3 DEF Fails, Goto, Made, Gone
  <2>4. CASE ~Fails(w) /\ Write(w)
    <3> DEFINE f == [temp[w] EXCEPT !.bytes = "all"]
    <3>1. /\ pc[w] = "write" /\ temp'[w] = f /\ failed'[w] = failed[w]
          /\ pc'[w] = "chmod"
      BY <2>4 DEF Write, Step, Goto
    <3>2. /\ f \in File /\ f.content = temp[w].content /\ f.form = temp[w].form
          /\ f.bytes = "all"
      BY <2>1, FileCalls
    <3> HIDE DEF f
    <3> QED
      BY <2>2, <3>1, <3>2 DEF Made, Gone
  <2>5. CASE ~Fails(w) /\ Chmod(w)
    <3> DEFINE f == [temp[w] EXCEPT !.final = TRUE]
    <3>1. /\ pc[w] = "chmod" /\ temp'[w] = f /\ failed'[w] = failed[w]
          /\ pc'[w] = (IF Protocol[w] = "replace" THEN "sync" ELSE "close")
      BY <2>5 DEF Chmod, Step, Goto, AfterChmod
    <3>2. /\ f \in File /\ f.content = temp[w].content /\ f.form = temp[w].form
          /\ f.bytes = temp[w].bytes /\ f.final
      BY <2>1, FileCalls
    <3> HIDE DEF f
    <3> QED
      BY <2>2, <3>1, <3>2 DEF Made, Gone
  <2>6. CASE ~Fails(w) /\ Sync(w)
    <3> DEFINE f == [temp[w] EXCEPT !.synced = TRUE]
    <3>1. /\ pc[w] = "sync" /\ temp'[w] = f /\ failed'[w] = failed[w]
          /\ pc'[w] = "close"
      BY <2>6 DEF Sync, Step, Goto
    <3>2. /\ f \in File /\ f.content = temp[w].content /\ f.form = temp[w].form
          /\ f.bytes = temp[w].bytes /\ f.final = temp[w].final /\ f.synced
      BY <2>1, FileCalls
    <3> HIDE DEF f
    <3> QED
      BY <2>2, <3>1, <3>2 DEF Made, Gone
  <2>7. CASE ~Fails(w) /\ Close(w)
    BY <2>1, <2>2, <2>7 DEF Close, Step, Goto, Made, Gone
  <2> QED
    BY <1>3, <2>3, <2>4, <2>5, <2>6, <2>7
<1>4. CASE Rename(w)
  BY <1>4 DEF Rename, AfterRename, Fails, Goto, Made, Gone
<1>5. CASE SyncDir(w) \/ Remove(w) \/ Kill(w)
  BY <1>5 DEF SyncDir, Remove, Kill, Return, Goto, Made, Gone
<1> QED
  BY <1>1, <1>2, <1>3, <1>4, <1>5 DEF Acts

LEMMA WritersStep ==
    ASSUME TypeOK, \A w \in Writers : Made(w) /\ Gone(w), [Next]_vars
    PROVE  \A w \in Writers : Made(w)' /\ Gone(w)'
<1>1. ASSUME NEW w \in Writers, Acts(w)
      PROVE  \A v \in Writers : Made(v)' /\ Gone(v)'
  <2>1. ASSUME NEW v \in Writers \ {w}
        PROVE  Made(v)' /\ Gone(v)'
    BY <1>1, <2>1, OthersAreLeftAlone DEF Made, Gone
  <2> QED
    BY <1>1, <2>1, OwnFile
<1>2. CASE PowerLoss
  BY <1>2 DEF PowerLoss, TypeOK, Made, Gone
<1>3. CASE UNCHANGED vars
  BY <1>3 DEF vars, Made, Gone
<1> QED
  BY <1>1, <1>2, <1>3 DEF Next, Acts

---------------------------------------------------------------------------
(* What the disk may hold.                                                 *)

\* Only whole files are renamed to the destination; only a power loss takes bytes away,
\* and from a synced file not even that does.
LEMMA PlacedStep ==
    ASSUME TypeOK, \A w \in Writers : Made(w), Placed, [Next]_vars
    PROVE  Placed'
<1>1. ASSUME NEW w \in Writers, Rename(w)
      PROVE  Placed'
  <2>1. CASE UNCHANGED <<dest, persisted, past>>
    BY <1>1, <2>1 DEF Rename, Placed, Renamed
  <2>2. CASE ~UNCHANGED <<dest, persisted, past>>
    <3>1. /\ dest' = temp[w] /\ persisted' = persisted \cup {temp[w]}
          /\ past' = past \cup {temp[w].content} /\ blackout' = blackout
      BY <1>1, <2>2 DEF Rename
    <3>2. /\ temp[w].bytes = "all" /\ temp[w].final
          /\ temp[w].form = "replace" => temp[w].synced
      BY <1>1 DEF Rename, Made
    <3> QED
      BY <3>1, <3>2 DEF Placed, Renamed
  <2> QED
    BY <2>1, <2>2
<1>2. ASSUME NEW w \in Writers, SyncDir(w)
      PROVE  Placed'
  BY <1>2 DEF SyncDir, Placed, Renamed
<1>3. CASE PowerLoss
  <2>1. PICK f \in persisted : dest' \in Survivors(f)
    BY <1>3 DEF PowerLoss
  <2>2. persisted' = {dest'} /\ past' = past /\ blackout'
    BY <1>3 DEF PowerLoss
  <2>3. CASE f = None \/ f.synced
    BY <2>1, <2>2, <2>3 DEF Survivors, Placed, Renamed
  <2>4. CASE f # None /\ ~f.synced
    <3>1. f \in File /\ f.content \in past /\ f.form # "replace"
      BY <2>4 DEF TypeOK, Placed, Renamed
    <3>2. dest'.content = f.content /\ dest'.form = f.form
      BY <2>1, <2>4, <3>1, SurvivorTypes
    <3> QED
      BY <2>2, <3>1, <3>2 DEF Placed, Renamed
  <2> QED
    BY <2>3, <2>4
<1>4. ASSUME NEW w \in Writers,
             \/ \E c \in Contents : Call(w, c)
             \/ Create(w) \/ Write(w) \/ Chmod(w) \/ Sync(w) \/ Close(w)
             \/ Remove(w) \/ Kill(w)
      PROVE  UNCHANGED <<dest, persisted, past, blackout>>
  BY <1>4 DEF Call, Create, Write, Chmod, Sync, Close, Step, Remove, Kill
<1>5. CASE UNCHANGED <<dest, persisted, past, blackout>>
  BY <1>5 DEF Placed, Renamed
<1> QED
  BY <1>1, <1>2, <1>3, <1>4, <1>5 DEF Next, vars

LEMMA InitIInv == Init => IInv
BY DEF Init, IInv, TypeOK, Made, Gone, Placed, Renamed, PCs

LEMMA Inductive == Spec => []IInv
<1>1. IInv /\ [Next]_vars => IInv'
  <2> SUFFICES ASSUME IInv, [Next]_vars PROVE IInv'
    OBVIOUS
  <2>1. /\ TypeOK
        /\ \A w \in Writers : Made(w) /\ Gone(w)
        /\ Placed
    BY DEF IInv
  <2>2. TypeOK'
    BY <2>1, TypeStep
  <2>3. \A w \in Writers : Made(w)' /\ Gone(w)'
    BY <2>1, WritersStep
  <2>4. Placed'
    BY <2>1, PlacedStep
  <2> QED
    BY <2>2, <2>3, <2>4 DEF IInv
<1> QED
  BY <1>1, InitIInv, PTL DEF Spec

---------------------------------------------------------------------------
(* The theorems.                                                           *)

\* Type correctness of the disk and its writers.
THEOREM TypeCorrect == Spec => []TypeOK
<1>1. IInv => TypeOK
  BY DEF IInv
<1> QED
  BY <1>1, Inductive, PTL

\* Whoever opens the destination finds nothing or a whole file, after a power loss too
\* if update's replaceBinary put it there (update.go:487-534).
THEOREM DestinationIsWhole == Spec => []AlwaysWhole
<1>1. IInv => AlwaysWhole
  BY DEF IInv, Placed, Renamed, AlwaysWhole, Whole
<1> QED
  BY <1>1, Inductive, PTL

\* Only a killed writer, or one whose removal failed, leaves a temporary file.
THEOREM NothingIsLittered == Spec => []NoLitter
<1>1. IInv => NoLitter
  BY DEF IInv, Gone, NoLitter
<1> QED
  BY <1>1, Inductive, PTL

---------------------------------------------------------------------------
(* The refinement.                                                         *)

Phases == [w \in Writers |-> Phase(w)]

\* A step of one writer changes its phase only.
LEMMA PhaseStep ==
    ASSUME TypeOK, NEW w \in Writers, Acts(w), NEW p, Phase(w)' = p
    PROVE  Phases' = [Phases EXCEPT ![w] = p]
<1>1. \A v \in Writers \ {w} : Phase(v)' = Phase(v)
  BY OthersAreLeftAlone DEF Phase
<1> HIDE DEF Phase
<1> QED
  BY <1>1 DEF Phases

\* How a call of the protocol ends, for its caller.
LEMMA ReturnEffect ==
    ASSUME TypeOK, NEW w \in Writers, NEW r, Return(w, r)
    PROVE  /\ pc'[w] = "idle" /\ Phase(w)' = "idle"
           /\ job' = [job EXCEPT ![w] = None] /\ result' = [result EXCEPT ![w] = r]
BY DEF Return, Goto, TypeOK, Phase

LEMMA AtomicInit == Init => Atomic!Init
BY DEF Init, Atomic!Init, Phase

\* Every call maps to a step of the cell, or changes nothing of it.
LEMMA AtomicWriter ==
    ASSUME IInv, NEW w \in Writers, Acts(w)
    PROVE  Atomic!Next \/ UNCHANGED Atomic!vars
<1> DEFINE Shown == IF dest = None THEN None ELSE dest.content
<1>0. TypeOK /\ Made(w) /\ Gone(w)
  BY DEF IInv
<1>a. Phases[w] = Phase(w)
  BY DEF Phases
<1>1. ASSUME NEW c \in Contents, Call(w, c)
      PROVE  Atomic!Call(w, c)
  <2>1. Phase(w) = "idle" /\ Phase(w)' = "busy"
    BY <1>0, <1>1 DEF Call, Goto, Phase, TypeOK
  <2>2. Phases' = [Phases EXCEPT ![w] = "busy"]
    BY <1>0, <1>1, <2>1, PhaseStep
  <2> QED
    BY <1>1, <1>a, <2>1, <2>2 DEF Call, Atomic!Call, Phases
<1>2. CASE Create(w)
  <2>1. Phase(w) = "busy"
    BY <1>2 DEF Create, Phase
  <2>2. CASE Return(w, "error")
    <3>1. Phases' = [Phases EXCEPT ![w] = "idle"]
      BY <1>0, <2>2, ReturnEffect, PhaseStep
    <3>2. Atomic!Fail(w)
      BY <1>2, <1>a, <2>1, <2>2, <3>1, <1>0, ReturnEffect
         DEF Create, Atomic!Fail, Atomic!Leave, Phases
    <3> QED
      BY <3>2 DEF Atomic!Next
  <2>3. CASE ~Return(w, "error")
    <3>1. Phase(w)' = "busy"
      BY <1>0, <1>2, <2>3 DEF Create, Goto, Phase, TypeOK
    <3>2. Phases' = [Phases EXCEPT ![w] = "busy"]
      BY <1>0, <3>1, PhaseStep
    <3>3. Phases' = Phases
      BY <3>2, <1>a, <2>1 DEF Phases
    <3> QED
      BY <1>2, <2>3, <3>3 DEF Create, Atomic!vars, Phases
  <2> QED
    BY <2>2, <2>3
<1>3. CASE Write(w) \/ Chmod(w) \/ Sync(w) \/ Close(w)
  <2>1. Phase(w) = "busy" /\ Phase(w)' = "busy"
    BY <1>0, <1>3 DEF Write, Chmod, AfterChmod, Sync, Close, Step, Fails, Goto, Phase, TypeOK
  <2>2. Phases' = [Phases EXCEPT ![w] = "busy"]
    BY <1>0, <2>1, PhaseStep
  <2>3. Phases' = Phases
    BY <2>1, <2>2, <1>a DEF Phases
  <2> QED
    BY <1>3, <2>3 DEF Write, Chmod, Sync, Close, Step, Atomic!vars, Phases
<1>4. CASE Rename(w)
  <2>1. Phase(w) = "busy"
    BY <1>4 DEF Rename, Phase
  <2>2. CASE Fails(w) /\ UNCHANGED <<dest, past>>
    <3>1. Phase(w)' = "busy"
      BY <1>0, <2>2 DEF Fails, Goto, Phase, TypeOK
    <3>2. Phases' = [Phases EXCEPT ![w] = "busy"]
      BY <1>0, <3>1, PhaseStep
    <3>3. Phases' = Phases
      BY <3>2, <1>a, <2>1 DEF Phases
    <3> QED
      BY <1>4, <2>2, <3>3 DEF Rename, Atomic!vars, Phases
  <2>3. CASE ~(Fails(w) /\ UNCHANGED <<dest, past>>)
    <3>1. /\ dest' = temp[w] /\ past' = past \cup {temp[w].content}
          /\ Goto(w, AfterRename(w)) /\ UNCHANGED failed
      BY <1>4, <2>3 DEF Rename
    <3>2. temp[w] # None /\ temp[w].content = job[w]
      BY <1>0, <1>4, FileReplaceAssumption DEF Rename, Made
    <3>3. ~failed[w]
      BY <1>0, <1>4 DEF Rename, Gone
    <3>4. Phase(w)' = "installed"
      BY <1>0, <3>1, <3>3 DEF AfterRename, Goto, Phase, TypeOK
    <3>5. Phases' = [Phases EXCEPT ![w] = "installed"]
      BY <1>0, <3>4, PhaseStep
    <3>6. Shown' = job[w]
      BY <3>1, <3>2
    <3>7. Atomic!Install(w)
      BY <1>4, <1>a, <2>1, <3>1, <3>2, <3>5, <3>6 DEF Rename, Atomic!Install, Phases
    <3> QED
      BY <3>7 DEF Atomic!Next
  <2> QED
    BY <2>2, <2>3
<1>5. CASE SyncDir(w)
  <2>1. Phase(w) = "installed"
    BY <1>5 DEF SyncDir, Phase
  <2>2. Phases' = [Phases EXCEPT ![w] = "idle"]
    BY <1>0, <1>5, ReturnEffect, PhaseStep DEF SyncDir
  <2>3. Atomic!Succeed(w)
    BY <1>0, <1>5, <1>a, <2>1, <2>2, ReturnEffect
       DEF SyncDir, Atomic!Succeed, Atomic!Leave, Phases
  <2> QED
    BY <2>3 DEF Atomic!Next
<1>6. CASE Remove(w)
  <2>1. Phase(w) = IF failed[w] THEN "busy" ELSE "installed"
    BY <1>6 DEF Remove, Phase
  <2>2. Phases' = [Phases EXCEPT ![w] = "idle"]
    BY <1>0, <1>6, ReturnEffect, PhaseStep DEF Remove
  <2>3. IF failed[w] THEN Atomic!Fail(w) ELSE Atomic!Succeed(w)
    BY <1>0, <1>6, <1>a, <2>1, <2>2, ReturnEffect
       DEF Remove, Atomic!Fail, Atomic!Succeed, Atomic!Leave, Phases
  <2> QED
    BY <2>3 DEF Atomic!Next
<1>7. CASE Kill(w)
  <2>1. Phase(w) # "idle"
    BY <1>7 DEF Kill, Phase
  <2>2. Phases' = [Phases EXCEPT ![w] = "idle"]
    BY <1>0, <1>7, ReturnEffect, PhaseStep DEF Kill
  <2>3. Atomic!Die(w)
    BY <1>0, <1>7, <1>a, <2>1, <2>2, ReturnEffect
       DEF Kill, Atomic!Die, Atomic!Leave, Phases
  <2> QED
    BY <2>3 DEF Atomic!Next
<1> QED
  BY <1>1, <1>2, <1>3, <1>4, <1>5, <1>6, <1>7 DEF Acts, Atomic!Next

\* A power loss leaves a content that was once installed, or nothing.
LEMMA AtomicPowerLoss ==
    ASSUME IInv, PowerLoss
    PROVE  Atomic!PowerLoss
<1>1. Placed'
  BY PlacedStep DEF IInv, Next
<1>2. past' = past
  BY DEF PowerLoss
<1>3. (IF dest = None THEN None ELSE dest.content)' \in past
  BY <1>1, <1>2 DEF Placed, Renamed
<1>4. Phases' = [w \in Writers |-> "idle"]
  BY DEF PowerLoss, Phases, Phase
<1> QED
  BY <1>2, <1>3, <1>4 DEF PowerLoss, Atomic!PowerLoss, Phases

\* Whatever calls fail and whoever is killed, the destination is one cell that changes
\* from one complete content to another, and reported outcomes are what happened to it.
THEOREM FileIsReplacedAtomically == Spec => ReplacesAtomically
<1>1. IInv /\ [Next]_vars => [Atomic!Next]_Atomic!vars
  <2> SUFFICES ASSUME IInv, [Next]_vars PROVE [Atomic!Next]_Atomic!vars
    OBVIOUS
  <2>1. CASE \E w \in Writers : Acts(w)
    BY <2>1, AtomicWriter
  <2>2. CASE PowerLoss
    BY <2>2, AtomicPowerLoss DEF Atomic!Next
  <2>3. CASE UNCHANGED vars
    BY <2>3 DEF vars, Atomic!vars, Phase
  <2> QED
    BY <2>1, <2>2, <2>3 DEF Next, Acts
<1> QED
  BY <1>1, AtomicInit, Inductive, PTL DEF Spec, ReplacesAtomically, Atomic!Spec
====
