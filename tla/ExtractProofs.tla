---- MODULE ExtractProofs ----
(* Theorems about Extract, for archives and SHA256SUMS files of any length. *)
EXTENDS Extract, TLAPS

\* The lines before i are not about the archive.
LinesSeen ==
    /\ i <= Len(lines) + 1
    /\ \A j \in 1 .. i - 1 : lines[j].about # "archive"
    /\ ~found

\* The entries before i are safe, and found says of the binary among them what
\* AcceptsExactly will say of the whole archive.
EntriesSeen ==
    /\ Listed
    /\ i <= Len(entries) + 1
    /\ \A j \in 1 .. i - 1 : Safe(entries[j].name)
    /\ ~found => \A j \in 1 .. i - 1 : ~NamesBinary(entries[j])
    /\ found => \E k \in 1 .. i - 1 :
                   /\ NamesBinary(entries[k])
                   /\ Usable(entries[k])
                   /\ binary = entries[k].data
                   /\ \A j \in 1 .. i - 1 : NamesBinary(entries[j]) => j = k

Inv ==
    /\ TypeOK
    /\ pc = "checksum" => LinesSeen
    /\ pc = "entries" => EntriesSeen
    /\ AcceptsExactly

LEMMA InputTypes ==
    ASSUME TypeOK
    PROVE  /\ lines \in Seq(Line) /\ Len(lines) \in Nat
           /\ entries \in Seq(Entry) /\ Len(entries) \in Nat
  BY ExtractAssumption DEF TypeOK

LEMMA InvInit == Init => Inv
  <1> SUFFICES ASSUME Init PROVE Inv
    OBVIOUS
  <1>0. i \in Nat \ {0}
    BY DEF Init
  <1>1. TypeOK
    BY <1>0, Zenon DEF Init, TypeOK
  <1>2. LinesSeen
    BY <1>1, InputTypes DEF Init, LinesSeen
  <1> QED BY <1>1, <1>2 DEF Init, Inv, AcceptsExactly

LEMMA TypeStep == TypeOK /\ [Next]_vars => TypeOK'
  <1> SUFFICES ASSUME TypeOK, [Next]_vars PROVE TypeOK'
    OBVIOUS
  <1>1. CASE TakeEntry
    <2>1. entries[i] \in Entry
      BY <1>1, InputTypes DEF TakeEntry, AtEntry, TypeOK
    <2>2. entries[i].data \in Data
      BY <1>1, <2>1 DEF TakeEntry, Usable, Entry
    <2> QED BY <1>1, <2>2 DEF TakeEntry, TypeOK, input
  <1>2. CASE SkipLine \/ CompareLine \/ NoLine
    BY <1>2 DEF SkipLine, CompareLine, NoLine, Stop, TypeOK, input
  <1>3. CASE SkipEntry \/ RefuseEntry \/ EndOfArchive
    BY <1>3 DEF SkipEntry, RefuseEntry, EndOfArchive, AtEntry, Stop, TypeOK, input
  <1>4. CASE UNCHANGED vars
    BY <1>4 DEF vars, TypeOK
  <1> QED BY <1>1, <1>2, <1>3, <1>4 DEF Next

\* The reference is about the input, which no step changes.
LEMMA InputIsFixed == [Next]_vars => UNCHANGED input
  BY DEF Next, SkipLine, CompareLine, NoLine, SkipEntry, TakeEntry, RefuseEntry,
         EndOfArchive, Stop, input, vars

LEMMA ReferenceIsFixed ==
    ASSUME UNCHANGED input
    PROVE  Acceptable' = Acceptable /\ Listed' = Listed
  BY DEF input, Acceptable, Listed, IsTheBinary, NamesBinary, Usable

LEMMA InvStep == Inv /\ [Next]_vars => Inv'
  <1> SUFFICES ASSUME Inv, [Next]_vars PROVE Inv'
    OBVIOUS
  <1>0. TypeOK /\ TypeOK' /\ UNCHANGED input
    BY TypeStep, InputIsFixed DEF Inv
  <1>1. Acceptable' = Acceptable /\ Listed' = Listed
    BY <1>0, ReferenceIsFixed
  <1>2. i \in Nat \ {0} /\ Len(lines) \in Nat /\ Len(entries) \in Nat
    BY <1>0, InputTypes DEF TypeOK
  <1>3. CASE SkipLine
    BY <1>0, <1>2, <1>3 DEF SkipLine, Inv, LinesSeen, AcceptsExactly, input
  <1>4. CASE CompareLine
    <2>1. LinesSeen /\ i \in 1 .. Len(lines) /\ lines[i].about = "archive"
      BY <1>2, <1>4 DEF CompareLine, Inv
    <2>2. CASE lines[i].hash = actual
      <3>1. Listed
        BY <2>1, <2>2 DEF Listed, LinesSeen
      <3>2. pc' = "entries" /\ i' = 1 /\ ~found'
        BY <1>4, <2>1, <2>2 DEF CompareLine, LinesSeen
      <3>3. EntriesSeen'
        BY <1>0, <1>1, <1>2, <3>1, <3>2 DEF EntriesSeen, input
      <3> QED BY <1>0, <3>2, <3>3 DEF Inv, AcceptsExactly
    <2>3. CASE lines[i].hash # actual
      <3>1. ~Listed
        BY <1>2, <2>1, <2>3 DEF Listed, LinesSeen
      <3>2. pc' = "error"
        BY <1>4, <2>3 DEF CompareLine, Stop
      <3> QED BY <1>0, <1>1, <3>1, <3>2 DEF Inv, AcceptsExactly, Acceptable
    <2> QED BY <2>2, <2>3
  <1>5. CASE NoLine
    <2>1. ~Listed
      BY <1>2, <1>5 DEF NoLine, Inv, LinesSeen, Listed
    <2> QED BY <1>0, <1>1, <1>5, <2>1 DEF NoLine, Stop, Inv, AcceptsExactly, Acceptable
  <1>6. CASE SkipEntry
    <2>1. EntriesSeen'
      BY <1>0, <1>1, <1>2, <1>6
      DEF SkipEntry, AtEntry, Inv, EntriesSeen, NamesBinary, Usable, input
    <2> QED BY <1>0, <1>6, <2>1 DEF SkipEntry, AtEntry, Inv, AcceptsExactly
  <1>7. CASE TakeEntry
    <2>1. EntriesSeen'
      BY <1>0, <1>1, <1>2, <1>7
      DEF TakeEntry, AtEntry, Inv, EntriesSeen, NamesBinary, Usable, input
    <2> QED BY <1>0, <1>7, <2>1 DEF TakeEntry, AtEntry, Inv, AcceptsExactly
  <1>8. CASE RefuseEntry
    <2>1. EntriesSeen /\ i \in 1 .. Len(entries)
      BY <1>2, <1>8 DEF RefuseEntry, AtEntry, Inv
    <2>2. CASE ~Safe(entries[i].name)
      <3>1. ~Acceptable
        BY <2>1, <2>2 DEF Acceptable
      <3> QED BY <1>0, <1>1, <1>8, <3>1 DEF RefuseEntry, Stop, Inv, AcceptsExactly
    <2>3. CASE NamesBinary(entries[i]) /\ ~Usable(entries[i])
      <3>1. ~Acceptable
        BY <2>1, <2>3 DEF Acceptable, IsTheBinary
      <3> QED BY <1>0, <1>1, <1>8, <3>1 DEF RefuseEntry, Stop, Inv, AcceptsExactly
    <2>4. CASE NamesBinary(entries[i]) /\ found
      <3>1. PICK k \in 1 .. i - 1 : NamesBinary(entries[k])
        BY <2>1, <2>4 DEF EntriesSeen
      <3>2. k \in 1 .. Len(entries) /\ k # i
        BY <1>2, <2>1, <3>1
      <3>3. ~Acceptable
        BY <2>1, <2>4, <3>1, <3>2 DEF Acceptable, IsTheBinary
      <3> QED BY <1>0, <1>1, <1>8, <3>3 DEF RefuseEntry, Stop, Inv, AcceptsExactly
    <2> QED BY <1>8, <2>2, <2>3, <2>4 DEF RefuseEntry
  <1>9. CASE EndOfArchive
    <2>1. EntriesSeen /\ i = Len(entries) + 1
      BY <1>2, <1>9 DEF EndOfArchive, Inv, EntriesSeen
    <2>2. CASE found /\ ~broken
      <3>1. PICK k \in 1 .. Len(entries) : IsTheBinary(k) /\ binary = entries[k].data
        BY <1>2, <2>1, <2>2 DEF EntriesSeen, IsTheBinary
      <3>2. Acceptable
        BY <1>2, <2>1, <2>2, <3>1 DEF EntriesSeen, Acceptable
      <3>3. pc' = "ok" /\ binary' = binary
        BY <1>9, <2>2 DEF EndOfArchive, Stop
      <3>4. IsTheBinary(k)'
        BY <1>0, <3>1 DEF IsTheBinary, NamesBinary, Usable, input
      <3> QED BY <1>0, <1>1, <3>1, <3>2, <3>3, <3>4 DEF Inv, AcceptsExactly, input
    <2>3. CASE ~found \/ broken
      <3>1. ~Acceptable
        BY <1>2, <2>1, <2>3 DEF EntriesSeen, Acceptable, IsTheBinary
      <3> QED BY <1>0, <1>1, <1>9, <2>3, <3>1 DEF EndOfArchive, Stop, Inv, AcceptsExactly
    <2> QED BY <2>2, <2>3
  <1>10. CASE UNCHANGED vars
    BY <1>0, <1>10
    DEF vars, Inv, LinesSeen, EntriesSeen, AcceptsExactly, Acceptable, Listed, IsTheBinary,
        NamesBinary, Usable
  <1> QED BY <1>3, <1>4, <1>5, <1>6, <1>7, <1>8, <1>9, <1>10 DEF Next

\* Type correctness of the two loops.
THEOREM TypeCorrect == Spec => []TypeOK
  <1>1. Inv => TypeOK
    BY DEF Inv
  <1> QED BY InvInit, InvStep, <1>1, PTL DEF Spec

\* An archive of any length is accepted exactly if SHA256SUMS lists it and it holds one
\* usable binary among safe names, and that binary is what is returned.
THEOREM ExtractionIsExact == Spec => []AcceptsExactly
  <1>1. Inv => AcceptsExactly
    BY DEF Inv
  <1> QED BY InvInit, InvStep, <1>1, PTL DEF Spec
====
