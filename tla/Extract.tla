---- MODULE Extract ----
(***************************************************************************)
(* The two loops between a download and its installation: the search of    *)
(* SHA256SUMS for the archive's checksum, and the walk over the entries of *)
(* the archive (internal/update).  Update takes them for its Verified and  *)
(* Extractable.                                                            *)
(*                                                                         *)
(* Abstractions.  A path is the list of its parts between slashes, after   *)
(* the leading slash of an absolute one.  A line of SHA256SUMS is what it  *)
(* is about and its hash, one with fewer than two fields being about       *)
(* nothing.  A tar stream that breaks off inside an entry is one that      *)
(* breaks off after the entry before it.                                   *)
(***************************************************************************)
EXTENDS Naturals, Sequences

CONSTANTS
    Data,          \* contents of an entry
    Empty,         \* no bytes
    Hashes,
    Invalid,       \* a first field that is not the hex of 32 bytes
    None,
    LineSeqs,      \* the SHA256SUMS files
    EntrySeqs      \* the archives

Name == [absolute : BOOLEAN, backslash : BOOLEAN, parts : Seq(STRING)]

Entry == [name : Name, regular : BOOLEAN, executable : BOOLEAN, data : Data \cup {Empty}]

Line == [about : {"archive", "else"}, hash : Hashes \cup {Invalid}]

ASSUME ExtractAssumption ==
    /\ Empty \notin Data /\ None \notin Data
    /\ Invalid \notin Hashes
    /\ LineSeqs \subseteq Seq(Line)
    /\ EntrySeqs \subseteq Seq(Entry)

VARIABLES
    lines,    \* SHA256SUMS
    actual,   \* the hash of the archive
    entries,  \* the archive
    broken,   \* the stream breaks off after them
    pc,       \* checksum, entries, ok, or error
    i,        \* the line or the entry the loop is at
    found,    \* the loop has met the binary
    binary    \* what it holds

input == <<lines, actual, entries, broken>>
vars  == <<lines, actual, entries, broken, pc, i, found, binary>>

Init ==
    /\ lines \in LineSeqs
    /\ actual \in Hashes
    /\ entries \in EntrySeqs
    /\ broken \in BOOLEAN
    /\ pc = "checksum"
    /\ i = 1
    /\ found = FALSE
    /\ binary = None

Stop(outcome) ==
    /\ pc' = outcome
    /\ UNCHANGED <<input, i, found, binary>>

---------------------------------------------------------------------------
(* verifyArchiveChecksum: the first line about the archive decides.        *)

SkipLine ==
    /\ pc = "checksum"
    /\ i <= Len(lines)
    /\ lines[i].about # "archive"
    /\ i' = i + 1
    /\ UNCHANGED <<input, pc, found, binary>>

CompareLine ==
    /\ pc = "checksum"
    /\ i <= Len(lines)
    /\ lines[i].about = "archive"
    /\ IF lines[i].hash = actual
       THEN /\ pc' = "entries"
            /\ i' = 1
            /\ UNCHANGED <<input, found, binary>>
       ELSE Stop("error")

NoLine ==
    /\ pc = "checksum"
    /\ i > Len(lines)
    /\ Stop("error")

---------------------------------------------------------------------------
(* extractBinaryFromArchive.                                               *)

EmptyName == [absolute |-> FALSE, backslash |-> FALSE, parts |-> <<"">>]

Safe(name) ==
    /\ name # EmptyName
    /\ ~name.backslash
    /\ ~name.absolute
    /\ \A k \in 1 .. Len(name.parts) : name.parts[k] # ".."

\* path.Clean of a safe name: no empty and no "." parts.
Significant(part) == part \notin {"", "."}

Clean(name) == SelectSeq(name.parts, Significant)

NamesBinary(e) == Clean(e.name) = <<"ip-notify">>

\* Mutant: the size of the entry is not looked at.
UsableIfExecutable(e) == e.regular /\ e.executable

Usable(e) == e.regular /\ e.executable /\ e.data # Empty

AtEntry == pc = "entries" /\ i <= Len(entries)

SkipEntry ==
    /\ AtEntry
    /\ Safe(entries[i].name)
    /\ ~NamesBinary(entries[i])
    /\ i' = i + 1
    /\ UNCHANGED <<input, pc, found, binary>>

\* Mutant: a second binary replaces the first.
LastBinaryWins ==
    /\ AtEntry
    /\ Safe(entries[i].name)
    /\ NamesBinary(entries[i])
    /\ Usable(entries[i])
    /\ found' = TRUE
    /\ binary' = entries[i].data
    /\ i' = i + 1
    /\ UNCHANGED <<input, pc>>

TakeEntry ==
    /\ AtEntry
    /\ Safe(entries[i].name)
    /\ NamesBinary(entries[i])
    /\ ~found
    /\ Usable(entries[i])
    /\ found' = TRUE
    /\ binary' = entries[i].data
    /\ i' = i + 1
    /\ UNCHANGED <<input, pc>>

RefuseEntry ==
    /\ AtEntry
    /\ \/ ~Safe(entries[i].name)
       \/ NamesBinary(entries[i]) /\ (found \/ ~Usable(entries[i]))
    /\ Stop("error")

EndOfArchive ==
    /\ pc = "entries"
    /\ i > Len(entries)
    /\ Stop(IF found /\ ~broken THEN "ok" ELSE "error")

Next ==
    \/ SkipLine \/ CompareLine \/ NoLine
    \/ SkipEntry \/ TakeEntry \/ RefuseEntry \/ EndOfArchive

Spec == Init /\ [][Next]_vars

---------------------------------------------------------------------------
(* Properties.                                                             *)

TypeOK ==
    /\ lines \in LineSeqs
    /\ actual \in Hashes
    /\ entries \in EntrySeqs
    /\ broken \in BOOLEAN
    /\ pc \in {"checksum", "entries", "ok", "error"}
    /\ i \in Nat \ {0}
    /\ found \in BOOLEAN
    /\ binary \in Data \cup {None}

\* The reference: the archive is the one SHA256SUMS lists first under its name, every
\* name in it is safe, and one entry, and no other, is the binary and usable.
Listed ==
    \E k \in 1 .. Len(lines) :
        /\ lines[k].about = "archive" /\ lines[k].hash = actual
        /\ \A j \in 1 .. k - 1 : lines[j].about # "archive"

IsTheBinary(k) ==
    /\ NamesBinary(entries[k])
    /\ Usable(entries[k])
    /\ \A j \in 1 .. Len(entries) : NamesBinary(entries[j]) => j = k

Acceptable ==
    /\ Listed
    /\ ~broken
    /\ \A k \in 1 .. Len(entries) : Safe(entries[k].name)
    /\ \E k \in 1 .. Len(entries) : IsTheBinary(k)

\* An archive is accepted exactly if it is acceptable, and what is installed is the
\* content of its one binary: also when a bad entry follows the good one, when the
\* binary comes twice or under another spelling of its name, and when the stream
\* breaks off behind it.
AcceptsExactly ==
    /\ pc = "ok" =>
         /\ Acceptable
         /\ \E k \in 1 .. Len(entries) : IsTheBinary(k) /\ binary = entries[k].data
    /\ pc = "error" => ~Acceptable
====
