---- MODULE MCExtract ----
(* An instance of Extract for TLC: short files over a few telling entries. *)
EXTENDS Extract, SequencesExt

CONSTANTS d1, d2, h1, h2

TwoData == {d1, d2}
TwoHashes == {h1, h2}

Relative(p) == [absolute |-> FALSE, backslash |-> FALSE, parts |-> p]

\* "ip-notify", and "./ip-notify" as the release workflow packs it.
BinaryNames == {Relative(<<"ip-notify">>), Relative(<<".", "ip-notify">>)}

\* "ip-notify/"
Directory == Relative(<<"ip-notify", "">>)

\* "configs/ip-notify", "", "configs/../ip-notify", "/ip-notify", ".\ip-notify".
OtherNames == {Relative(<<"configs", "ip-notify">>),
               EmptyName,
               Relative(<<"configs", "..", "ip-notify">>),
               [absolute |-> TRUE, backslash |-> FALSE, parts |-> <<"ip-notify">>],
               [absolute |-> FALSE, backslash |-> TRUE, parts |-> <<".\\ip-notify">>]}

Good(n, d) == [name |-> n, regular |-> TRUE, executable |-> TRUE, data |-> d]

TellingEntries ==
    {Good(n, d) : n \in BinaryNames, d \in TwoData \cup {Empty}}
    \cup {[Good(Directory, d1) EXCEPT !.regular = FALSE]}
    \cup {[Good(Relative(<<"ip-notify">>), d1) EXCEPT !.executable = FALSE]}
    \cup {Good(n, d1) : n \in OtherNames}

ShortArchives == BoundedSeq(TellingEntries, 3)

ShortSums == BoundedSeq([about : {"archive", "else"}, hash : {h1, Invalid}], 2)
====
