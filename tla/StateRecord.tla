---- MODULE StateRecord ----
(***************************************************************************)
(* The content of the state file (internal/state, type State) and the pure *)
(* operations the runner applies to it between Load and Save.              *)
(*                                                                         *)
(* Abstractions.  A snapshot is identified with its hash: the hash covers  *)
(* the whole normalized snapshot, so CurrentHash and CurrentSnapshot are   *)
(* one field here, PreviousSnapshot is the hash it had, and the empty      *)
(* string or a missing map entry is NoHash.  UpdatedAt is left out.        *)
(***************************************************************************)

CONSTANTS Hashes,   \* hashes of the snapshots the host can have
          NoHash    \* "" and the missing map entry

ASSUME NoHashAssumption == NoHash \notin Hashes

\* The names of the two notifiers of buildNotifiers.
Notifiers == {"bark", "pushover"}

MaybeHash == Hashes \cup {NoHash}

State == [current   : MaybeHash,                  \* CurrentHash, CurrentSnapshot
          previous  : MaybeHash,                  \* PreviousSnapshot
          delivered : [Notifiers -> MaybeHash],   \* NotifierHashes
          terminal  : [Notifiers -> MaybeHash],   \* NotifierTerminalFailures
          skipped   : MaybeHash]                  \* InitialSkippedHash

NewState == [current   |-> NoHash,
             previous  |-> NoHash,
             delivered |-> [n \in Notifiers |-> NoHash],
             terminal  |-> [n \in Notifiers |-> NoHash],
             skipped   |-> NoHash]

\* Mutant: no early return for an unchanged hash.
RecordSnapshotAlways(s, h) ==
    [s EXCEPT !.previous = IF s.current = NoHash THEN @ ELSE s.current,
              !.current  = h]

RecordSnapshot(s, h) ==
    IF s.current = h
    THEN s
    ELSE [s EXCEPT !.previous = IF s.current = NoHash THEN @ ELSE s.current,
                   !.current  = h]

\* Mutant: the two string arguments are swapped at the assignment.
SuccessStoresName(s, n, h) ==
    [s EXCEPT !.delivered[n] = n, !.terminal[n] = NoHash]

\* Mutant: the success hash is not stored.
SuccessForgotten(s, n, h) ==
    [s EXCEPT !.terminal[n] = NoHash]

MarkNotifierSuccess(s, n, h) ==
    [s EXCEPT !.delivered[n] = h, !.terminal[n] = NoHash]

\* Mutant: a permanent failure also counts as handled in NotifierHashes.
TerminalCountsAsDelivered(s, n, h) ==
    [s EXCEPT !.terminal[n] = h, !.delivered[n] = h]

MarkNotifierTerminalFailure(s, n, h) ==
    [s EXCEPT !.terminal[n] = h]

MarkInitialSkipped(s, h) ==
    [s EXCEPT !.skipped = h]

\* Declared by the store, with no caller in the program: the runner repeats the
\* test inline.  The model uses it to say what a send needs.
NeedsNotification(s, n, h) ==
    s.delivered[n] # h /\ s.terminal[n] # h
====
