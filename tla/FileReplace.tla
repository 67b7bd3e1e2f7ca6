---- MODULE FileReplace ----
(***************************************************************************)
(* The write-to-a-temporary-file-and-rename protocol, in its three forms:  *)
(*   save     state.Store.Save        no fsync, removes its name always    *)
(*   copy     install.copyFile        no fsync, removes its name always    *)
(*   replace  update.replaceBinary    fsync of file and directory,         *)
(*                                    removes its name on failure only     *)
(* run by several processes against one destination, with an error possible*)
(* at every system call, killed processes, and power losses.               *)
(*                                                                         *)
(* Abstractions.  A file is a content, how much of it has been written,    *)
(* whether it has its final mode, and whether it has been synced.  The     *)
(* names of os.CreateTemp, 32 random bits, never recur.  Creating parent   *)
(* directories is part of the step that creates the temporary file.        *)
(***************************************************************************)
EXTENDS Naturals

CONSTANTS
    Writers,
    Contents,
    None,
    Protocol,    \* the form each writer follows
    PowerFails   \* may the power be lost?

Protocols == {"save", "copy", "replace"}

File == [content : Contents, bytes : {"none", "some", "all"}, final : BOOLEAN,
         synced : BOOLEAN, form : Protocols]

ASSUME FileReplaceAssumption ==
    /\ None \notin Contents \cup File
    /\ Protocol \in [Writers -> Protocols]
    /\ PowerFails \in BOOLEAN

VARIABLES
    dest,       \* the destination as processes see it: a file or None
    persisted,  \* the files its directory entry may name after a power loss
    temp,       \* the temporary file of each writer, or None
    pc,         \* the system call each writer is at
    failed,     \* its call is returning an error
    job,        \* the content its caller passed
    result,     \* what its last call reported: none yet, ok, or error
    past,       \* history: every content installed, and None
    excused,    \* history: the writer was killed, or a removal failed
    blackout    \* history: the power has been lost

vars == <<dest, persisted, temp, pc, failed, job, result, past, excused, blackout>>

PCs == {"idle", "create", "write", "chmod", "sync", "close", "rename", "syncdir",
        "remove"}

Init ==
    /\ dest = None
    /\ persisted = {None}
    /\ temp = [w \in Writers |-> None]
    /\ pc = [w \in Writers |-> "idle"]
    /\ failed = [w \in Writers |-> FALSE]
    /\ job = [w \in Writers |-> None]
    /\ result = [w \in Writers |-> "none"]
    /\ past = {None}
    /\ excused = [w \in Writers |-> FALSE]
    /\ blackout = FALSE

---------------------------------------------------------------------------

Goto(w, label) == pc' = [pc EXCEPT ![w] = label]

\* The call returns: nil, or the error its caller reports.
Return(w, r) ==
    /\ Goto(w, "idle")
    /\ job' = [job EXCEPT ![w] = None]
    /\ failed' = [failed EXCEPT ![w] = FALSE]
    /\ result' = [result EXCEPT ![w] = r]

\* Every error after CreateTemp runs the deferred removal.
Fails(w) ==
    /\ Goto(w, "remove")
    /\ failed' = [failed EXCEPT ![w] = TRUE]

\* Mutant: the content is not passed on.
CallDropsContent(w, c) ==
    /\ pc[w] = "idle"
    /\ Goto(w, "create")
    /\ result' = [result EXCEPT ![w] = "none"]
    /\ UNCHANGED <<dest, persisted, temp, failed, job, past, excused, blackout>>

Call(w, c) ==
    /\ pc[w] = "idle"
    /\ Goto(w, "create")
    /\ job' = [job EXCEPT ![w] = c]
    /\ result' = [result EXCEPT ![w] = "none"]
    /\ UNCHANGED <<dest, persisted, temp, failed, past, excused, blackout>>

\* MkdirAll and CreateTemp.
Create(w) ==
    /\ pc[w] = "create"
    /\ \/ /\ temp' = [temp EXCEPT ![w] =
                 [content |-> job[w], bytes |-> "none", final |-> FALSE,
                  synced |-> FALSE, form |-> Protocol[w]]]
          /\ Goto(w, "write")
          /\ UNCHANGED <<failed, job, result>>
       \/ /\ Return(w, "error")
          /\ UNCHANGED temp
    /\ UNCHANGED <<dest, persisted, past, excused, blackout>>

\* Mutant: no fsync before the rename.
NeverSync(w) == "close"

\* The order of the calls on the temporary file before it is renamed.
AfterChmod(w) == IF Protocol[w] = "replace" THEN "sync" ELSE "close"

\* One call on the temporary file: it makes the file f and goes on, or fails and,
\* when it was writing, leaves some of the bytes.
Step(w, label, f, next) ==
    /\ pc[w] = label
    /\ \/ /\ temp' = [temp EXCEPT ![w] = f]
          /\ Goto(w, next)
          /\ UNCHANGED failed
       \/ /\ temp' = IF label = "write" THEN [temp EXCEPT ![w].bytes = "some"] ELSE temp
          /\ Fails(w)
    /\ UNCHANGED <<dest, persisted, job, result, past, excused, blackout>>

Write(w) == Step(w, "write", [temp[w] EXCEPT !.bytes = "all"], "chmod")

Chmod(w) == Step(w, "chmod", [temp[w] EXCEPT !.final = TRUE], AfterChmod(w))

Sync(w) == Step(w, "sync", [temp[w] EXCEPT !.synced = TRUE], "close")

Close(w) == Step(w, "close", temp[w], "rename")

AfterRename(w) == IF Protocol[w] = "replace" THEN "syncdir" ELSE "remove"

\* The rename is seen by processes at once, and by the disk at some later time.
Rename(w) ==
    /\ pc[w] = "rename"
    /\ \/ /\ dest' = temp[w]
          /\ persisted' = persisted \cup {temp[w]}
          /\ temp' = [temp EXCEPT ![w] = None]
          /\ past' = past \cup {temp[w].content}
          /\ Goto(w, AfterRename(w))
          /\ UNCHANGED failed
       \/ /\ Fails(w)
          /\ UNCHANGED <<dest, persisted, temp, past>>
    /\ UNCHANGED <<job, result, excused, blackout>>

\* Opening and syncing the directory is best effort: an error is dropped.
SyncDir(w) ==
    /\ pc[w] = "syncdir"
    /\ persisted' \in {persisted, {dest}}
    /\ Return(w, "ok")
    /\ UNCHANGED <<dest, temp, past, excused, blackout>>

\* Mutant: the removal is not deferred, so an error returns without it.
RemoveOnlyOnSuccess(w) ==
    /\ pc[w] = "remove"
    /\ temp' = IF failed[w] THEN temp ELSE [temp EXCEPT ![w] = None]
    /\ Return(w, IF failed[w] THEN "error" ELSE "ok")
    /\ UNCHANGED <<dest, persisted, past, excused, blackout>>

\* Mutant: the removal's nil replaces the error that led to it.
RemoveDropsError(w) ==
    /\ pc[w] = "remove"
    /\ \/ temp' = [temp EXCEPT ![w] = None] /\ UNCHANGED excused
       \/ excused' = [excused EXCEPT ![w] = TRUE] /\ UNCHANGED temp
    /\ Return(w, "ok")
    /\ UNCHANGED <<dest, persisted, past, blackout>>

\* The deferred removal, its own error dropped; after a rename there is no file.
Remove(w) ==
    /\ pc[w] = "remove"
    /\ \/ temp' = [temp EXCEPT ![w] = None] /\ UNCHANGED excused
       \/ excused' = [excused EXCEPT ![w] = TRUE] /\ UNCHANGED temp
    /\ Return(w, IF failed[w] THEN "error" ELSE "ok")
    /\ UNCHANGED <<dest, persisted, past, blackout>>

---------------------------------------------------------------------------

Kill(w) ==
    /\ pc[w] # "idle"
    /\ Return(w, "none")
    /\ excused' = [excused EXCEPT ![w] = TRUE]
    /\ UNCHANGED <<dest, persisted, temp, past, blackout>>

\* What the disk may hold of a file whose data was not synced.
Survivors(f) ==
    IF f = None \/ f.synced THEN {f}
    ELSE {[f EXCEPT !.bytes = b] : b \in {"none", "some", "all"}}

\* Every process dies; the disk holds one of the entries not yet superseded there.
PowerLoss ==
    /\ PowerFails
    /\ \E f \in persisted : dest' \in Survivors(f)
    /\ persisted' = {dest'}
    /\ pc' = [w \in Writers |-> "idle"]
    /\ failed' = [w \in Writers |-> FALSE]
    /\ job' = [w \in Writers |-> None]
    /\ result' = [w \in Writers |-> "none"]
    /\ excused' = [w \in Writers |-> TRUE]
    /\ blackout' = TRUE
    /\ UNCHANGED <<temp, past>>

Next ==
    \/ \E w \in Writers :
         \/ \E c \in Contents : Call(w, c)
         \/ Create(w) \/ Write(w) \/ Chmod(w) \/ Sync(w) \/ Close(w)
         \/ Rename(w) \/ SyncDir(w) \/ Remove(w) \/ Kill(w)
    \/ PowerLoss

Spec == Init /\ [][Next]_vars

---------------------------------------------------------------------------
(* Properties.                                                             *)

TypeOK ==
    /\ dest \in File \cup {None}
    /\ persisted \subseteq File \cup {None}
    /\ temp \in [Writers -> File \cup {None}]
    /\ pc \in [Writers -> PCs]
    /\ failed \in [Writers -> BOOLEAN]
    /\ job \in [Writers -> Contents \cup {None}]
    /\ result \in [Writers -> {"none", "ok", "error"}]
    /\ past \subseteq Contents \cup {None}
    /\ excused \in [Writers -> BOOLEAN]
    /\ blackout \in BOOLEAN

Whole(f) == f = None \/ (f.bytes = "all" /\ f.final)

\* Nobody ever opens a destination that is partly written or not yet readable,
\* whichever calls fail and whoever is killed; nor after a power loss, if it was
\* synced before the rename (replaceBinary).
AlwaysWhole == Whole(dest) \/ (blackout /\ dest.form # "replace")

\* A call that ran to its end leaves no temporary file behind, on any error path.
NoLitter ==
    \A w \in Writers : pc[w] = "idle" /\ ~excused[w] => temp[w] = None

Phase(w) ==
    IF pc[w] = "idle" THEN "idle"
    ELSE IF pc[w] = "syncdir" \/ (pc[w] = "remove" /\ ~failed[w]) THEN "installed"
    ELSE "busy"

Atomic == INSTANCE AtomicFile WITH
    file  <- IF dest = None THEN None ELSE dest.content,
    phase <- [w \in Writers |-> Phase(w)]

\* The destination behaves as one cell: an error reported by Save, copyFile or
\* replaceBinary means that call changed nothing, a nil that it installed its
\* content, in one step, whatever the other writers do.  (Runner takes Save for one
\* step on this ground.  Whether the content is whole is AlwaysWhole's matter.)
ReplacesAtomically == Atomic!Spec
====
