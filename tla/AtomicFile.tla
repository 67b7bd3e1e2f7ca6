---- MODULE AtomicFile ----
(***************************************************************************)
(* What a caller of Store.Save, replaceBinary or copyFile relies on: the   *)
(* destination changes in one step from one complete content to another,   *)
(* a reported error means that this writer changed nothing, and a reported *)
(* success that it did.  A killed writer reports nothing and may have done *)
(* either.  A power loss may bring an earlier content back.                *)
(***************************************************************************)

CONSTANTS Writers, Contents, None

VARIABLES file,    \* the content of the destination, or None
          past,    \* every content it has had, None included
          phase,   \* idle, busy, or installed
          job,     \* the content a writer is to install
          result   \* what the last call of a writer reported

vars == <<file, past, phase, job, result>>

Init ==
    /\ file = None
    /\ past = {None}
    /\ phase = [w \in Writers |-> "idle"]
    /\ job = [w \in Writers |-> None]
    /\ result = [w \in Writers |-> "none"]

Call(w, c) ==
    /\ phase[w] = "idle"
    /\ phase' = [phase EXCEPT ![w] = "busy"]
    /\ job' = [job EXCEPT ![w] = c]
    /\ result' = [result EXCEPT ![w] = "none"]
    /\ UNCHANGED <<file, past>>

Install(w) ==
    /\ phase[w] = "busy"
    /\ file' = job[w]
    /\ past' = past \cup {job[w]}
    /\ phase' = [phase EXCEPT ![w] = "installed"]
    /\ UNCHANGED <<job, result>>

Leave(w, r) ==
    /\ phase' = [phase EXCEPT ![w] = "idle"]
    /\ job' = [job EXCEPT ![w] = None]
    /\ result' = [result EXCEPT ![w] = r]
    /\ UNCHANGED <<file, past>>

Succeed(w) == phase[w] = "installed" /\ Leave(w, "ok")

Fail(w) == phase[w] = "busy" /\ Leave(w, "error")

Die(w) == phase[w] # "idle" /\ Leave(w, "none")

PowerLoss ==
    /\ file' \in past
    /\ phase' = [w \in Writers |-> "idle"]
    /\ job' = [w \in Writers |-> None]
    /\ result' = [w \in Writers |-> "none"]
    /\ UNCHANGED past

Next ==
    \/ \E w \in Writers :
         \/ \E c \in Contents : Call(w, c)
         \/ Install(w) \/ Succeed(w) \/ Fail(w) \/ Die(w)
    \/ PowerLoss

Spec == Init /\ [][Next]_vars
====
