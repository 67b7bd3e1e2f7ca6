---- MODULE Ledger ----
(***************************************************************************)
(* What the state file promises about deliveries, said without processes,  *)
(* checks, memories, replies or failures: services accept and refuse       *)
(* messages, and from time to time somebody replaces the published ledger  *)
(* by one whose every entry really happened.  Entries may be lost, which   *)
(* costs a repetition, but never invented, which would cost a message.     *)
(***************************************************************************)

CONSTANTS Services, Messages, None

VARIABLES accepted,    \* the messages each service has accepted
          refused,     \* the messages each service has refused, as far as one can tell
          delivered,   \* the published ledger: a delivered message, or None
          terminal     \* and a refused one, or None

vars == <<accepted, refused, delivered, terminal>>

Init ==
    /\ accepted = [n \in Services |-> {}]
    /\ refused = [n \in Services |-> {}]
    /\ delivered = [n \in Services |-> None]
    /\ terminal = [n \in Services |-> None]

Accept(n, m) ==
    /\ accepted' = [accepted EXCEPT ![n] = @ \cup {m}]
    /\ UNCHANGED <<refused, delivered, terminal>>

Refuse(n, m) ==
    /\ refused' = [refused EXCEPT ![n] = @ \cup {m}]
    /\ UNCHANGED <<accepted, delivered, terminal>>

Publish ==
    /\ delivered' \in [Services -> Messages \cup {None}]
    /\ terminal' \in [Services -> Messages \cup {None}]
    /\ \A n \in Services :
         /\ delivered'[n] \in accepted[n] \cup {None}
         /\ terminal'[n] \in refused[n] \cup {None}
    /\ UNCHANGED <<accepted, refused>>

Next ==
    \/ \E n \in Services, m \in Messages : Accept(n, m) \/ Refuse(n, m)
    \/ Publish

Spec == Init /\ [][Next]_vars
====
