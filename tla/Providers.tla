---- MODULE Providers ----
(***************************************************************************)
(* How the two notifiers of internal/notify read one HTTP exchange, and    *)
(* what the services behind them mean by it.                               *)
(*                                                                         *)
(* Abstractions.  A reply is its HTTP status and what becomes of its body: *)
(* reading it fails, it is blank or not the JSON of Pushover (the decoding *)
(* error is dropped, and the "status" field stays 0), or it says that the  *)
(* message was accepted (1) or refused.  Status 0 stands for the absence   *)
(* of a reply (connection error, client timeout, cancelled context), as    *)
(* StatusCode 0 does in DeliveryError.  Building the request cannot fail:  *)
(* config.Validate has parsed both URLs.                                   *)
(***************************************************************************)
EXTENDS Naturals

CONSTANTS Statuses   \* the HTTP statuses a reply may carry

ASSUME StatusesAssumption == Statuses \subseteq 100 .. 599

Bodies == {"unread", "garbled", "accepted", "refused"}

Replies == [status : Statuses, body : Bodies]

NoReply == [status |-> 0, body |-> "unread"]

Outcomes == {"delivered", "permanent", "transient"}

---------------------------------------------------------------------------
(* What Notify returns: nil, a permanent DeliveryError, or any other error. *)

\* Mutant: the status is not looked at.
BarkTrustsAnyReply(r) ==
    IF r.status # 0 THEN "delivered" ELSE "transient"

\* The Bark client looks at the status alone, and none of its errors is permanent.
BarkOutcome(r) ==
    IF r.status \in 200 .. 299 THEN "delivered" ELSE "transient"

\* Mutant: the "status" field of the body is not looked at.
PushoverTrustsHTTP(r) ==
    IF r.status = 0 \/ r.body = "unread" THEN "transient"
    ELSE IF r.status = 200 THEN "delivered"
    ELSE IF r.status \in 400 .. 499 THEN "permanent"
    ELSE "transient"

PushoverOutcome(r) ==
    IF r.status = 0 \/ r.body = "unread" THEN "transient"
    ELSE IF r.status = 200 /\ r.body = "accepted" THEN "delivered"
    ELSE IF r.status = 200 \/ r.status \in 400 .. 499 THEN "permanent"
    ELSE "transient"

Outcome(n, r) ==
    IF n = "bark" THEN BarkOutcome(r) ELSE PushoverOutcome(r)

---------------------------------------------------------------------------
(* What the service at the other end says with the same reply.             *)

Acknowledges(n, r) ==
    IF n = "bark" THEN r.status \in 200 .. 299 ELSE r.status = 200 /\ r.body = "accepted"

Refuses(n, r) ==
    \/ r.status \in 400 .. 499
    \/ n = "pushover" /\ r.status = 200 /\ r.body = "refused"

\* A reply of no meaning that the client nevertheless reads as a permanent failure.
Unintelligible(n, r) ==
    n = "pushover" /\ r.status = 200 /\ r.body = "garbled"

\* The one thing assumed of a service: it never refuses what it has taken nor
\* acknowledges what it has not.  Every other reply, and the absence of one, may
\* come in either case.
Plausible(n, taken, r) ==
    IF taken THEN ~Refuses(n, r) ELSE ~Acknowledges(n, r)
====
