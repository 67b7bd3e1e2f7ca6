---- MODULE Config ----
(***************************************************************************)
(* The configuration file: what it decodes to, its normalization, and the  *)
(* validation in front of every `run` and `once`; and what the components  *)
(* that are handed the result rely on.                                     *)
(*                                                                         *)
(* A file is Garbage, which yaml.v3 refuses, or the function from the      *)
(* fields it sets to what it sets them to.  A text is empty, blank, an     *)
(* HTTP URL, or any other word.  The lists are sets: nothing here depends  *)
(* on their order.  Fields nothing is decided by (the filters, the group   *)
(* and device names, notify_initial, which Runner has) are left out.  The  *)
(* path of Default() stands for any in the state directory, another word   *)
(* for any outside of it.                                                  *)
(***************************************************************************)
EXTENDS Integers

CONSTANTS
    Second,    \* nanoseconds in a second
    Half,      \* a 64-bit integer is in -Half .. Half - 1
    Garbage    \* a file that does not decode

ASSUME ConfigAssumption ==
    /\ Second \in Nat \ {0}
    /\ Half \in Nat
    /\ Second < Half       \* the default durations exist

Blank == " "
Url == "http://host"

Fields == {"level", "interval", "timeout", "public", "sources", "private", "path",
           "bark", "url", "key", "keys", "pushover", "token", "user"}

Representable(n) == -Half <= n /\ n < Half

\* Two's complement.
Wrap(n) == IF Representable(n) THEN n ELSE ((n + Half) % (2 * Half)) - Half

---------------------------------------------------------------------------
(* Durations as they are written: a bare number of seconds, or a text such *)
(* as 10m, which time.ParseDuration reads and refuses when out of range.   *)

Seconds(n) == [unit |-> "bare", n |-> n]
Text(n) == [unit |-> "text", n |-> n]

\* Neither reads a number that 64 bits do not hold.
DurationDecodes(d) == Representable(d.n)

\* Mutant: a bare number is taken for nanoseconds.
DurationWithoutUnit(d) == d.n

\* The product of the bare number and time.Second is not checked.
Duration(d) == IF d.unit = "bare" THEN Wrap(d.n * Second) ELSE d.n

\* Default(), the lengths of its durations not to scale.
Default ==
    [level |-> "info", interval |-> Text(Second), timeout |-> Text(1),
     public |-> TRUE, sources |-> {Url}, private |-> TRUE, path |-> "state.json",
     bark |-> FALSE, url |-> Url, key |-> "", keys |-> {},
     pushover |-> FALSE, token |-> "", user |-> ""]

Decodes(doc) ==
    /\ doc # Garbage
    /\ \A f \in {"interval", "timeout"} \cap DOMAIN doc : DurationDecodes(doc[f])

\* What the file does not set keeps its default.
Written(doc) == [f \in Fields |-> IF f \in DOMAIN doc THEN doc[f] ELSE Default[f]]

Trim(s) == IF s = Blank THEN "" ELSE s

CleanStringSlice(texts) == {Trim(s) : s \in texts} \ {""}

\* Mutant: credentials are compared before they are trimmed.
NormalizeKeepsToken(c) ==
    [c EXCEPT !.level = IF Trim(@) = "" THEN "info" ELSE @,
              !.path = Trim(@), !.url = Trim(@), !.key = Trim(@),
              !.sources = CleanStringSlice(@), !.keys = CleanStringSlice(@)]

Normalize(c) ==
    [c EXCEPT !.level = IF Trim(@) = "" THEN "info" ELSE @,
              !.path = Trim(@), !.url = Trim(@), !.key = Trim(@),
              !.token = Trim(@), !.user = Trim(@),
              !.sources = CleanStringSlice(@), !.keys = CleanStringSlice(@)]

Load(doc) ==
    Normalize([Written(doc) EXCEPT !.interval = Duration(@), !.timeout = Duration(@)])

\* Where `once` and the daemon keep the state file.
StatePath(doc) == Load(doc).path

HttpUrl(s) == s = Url

Valid(c) ==
    /\ c.level \in {"debug", "info", "warn", "error"}
    /\ c.interval > 0 /\ c.timeout > 0
    /\ c.public \/ c.private
    /\ c.public => c.sources # {} /\ \A s \in c.sources : HttpUrl(s)
    /\ c.path # ""
    /\ c.bark \/ c.pushover
    /\ c.bark => HttpUrl(c.url) /\ (c.key # "" \/ c.keys # {})
    /\ c.pushover => c.token # "" /\ c.user # ""

\* newRunner gets past the configuration.
Accepts(doc) == Decodes(doc) /\ Valid(Load(doc))

---------------------------------------------------------------------------
(* The components' own reading of the configuration they are handed.       *)

\* The keys Bark sends to; it trims again.
NormalizedKeys(c) == ({Trim(c.key)} \cup {Trim(s) : s \in c.keys}) \ {""}

NotifierNames(c) ==
    (IF c.bark THEN {"bark"} ELSE {}) \cup (IF c.pushover THEN {"pushover"} ELSE {})

\* The ticker panics unless its period is positive; a client without a timeout
\* never gives up; a detector without sources fails or sees nothing; a runner
\* without notifiers, or a notifier without an addressee, tells nobody.
Usable(c) ==
    /\ c.interval > 0 /\ c.timeout > 0
    /\ c.private \/ (c.public /\ c.sources # {})
    /\ c.public => "" \notin c.sources /\ c.sources # {}
    /\ NotifierNames(c) # {}
    /\ "bark" \in NotifierNames(c) => NormalizedKeys(c) # {}
    /\ "pushover" \in NotifierNames(c) => Trim(c.token) # "" /\ Trim(c.user) # ""

\* The duration d is what its words say.
Exact(d) == Duration(d) = IF d.unit = "bare" THEN d.n * Second ELSE d.n

\* A bare number that the multiplication takes out of range.
Overflows(d) == d.unit = "bare" /\ ~Representable(d.n * Second)
====
