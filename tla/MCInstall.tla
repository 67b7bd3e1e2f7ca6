---- MODULE MCInstall ----
(* An instance of Install for TLC.                                         *)
EXTENDS Install, TLC

Barked == [bark |-> TRUE, keys |-> {"key"}]

Elsewhere == Barked @@ [path |-> "/srv/state.json"]

\* To one nanosecond.
Overflowing == Barked @@ [interval |-> Seconds(13)]

\* Files as administrators write them: most set a few fields.
MCAdminDocs == {
    Barked,
    Barked @@ [interval |-> Seconds(3), public |-> FALSE, sources |-> {Blank}],
    Overflowing,
    Barked @@ [interval |-> Seconds(0)],
    Barked @@ [sources |-> {Blank}, level |-> ""],
    Elsewhere,
    [bark |-> TRUE, keys |-> {Blank}],
    [pushover |-> TRUE, token |-> Blank, user |-> "user"]}

Told == [NoAnswer EXCEPT !.url = Url]

MCAnswers == {
    Told,
    [Told EXCEPT !.provider = "bark", !.keys = {Blank, "key"}],
    [Told EXCEPT !.provider = "pushover", !.token = Blank, !.user = "user"]}

====
