---- MODULE MCDetect ----
(* An instance of Detect for TLC: a few telling interfaces and addresses.  *)
EXTENDS Detect

\* "e", "e0" and "d", in Go's order "d" < "e" < "e0".
ThreeNames == {<<2>>, <<2, 1>>, <<1>>}

\* 1 is link-local, 2 and 3 are global.
GlobalIPs == {2, 3}

Plain(n) == [ip |-> n, mapped |-> FALSE]
Mapped(n) == [ip |-> n, mapped |-> TRUE]

Up(as) == [up |-> TRUE, loopback |-> FALSE, addrs |-> as]

TellingLinks ==
    {Up({Plain(3), Mapped(3), Plain(2)}),
     Up({Plain(1), Plain(2), Unsupported}),
     [Up({Plain(3)}) EXCEPT !.up = FALSE],
     [Up({Plain(2)}) EXCEPT !.loopback = TRUE]}

\* Two sources that agree or, over IPv4 and IPv6, do not.
TwoViews == {<<Plain(2), Mapped(2)>>, <<Plain(2), Plain(3)>>}

Settings(pub, priv, srcs, al, ex) ==
    [public |-> pub, private |-> priv, sources |-> srcs, allow |-> al, exclude |-> ex]

\* Both; interfaces only, with lists that overlap and an empty prefix; public only.
ThreeConfigs ==
    {Settings(TRUE, TRUE, <<1, 2>>, {}, {<<1>>}),
     Settings(FALSE, TRUE, <<>>, {<<2>>, <<2, 1>>}, {<<>>, <<2, 1>>}),
     Settings(TRUE, FALSE, <<2, 1>>, {}, {})}
====
