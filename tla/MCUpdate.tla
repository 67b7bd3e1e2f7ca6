---- MODULE MCUpdate ----
(* Instances of Update for TLC: releases, updaters and allowances.         *)
EXTENDS Update, TLC, FiniteSets

CONSTANTS u1, u2, v1, v2

OneUpdater == {u1}
TwoUpdaters == {u1, u2}
OneTag == {v1}
TwoTags == {v1, v2}

\* The second revision of v1 was packaged badly.
BadPackage == {[tag |-> v1, rev |-> 2]}

Allow(f) == [k \in Bounds |-> IF k \in DOMAIN f THEN f[k] ELSE 0]

\* Two overlapping updates, and any three events of a kind each.
OverlapAllowance ==
    Allow([any |-> 5, update |-> 2, release |-> 1, clobber |-> 1, network |-> 1,
           damage |-> 1, local |-> 1, query |-> 1, restart |-> 1, cancel |-> 1, kill |-> 1,
           service |-> 1])

\* One interrupted update.
InterruptAllowance == Allow([any |-> 2, update |-> 1, cancel |-> 1])
====
