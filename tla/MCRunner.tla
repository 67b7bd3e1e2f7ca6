---- MODULE MCRunner ----
(* Instances of Runner for TLC: configurations and allowances of each run.  *)
EXTENDS Runner, TLC

CONSTANTS h1, h2, daemon, once1, nofile

TwoHashes == {h1, h2}
HashSymmetry == Permutations(TwoHashes)

Both(initial) == [initial |-> initial, enabled |-> Notifiers]
Only(n, initial) == [initial |-> initial, enabled |-> {n}]

MixedConfigs == {Both(TRUE), Only("bark", FALSE)}
BothConfigs == {Both(TRUE), Both(FALSE)}
NotifyInitially == {Both(TRUE)}
SkipInitially == {Both(FALSE)}

\* Every allowance not given is zero.
Allow(f) == [k \in Bounds |-> IF k \in DOMAIN f THEN f[k] ELSE 0]

\* The faults that lose an outcome, two changes, and one `once`.
SingleAllowance ==
    Allow([any |-> 4, change |-> 2, once |-> 1, crash |-> 1, transient |-> 1, refuse |-> 1,
           lostack |-> 1, delay |-> 2, save |-> 1])

\* Everything that may happen, once.
OverlapAllowance ==
    Allow([any |-> 3, change |-> 1, configure |-> 1, once |-> 1, stop |-> 1, crash |-> 1,
           input |-> 1, transient |-> 1, refuse |-> 1, lostack |-> 1, delay |-> 1,
           save |-> 1])

\* What the daemon has to recover from, and a signal.
LiveAllowance ==
    Allow([any |-> 3, change |-> 2, once |-> 1, stop |-> 1, crash |-> 1, input |-> 1,
           transient |-> 1, refuse |-> 1, lostack |-> 1, save |-> 1])

\* The violations, each with nothing but what it takes.
LostAnswerAllowance == Allow([any |-> 3, change |-> 2, lostack |-> 1])
ChangesAllowance == Allow([any |-> 2, change |-> 2])
OnceAllowance == Allow([any |-> 1, once |-> 1])
====
