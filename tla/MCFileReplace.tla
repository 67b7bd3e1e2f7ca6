---- MODULE MCFileReplace ----
(* Instances of FileReplace for TLC: who writes which file.                *)
EXTENDS FileReplace, TLC

CONSTANTS w1, w2, c1, c2

TwoWriters == {w1, w2}
TwoContents == {c1, c2}
ContentSymmetry == Permutations(TwoContents)

\* The binary: `install-daemon` beside `update`.
CopyAndReplace == w1 :> "copy" @@ w2 :> "replace"
====
