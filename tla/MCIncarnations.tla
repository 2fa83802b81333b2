---- MODULE MCIncarnations ----
(***************************************************************************)
(* Three daemon processes, two commands and one crash.                     *)
(***************************************************************************)
EXTENDS Incarnations, TLC

CONSTANTS d1, d2, d3, c1, c2

ThreeDaemons == {d1, d2, d3}
TwoCmds == {c1, c2}
Symmetric == Permutations(ThreeDaemons) \cup Permutations(TwoCmds)
====
