------------------------- MODULE MCConnectionManager -------------------------
(* Instances of ConnectionManager for TLC.                                    *)
EXTENDS ConnectionManager, TLC

CONSTANTS r1, r2, q1, n1, n2, alias, host

\* Both keys lead to one host.
OneHost == [k \in Keys |-> host]

\* Names that coincide and destinations that resolve to each other; the two
\* restores are alike, and so are the names.
SomeIntents ==
  {i \in [Calls -> [name : Names, dest : Keys]] :
     i[r1].name = n1 /\ (i[r1].dest = host => i[r2].dest = host)}
===============================================================================
