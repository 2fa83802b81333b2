---- MODULE MCShellSessions ----
(***************************************************************************)
(* One pid; connections a and b with directories of their own and one      *)
(* directory that both cover; a background connection g on a's directory.  *)
(***************************************************************************)
EXTENDS ShellSessions, TLC

CONSTANTS s1, c1, c2

OnePid == {s1}
OneCall == {c1}
TwoCalls == {c1, c2}
ABG == {"a", "b", "g"}
InBackground == {"g"}
SomeDirs == {"inA", "inB", "inBoth"}
Roots == [a |-> {"inA", "inBoth"}, b |-> {"inB", "inBoth"}, g |-> {"inA"}]

Conn(state, fwds) == [state |-> state, obj |-> IF state = "none" THEN 0 ELSE 1, fwds |-> fwds, conf |-> fwds, avail |-> TRUE]
Table(atA, atB) == [a |-> atA, b |-> atB, g |-> Conn("up", {"plain"})]
Budget(ops, dirs, names, starts, exits, cds, requests, changes, restarts) ==
  [ops |-> ops, dirs |-> dirs, names |-> names,
   shells |-> starts, exits |-> exits, cds |-> cds, calls |-> requests, changes |-> changes, restarts |-> restarts]

Forwarding == Table(Conn("up", {"plain"}), Conn("up", {"plain", "prefixed"}))
Busy == [conns : {Forwarding},
         budget : {Budget({"exact", "shim"}, {"inA"}, {"a"}, 1, 0, 0, 1, 2, 0),
                   Budget({"pin", "shim"}, {"inA"}, {"b"}, 1, 0, 0, 2, 1, 0),
                   Budget({"report", "look", "select"}, {"inA", "inBoth"}, {}, 2, 1, 0, 1, 0, 1),
                   Budget({}, {"inB", "inBoth"}, {"b"}, 1, 0, 1, 0, 2, 1),
                   Budget({}, SomeDirs, {"b"}, 1, 0, 2, 0, 1, 1)}]
Steady == {[conns |-> Table(Conn("up", {"plain"}), Conn("down", {"plain"})), budget |-> Budget({"shim"}, {"inA", "inB"}, {}, 1, 0, 1, 1, 0, 0)]}
====
