------------------------------ MODULE MCForwards ------------------------------
(***************************************************************************)
(* Instances of Forwards for TLC.  The parts are independent except for the   *)
(* reconnects and Close, so each scenario exercises one of them with those.   *)
(***************************************************************************)
EXTENDS Forwards

CONSTANTS k1, p1, p2

MCSame == [k \in Keys |-> p1]
MCSpecs == {[key |-> k1, local |-> p1], [key |-> k1, local |-> p2]}
OneSpec == {[key |-> k1, local |-> p1]}

Still == [remote |-> {k1}, requests |-> 0, changes |-> 0, faults |-> 0, close |-> TRUE,
          accepts |-> FALSE, up |-> 0, down |-> 0, leaves |-> FALSE, flips |-> 0, agentFaults |-> 0, asked |-> {"off"}]

\* Requests against watches, reconnects, a changing remote and busy ports.
PortScenarios ==
  {[Still EXCEPT !.requests = 2, !.close = FALSE],
   [Still EXCEPT !.requests = 1, !.changes = 1],
   [Still EXCEPT !.requests = 1, !.faults = 1],
   [Still EXCEPT !.remote = {}, !.requests = 1, !.faults = 1, !.close = FALSE],
   [Still EXCEPT !.changes = 1, !.faults = 1]}

\* Agent forwards, switched on and off, with failures and a reconnect.
AgentScenarios ==
  {[Still EXCEPT !.remote = {}, !.asked = {"on"}, !.flips = 1, !.faults = 1, !.close = FALSE],
   [Still EXCEPT !.remote = {}, !.asked = {"on", "off"}, !.flips = 1, !.agentFaults = 1],
   [Still EXCEPT !.remote = {}, !.asked = {"on"}, !.faults = 1, !.agentFaults = 1, !.close = FALSE]}

\* A connection, while its forward is stopped in one of the ways there are.
RelayScenarios ==
  {[Still EXCEPT !.accepts = TRUE, !.up = 1, !.down = 1],
   [Still EXCEPT !.accepts = TRUE, !.down = 2],
   [Still EXCEPT !.accepts = TRUE, !.up = 1, !.leaves = TRUE, !.close = FALSE]}

MCScenarios == PortScenarios \cup AgentScenarios \cup RelayScenarios
===============================================================================
