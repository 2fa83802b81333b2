------------------------------- MODULE Forwards -------------------------------
(***************************************************************************)
(* Everything a remoteDaemon forwards, together: the port forwards, a TCP     *)
(* connection that one of them relays, and the agent forwards.  A reconnect   *)
(* and Close act on all of them; Close ends with activeWorkers.Wait.          *)
(***************************************************************************)
EXTENDS AgentForwards, Relay

CONSTANT Scenarios    \* bounds and initial conditions, see Init

vars == <<portVars, carrier, agentVars, relayVars>>

\* A listener hands a connection to the relay, which may be after its context
\* was canceled.
ForwardAccepts ==
  /\ moves.accepts
  /\ \E f \in Fwds :
       /\ fwd[f].listening
       /\ Accept(current # None /\ fwd[f].relays)
       /\ carrier' = f
  /\ UNCHANGED <<portVars, agentVars>>

ForwardCancels ==
  /\ carrier # None
  /\ ~fwd[carrier].relays
  /\ CancelRelay
  /\ UNCHANGED <<portVars, carrier, agentVars>>

\* A scenario gives the bounds of each part and what is there at the start.
Init ==
  \E s \in Scenarios :
    /\ remote = s.remote
    /\ moves = [requests |-> s.requests, changes |-> s.changes, faults |-> s.faults,
                close |-> s.close, accepts |-> s.accepts]
    /\ left = [flips |-> s.flips, faults |-> s.agentFaults]
    /\ limit = [up |-> s.up, down |-> s.down, leaves |-> s.leaves]
    /\ asked \in [Conns -> s.asked]
    /\ PortInit /\ AgentInit /\ RelayInit

PortStep == PortDaemon /\ UNCHANGED <<carrier, agentVars, relayVars>>
AgentStep == AgentDaemon /\ UNCHANGED <<portVars, carrier, relayVars>>
RoundStep == RoundReads /\ UNCHANGED <<carrier, relayVars>>
RelayStep == RelaySteps /\ UNCHANGED <<portVars, carrier, agentVars>>
ReadStep == ProgramsRead /\ UNCHANGED <<portVars, carrier, agentVars>>

World ==
  \/ PortWorld /\ UNCHANGED <<carrier, agentVars, relayVars>>
  \/ AgentWorld /\ UNCHANGED <<portVars, carrier, relayVars>>
  \/ ProgramsAct /\ UNCHANGED <<portVars, carrier, agentVars>>
  \/ ForwardAccepts
  \/ Teardown /\ AgentTeardown /\ UNCHANGED <<carrier, relayVars>>
  \/ Close /\ AgentClose /\ UNCHANGED <<carrier, relayVars>>

Next == PortStep \/ AgentStep \/ RoundStep \/ RelayStep \/ ReadStep \/ ForwardCancels \/ World

\* The daemon's goroutines run, and the programs read what they are sent; what
\* users, the network and the programs do besides is up to them.
Fairness ==
  /\ WF_vars(PortStep) /\ WF_vars(AgentStep) /\ WF_vars(RoundStep)
  /\ WF_vars(RelayStep) /\ WF_vars(ReadStep) /\ WF_vars(ForwardCancels)

Spec == Init /\ [][Next]_vars /\ Fairness

-----------------------------------------------------------------------------
(* Properties.                                                               *)

TypeOK == PortTypeOK /\ AgentTypeOK /\ RelayTypeOK

\* What activeWorkers still counts.
Drained ==
  /\ \A w \in Watchers : watch[w].pc = "idle"
  /\ \A f \in Fwds : Working(fwd[f]) => fwd[f].key \in raced
  /\ \A i \in Workers : worker[i].pc = "idle"
  /\ localMain \in {"idle", "done"} \/ fwd[carrier].key \in raced

\* Close returns: after it has canceled what it knows of, every watch, forward,
\* relay and agent worker comes to its end, whatever was being started
\* meanwhile (remote_daemon.go:1884): nothing is left waiting for a step that
\* no goroutine will take.  A listener that two goroutines raced for is the
\* exception: Close then waits until the server stops.
CloseReturns ==
  closed /\ ~ENABLED (PortStep \/ AgentStep \/ RelayStep \/ ReadStep \/ ForwardCancels) => Drained

\* Agent forwards that come to rest on a connected daemon serve every
\* connection that asks for it (see SocketIsLive), whatever failed before.
AgentSettles ==
  ~closed /\ current # None /\ ~ENABLED (AgentStep \/ RoundStep) => AgentQuiet

\* No listener is left that nobody can stop, before or after Close
\* (remote_daemon.go:291, :1422).
Stoppable == TypeOK /\ NoneStranded /\ ClosedLeavesNothing

\* Where everything has settled, ports and agents are forwarded as asked, each
\* by one worker over the live connection (remote_daemon.go:1026, :1303).
SettlesServed == Mirrored /\ SlotOwned /\ SocketIsLive /\ AgentSettles

\* A forward in use ends on purpose only: neither detection nor a worker of an
\* older forward ends it (remote_daemon.go:222, :1126).
EndsOnPurpose == ExplicitSurvives /\ OnlyOwnEnds

\* Both directions of a relayed connection are wires.
RelayIsWire == UpIsWire /\ DownIsWire

\* What waits for a relay to end does not wait for ever: the server program
\* for the end of the request, the relay's goroutines for each other, and
\* Close for all of them (server_grpc_port_forward.go:149, :245).
AllEnd == RequestEndReaches /\ RelayEnds /\ CloseReturns

\* And all of it does come to rest: no goroutine retries or restarts something
\* for ever, except that until the daemon is closed the watch and the
\* reconcile rounds try forwards in conflict again.
ComesToRest == <>[][World \/ ((PortStep \/ RoundStep) /\ ~closed)]_vars
===============================================================================
