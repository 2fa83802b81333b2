---------------------------- MODULE AgentForwards -----------------------------
(***************************************************************************)
(* SSH agent forwarding: the slots of a remoteDaemon, one for each           *)
(* connection name, the workers that hold them, and on the remote the        *)
(* handlers with the listeners they register in sshAuthSockPaths.            *)
(*                                                                          *)
(* A worker's name here is its generation; it is used again only when both    *)
(* the worker and the handler of its stream are gone.                        *)
(***************************************************************************)
EXTENDS PortForwards

CONSTANTS
  Conns,      \* names of connections that share the daemon
  Workers     \* generations

VARIABLES
  slot,       \* d.agentForwards: the generation that holds a connection's slot
  worker,     \* the goroutines of startAgentForward
  handler,    \* the remote's handlers of ForwardSSHAgent
  sock,       \* srv.sshAuthSockPaths on the remote: whose socket commands get
  asked,      \* ForwardAgent in the configuration
  copied,     \* what the reconcile round has read of it, and not applied yet
  left        \* bounds: how many requests and failures are left

agentVars == <<slot, worker, handler, sock, asked, copied, left>>

\* on: the worker's context.  torn: its stream broke although that is not
\* canceled.
IdleWorker == [pc |-> "idle", conn |-> None, on |-> FALSE, torn |-> FALSE]
IdleHandler == [pc |-> "none", conn |-> None, open |-> FALSE]

StreamDone(i) == ~worker[i].on \/ worker[i].torn

-----------------------------------------------------------------------------
(* Slots.                                                                    *)

UnusedGens == {i \in Workers : worker[i].pc = "idle" /\ handler[i].pc = "none"}

\* startAgentForward with tryBeginAgentForward.
StartAgentForward(c) ==
  /\ ~closed
  /\ slot[c] = None
  /\ UnusedGens # {}
  /\ LET i == CHOOSE x \in UnusedGens : TRUE
     IN /\ slot' = [slot EXCEPT ![c] = i]
        /\ worker' = [worker EXCEPT ![i] =
                        [IdleWorker EXCEPT !.pc = "begin", !.conn = c, !.on = TRUE]]

\* stopAgentForward with endAgentForward.
StopAgentForward(c) ==
  /\ slot[c] # None
  /\ slot' = [slot EXCEPT ![c] = None]
  /\ worker' = [worker EXCEPT ![slot[c]].on = FALSE]

\* reconcileAgentForward, for what the round has read.
RoundAgent(c) ==
  /\ ~closed /\ current # None
  /\ \/ copied[c] = "on" /\ StartAgentForward(c)
     \/ copied[c] = "off" /\ StopAgentForward(c)
  /\ copied' = [copied EXCEPT ![c] = "applied"]
  /\ UNCHANGED <<handler, sock, asked, left>>

\* reconcileConnections copies the configuration, the ports in it as well,
\* under serverMu.
RoundReads ==
  /\ adder["request"].pc = "idle" /\ adder["round"].pc = "idle"
  /\ pending # config \/ copied # asked
  /\ pending' = config /\ copied' = asked
  /\ UNCHANGED <<closed, explicit, table, fwd, current, watch, adder, config, remote, busy,
                 raced, lapsed, moves, slot, worker, handler, sock, asked, left>>

SetForwardAgent(c) ==
  /\ left.flips > 0
  /\ left' = [left EXCEPT !.flips = @ - 1]
  /\ asked' = [asked EXCEPT ![c] = IF @ = "on" THEN "off" ELSE "on"]
  /\ UNCHANGED <<slot, worker, handler, sock, copied>>

\* Mutant: a worker that ends clears its connection's slot whoever holds it.
EndAnyGen(i) ==
  LET c == worker[i].conn
      s == slot[c]
  IN /\ slot' = [slot EXCEPT ![c] = None]
     /\ worker' = [x \in Workers |-> IF x = i THEN IdleWorker
                                     ELSE IF x = s THEN [worker[x] EXCEPT !.on = FALSE]
                                     ELSE worker[x]]

\* endAgentForwardGen.
EndAgentForwardGen(i) ==
  LET c == worker[i].conn
  IN /\ slot' = IF slot[c] = i THEN [slot EXCEPT ![c] = None] ELSE slot
     /\ worker' = [worker EXCEPT ![i] = IdleWorker]

-----------------------------------------------------------------------------
(* A worker: ForwardSSHAgent, the backoff after a failure, the release.      *)

\* lockedRemoteClientConn, the stream and its first message.
WorkerOpens(i) ==
  /\ worker[i].pc = "begin"
  /\ IF current = None
     THEN /\ worker' = [worker EXCEPT ![i].pc = "failed"]
          /\ UNCHANGED handler
     ELSE IF ~worker[i].on
     THEN /\ worker' = [worker EXCEPT ![i].pc = "end"]
          /\ UNCHANGED handler
     ELSE /\ worker' = [worker EXCEPT ![i].pc = "dial"]
          /\ handler' = [handler EXCEPT ![i] = [IdleHandler EXCEPT !.pc = "sent", !.conn = worker[i].conn]]
  /\ UNCHANGED <<slot, sock, asked, copied, left>>

\* SSH_AUTH_SOCK is dialed, and answers or not.
WorkerDials(i) ==
  /\ worker[i].pc = "dial"
  /\ \/ worker' = [worker EXCEPT ![i].pc = "serve"] /\ UNCHANGED left
     \/ /\ left.faults > 0
        /\ left' = [left EXCEPT !.faults = @ - 1]
        /\ worker' = [worker EXCEPT ![i].pc = "failed"]
  /\ UNCHANGED <<slot, handler, sock, asked, copied>>

\* ServeAgent returns: the context was canceled, or the handler has returned,
\* or the stream broke.
WorkerStops(i) ==
  /\ worker[i].pc = "serve"
  /\ \/ ~worker[i].on /\ worker' = [worker EXCEPT ![i].pc = "end"]
     \/ handler[i].pc = "none" /\ worker' = [worker EXCEPT ![i].pc = "failed"]
  /\ UNCHANGED <<slot, handler, sock, asked, copied, left>>

StreamBreaks(i) ==
  /\ left.faults > 0
  /\ worker[i].pc = "serve"
  /\ left' = [left EXCEPT !.faults = @ - 1]
  /\ worker' = [worker EXCEPT ![i].pc = "failed", ![i].torn = TRUE]
  /\ UNCHANGED <<slot, handler, sock, asked, copied>>

\* holdAgentForwardBackoff: the worker waits with its slot held, unless its
\* context was canceled before.
HoldAgentForwardBackoff(i) ==
  /\ worker' = [worker EXCEPT ![i].pc = IF worker[i].on THEN "backoff" ELSE "end"]
  /\ UNCHANGED slot

WorkerFailed(i) ==
  /\ worker[i].pc = "failed"
  /\ HoldAgentForwardBackoff(i)
  /\ UNCHANGED <<handler, sock, asked, copied, left>>

\* The backoff is over, or the context canceled.
WorkerWaited(i) ==
  /\ worker[i].pc = "backoff"
  /\ worker' = [worker EXCEPT ![i].pc = "end"]
  /\ UNCHANGED <<slot, handler, sock, asked, copied, left>>

WorkerEnds(i) ==
  /\ worker[i].pc = "end"
  /\ EndAgentForwardGen(i)
  /\ UNCHANGED <<handler, sock, asked, copied, left>>

-----------------------------------------------------------------------------
(* The remote's handler of a stream.                                         *)

\* Mutant: a stream is refused while an older one has its socket registered.
RefuseSecond(i) ==
  /\ handler[i].pc = "sent"
  /\ IF sock[handler[i].conn] = None
     THEN /\ sock' = [sock EXCEPT ![handler[i].conn] = i]
          /\ handler' = [handler EXCEPT ![i].pc = "accept", ![i].open = TRUE]
     ELSE /\ handler' = [handler EXCEPT ![i] = IdleHandler]
          /\ UNCHANGED sock
  /\ UNCHANGED <<slot, worker, asked, copied, left>>

\* The handler receives the first message, which may be after the stream was
\* canceled, and registers its socket in the place of an older one.
HandlerRegisters(i) ==
  /\ handler[i].pc = "sent"
  /\ LET c == handler[i].conn
         old == sock[c]
     IN /\ sock' = [sock EXCEPT ![c] = i]
        /\ handler' = [x \in Workers |->
                         IF x = i THEN [handler[x] EXCEPT !.pc = "accept", !.open = TRUE]
                         ELSE IF x = old THEN [handler[x] EXCEPT !.open = FALSE]
                         ELSE handler[x]]
  /\ UNCHANGED <<slot, worker, asked, copied, left>>

\* The stream ended before the message was delivered.
HandlerNeverRuns(i) ==
  /\ handler[i].pc = "sent" /\ StreamDone(i)
  /\ handler' = [handler EXCEPT ![i] = IdleHandler]
  /\ UNCHANGED <<slot, worker, sock, asked, copied, left>>

\* The goroutine that waits for the stream's context closes the listener.
HandlerNotices(i) ==
  /\ handler[i].pc = "accept" /\ handler[i].open /\ StreamDone(i)
  /\ handler' = [handler EXCEPT ![i].open = FALSE]
  /\ UNCHANGED <<slot, worker, sock, asked, copied, left>>

\* Mutant: the handler removes the entry whosever it is.
RemoveEntry(i) == [sock EXCEPT ![handler[i].conn] = None]

\* The deferred cleanup: "Remove only our own entry".
RemoveOwnEntry(i) ==
  IF sock[handler[i].conn] = i THEN [sock EXCEPT ![handler[i].conn] = None] ELSE sock

\* Accept fails and the handler returns.
HandlerReturns(i) ==
  /\ handler[i].pc = "accept" /\ ~handler[i].open
  /\ sock' = RemoveOwnEntry(i)
  /\ handler' = [handler EXCEPT ![i] = IdleHandler]
  /\ UNCHANGED <<slot, worker, asked, copied, left>>

-----------------------------------------------------------------------------
(* Teardown.                                                                 *)

SlotsCanceled ==
  [i \in Workers |-> IF \E c \in Conns : slot[c] = i THEN [worker[i] EXCEPT !.on = FALSE]
                     ELSE worker[i]]

\* teardownForReconnect.
AgentTeardown ==
  /\ worker' = SlotsCanceled
  /\ slot' = [c \in Conns |-> None]
  /\ UNCHANGED <<handler, sock, asked, copied, left>>

\* Close leaves the slots to the workers.
AgentClose ==
  /\ worker' = SlotsCanceled
  /\ UNCHANGED <<slot, handler, sock, asked, copied, left>>

AgentInit ==
  /\ slot = [c \in Conns |-> None] /\ sock = [c \in Conns |-> None]
  /\ worker = [i \in Workers |-> IdleWorker]
  /\ handler = [i \in Workers |-> IdleHandler]
  /\ copied = [c \in Conns |-> "applied"]

AgentDaemon ==
  \/ \E c \in Conns : RoundAgent(c)
  \/ \E i \in Workers :
       \/ WorkerOpens(i) \/ WorkerDials(i) \/ WorkerStops(i)
       \/ WorkerFailed(i) \/ WorkerWaited(i) \/ WorkerEnds(i)
       \/ HandlerRegisters(i) \/ HandlerNeverRuns(i) \/ HandlerNotices(i) \/ HandlerReturns(i)

AgentWorld ==
  \/ \E c \in Conns : SetForwardAgent(c)
  \/ \E i \in Workers : StreamBreaks(i)

-----------------------------------------------------------------------------
(* Properties.                                                               *)

AgentTypeOK ==
  /\ slot \in [Conns -> Workers \cup {None}] /\ sock \in [Conns -> Workers \cup {None}]
  /\ worker \in [Workers -> [pc : {"idle", "begin", "dial", "serve", "failed", "backoff", "end"},
                             conn : Conns \cup {None}, on : BOOLEAN, torn : BOOLEAN]]
  /\ handler \in [Workers -> [pc : {"none", "sent", "accept"}, conn : Conns \cup {None},
                              open : BOOLEAN]]
  /\ asked \in [Conns -> {"on", "off"}] /\ copied \in [Conns -> {"on", "off", "applied"}]

\* A slot always has a worker that will release it, and a worker whose context
\* is live, one that waits after a failure included, holds its connection's
\* slot: reconcile rounds can neither start a second forward nor retry a
\* failed one without the backoff (remote_daemon.go:1026, :1079).
SlotOwned ==
  /\ \A c \in Conns : slot[c] # None => worker[slot[c]].pc # "idle" /\ worker[slot[c]].conn = c
  /\ \A i \in Workers : worker[i].on => slot[worker[i].conn] = i

\* "a slow worker whose forward was already stopped can't tear down a newer
\* forward registered for the same connName" (remote_daemon.go:1126): a
\* forward's context ends by its own worker, by a stop, or with the daemon's
\* connection.
OnlyOwnEnds ==
  [][\A i \in Workers :
       worker[i].on /\ ~worker'[i].on =>
         \/ worker[i].pc = "end"
         \/ copied[worker[i].conn] = "off"
         \/ current' = None \/ closed']_<<portVars, agentVars>>

\* Nothing of the agent forwarding moves by itself any more.
AgentQuiet ==
  /\ ~closed /\ current # None
  /\ \A c \in Conns : asked[c] = "on" <=> slot[c] # None
  /\ \A i \in Workers : worker[i].pc \in {"idle", "serve"} /\ handler[i].pc # "sent"
  /\ \A i \in Workers : handler[i].pc = "accept" => handler[i].open /\ ~StreamDone(i)
  /\ \A i \in Workers : worker[i].pc = "serve" => worker[i].on /\ handler[i].pc # "none"

\* Then the socket the remote gives to commands is that of the live forward,
\* and there is none for a connection without: a late registration or a late
\* cleanup of an old stream never leaves a dead socket behind
\* (server_grpc_connection.go:845, :858).
SocketIsLive ==
  AgentQuiet => \A c \in Conns :
    /\ sock[c] = slot[c]
    /\ slot[c] # None => worker[slot[c]].pc = "serve" /\ handler[slot[c]].open
===============================================================================
