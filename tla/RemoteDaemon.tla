------------------------------ MODULE RemoteDaemon ------------------------------
(***************************************************************************)
(* One remoteDaemon (pkg/remote_daemon.go): the local daemon's handle on a  *)
(* host.  Initialize sets up transport and remote graftd once; the manager's *)
(* health check starts Reconnect goroutines; Close or Destroy may come at    *)
(* any time.  The goroutines share the struct (mu), the install steps        *)
(* (installMu) and the connector's transport, which nothing protects from    *)
(* concurrent initialization and closing.                                    *)
(***************************************************************************)
EXTENDS Naturals, FiniteSets

CONSTANTS
  Reconnectors,  \* goroutines running Reconnect
  Initializer,   \* the caller that does the work, in doInitialize
  Conns,         \* gRPC connections to the remote graftd
  None,
  Ends,          \* what may end the daemon: "destroy", "shutdown", "supersede"
  Prompt,        \* a call on a connection closed here fails, and a goroutine started here runs,
                 \*   before a dial to the host completes
  MaxFaults      \* bound: failures of the host, of the remote graftd or of a single call

ASSUME DaemonAssumption ==
  /\ Initializer \notin Reconnectors
  /\ None \notin Conns
  /\ Ends \subseteq {"destroy", "shutdown", "supersede"}
  /\ Prompt \in BOOLEAN
  /\ MaxFaults \in Nat

Actors == Reconnectors \cup {Initializer}
Kinds == {"commands", "ports"}

VARIABLES
  d,        \* the struct: state, closed, reconnecting, conn (remoteConn), init (initDone), initErr,
            \*   installed (reinstalledOnce), discovery
  pc,       \* where each actor is
  mine,     \* the connection each actor holds in ensureDaemon or teardownForReconnect
  lock,     \* installMu
  client,   \* the connector's transport: "none", "live" or "broken"
  conns,    \* "closed", "live" or "broken"
  mon,      \* the monitors: cancel # nil, goroutines running, canceled ones not gone yet
  host,     \* network up, and the graftd running there: "down", "ours" or "other" version
  checker,  \* checkDaemon
  closer,   \* Close or Destroy
  running,  \* mgr.runCtx is not canceled
  faults    \* how often something failed

vars == <<d, pc, mine, lock, client, conns, mon, host, checker, closer, running, faults>>

Init ==
  /\ d = [state |-> "New", closed |-> FALSE, reconnecting |-> FALSE, conn |-> None, init |-> "none",
          initErr |-> "ok", installed |-> FALSE, discovery |-> "none"]
  /\ pc = [a \in Actors |-> "idle"]
  /\ mine = [a \in Actors |-> None]
  /\ lock = None
  /\ client = "none"
  /\ conns = [c \in Conns |-> "closed"]
  /\ mon = [k \in Kinds |-> [cancel |-> FALSE, active |-> 0, stopping |-> FALSE]]
  /\ host \in [up : BOOLEAN, daemon : {"down", "ours", "other"}]
  /\ checker = [pc |-> "idle", conn |-> None]
  /\ closer = [pc |-> "idle", conn |-> None, destroy |-> FALSE]
  /\ running = TRUE
  /\ faults = 0

-----------------------------------------------------------------------------
(* The connector.                                                            *)

Usable == host.up /\ client = "live"

\* A call over the transport fails because it must, or for a reason of its own.
Fails ==
  \/ ~Usable /\ UNCHANGED faults
  \/ faults < MaxFaults /\ faults' = faults + 1

Broken(cs) == [c \in Conns |-> IF cs[c] = "live" THEN "broken" ELSE cs[c]]

Works(c) == IF c = None THEN FALSE ELSE conns[c] = "live"

Closed(cs, c) == IF c = None THEN cs ELSE [cs EXCEPT ![c] = "closed"]

\* connector.Close and DeinitializeRemote.
CloseClient(cs) == client' = "none" /\ conns' = Broken(cs)

\* A connection nobody refers to any more.
Fresh == CHOOSE c \in Conns :
  /\ conns[c] = "closed"
  /\ c \notin {d.conn, checker.conn, closer.conn}
  /\ \A a \in Actors : c # mine[a]

HasFresh == \E c \in Conns :
  /\ conns[c] = "closed"
  /\ c \notin {d.conn, checker.conn, closer.conn}
  /\ \A a \in Actors : c # mine[a]

-----------------------------------------------------------------------------
(* ensureDaemon, run by the initializer and by reconnecting goroutines.       *)

\* Where an actor goes when ensureDaemon returns.
AfterEnsure(a) == IF a = Initializer THEN "connected" ELSE "reconnected"
AfterFailure(a) == IF a = Initializer THEN "failing" ELSE "retry"

\* Mutant: the error path leaves the candidate connection open.
FailEnsureLeaks(a) ==
  /\ conns' = conns
  /\ mine' = [mine EXCEPT ![a] = None]
  /\ lock' = None
  /\ pc' = [pc EXCEPT ![a] = AfterFailure(a)]

\* ensureDaemon returns an error; its deferred function closes the connection.
FailEnsure(a) ==
  /\ conns' = Closed(conns, mine[a])
  /\ mine' = [mine EXCEPT ![a] = None]
  /\ lock' = None
  /\ pc' = [pc EXCEPT ![a] = AfterFailure(a)]

\* installMu is taken and the host is discovered, or a cached result reused.
Discover(a) ==
  /\ pc[a] = "ensure"
  /\ lock = None
  /\ \/ /\ d.discovery = "ok" \/ (d.discovery = "none" /\ Usable)
        /\ d' = [d EXCEPT !.discovery = "ok"]
        /\ lock' = a
        /\ pc' = [pc EXCEPT ![a] = "try"]
        /\ UNCHANGED <<conns, mine, faults>>
     \/ /\ \/ d.discovery = "err" /\ UNCHANGED faults
           \/ d.discovery = "none" /\ Fails
        /\ d' = [d EXCEPT !.discovery = "err"]
        /\ FailEnsure(a)
  /\ UNCHANGED <<client, mon, host, checker, closer, running>>

\* tryConnectExistingDaemon: without an answer the install state is reset.
TryConnect(a) ==
  /\ pc[a] = "try"
  /\ \/ /\ Usable /\ host.daemon # "down" /\ HasFresh
        /\ conns' = [conns EXCEPT ![Fresh] = "live"]
        /\ mine' = [mine EXCEPT ![a] = Fresh]
        /\ pc' = [pc EXCEPT ![a] = "check"]
        /\ UNCHANGED <<d, faults>>
     \/ /\ (host.daemon = "down" /\ UNCHANGED faults) \/ Fails
        /\ d' = [d EXCEPT !.installed = FALSE]
        /\ pc' = [pc EXCEPT ![a] = "install"]
        /\ UNCHANGED <<conns, mine>>
  /\ UNCHANGED <<lock, client, mon, host, checker, closer, running>>

\* checkReinstallNeeded.
CheckReinstall(a) ==
  /\ pc[a] = "check"
  /\ \/ /\ Works(mine[a]) /\ host.daemon = "ours"
        /\ pc' = [pc EXCEPT ![a] = "set"]
        /\ UNCHANGED faults
     \/ /\ \/ ~Works(mine[a]) /\ UNCHANGED faults
           \/ host.daemon # "ours" /\ UNCHANGED faults
           \/ Fails
        /\ pc' = [pc EXCEPT ![a] = "install"]
  /\ UNCHANGED <<d, mine, lock, client, conns, mon, host, checker, closer, running>>

\* reinstallDaemon: once per lifecycle; the running graftd is shut down first,
\* the binary copied and a new one started.
Reinstall(a) ==
  /\ pc[a] = "install"
  /\ d' = [d EXCEPT !.installed = TRUE]
  /\ \/ /\ d.installed
        /\ pc' = [pc EXCEPT ![a] = "connect"]
        /\ UNCHANGED <<host, mine, lock, conns, faults>>
     \/ /\ ~d.installed /\ Usable
        /\ host' = [host EXCEPT !.daemon = "ours"]
        /\ pc' = [pc EXCEPT ![a] = "connect"]
        /\ UNCHANGED <<mine, lock, conns, faults>>
     \/ /\ ~d.installed /\ Fails
        /\ \/ UNCHANGED host
           \/ mine[a] # None /\ Usable /\ host' = [host EXCEPT !.daemon = "down"]
        /\ FailEnsure(a)
  /\ UNCHANGED <<client, mon, checker, closer, running>>

\* The candidate is dropped and a connection to the installed graftd made.
ConnectInstalled(a) ==
  /\ pc[a] = "connect"
  /\ \/ /\ Usable /\ host.daemon # "down" /\ HasFresh
        /\ conns' = [Closed(conns, mine[a]) EXCEPT ![Fresh] = "live"]
        /\ mine' = [mine EXCEPT ![a] = Fresh]
        /\ pc' = [pc EXCEPT ![a] = "set"]
        /\ UNCHANGED <<lock, faults>>
     \/ /\ (host.daemon = "down" /\ UNCHANGED faults) \/ Fails
        /\ FailEnsure(a)
  /\ UNCHANGED <<d, client, mon, host, checker, closer, running>>

\* setConnectedState.
SetConnected(a) ==
  /\ pc[a] = "set"
  /\ d' = [d EXCEPT !.conn = mine[a]]
  /\ mine' = [mine EXCEPT ![a] = None]
  /\ lock' = None
  /\ pc' = [pc EXCEPT ![a] = AfterEnsure(a)]
  /\ UNCHANGED <<client, conns, mon, host, checker, closer, running, faults>>

Ensure(a) ==
  Discover(a) \/ TryConnect(a) \/ CheckReinstall(a) \/ Reinstall(a) \/ ConnectInstalled(a) \/ SetConnected(a)

-----------------------------------------------------------------------------
(* InitializeRemote and the monitors.                                        *)

\* A transport is made; one the connector still had is forgotten, not closed.
OpenClient ==
  /\ host.up
  /\ client' = "live"

DialFails ==
  /\ \/ ~host.up /\ UNCHANGED faults
     \/ faults < MaxFaults /\ faults' = faults + 1
  /\ UNCHANGED client

\* monitor() and monitorPorts(): no-ops while a cancel function is set.  Under
\* a canceled runCtx the goroutines end at once.
StartMonitors ==
  mon' = [k \in Kinds |->
            IF mon[k].cancel THEN mon[k]
            ELSE IF running THEN [mon[k] EXCEPT !.cancel = TRUE, !.active = @ + 1]
            ELSE [mon[k] EXCEPT !.cancel = TRUE, !.stopping = TRUE]]

\* The cancel function of a monitor was called.
Canceled(m, cancel) == [cancel |-> cancel, active |-> 0, stopping |-> m.stopping \/ m.active > 0]

\* A canceled goroutine ends; command discovery also ends when its stream fails,
\* port watching when it finds its connection or the daemon closed.
MonitorEnds(k) ==
  /\ \/ mon[k].stopping /\ mon' = [mon EXCEPT ![k].stopping = FALSE]
     \/ /\ mon[k].active > 0
        /\ ~Works(d.conn)
        /\ k = "commands" \/ d.closed \/ (IF d.conn = None THEN TRUE ELSE conns[d.conn] = "closed")
        /\ mon' = [mon EXCEPT ![k].active = @ - 1]
  /\ UNCHANGED <<d, pc, mine, lock, client, conns, host, checker, closer, running, faults>>

-----------------------------------------------------------------------------
(* Initialize.                                                               *)

\* The first caller starts the work; a caller that comes later gets the stored
\* result, whatever the state has become since.
InitializeFirst ==
  /\ d.init = "none"
  /\ d.state = "New"
  /\ d' = [d EXCEPT !.state = "Initializing", !.init = "running"]
  /\ pc' = [pc EXCEPT ![Initializer] = "dial"]
  /\ UNCHANGED <<mine, lock, client, conns, mon, host, checker, closer, running, faults>>

\* doInitialize: connector.InitializeRemote.
InitTransport ==
  /\ pc[Initializer] = "dial"
  /\ \/ OpenClient /\ pc' = [pc EXCEPT ![Initializer] = "after"] /\ UNCHANGED faults
     \/ DialFails /\ pc' = [pc EXCEPT ![Initializer] = "failing"]
  /\ UNCHANGED <<d, mine, lock, conns, mon, host, checker, closer, running>>

\* afterTransport re-keys the daemon, or finds that another one serves the
\* resolved destination; reassignDaemon then closes the connector.
InitAfterTransport ==
  /\ pc[Initializer] = "after"
  /\ \/ pc' = [pc EXCEPT ![Initializer] = "ensure"] /\ UNCHANGED <<d, client, conns>>
     \/ /\ "supersede" \in Ends
        /\ pc' = [pc EXCEPT ![Initializer] = "done"]
        /\ d' = [d EXCEPT !.init = "done", !.initErr = "superseded"]
        /\ CloseClient(conns)
  /\ UNCHANGED <<mine, lock, mon, host, checker, closer, running, faults>>

\* setState(Failed), then DeinitializeRemote, then the result is published.
InitFailed ==
  /\ pc[Initializer] = "failing"
  /\ d' = [d EXCEPT !.state = "Failed"]
  /\ pc' = [pc EXCEPT ![Initializer] = "deinit"]
  /\ UNCHANGED <<mine, lock, client, conns, mon, host, checker, closer, running, faults>>

InitDeinit ==
  /\ pc[Initializer] = "deinit"
  /\ CloseClient(conns)
  /\ d' = [d EXCEPT !.init = "done", !.initErr = "err"]
  /\ pc' = [pc EXCEPT ![Initializer] = "done"]
  /\ UNCHANGED <<mine, lock, mon, host, checker, closer, running, faults>>

\* setState(Connected), then the monitors start and the result is published.
InitConnected ==
  /\ pc[Initializer] = "connected"
  /\ d' = [d EXCEPT !.state = "Connected"]
  /\ pc' = [pc EXCEPT ![Initializer] = "monitor"]
  /\ UNCHANGED <<mine, lock, client, conns, mon, host, checker, closer, running, faults>>

InitMonitor ==
  /\ pc[Initializer] = "monitor"
  /\ StartMonitors
  /\ d' = [d EXCEPT !.init = "done"]
  /\ pc' = [pc EXCEPT ![Initializer] = "done"]
  /\ UNCHANGED <<mine, lock, client, conns, host, checker, closer, running, faults>>

InitStep ==
  \/ InitTransport \/ InitAfterTransport \/ InitFailed \/ InitDeinit \/ InitConnected \/ InitMonitor
  \/ Ensure(Initializer)

-----------------------------------------------------------------------------
(* The health check and Reconnect.                                           *)

Spawn == \E r \in Reconnectors : pc[r] = "idle" /\ pc' = [pc EXCEPT ![r] = "spawned"]

\* checkDaemon, once a second: a failed daemon is reconnected, a connected one
\* asked for its status.
CheckDaemon ==
  /\ running
  /\ checker.pc = "idle"
  /\ \/ d.state = "Failed" /\ Spawn /\ UNCHANGED checker
     \/ /\ d.state = "Connected" /\ d.conn # None
        /\ checker' = [pc |-> "status", conn |-> d.conn]
        /\ UNCHANGED pc
  /\ UNCHANGED <<d, mine, lock, client, conns, mon, host, closer, running, faults>>

\* The answer: without one a Reconnect is started.
StatusAnswered ==
  /\ checker.pc = "status"
  /\ checker' = [pc |-> "idle", conn |-> None]
  /\ \/ Works(checker.conn) /\ host.daemon # "down" /\ UNCHANGED <<pc, faults>>
     \/ /\ \/ ~Works(checker.conn) /\ UNCHANGED faults
           \/ host.daemon = "down" /\ UNCHANGED faults
           \/ faults < MaxFaults /\ faults' = faults + 1
        /\ Spawn
  /\ UNCHANGED <<d, mine, lock, client, conns, mon, host, closer, running>>

\* Mutant: nobody looks whether a reconnect is under way.
MayReconnectAny == ~d.closed

\* Reconnect has something to do.
MayReconnect == ~d.closed /\ ~d.reconnecting

ReconnectBegin(r) ==
  /\ pc[r] = "spawned"
  /\ IF MayReconnect
     THEN /\ d' = [d EXCEPT !.reconnecting = TRUE, !.state = "Reconnecting"]
          /\ pc' = [pc EXCEPT ![r] = "teardown"]
     ELSE pc' = [pc EXCEPT ![r] = "idle"] /\ UNCHANGED d
  /\ UNCHANGED <<mine, lock, client, conns, mon, host, checker, closer, running, faults>>

\* teardownForReconnect, under mu: cancel the monitors, take the connection.
Teardown(r) ==
  /\ pc[r] = "teardown"
  /\ mon' = [k \in Kinds |-> IF mon[k].cancel THEN Canceled(mon[k], FALSE) ELSE mon[k]]
  /\ mine' = [mine EXCEPT ![r] = d.conn]
  /\ d' = [d EXCEPT !.conn = None]
  /\ pc' = [pc EXCEPT ![r] = "hangup"]
  /\ UNCHANGED <<lock, client, conns, host, checker, closer, running, faults>>

\* Then, unlocked, close the connection and the transport.
Hangup(r) ==
  /\ pc[r] = "hangup"
  /\ CloseClient(Closed(conns, mine[r]))
  /\ mine' = [mine EXCEPT ![r] = None]
  /\ pc' = [pc EXCEPT ![r] = "dial"]
  /\ UNCHANGED <<d, lock, mon, host, checker, closer, running, faults>>

\* Mutant: what was discovered, an error included, survives the attempt.
DiscoveryKept == d.discovery

\* resetDiscovery.
DiscoveryReset == "none"

Overtaken == (checker.pc = "status" /\ ~Works(checker.conn)) \/ \E r \in Reconnectors : pc[r] = "spawned"

\* reconnectOnce.
ReconnectTransport(r) ==
  /\ pc[r] = "dial"
  /\ Prompt => ~Overtaken
  /\ \/ /\ OpenClient
        /\ d' = [d EXCEPT !.discovery = DiscoveryReset]
        /\ pc' = [pc EXCEPT ![r] = "ensure"]
        /\ UNCHANGED faults
     \/ DialFails /\ pc' = [pc EXCEPT ![r] = "retry"] /\ UNCHANGED d
  /\ UNCHANGED <<mine, lock, conns, mon, host, checker, closer, running>>

\* The attempt succeeded: connected, unless the daemon was closed meanwhile.
Reconnected(r) ==
  /\ pc[r] = "reconnected"
  /\ d' = [d EXCEPT !.reconnecting = FALSE, !.state = IF d.closed THEN @ ELSE "Connected"]
  /\ pc' = [pc EXCEPT ![r] = IF d.closed THEN "idle" ELSE "monitor"]
  /\ UNCHANGED <<mine, lock, client, conns, mon, host, checker, closer, running, faults>>

ReconnectMonitor(r) ==
  /\ pc[r] = "monitor"
  /\ StartMonitors
  /\ pc' = [pc EXCEPT ![r] = "idle"]
  /\ UNCHANGED <<d, mine, lock, client, conns, host, checker, closer, running, faults>>

\* It failed: give up when closed or shutting down, else back off and retry.
Retry(r) ==
  /\ pc[r] = "retry"
  /\ \/ /\ d.closed \/ ~running
        /\ d' = [d EXCEPT !.reconnecting = FALSE]
        /\ pc' = [pc EXCEPT ![r] = "idle"]
     \/ ~d.closed /\ running /\ pc' = [pc EXCEPT ![r] = "dial"] /\ UNCHANGED d
  /\ UNCHANGED <<mine, lock, client, conns, mon, host, checker, closer, running, faults>>

ReconnectStep(r) ==
  \/ ReconnectBegin(r) \/ Teardown(r) \/ Hangup(r) \/ ReconnectTransport(r) \/ Ensure(r)
  \/ Reconnected(r) \/ ReconnectMonitor(r) \/ Retry(r)

-----------------------------------------------------------------------------
(* Close and Destroy.                                                        *)

\* The manager cancels runCtx when it shuts down.
Shutdown ==
  /\ "shutdown" \in Ends
  /\ running
  /\ running' = FALSE
  /\ mon' = [k \in Kinds |-> Canceled(mon[k], mon[k].cancel)]
  /\ UNCHANGED <<d, pc, mine, lock, client, conns, host, checker, closer, faults>>

\* Close, under mu: cancel everything.
CloseBegin ==
  /\ closer.pc = "idle"
  /\ d.initErr # "superseded"
  /\ \/ "destroy" \in Ends /\ running
     \/ ~running
  /\ d' = [d EXCEPT !.closed = TRUE, !.state = "Closed"]
  /\ mon' = [k \in Kinds |-> IF mon[k].cancel THEN Canceled(mon[k], TRUE) ELSE mon[k]]
  /\ closer' = [pc |-> "hangup", conn |-> d.conn, destroy |-> running]
  /\ UNCHANGED <<pc, mine, lock, client, conns, host, checker, running, faults>>

\* Close the connection and the transport it found, ...
CloseHangup ==
  /\ closer.pc = "hangup"
  /\ CloseClient(Closed(conns, closer.conn))
  /\ closer' = [closer EXCEPT !.pc = "wait", !.conn = None]
  /\ UNCHANGED <<d, pc, mine, lock, mon, host, checker, running, faults>>

\* ... wait for the workers and, in Destroy, deinitialize the remote.
CloseWait ==
  /\ closer.pc = "wait"
  /\ \A k \in Kinds : mon[k].active = 0 /\ ~mon[k].stopping
  /\ IF closer.destroy THEN CloseClient(conns) ELSE UNCHANGED <<client, conns>>
  /\ closer' = [closer EXCEPT !.pc = "done"]
  /\ UNCHANGED <<d, pc, mine, lock, mon, host, checker, running, faults>>

-----------------------------------------------------------------------------
(* The host.                                                                 *)

HostDown ==
  /\ host.up /\ faults < MaxFaults
  /\ faults' = faults + 1
  /\ host' = [host EXCEPT !.up = FALSE]
  /\ client' = IF client = "live" THEN "broken" ELSE client
  /\ conns' = Broken(conns)
  /\ UNCHANGED <<d, pc, mine, lock, mon, checker, closer, running>>

HostUp ==
  /\ ~host.up
  /\ host' = [host EXCEPT !.up = TRUE]
  /\ UNCHANGED <<d, pc, mine, lock, client, conns, mon, checker, closer, running, faults>>

\* The remote graftd exits, or one of another version takes its place.
RemoteChanges ==
  /\ faults < MaxFaults
  /\ faults' = faults + 1
  /\ \E v \in {"down", "other"} : host' = [host EXCEPT !.daemon = v]
  /\ conns' = Broken(conns)
  /\ UNCHANGED <<d, pc, mine, lock, client, mon, checker, closer, running>>

Next ==
  \/ InitializeFirst \/ InitStep
  \/ CheckDaemon \/ StatusAnswered
  \/ \E r \in Reconnectors : ReconnectStep(r)
  \/ \E k \in Kinds : MonitorEnds(k)
  \/ Shutdown \/ CloseBegin \/ CloseHangup \/ CloseWait
  \/ HostDown \/ HostUp \/ RemoteChanges

Spec == Init /\ [][Next]_vars

\* Goroutines are scheduled, the health check ticks, and a host that went away
\* comes back.
FairSpec ==
  /\ Spec
  /\ WF_vars(InitStep)
  /\ \A r \in Reconnectors : WF_vars(ReconnectStep(r))
  /\ \A k \in Kinds : WF_vars(MonitorEnds(k))
  /\ WF_vars(CheckDaemon) /\ WF_vars(StatusAnswered)
  /\ WF_vars(CloseHangup) /\ WF_vars(CloseWait)
  /\ WF_vars(HostUp)

-----------------------------------------------------------------------------
States == {"New", "Initializing", "Connected", "Failed", "Closed", "Reconnecting"}

DaemonType == [state : States, closed : BOOLEAN, reconnecting : BOOLEAN, conn : Conns \cup {None},
               init : {"none", "running", "done"}, initErr : {"ok", "err", "superseded"},
               installed : BOOLEAN, discovery : {"none", "ok", "err"}]
Places == {"idle", "dial", "after", "ensure", "try", "check", "install", "connect", "set", "connected",
           "reconnected", "monitor", "failing", "deinit", "done", "spawned", "teardown", "hangup", "retry"}
MonitorType == [cancel : BOOLEAN, active : Nat, stopping : BOOLEAN]
HostType == [up : BOOLEAN, daemon : {"down", "ours", "other"}]
CloserType == [pc : {"idle", "hangup", "wait", "done"}, conn : Conns \cup {None}, destroy : BOOLEAN]

\* Every variable has its type.
TypeOK ==
  /\ d \in DaemonType
  /\ pc \in [Actors -> Places]
  /\ mine \in [Actors -> Conns \cup {None}]
  /\ lock \in Actors \cup {None}
  /\ client \in {"none", "live", "broken"}
  /\ conns \in [Conns -> {"closed", "live", "broken"}]
  /\ mon \in [Kinds -> MonitorType]
  /\ host \in HostType
  /\ checker \in [pc : {"idle", "status"}, conn : Conns \cup {None}]
  /\ closer \in CloserType
  /\ running \in BOOLEAN
  /\ faults \in 0..MaxFaults

Reconnecting(r) == pc[r] \notin {"idle", "spawned", "monitor"}

\* However many health checks fail, one goroutine at a time reconnects, and
\* d.reconnecting says so.
OneReconnect ==
  /\ \A r, s \in Reconnectors : Reconnecting(r) /\ Reconnecting(s) => r = s
  /\ d.reconnecting <=> \E r \in Reconnectors : Reconnecting(r)

\* A daemon never runs two monitors of a kind, and one that runs can be
\* canceled (monitor, monitorPorts, teardownForReconnect, Close).
OneMonitor ==
  \A k \in Kinds : mon[k].active <= 1 /\ (mon[k].active = 1 => mon[k].cancel)

\* Whatever starts Reconnect, and whenever the daemon is torn down or closed:
\* nothing of a daemon runs twice (Reconnect, doInitialize, monitor).
NoDoubles == OneReconnect /\ OneMonitor

\* A daemon that says Connected has a connection for the commands it is asked
\* to run (remoteServiceClient).
ConnectedBacked == d.state = "Connected" => d.conn # None

\* No gRPC connection is left open with nobody to close it: each is the
\* daemon's, or held by a goroutine that will hand it over or close it
\* (ensureDaemon, teardownForReconnect, Close).
NoStrandedConn ==
  \A c \in Conns : conns[c] # "closed" => c \in {d.conn, closer.conn} \cup {mine[a] : a \in Actors}

\* The daemon is not wanted any more: closed, the server stopping, or another
\* daemon used in its place.
Retired == d.closed \/ ~running \/ d.initErr = "superseded"

\* Whatever failed before, a daemon whose host stays reachable and that is not
\* closed ends up, and stays, connected over a working connection ("retries
\* with exponential backoff"; Reconnect, checkDaemon).
Recovers == [](d.init # "none" => <>[](Retired \/ (d.state = "Connected" /\ Works(d.conn))))
===============================================================================
