-------------------------- MODULE RemoteDaemonProofs ---------------------------
(***************************************************************************)
(* Proofs about RemoteDaemon for any number of reconnecting goroutines,      *)
(* connections and faults.                                                   *)
(***************************************************************************)
EXTENDS RemoteDaemon, TLAPS

\* doInitialize has not published a state the health check acts on.
Early == pc[Initializer] \in {"idle", "dial", "after", "ensure", "try", "check", "install", "connect",
                              "set", "connected", "failing"}

\* Until then nobody reconnects; the two kinds of actors keep to their own
\* steps; a goroutine that reconnects took the Connected state away.
Control ==
  /\ \A r \in Reconnectors : pc[r] \notin {"after", "connected", "failing", "deinit", "done"}
  /\ pc[Initializer] \notin {"spawned", "teardown", "hangup", "retry", "reconnected"}
  /\ d.init = "none" => pc[Initializer] = "idle"
  /\ Early => /\ d.state \in {"New", "Initializing", "Closed"}
              /\ checker.pc = "idle"
              /\ \A r \in Reconnectors : pc[r] = "idle"
  /\ \A r \in Reconnectors : Reconnecting(r) => d.state # "Connected"

\* Who holds a connection when: ensureDaemon between its answer and
\* setConnectedState, teardownForReconnect until it closed it.
Holding ==
  /\ \A a \in Actors : pc[a] \in {"check", "set"} => mine[a] # None
  /\ \A a \in Actors : pc[a] \notin {"check", "install", "connect", "set", "hangup"} => mine[a] = None
  /\ Early /\ pc[Initializer] # "connected" => d.conn = None
  /\ pc[Initializer] = "connected" => d.conn # None
  /\ \A r \in Reconnectors :
       /\ Reconnecting(r) /\ pc[r] \notin {"teardown", "reconnected"} => d.conn = None
       /\ pc[r] = "reconnected" => d.conn # None
  /\ closer.pc # "hangup" => closer.conn = None

\* The conjunction that is inductive.
DaemonInv == TypeOK /\ OneReconnect /\ Control /\ Holding /\ ConnectedBacked /\ OneMonitor /\ NoStrandedConn

-----------------------------------------------------------------------------
\* A connection Fresh picks is one nobody holds (the bound on Conns recycles
\* closed connections only).
LEMMA FreshConn ==
  HasFresh => /\ Fresh \in Conns /\ conns[Fresh] = "closed"
              /\ Fresh \notin {d.conn, checker.conn, closer.conn}
              /\ \A a \in Actors : Fresh # mine[a]
  BY DEF HasFresh, Fresh

\* Closing a connection and breaking the live ones keep the function's type.
LEMMA ConnsType ==
  ASSUME NEW cs \in [Conns -> {"closed", "live", "broken"}], NEW c \in Conns \cup {None}
  PROVE  /\ Closed(cs, c) \in [Conns -> {"closed", "live", "broken"}]
         /\ Broken(cs) \in [Conns -> {"closed", "live", "broken"}]
         /\ Broken(Closed(cs, c)) \in [Conns -> {"closed", "live", "broken"}]
  BY DEF Closed, Broken

\* Breaking them alone does.
LEMMA BrokenType ==
  ASSUME conns \in [Conns -> {"closed", "live", "broken"}]
  PROVE  Broken(conns) \in [Conns -> {"closed", "live", "broken"}]
  BY DEF Broken

\* A failing call stays within the bound on faults.
LEMMA FailsType == TypeOK /\ Fails => faults' \in 0..MaxFaults
  BY DaemonAssumption DEF TypeOK, Fails

\* The struct stays a struct whichever field is assigned.
LEMMA DaemonFields ==
  ASSUME d \in DaemonType
  PROVE  /\ \A s \in States : [d EXCEPT !.state = s] \in DaemonType
         /\ \A c \in Conns \cup {None} : [d EXCEPT !.conn = c] \in DaemonType
         /\ \A x \in {"none", "ok", "err"} : [d EXCEPT !.discovery = x] \in DaemonType
         /\ \A b \in BOOLEAN : [d EXCEPT !.installed = b] \in DaemonType
         /\ \A b \in BOOLEAN : \A s \in States : [d EXCEPT !.reconnecting = b, !.state = s] \in DaemonType
         /\ [d EXCEPT !.reconnecting = FALSE] \in DaemonType
         /\ [d EXCEPT !.state = "Initializing", !.init = "running"] \in DaemonType
         /\ \A x \in {"ok", "err", "superseded"} : [d EXCEPT !.init = "done", !.initErr = x] \in DaemonType
         /\ [d EXCEPT !.init = "done"] \in DaemonType
         /\ [d EXCEPT !.closed = TRUE, !.state = "Closed"] \in DaemonType
  BY DEF DaemonType, States

\* A monitor stays one whichever field is assigned.
LEMMA MonitorFields ==
  ASSUME NEW m \in MonitorType
  PROVE  /\ m.active \in Nat /\ m.cancel \in BOOLEAN
         /\ \A n \in Nat : /\ [m EXCEPT !.active = n] \in MonitorType
                          /\ [m EXCEPT !.cancel = TRUE, !.active = n] \in MonitorType
         /\ [m EXCEPT !.cancel = TRUE, !.stopping = TRUE] \in MonitorType
         /\ [m EXCEPT !.stopping = FALSE] \in MonitorType
         /\ \A b \in BOOLEAN : Canceled(m, b) \in MonitorType
  BY DEF MonitorType, Canceled

\* Starting the monitors and canceling them keep their type.
LEMMA MonitorsType ==
  ASSUME mon \in [Kinds -> MonitorType]
  PROVE  /\ StartMonitors => (mon \in [Kinds -> MonitorType])'
         /\ \A k \in Kinds : \A b \in BOOLEAN : Canceled(mon[k], b) \in MonitorType
<1>1. \A k \in Kinds : /\ mon[k] \in MonitorType
                      /\ mon[k].active + 1 \in Nat
  <2> SUFFICES ASSUME NEW k \in Kinds PROVE mon[k] \in MonitorType /\ mon[k].active + 1 \in Nat
    OBVIOUS
  <2>1. mon[k] \in MonitorType
    OBVIOUS
  <2>2. mon[k].active \in Nat
    BY <2>1, MonitorFields
  <2> QED
    BY <2>1, <2>2
<1>2. ASSUME StartMonitors PROVE (mon \in [Kinds -> MonitorType])'
  <2>1. \A k \in Kinds : /\ [mon[k] EXCEPT !.cancel = TRUE, !.active = @ + 1] \in MonitorType
                        /\ [mon[k] EXCEPT !.cancel = TRUE, !.stopping = TRUE] \in MonitorType
    BY <1>1, MonitorFields
  <2> QED
    BY <1>1, <1>2, <2>1 DEF StartMonitors
<1> QED
  BY <1>1, <1>2, MonitorFields

\* ensureDaemon returning an error keeps the types of what it touches.
LEMMA FailEnsureType ==
  ASSUME TypeOK, NEW a \in Actors, FailEnsure(a)
  PROVE  (conns \in [Conns -> {"closed", "live", "broken"}])' /\ (mine \in [Actors -> Conns \cup {None}])'
         /\ lock' \in Actors \cup {None} /\ (pc \in [Actors -> Places])'
  BY ConnsType DEF TypeOK, FailEnsure, AfterFailure, Places

\* An ensureDaemon step, whoever takes it, keeps the types.
LEMMA EnsureType ==
  ASSUME TypeOK, NEW a \in Actors, Ensure(a)
  PROVE  TypeOK'
<1>1. CASE Discover(a)
  BY <1>1, FailEnsureType, FailsType, DaemonFields DEF Discover, TypeOK, Places
<1>2. CASE TryConnect(a)
  <2>1. CASE HasFresh /\ conns' = [conns EXCEPT ![Fresh] = "live"] /\ mine' = [mine EXCEPT ![a] = Fresh]
             /\ pc' = [pc EXCEPT ![a] = "check"] /\ UNCHANGED <<d, faults>>
    BY <1>2, <2>1, FreshConn DEF TryConnect, TypeOK, Places
  <2>2. CASE ((host.daemon = "down" /\ UNCHANGED faults) \/ Fails) /\ d' = [d EXCEPT !.installed = FALSE]
             /\ pc' = [pc EXCEPT ![a] = "install"] /\ UNCHANGED <<conns, mine>>
    BY <1>2, <2>2, FailsType, DaemonFields DEF TryConnect, TypeOK, Places
  <2> QED BY <1>2, <2>1, <2>2 DEF TryConnect
<1>3. CASE CheckReinstall(a)
  BY <1>3, FailsType DEF CheckReinstall, TypeOK, Places
<1>4. CASE Reinstall(a)
  <2>1. host' \in HostType
    BY <1>4 DEF Reinstall, TypeOK, HostType
  <2> QED
    BY <1>4, <2>1, FailEnsureType, FailsType, DaemonFields DEF Reinstall, TypeOK, Places
<1>5. CASE ConnectInstalled(a)
  <2>1. CASE conns' = [Closed(conns, mine[a]) EXCEPT ![Fresh] = "live"] /\ HasFresh
             /\ mine' = [mine EXCEPT ![a] = Fresh] /\ pc' = [pc EXCEPT ![a] = "set"] /\ UNCHANGED <<lock, faults>>
    <3>1. mine[a] \in Conns \cup {None} /\ conns \in [Conns -> {"closed", "live", "broken"}] BY DEF TypeOK
    <3>2. Closed(conns, mine[a]) \in [Conns -> {"closed", "live", "broken"}] BY <3>1, ConnsType
    <3> QED BY <1>5, <2>1, <3>2, FreshConn DEF ConnectInstalled, TypeOK, Places
  <2>2. CASE ((host.daemon = "down" /\ UNCHANGED faults) \/ Fails) /\ FailEnsure(a)
    BY <1>5, <2>2, FailEnsureType, FailsType DEF ConnectInstalled, TypeOK
  <2> QED BY <1>5, <2>1, <2>2 DEF ConnectInstalled
<1>6. CASE SetConnected(a)
  BY <1>6, DaemonFields DEF SetConnected, TypeOK, AfterEnsure, Places
<1> QED BY <1>1, <1>2, <1>3, <1>4, <1>5, <1>6 DEF Ensure

\* Every step keeps the types.
LEMMA TypeStep == TypeOK /\ [Next]_vars => TypeOK'
<1> SUFFICES ASSUME TypeOK, [Next]_vars PROVE TypeOK'
  OBVIOUS
<1> USE DaemonAssumption DEF Actors, Places, TypeOK
<1>1. CASE InitializeFirst
  BY <1>1, DaemonFields DEF InitializeFirst
<1>3. CASE InitTransport
  BY <1>3 DEF InitTransport, OpenClient, DialFails
<1>4. CASE InitAfterTransport
  BY <1>4, BrokenType, DaemonFields DEF InitAfterTransport, CloseClient
<1>5. CASE InitFailed
  BY <1>5, DaemonFields DEF InitFailed, States
<1>6. CASE InitDeinit
  BY <1>6, BrokenType, DaemonFields DEF InitDeinit, CloseClient
<1>7. CASE InitConnected
  BY <1>7, DaemonFields DEF InitConnected, States
<1>8. CASE InitMonitor
  BY <1>8, MonitorsType, DaemonFields DEF InitMonitor
<1>9. ASSUME NEW a \in Actors, Ensure(a) PROVE TypeOK'
  BY <1>9, EnsureType
<1>10. CASE CheckDaemon
  <2>1. d.conn \in Conns \cup {None}
    BY DEF DaemonType
  <2>2. pc' \in [Actors -> Places]
    BY <1>10 DEF CheckDaemon, Spawn
  <2>3. checker' \in [pc : {"idle", "status"}, conn : Conns \cup {None}]
    BY <1>10, <2>1 DEF CheckDaemon
  <2> QED
    BY <1>10, <2>2, <2>3 DEF CheckDaemon
<1>11. CASE StatusAnswered
  <2>1. pc' \in [Actors -> Places]
    BY <1>11 DEF StatusAnswered, Spawn
  <2>2. faults' \in 0..MaxFaults
    BY <1>11 DEF StatusAnswered
  <2> QED
    BY <1>11, <2>1, <2>2 DEF StatusAnswered
<1>12. ASSUME NEW r \in Reconnectors, ReconnectBegin(r) PROVE TypeOK'
  BY <1>12, DaemonFields DEF ReconnectBegin, States
<1>13. ASSUME NEW r \in Reconnectors, Teardown(r) PROVE TypeOK'
  <2>1. d.conn \in Conns \cup {None}
    BY DEF DaemonType
  <2>2. mon' \in [Kinds -> MonitorType]
    BY <1>13, MonitorsType DEF Teardown
  <2> QED
    BY <1>13, <2>1, <2>2, DaemonFields DEF Teardown
<1>14. ASSUME NEW r \in Reconnectors, Hangup(r) PROVE TypeOK'
  <2>1. mine[r] \in Conns \cup {None}
    OBVIOUS
  <2> QED
    BY <1>14, <2>1, ConnsType DEF Hangup, CloseClient
<1>15. ASSUME NEW r \in Reconnectors, ReconnectTransport(r) PROVE TypeOK'
  <2>1. faults' \in 0..MaxFaults
    BY <1>15 DEF ReconnectTransport, OpenClient, DialFails
  <2> QED
    BY <1>15, <2>1, DaemonFields DEF ReconnectTransport, OpenClient, DialFails, DiscoveryReset
<1>16. ASSUME NEW r \in Reconnectors, Reconnected(r) PROVE TypeOK'
  <2>1. (IF d.closed THEN d.state ELSE "Connected") \in States
    BY DEF DaemonType, States
  <2> QED
    BY <1>16, <2>1, DaemonFields DEF Reconnected
<1>17. ASSUME NEW r \in Reconnectors, ReconnectMonitor(r) PROVE TypeOK'
  BY <1>17, MonitorsType DEF ReconnectMonitor
<1>18. ASSUME NEW r \in Reconnectors, Retry(r) PROVE TypeOK'
  BY <1>18, DaemonFields DEF Retry
<1>19. ASSUME NEW k \in Kinds, MonitorEnds(k) PROVE TypeOK'
  <2>1. mon' \in [Kinds -> MonitorType]
    <3>1. /\ [mon[k] EXCEPT !.stopping = FALSE] \in MonitorType
          /\ mon[k].active > 0 => [mon[k] EXCEPT !.active = @ - 1] \in MonitorType
      <4>1. mon[k] \in MonitorType
        OBVIOUS
      <4>2. mon[k].active \in Nat
        BY <4>1, MonitorFields
      <4>3. mon[k].active > 0 => mon[k].active - 1 \in Nat
        BY <4>2
      <4> QED
        BY <4>1, <4>3, MonitorFields
    <3>2. CASE mon' = [mon EXCEPT ![k] = [mon[k] EXCEPT !.stopping = FALSE]]
      BY <3>1, <3>2
    <3>3. CASE mon[k].active > 0 /\ mon' = [mon EXCEPT ![k] = [mon[k] EXCEPT !.active = @ - 1]]
      BY <3>1, <3>3
    <3> QED
      BY <1>19, <3>2, <3>3 DEF MonitorEnds
  <2> QED
    BY <1>19, <2>1 DEF MonitorEnds
<1>20. CASE Shutdown
  <2>1. mon' \in [Kinds -> MonitorType]
    <3>1. \A k \in Kinds : mon[k].cancel \in BOOLEAN
      BY DEF MonitorType
    <3> QED
      BY <1>20, <3>1, MonitorsType DEF Shutdown
  <2> QED
    BY <1>20, <2>1 DEF Shutdown
<1>21. CASE CloseBegin
  <2>1. mon' \in [Kinds -> MonitorType]
    BY <1>21, MonitorsType DEF CloseBegin
  <2>2. closer' \in CloserType
    BY <1>21 DEF CloseBegin, CloserType, DaemonType
  <2> QED
    BY <1>21, <2>1, <2>2, DaemonFields DEF CloseBegin
<1>22. CASE CloseHangup
  <2>1. closer' \in CloserType /\ closer.conn \in Conns \cup {None}
    BY <1>22 DEF CloseHangup, CloserType
  <2> QED
    BY <1>22, <2>1, ConnsType DEF CloseHangup, CloseClient
<1>23. CASE CloseWait
  <2>1. closer' \in CloserType
    BY <1>23 DEF CloseWait, CloserType
  <2> QED
    BY <1>23, <2>1, BrokenType DEF CloseWait, CloseClient
<1>24. CASE HostDown
  <2>1. host' \in HostType
    BY <1>24 DEF HostDown, HostType
  <2> QED
    BY <1>24, <2>1, BrokenType DEF HostDown
<1>25. CASE HostUp
  <2>1. host' \in HostType
    BY <1>25 DEF HostUp, HostType
  <2> QED
    BY <1>25, <2>1 DEF HostUp
<1>26. CASE RemoteChanges
  <2>1. host' \in HostType
    BY <1>26 DEF RemoteChanges, HostType
  <2> QED
    BY <1>26, <2>1, BrokenType DEF RemoteChanges
<1>27. CASE UNCHANGED vars
  BY <1>27 DEF vars
<1> QED
  BY <1>1, <1>3, <1>4, <1>5, <1>6, <1>7, <1>8, <1>9, <1>10, <1>11, <1>12, <1>13, <1>14, <1>15, <1>16,
     <1>17, <1>18, <1>19, <1>20, <1>21, <1>22, <1>23, <1>24, <1>25, <1>26, <1>27
     DEF Next, InitStep, ReconnectStep

-----------------------------------------------------------------------------
\* The fields Control and OneReconnect speak of are left alone.
Same ==
  /\ d'.state = d.state /\ d'.init = d.init /\ d'.reconnecting = d.reconnecting
  /\ checker'.pc = checker.pc

\* A goroutine that reconnects and goes on reconnecting disturbs nothing.
LEMMA Onward ==
  ASSUME TypeOK, Control, OneReconnect, Same, NEW r \in Reconnectors, Reconnecting(r),
         NEW x \in {"dial", "ensure", "try", "check", "install", "connect", "set", "reconnected", "hangup", "retry"},
         pc' = [pc EXCEPT ![r] = x]
  PROVE  Control' /\ OneReconnect'
<1>1. r \in Actors /\ r # Initializer /\ pc'[Initializer] = pc[Initializer] /\ Initializer \in Actors
  BY DaemonAssumption DEF Actors, TypeOK
<1>2. \A s \in Reconnectors : pc'[s] = IF s = r THEN x ELSE pc[s]
  BY <1>1 DEF TypeOK, Actors
<1>3. \A s \in Reconnectors : Reconnecting(s)' <=> Reconnecting(s)
  BY <1>2 DEF Reconnecting
<1>4. ~Early /\ ~Early'
  BY <1>1 DEF Early, Control, Reconnecting
<1>5. Control'
  BY <1>1, <1>2, <1>3, <1>4 DEF Control, Same
<1>6. OneReconnect'
  BY <1>3 DEF OneReconnect, Same
<1> QED
  BY <1>5, <1>6

\* Initialize moving among its early steps disturbs nothing either.
LEMMA InitOnward ==
  ASSUME TypeOK, Control, OneReconnect, Same, Early, pc[Initializer] # "idle",
         NEW x \in {"after", "ensure", "try", "check", "install", "connect", "set", "connected", "failing"},
         pc' = [pc EXCEPT ![Initializer] = x]
  PROVE  Control' /\ OneReconnect'
<1>1. pc'[Initializer] = x /\ Early'
  BY DEF Actors, TypeOK, Early
<1>2. \A s \in Reconnectors : pc'[s] = pc[s]
  BY DaemonAssumption DEF TypeOK, Actors
<1>3. \A s \in Reconnectors : Reconnecting(s)' <=> Reconnecting(s)
  BY <1>2 DEF Reconnecting
<1>4. Control'
  BY <1>1, <1>2, <1>3 DEF Control, Same
<1>5. OneReconnect'
  BY <1>3 DEF OneReconnect, Same
<1> QED
  BY <1>4, <1>5

\* What an ensureDaemon step does to the control state.
LEMMA EnsureShape ==
  ASSUME TypeOK, NEW a \in Actors, Ensure(a)
  PROVE  /\ Same
         /\ pc[a] \in {"ensure", "try", "check", "install", "connect", "set"}
         /\ \E x \in {"try", "check", "install", "connect", "set", AfterEnsure(a), AfterFailure(a)} :
              pc' = [pc EXCEPT ![a] = x]
<1>1. Same
  BY DEF Ensure, Discover, TryConnect, CheckReinstall, Reinstall, ConnectInstalled, SetConnected, Same,
         TypeOK, DaemonType
<1>2. pc[a] \in {"ensure", "try", "check", "install", "connect", "set"}
  BY DEF Ensure, Discover, TryConnect, CheckReinstall, Reinstall, ConnectInstalled, SetConnected
<1>3. \E x \in {"try", "check", "install", "connect", "set", AfterEnsure(a), AfterFailure(a)} :
         pc' = [pc EXCEPT ![a] = x]
  BY DEF Ensure, Discover, TryConnect, CheckReinstall, Reinstall, ConnectInstalled, SetConnected, FailEnsure
<1> QED
  BY <1>1, <1>2, <1>3

\* Steps that leave the control state alone.
LEMMA ControlSame ==
  ASSUME Control, OneReconnect, Same, pc' = pc
  PROVE  Control' /\ OneReconnect'
<1>1. /\ Early' <=> Early
      /\ \A s \in Reconnectors : Reconnecting(s)' <=> Reconnecting(s)
  BY DEF Early, Reconnecting
<1>2. Control'
  BY <1>1 DEF Control, Same
<1>3. OneReconnect'
  BY <1>1 DEF OneReconnect, Same
<1> QED
  BY <1>2, <1>3

\* A goroutine is started to reconnect.
LEMMA SpawnControl ==
  ASSUME TypeOK, Control, OneReconnect, Spawn, ~Early, checker'.pc = "idle", d' = d
  PROVE  Control' /\ OneReconnect'
<1>1. PICK r \in Reconnectors : pc[r] = "idle" /\ pc' = [pc EXCEPT ![r] = "spawned"]
  BY DEF Spawn
<1>2. r \in Actors /\ r # Initializer /\ pc'[Initializer] = pc[Initializer]
  BY <1>1, DaemonAssumption DEF Actors, TypeOK
<1>3. \A s \in Reconnectors : pc'[s] = IF s = r THEN "spawned" ELSE pc[s]
  BY <1>1, <1>2 DEF TypeOK, Actors
<1>4. \A s \in Reconnectors : Reconnecting(s)' <=> Reconnecting(s)
  BY <1>1, <1>3 DEF Reconnecting
<1>5. Control'
  BY <1>2, <1>3, <1>4 DEF Control, Early
<1>6. OneReconnect'
  BY <1>4 DEF OneReconnect
<1> QED
  BY <1>5, <1>6

\* A goroutine leaves the reconnect loop.
LEMMA LeavesLoop ==
  ASSUME TypeOK, Control, OneReconnect, NEW r \in Reconnectors, Reconnecting(r),
         NEW x \in {"idle", "monitor"}, pc' = [pc EXCEPT ![r] = x],
         d'.reconnecting = FALSE, d'.init = d.init, checker' = checker
  PROVE  Control' /\ OneReconnect'
<1>1. r \in Actors /\ r # Initializer /\ pc'[Initializer] = pc[Initializer]
  BY DaemonAssumption DEF Actors, TypeOK
<1>2. \A s \in Reconnectors : pc'[s] = IF s = r THEN x ELSE pc[s]
  BY <1>1 DEF TypeOK, Actors
<1>3. \A s \in Reconnectors : ~Reconnecting(s)'
  BY <1>2 DEF Reconnecting, OneReconnect
<1>4. ~Early'
  BY <1>1 DEF Early, Control, Reconnecting
<1>5. Control'
  BY <1>1, <1>2, <1>3, <1>4 DEF Control
<1>6. OneReconnect'
  BY <1>3 DEF OneReconnect
<1> QED
  BY <1>5, <1>6

\* Initialize ends, or publishes Connected, or starts.
LEMMA InitLeaves ==
  ASSUME TypeOK, Control, OneReconnect, NEW x \in {"dial", "deinit", "monitor", "done"},
         pc' = [pc EXCEPT ![Initializer] = x], d'.reconnecting = d.reconnecting, d'.init # "none",
         checker' = checker,
         x = "dial" => Early /\ d'.state = "Initializing",
         d'.state = "Connected" => d.state = "Connected" \/ Early
  PROVE  Control' /\ OneReconnect'
<1>1. pc'[Initializer] = x
  BY DEF Actors, TypeOK
<1>2. \A s \in Reconnectors : pc'[s] = pc[s]
  BY DaemonAssumption DEF TypeOK, Actors
<1>3. \A s \in Reconnectors : Reconnecting(s)' <=> Reconnecting(s)
  BY <1>2 DEF Reconnecting
<1>4. x # "dial" => ~Early'
  BY <1>1 DEF Early
<1>5. \A s \in Reconnectors : Reconnecting(s)' => d'.state # "Connected"
  BY <1>3 DEF Control, Reconnecting
<1>6. Control'
  BY <1>1, <1>2, <1>3, <1>4, <1>5 DEF Control
<1>7. OneReconnect'
  BY <1>3 DEF OneReconnect
<1> QED
  BY <1>6, <1>7

\* Every step keeps the control invariants.
LEMMA ControlStep == TypeOK /\ Control /\ OneReconnect /\ [Next]_vars => Control' /\ OneReconnect'
<1> SUFFICES ASSUME TypeOK, Control, OneReconnect, [Next]_vars PROVE Control' /\ OneReconnect'
  OBVIOUS
<1>1. CASE InitializeFirst
  <2>1. d'.state = "Initializing" /\ d'.init = "running" /\ d'.reconnecting = d.reconnecting
    BY <1>1 DEF InitializeFirst, TypeOK, DaemonType
  <2>2. Early
    BY <1>1 DEF InitializeFirst, Control, Early
  <2> QED
    BY <1>1, <2>1, <2>2, InitLeaves DEF InitializeFirst
<1>2. CASE InitTransport
  BY <1>2, InitOnward DEF InitTransport, Same, Early
<1>3. CASE InitAfterTransport
  <2>1. CASE pc' = [pc EXCEPT ![Initializer] = "ensure"] /\ d' = d
    BY <1>3, <2>1, InitOnward DEF InitAfterTransport, Same, Early
  <2>2. CASE pc' = [pc EXCEPT ![Initializer] = "done"] /\ d' = [d EXCEPT !.init = "done", !.initErr = "superseded"]
    <3>1. d'.init = "done" /\ d'.state = d.state /\ d'.reconnecting = d.reconnecting
      BY <2>2 DEF TypeOK, DaemonType
    <3> QED
      BY <1>3, <2>2, <3>1, InitLeaves DEF InitAfterTransport
  <2> QED
    BY <1>3, <2>1, <2>2 DEF InitAfterTransport
<1>4. CASE InitFailed
  <2>1. d'.state = "Failed" /\ d'.init = d.init /\ d'.reconnecting = d.reconnecting
    BY <1>4 DEF InitFailed, TypeOK, DaemonType
  <2>2. d.init # "none"
    BY <1>4 DEF InitFailed, Control
  <2> QED
    BY <1>4, <2>1, <2>2, InitLeaves DEF InitFailed
<1>5. CASE InitDeinit
  <2>1. d'.state = d.state /\ d'.init = "done" /\ d'.reconnecting = d.reconnecting
    BY <1>5 DEF InitDeinit, TypeOK, DaemonType
  <2> QED
    BY <1>5, <2>1, InitLeaves DEF InitDeinit
<1>6. CASE InitConnected
  <2>1. d'.state = "Connected" /\ d'.init = d.init /\ d'.reconnecting = d.reconnecting
    BY <1>6 DEF InitConnected, TypeOK, DaemonType
  <2>2. d.init # "none" /\ Early
    BY <1>6 DEF InitConnected, Control, Early
  <2> QED
    BY <1>6, <2>1, <2>2, InitLeaves DEF InitConnected
<1>7. CASE InitMonitor
  <2>1. d'.state = d.state /\ d'.init = "done" /\ d'.reconnecting = d.reconnecting
    BY <1>7 DEF InitMonitor, TypeOK, DaemonType
  <2> QED
    BY <1>7, <2>1, InitLeaves DEF InitMonitor
<1>8. CASE Ensure(Initializer)
  <2>1. Initializer \in Actors
    BY DEF Actors
  <2>2. PICK x \in {"try", "check", "install", "connect", "set", "connected", "failing"} :
          pc' = [pc EXCEPT ![Initializer] = x]
    BY <1>8, <2>1, EnsureShape DEF AfterEnsure, AfterFailure
  <2>3. Same /\ Early /\ pc[Initializer] # "idle"
    BY <1>8, <2>1, EnsureShape DEF Early
  <2> QED
    BY <2>2, <2>3, InitOnward
<1>9. CASE CheckDaemon
  <2>1. ~Early
    BY <1>9 DEF CheckDaemon, Control
  <2>2. CASE Spawn /\ UNCHANGED checker
    BY <1>9, <2>1, <2>2, SpawnControl DEF CheckDaemon
  <2>3. CASE pc' = pc
    <3>1. /\ Early' <=> Early
          /\ \A s \in Reconnectors : Reconnecting(s)' <=> Reconnecting(s)
      BY <2>3 DEF Early, Reconnecting
    <3> QED
      BY <1>9, <2>1, <2>3, <3>1 DEF CheckDaemon, Control, OneReconnect
  <2> QED
    BY <1>9, <2>2, <2>3 DEF CheckDaemon
<1>10. CASE StatusAnswered
  <2>1. ~Early
    BY <1>10 DEF StatusAnswered, Control
  <2>2. checker'.pc = "idle"
    BY <1>10 DEF StatusAnswered
  <2>3. CASE Spawn
    BY <1>10, <2>1, <2>2, <2>3, SpawnControl DEF StatusAnswered
  <2>4. CASE pc' = pc
    <3>1. /\ Early' <=> Early
          /\ \A s \in Reconnectors : Reconnecting(s)' <=> Reconnecting(s)
      BY <2>4 DEF Early, Reconnecting
    <3> QED
      BY <1>10, <2>1, <2>4, <3>1 DEF StatusAnswered, Control, OneReconnect
  <2> QED
    BY <1>10, <2>3, <2>4 DEF StatusAnswered
<1>11. ASSUME NEW r \in Reconnectors, ReconnectBegin(r) PROVE Control' /\ OneReconnect'
  <2>1. r \in Actors /\ r # Initializer /\ pc'[Initializer] = pc[Initializer]
    BY <1>11, DaemonAssumption DEF ReconnectBegin, Actors, TypeOK
  <2>2. ~Early /\ ~Early' /\ checker' = checker /\ ~Reconnecting(r)
    BY <1>11, <2>1 DEF ReconnectBegin, Early, Control, Reconnecting
  <2>3. CASE MayReconnect
    <3>1. d'.reconnecting = TRUE /\ d'.state = "Reconnecting" /\ d'.init = d.init
      BY <1>11, <2>3 DEF ReconnectBegin, TypeOK, DaemonType
    <3>2. \A s \in Reconnectors : pc'[s] = IF s = r THEN "teardown" ELSE pc[s]
      BY <1>11, <2>1, <2>3 DEF ReconnectBegin, TypeOK, Actors
    <3>3. \A s \in Reconnectors : Reconnecting(s)' <=> s = r
      BY <2>3, <3>2 DEF Reconnecting, OneReconnect, MayReconnect
    <3>4. Control'
      BY <2>1, <2>2, <3>1, <3>2, <3>3 DEF Control
    <3>5. OneReconnect'
      BY <3>1, <3>3 DEF OneReconnect
    <3> QED
      BY <3>4, <3>5
  <2>4. CASE ~MayReconnect
    <3>1. d' = d
      BY <1>11, <2>4 DEF ReconnectBegin
    <3>2. \A s \in Reconnectors : pc'[s] = IF s = r THEN "idle" ELSE pc[s]
      BY <1>11, <2>1, <2>4 DEF ReconnectBegin, TypeOK, Actors
    <3>3. \A s \in Reconnectors : Reconnecting(s)' <=> Reconnecting(s)
      BY <2>2, <3>2 DEF Reconnecting
    <3>4. Control'
      BY <2>1, <2>2, <3>1, <3>2, <3>3 DEF Control
    <3>5. OneReconnect'
      BY <3>1, <3>3 DEF OneReconnect
    <3> QED
      BY <3>4, <3>5
  <2> QED
    BY <2>3, <2>4
<1>12. ASSUME NEW r \in Reconnectors, Teardown(r) PROVE Control' /\ OneReconnect'
  <2>1. Same
    BY <1>12 DEF Teardown, Same, TypeOK, DaemonType
  <2> QED
    BY <1>12, <2>1, Onward DEF Teardown, Reconnecting
<1>13. ASSUME NEW r \in Reconnectors, Hangup(r) PROVE Control' /\ OneReconnect'
  BY <1>13, Onward DEF Hangup, Reconnecting, Same
<1>14. ASSUME NEW r \in Reconnectors, ReconnectTransport(r) PROVE Control' /\ OneReconnect'
  <2>1. Same
    BY <1>14 DEF ReconnectTransport, Same, TypeOK, DaemonType
  <2> QED
    BY <1>14, <2>1, Onward DEF ReconnectTransport, Reconnecting
<1>15. ASSUME NEW r \in Reconnectors, Ensure(r) PROVE Control' /\ OneReconnect'
  <2>1. r \in Actors /\ r # Initializer
    BY DaemonAssumption DEF Actors
  <2>2. PICK x \in {"try", "check", "install", "connect", "set", "reconnected", "retry"} :
          pc' = [pc EXCEPT ![r] = x]
    BY <1>15, <2>1, EnsureShape DEF AfterEnsure, AfterFailure
  <2>3. Same /\ Reconnecting(r)
    BY <1>15, <2>1, EnsureShape DEF Reconnecting
  <2> QED
    BY <2>2, <2>3, Onward
<1>16. ASSUME NEW r \in Reconnectors, Reconnected(r) PROVE Control' /\ OneReconnect'
  <2>1. d'.reconnecting = FALSE /\ d'.init = d.init
    BY <1>16 DEF Reconnected, TypeOK, DaemonType
  <2> QED
    BY <1>16, <2>1, LeavesLoop DEF Reconnected, Reconnecting
<1>17. ASSUME NEW r \in Reconnectors, ReconnectMonitor(r) PROVE Control' /\ OneReconnect'
  <2>1. r \in Actors /\ r # Initializer /\ pc'[Initializer] = pc[Initializer]
    BY <1>17, DaemonAssumption DEF ReconnectMonitor, Actors, TypeOK
  <2>2. ~Early /\ ~Early' /\ checker' = checker /\ d' = d
    BY <1>17, <2>1 DEF ReconnectMonitor, Early, Control
  <2>3. \A s \in Reconnectors : pc'[s] = IF s = r THEN "idle" ELSE pc[s]
    BY <1>17, <2>1 DEF ReconnectMonitor, TypeOK, Actors
  <2>4. \A s \in Reconnectors : Reconnecting(s)' <=> Reconnecting(s)
    BY <1>17, <2>3 DEF Reconnecting, ReconnectMonitor
  <2>5. Control'
    BY <2>1, <2>2, <2>3, <2>4 DEF Control
  <2>6. OneReconnect'
    BY <2>2, <2>4 DEF OneReconnect
  <2> QED
    BY <2>5, <2>6
<1>18. ASSUME NEW r \in Reconnectors, Retry(r) PROVE Control' /\ OneReconnect'
  <2>1. CASE d' = [d EXCEPT !.reconnecting = FALSE] /\ pc' = [pc EXCEPT ![r] = "idle"]
    <3>1. d'.reconnecting = FALSE /\ d'.init = d.init
      BY <2>1 DEF TypeOK, DaemonType
    <3> QED
      BY <1>18, <2>1, <3>1, LeavesLoop DEF Retry, Reconnecting
  <2>2. CASE pc' = [pc EXCEPT ![r] = "dial"] /\ UNCHANGED d
    BY <1>18, <2>2, Onward DEF Retry, Reconnecting, Same
  <2> QED
    BY <1>18, <2>1, <2>2 DEF Retry
<1>19. CASE CloseBegin
  <2>1. d'.state = "Closed" /\ d'.init = d.init /\ d'.reconnecting = d.reconnecting /\ pc' = pc /\ checker' = checker
    BY <1>19 DEF CloseBegin, TypeOK, DaemonType
  <2>2. /\ Early' <=> Early
        /\ \A s \in Reconnectors : Reconnecting(s)' <=> Reconnecting(s)
    BY <2>1 DEF Early, Reconnecting
  <2> QED
    BY <2>1, <2>2 DEF Control, OneReconnect
<1>20. CASE Shutdown \/ CloseHangup \/ CloseWait \/ HostDown \/ HostUp \/ RemoteChanges
            \/ UNCHANGED vars \/ \E k \in Kinds : MonitorEnds(k)
  <2>1. d' = d /\ pc' = pc /\ checker' = checker
    BY <1>20 DEF Shutdown, CloseHangup, CloseWait, HostDown, HostUp, RemoteChanges, vars, MonitorEnds
  <2> QED
    BY <2>1, ControlSame DEF Same
<1> QED
  BY <1>1, <1>2, <1>3, <1>4, <1>5, <1>6, <1>7, <1>8, <1>9, <1>10, <1>11, <1>12, <1>13, <1>14, <1>15, <1>16,
     <1>17, <1>18, <1>19, <1>20 DEF Next, InitStep, ReconnectStep

-----------------------------------------------------------------------------
\* Every step keeps at most one monitor of each kind, which can be canceled.
LEMMA MonitorStep == TypeOK /\ OneMonitor /\ [Next]_vars => OneMonitor'
<1> SUFFICES ASSUME TypeOK, OneMonitor, [Next]_vars PROVE OneMonitor'
  OBVIOUS
<1>1. \A k \in Kinds : mon[k].active \in Nat /\ mon[k].cancel \in BOOLEAN
  <2> SUFFICES ASSUME NEW k \in Kinds PROVE mon[k].active \in Nat /\ mon[k].cancel \in BOOLEAN
    OBVIOUS
  <2>1. mon[k] \in MonitorType
    BY DEF TypeOK
  <2> QED
    BY <2>1, MonitorFields
<1>2. CASE mon' = mon
  BY <1>2 DEF OneMonitor
<1>3. CASE StartMonitors
  <2> SUFFICES ASSUME NEW k \in Kinds
               PROVE  mon'[k].active <= 1 /\ (mon'[k].active = 1 => mon'[k].cancel)
    BY DEF OneMonitor
  <2>1. CASE mon[k].cancel
    BY <1>3, <2>1 DEF StartMonitors, OneMonitor
  <2>2. CASE ~mon[k].cancel
    <3>1. mon[k].active = 0
      BY <1>1, <2>2 DEF OneMonitor
    <3>2. mon'[k].cancel = TRUE /\ mon'[k].active \in {0, 1}
      <4>1. mon[k] \in MonitorType
        BY DEF TypeOK
      <4>2. mon'[k] \in {[mon[k] EXCEPT !.cancel = TRUE, !.active = @ + 1],
                        [mon[k] EXCEPT !.cancel = TRUE, !.stopping = TRUE]}
        BY <1>3, <2>2 DEF StartMonitors
      <4>3. CASE mon'[k] = [mon[k] EXCEPT !.cancel = TRUE, !.active = @ + 1]
        <5>1. mon'[k].cancel = TRUE /\ mon'[k].active = mon[k].active + 1
          BY <4>1, <4>3 DEF MonitorType
        <5> QED
          BY <3>1, <5>1
      <4>4. CASE mon'[k] = [mon[k] EXCEPT !.cancel = TRUE, !.stopping = TRUE]
        BY <3>1, <4>1, <4>4 DEF MonitorType
      <4> QED
        BY <4>2, <4>3, <4>4
    <3> QED
      BY <3>2
  <2> QED
    BY <2>1, <2>2
<1>4. ASSUME \A k \in Kinds : \/ mon'[k] = mon[k]
                           \/ \E b \in BOOLEAN : mon'[k] = Canceled(mon[k], b)
      PROVE  OneMonitor'
  <2>1. \A k \in Kinds : \A b \in BOOLEAN : Canceled(mon[k], b).active = 0
    BY DEF Canceled
  <2>2. \A k \in Kinds : mon'[k] = mon[k] \/ mon'[k].active = 0
    BY <1>4, <2>1
  <2> QED
    BY <2>2 DEF OneMonitor
<1>5. ASSUME NEW k \in Kinds, MonitorEnds(k) PROVE OneMonitor'
  <2> SUFFICES ASSUME NEW j \in Kinds
               PROVE  mon'[j].active <= 1 /\ (mon'[j].active = 1 => mon'[j].cancel)
    BY DEF OneMonitor
  <2>1. CASE j # k
    BY <1>5, <2>1 DEF MonitorEnds, TypeOK, OneMonitor
  <2>2. CASE j = k
    <3>1. mon'[k].cancel = mon[k].cancel
      BY <1>5 DEF MonitorEnds, TypeOK, MonitorType
    <3>2. mon'[k].active = mon[k].active \/ mon'[k].active = mon[k].active - 1
      BY <1>5 DEF MonitorEnds, TypeOK, MonitorType
    <3> QED
      BY <1>1, <2>2, <3>1, <3>2 DEF OneMonitor
  <2> QED
    BY <2>1, <2>2
<1>6. CASE Shutdown
  <2>1. \A k \in Kinds : mon'[k] = Canceled(mon[k], mon[k].cancel)
    BY <1>6 DEF Shutdown
  <2> QED
    BY <1>1, <1>4, <2>1
<1>7. CASE CloseBegin
  <2>1. \A k \in Kinds : mon'[k] = mon[k] \/ mon'[k] = Canceled(mon[k], TRUE)
    BY <1>7 DEF CloseBegin
  <2> QED
    BY <1>4, <2>1
<1>8. ASSUME NEW r \in Reconnectors, Teardown(r) PROVE OneMonitor'
  <2>1. \A k \in Kinds : mon'[k] = mon[k] \/ mon'[k] = Canceled(mon[k], FALSE)
    BY <1>8 DEF Teardown
  <2> QED
    BY <1>4, <2>1
<1>9. ASSUME NEW a \in Actors, Ensure(a) PROVE mon' = mon
  BY <1>9 DEF Ensure, Discover, TryConnect, CheckReinstall, Reinstall, ConnectInstalled, SetConnected
<1>10. ASSUME NEW r \in Reconnectors, ReconnectStep(r) PROVE OneMonitor'
  BY <1>2, <1>3, <1>8, <1>9, <1>10
     DEF ReconnectStep, ReconnectBegin, Hangup, ReconnectTransport, Reconnected, ReconnectMonitor, Retry, Actors
<1>11. CASE InitStep
  BY <1>2, <1>3, <1>9, <1>11
     DEF InitStep, InitTransport, InitAfterTransport, InitFailed, InitDeinit, InitConnected, InitMonitor, Actors
<1>12. CASE InitializeFirst \/ CheckDaemon \/ StatusAnswered \/ CloseHangup \/ CloseWait
            \/ HostDown \/ HostUp \/ RemoteChanges \/ UNCHANGED vars
  BY <1>2, <1>12 DEF InitializeFirst, CheckDaemon, StatusAnswered, CloseHangup, CloseWait,
                     HostDown, HostUp, RemoteChanges, vars
<1> QED
  BY <1>5, <1>6, <1>7, <1>10, <1>11, <1>12 DEF Next

-----------------------------------------------------------------------------
\* Actor a goes to x holding m, and the daemon's connection becomes k.
Step(a, x, m, k) ==
  /\ pc' = [pc EXCEPT ![a] = x]
  /\ mine' = [mine EXCEPT ![a] = m]
  /\ d'.conn = k
  /\ closer' = closer

\* Such a step keeps Holding if m and k fit x, and if only an actor that may
\* changes the connection.
LEMMA HoldingMove ==
  ASSUME TypeOK, Control, OneReconnect, Holding, NEW a \in Actors, NEW x, NEW m, NEW k, Step(a, x, m, k),
         x \in {"check", "set"} => m # None,
         x \notin {"check", "install", "connect", "set", "hangup"} => m = None,
         a = Initializer => /\ x \in {"dial", "after", "ensure", "try", "check", "install", "connect", "set", "failing"}
                                 => k = None
                            /\ x = "connected" => k # None
                            /\ x # "idle",
         a # Initializer => /\ x \notin {"idle", "spawned", "monitor", "teardown", "reconnected"} => k = None
                            /\ x = "reconnected" => k # None,
         k = d.conn \/ (a = Initializer /\ Early) \/ (a # Initializer /\ Reconnecting(a))
  PROVE  Holding'
<1>1. /\ pc'[a] = x /\ mine'[a] = m
      /\ \A b \in Actors : b # a => pc'[b] = pc[b] /\ mine'[b] = mine[b]
  BY DEF Step, TypeOK
<1>2. Initializer \in Actors /\ \A r \in Reconnectors : r \in Actors /\ r # Initializer
  BY DaemonAssumption DEF Actors
<1>3. \A b \in Actors : /\ pc'[b] \in {"check", "set"} => mine'[b] # None
                        /\ pc'[b] \notin {"check", "install", "connect", "set", "hangup"} => mine'[b] = None
  BY <1>1 DEF Holding
<1>4. /\ Early' /\ pc'[Initializer] # "connected" => d'.conn = None
      /\ pc'[Initializer] = "connected" => d'.conn # None
  <2>1. CASE a = Initializer
    BY <1>1, <2>1 DEF Step, Early
  <2>2. CASE a # Initializer
    <3>1. pc'[Initializer] = pc[Initializer]
      BY <1>1, <1>2, <2>2
    <3>2. CASE k = d.conn
      BY <3>1, <3>2 DEF Step, Early, Holding
    <3>3. CASE Reconnecting(a)
      <4>1. a \in Reconnectors
        BY <2>2 DEF Actors
      <4>2. ~Early
        BY <3>3, <4>1 DEF Control, Reconnecting
      <4> QED
        BY <3>1, <4>2 DEF Early
    <3> QED
      BY <2>2, <3>2, <3>3
  <2> QED
    BY <2>1, <2>2
<1>5. ASSUME NEW r \in Reconnectors
      PROVE  /\ Reconnecting(r)' /\ pc'[r] \notin {"teardown", "reconnected"} => d'.conn = None
             /\ pc'[r] = "reconnected" => d'.conn # None
  <2>1. CASE r = a
    BY <1>1, <1>2, <2>1 DEF Step, Reconnecting
  <2>2. CASE r # a
    <3>1. pc'[r] = pc[r]
      BY <1>1, <1>2, <2>2
    <3>2. CASE k = d.conn
      BY <3>1, <3>2 DEF Step, Reconnecting, Holding
    <3>3. CASE a = Initializer /\ Early
      BY <3>1, <3>3 DEF Control, Reconnecting
    <3>4. CASE a # Initializer /\ Reconnecting(a)
      <4>1. a \in Reconnectors
        BY <3>4 DEF Actors
      <4>2. ~Reconnecting(r)
        BY <2>2, <3>4, <4>1 DEF OneReconnect
      <4> QED
        BY <3>1, <4>2 DEF Reconnecting
    <3> QED
      BY <3>2, <3>3, <3>4
  <2> QED
    BY <2>1, <2>2
<1> QED
  BY <1>3, <1>4, <1>5 DEF Holding, Step

\* NoStrandedConn with the holder named.
LEMMA Stranded ==
  NoStrandedConn <=>
    \A c \in Conns : conns[c] # "closed" =>
      c = d.conn \/ c = closer.conn \/ \E a \in Actors : c = mine[a]
  BY DEF NoStrandedConn

\* Closing a connection closes that one and opens none.
LEMMA ClosedOne ==
  ASSUME NEW cs \in [Conns -> {"closed", "live", "broken"}], NEW c \in Conns \cup {None}, NEW e \in Conns
  PROVE  /\ Closed(cs, c)[e] # "closed" => cs[e] # "closed" /\ e # c
         /\ Broken(cs)[e] # "closed" => cs[e] # "closed"
         /\ Broken(Closed(cs, c))[e] # "closed" => cs[e] # "closed" /\ e # c
  BY DaemonAssumption DEF Closed, Broken

\* The actor that drops what it holds closed it, or handed it to the daemon.
LEMMA StrandedMove ==
  ASSUME TypeOK, NoStrandedConn, NEW a \in Actors, NEW x, NEW m, NEW k, Step(a, x, m, k),
         \A e \in Conns : conns'[e] # "closed" =>
            \/ e = m
            \/ conns[e] # "closed" /\ (e = mine[a] => e \in {m, k}) /\ (e = d.conn => e \in {m, k})
  PROVE  NoStrandedConn'
<1>1. mine'[a] = m /\ \A b \in Actors : b # a => mine'[b] = mine[b]
  BY DEF Step, TypeOK
<1>2. ASSUME NEW e \in Conns, conns'[e] # "closed"
      PROVE  e = d'.conn \/ e = closer'.conn \/ \E b \in Actors : e = mine'[b]
  <2>1. CASE e = m
    BY <1>1, <2>1
  <2>2. CASE conns[e] # "closed" /\ (e = mine[a] => e \in {m, k}) /\ (e = d.conn => e \in {m, k})
    <3>1. e = d.conn \/ e = closer.conn \/ \E b \in Actors : e = mine[b]
      BY <2>2, Stranded
    <3> QED
      BY <1>1, <2>2, <3>1 DEF Step
  <2> QED
    BY <1>2, <2>1, <2>2
<1> QED
  BY <1>2 DEF NoStrandedConn

\* What a step must keep about connections.
Owned == Holding /\ ConnectedBacked /\ NoStrandedConn

\* The ways through ensureDaemon, as steps.  d.conn is None until
\* setConnectedState.
LEMMA EnsureOwned ==
  ASSUME TypeOK, Control, OneReconnect, Owned, NEW a \in Actors, Ensure(a)
  PROVE  Owned'
<1> USE DEF Owned
<1>1. /\ mine \in [Actors -> Conns \cup {None}] /\ conns \in [Conns -> {"closed", "live", "broken"}]
      /\ mine[a] \in Conns \cup {None} /\ d.conn \in Conns \cup {None} /\ None \notin Conns
  BY DaemonAssumption DEF TypeOK, DaemonType
<1>2. pc[a] \in {"ensure", "try", "check", "install", "connect", "set"} /\ d'.state = d.state
  BY EnsureShape DEF Same
<1>3. /\ d.conn = None
      /\ (a = Initializer /\ Early) \/ (a # Initializer /\ Reconnecting(a))
  BY <1>2 DEF Holding, Early, Reconnecting, Actors
<1>4. d.state # "Connected"
  BY <1>3 DEF ConnectedBacked
<1>5. ConnectedBacked'
  BY <1>2, <1>4 DEF ConnectedBacked
<1>6. ASSUME FailEnsure(a), d'.conn = d.conn, closer' = closer PROVE Holding' /\ NoStrandedConn'
  <2>1. Step(a, AfterFailure(a), None, None)
    BY <1>3, <1>6 DEF FailEnsure, Step
  <2>2. Holding'
    BY <1>3, <2>1, HoldingMove DEF AfterFailure
  <2>3. \A e \in Conns : conns'[e] # "closed" => conns[e] # "closed" /\ e # mine[a]
    BY <1>1, <1>6, ClosedOne DEF FailEnsure
  <2>4. \A e \in Conns : conns'[e] # "closed" => e # d.conn
    BY <1>1, <1>3
  <2>5. NoStrandedConn'
    BY <2>1, <2>3, <2>4, StrandedMove
  <2> QED
    BY <2>2, <2>5
<1>7. ASSUME NEW x \in {"try", "check", "install", "connect", "set"}, pc' = [pc EXCEPT ![a] = x],
             mine' = mine, conns' = conns, d'.conn = d.conn, closer' = closer,
             x \in {"check", "set"} => mine[a] # None, x = "try" => mine[a] = None
      PROVE  Holding' /\ NoStrandedConn'
  <2>1. Step(a, x, mine[a], None)
    BY <1>1, <1>3, <1>7 DEF Step
  <2>2. Holding'
    BY <1>3, <1>7, <2>1, HoldingMove
  <2>3. \A e \in Conns : e # d.conn
    BY <1>1, <1>3
  <2>4. NoStrandedConn'
    BY <1>7, <2>1, <2>3, StrandedMove
  <2> QED
    BY <2>2, <2>4
<1>8. CASE Discover(a)
  <2>1. mine[a] = None /\ d'.conn = d.conn /\ closer' = closer
    BY <1>8 DEF Discover, Holding, TypeOK, DaemonType
  <2> QED
    BY <1>5, <1>6, <1>7, <1>8, <2>1 DEF Discover
<1>9. CASE TryConnect(a)
  <2>1. mine[a] = None /\ d'.conn = d.conn /\ closer' = closer
    BY <1>9 DEF TryConnect, Holding, TypeOK, DaemonType
  <2>2. CASE HasFresh /\ conns' = [conns EXCEPT ![Fresh] = "live"] /\ mine' = [mine EXCEPT ![a] = Fresh]
             /\ pc' = [pc EXCEPT ![a] = "check"]
    <3>1. Step(a, "check", Fresh, None) /\ Fresh # None
      BY <1>1, <1>3, <2>1, <2>2, FreshConn DEF Step
    <3>2. Holding'
      BY <1>3, <3>1, HoldingMove
    <3>3. \A e \in Conns : conns'[e] # "closed" => e = Fresh \/ (conns[e] # "closed" /\ e # mine[a] /\ e # d.conn)
      BY <1>1, <1>3, <2>1, <2>2
    <3>4. NoStrandedConn'
      BY <3>1, <3>3, StrandedMove
    <3> QED
      BY <1>5, <3>2, <3>4
  <2> QED
    BY <1>5, <1>7, <1>9, <2>1, <2>2 DEF TryConnect
<1>10. CASE CheckReinstall(a)
  <2>1. mine[a] # None
    BY <1>10 DEF CheckReinstall, Holding
  <2> QED
    BY <1>5, <1>7, <1>10, <2>1 DEF CheckReinstall
<1>11. CASE Reinstall(a)
  <2>1. d'.conn = d.conn /\ closer' = closer
    BY <1>11 DEF Reinstall, TypeOK, DaemonType
  <2> QED
    BY <1>5, <1>6, <1>7, <1>11, <2>1 DEF Reinstall
<1>12. CASE ConnectInstalled(a)
  <2>1. CASE HasFresh /\ conns' = [Closed(conns, mine[a]) EXCEPT ![Fresh] = "live"]
             /\ mine' = [mine EXCEPT ![a] = Fresh] /\ pc' = [pc EXCEPT ![a] = "set"]
    <3>1. Step(a, "set", Fresh, None) /\ Fresh # None
      BY <1>1, <1>3, <1>12, <2>1, FreshConn DEF Step, ConnectInstalled
    <3>2. Holding'
      BY <1>3, <3>1, HoldingMove
    <3>3. \A e \in Conns : conns'[e] # "closed" => e = Fresh \/ Closed(conns, mine[a])[e] # "closed"
      <4>1. Closed(conns, mine[a]) \in [Conns -> {"closed", "live", "broken"}]
        BY <1>1, ConnsType
      <4> QED
        BY <2>1, <4>1
    <3>4. \A e \in Conns : conns'[e] # "closed" => e = Fresh \/ (conns[e] # "closed" /\ e # mine[a] /\ e # d.conn)
      BY <1>1, <1>3, <3>3, ClosedOne
    <3>5. NoStrandedConn'
      BY <3>1, <3>4, StrandedMove
    <3> QED
      BY <1>5, <3>2, <3>5
  <2>2. CASE FailEnsure(a)
    BY <1>5, <1>6, <1>12, <2>2 DEF ConnectInstalled
  <2> QED
    BY <1>12, <2>1, <2>2 DEF ConnectInstalled
<1>13. CASE SetConnected(a)
  <2>1. mine[a] # None
    BY <1>13 DEF SetConnected, Holding
  <2>2. Step(a, AfterEnsure(a), None, mine[a])
    BY <1>13 DEF SetConnected, Step, TypeOK, DaemonType
  <2>3. Holding'
    BY <1>3, <2>1, <2>2, HoldingMove DEF AfterEnsure
  <2>4. \A e \in Conns : e # d.conn /\ conns' = conns
    BY <1>1, <1>3, <1>13 DEF SetConnected
  <2>5. NoStrandedConn'
    BY <2>2, <2>4, StrandedMove
  <2> QED
    BY <1>5, <2>3, <2>5
<1> QED
  BY <1>8, <1>9, <1>10, <1>11, <1>12, <1>13 DEF Ensure

\* A step that moves one actor and touches no connection.
LEMMA PlainMove ==
  ASSUME TypeOK, Control, OneReconnect, Owned, NEW a \in Actors, NEW x, pc' = [pc EXCEPT ![a] = x],
         mine' = mine, conns' = conns \/ conns' = Broken(conns), d'.conn = d.conn, closer' = closer, mine[a] = None,
         x \notin {"check", "set"},
         a = Initializer => /\ x \in {"dial", "after", "ensure", "try", "install", "connect", "failing"}
                                 => d.conn = None
                            /\ x \notin {"idle", "connected"},
         a # Initializer => /\ x \notin {"idle", "spawned", "monitor", "teardown"} => d.conn = None
                            /\ x # "reconnected",
         d'.state = "Connected" => d.conn # None
  PROVE  Owned'
<1>1. Step(a, x, None, d.conn)
  BY DEF Step, TypeOK
<1>2. Holding'
  BY <1>1, HoldingMove DEF Owned
<1>3. \A e \in Conns : conns'[e] # "closed" => conns[e] # "closed" /\ e # None
  BY DaemonAssumption DEF Broken
<1>4. NoStrandedConn'
  BY <1>1, <1>3, StrandedMove DEF Owned
<1>5. ConnectedBacked'
  BY DEF ConnectedBacked
<1> QED
  BY <1>2, <1>4, <1>5 DEF Owned

\* A step of nobody's that opens no connection.
LEMMA OwnedSame ==
  ASSUME Owned, pc' = pc, mine' = mine, d'.conn = d.conn, d'.state = "Connected" => d.state = "Connected",
         closer'.conn = closer.conn, closer'.pc = "hangup" <=> closer.pc = "hangup",
         \A e \in Conns : conns'[e] # "closed" => conns[e] # "closed"
  PROVE  Owned'
<1>1. (Early' <=> Early) /\ \A r \in Reconnectors : Reconnecting(r)' <=> Reconnecting(r)
  BY DEF Early, Reconnecting
<1>2. Holding'
  BY <1>1 DEF Owned, Holding
<1> QED
  BY <1>2 DEF Owned, ConnectedBacked, NoStrandedConn

\* Every step keeps the connections owned.
LEMMA OwnedStep == TypeOK /\ Control /\ OneReconnect /\ Owned /\ [Next]_vars => Owned'
<1> SUFFICES ASSUME TypeOK, Control, OneReconnect, Owned, [Next]_vars PROVE Owned'
  OBVIOUS
<1>1. Initializer \in Actors /\ \A r \in Reconnectors : r \in Actors /\ r # Initializer
  BY DaemonAssumption DEF Actors
<1>2. /\ mine \in [Actors -> Conns \cup {None}] /\ conns \in [Conns -> {"closed", "live", "broken"}]
      /\ d.conn \in Conns \cup {None} /\ closer.conn \in Conns \cup {None} /\ None \notin Conns
  BY DaemonAssumption DEF TypeOK, DaemonType, CloserType
<1>3. CASE InitializeFirst
  <2>1. pc[Initializer] = "idle" /\ d'.conn = d.conn /\ d'.state = "Initializing"
    BY <1>3 DEF InitializeFirst, Control, TypeOK, DaemonType
  <2>2. mine[Initializer] = None /\ d.conn = None
    BY <1>1, <2>1 DEF Owned, Holding, Early
  <2>3. PICK x \in {"dial"} : pc' = [pc EXCEPT ![Initializer] = x]
    BY <1>3 DEF InitializeFirst
  <2>4. mine' = mine /\ conns' = conns /\ closer' = closer
    BY <1>3 DEF InitializeFirst
  <2> QED
    BY <1>1, <2>1, <2>2, <2>3, <2>4, PlainMove
<1>4. CASE InitTransport
  <2>1. mine[Initializer] = None /\ d.conn = None /\ d.state # "Connected"
    BY <1>1, <1>4 DEF InitTransport, Owned, Holding, Early, ConnectedBacked
  <2>2. PICK x \in {"after", "failing"} : pc' = [pc EXCEPT ![Initializer] = x]
    BY <1>4 DEF InitTransport
  <2> QED
    BY <1>1, <1>4, <2>1, <2>2, PlainMove DEF InitTransport
<1>5. CASE InitAfterTransport
  <2>1. mine[Initializer] = None /\ d.conn = None /\ d.state # "Connected"
    BY <1>1, <1>5 DEF InitAfterTransport, Owned, Holding, Early, ConnectedBacked
  <2>2. d'.conn = d.conn /\ d'.state = d.state
    BY <1>5 DEF InitAfterTransport, TypeOK, DaemonType
  <2>3. PICK x \in {"ensure", "done"} : pc' = [pc EXCEPT ![Initializer] = x]
    BY <1>5 DEF InitAfterTransport
  <2> QED
    BY <1>1, <1>5, <2>1, <2>2, <2>3, PlainMove DEF InitAfterTransport, CloseClient
<1>6. CASE InitFailed
  <2>1. mine[Initializer] = None
    BY <1>1, <1>6 DEF InitFailed, Owned, Holding
  <2>2. d'.conn = d.conn /\ d'.state = "Failed"
    BY <1>6 DEF InitFailed, TypeOK, DaemonType
  <2>3. PICK x \in {"deinit"} : pc' = [pc EXCEPT ![Initializer] = x]
    BY <1>6 DEF InitFailed
  <2>4. mine' = mine /\ conns' = conns /\ closer' = closer
    BY <1>6 DEF InitFailed
  <2> QED
    BY <1>1, <2>1, <2>2, <2>3, <2>4, PlainMove
<1>7. CASE InitDeinit
  <2>1. mine[Initializer] = None
    BY <1>1, <1>7 DEF InitDeinit, Owned, Holding
  <2>2. d'.conn = d.conn /\ d'.state = d.state
    BY <1>7 DEF InitDeinit, TypeOK, DaemonType
  <2>3. PICK x \in {"done"} : pc' = [pc EXCEPT ![Initializer] = x]
    BY <1>7 DEF InitDeinit
  <2>4. mine' = mine /\ (conns' = conns \/ conns' = Broken(conns)) /\ closer' = closer
    BY <1>7 DEF InitDeinit, CloseClient
  <2>5. d'.state = "Connected" => d.conn # None
    BY <2>2 DEF Owned, ConnectedBacked
  <2> QED
    BY <1>1, <2>1, <2>2, <2>3, <2>4, <2>5, PlainMove
<1>8. CASE InitConnected
  <2>1. mine[Initializer] = None /\ d.conn # None
    BY <1>1, <1>8 DEF InitConnected, Owned, Holding
  <2>2. d'.conn = d.conn
    BY <1>8 DEF InitConnected, TypeOK, DaemonType
  <2>3. PICK x \in {"monitor"} : pc' = [pc EXCEPT ![Initializer] = x]
    BY <1>8 DEF InitConnected
  <2>4. mine' = mine /\ conns' = conns /\ closer' = closer
    BY <1>8 DEF InitConnected
  <2> QED
    BY <1>1, <2>1, <2>2, <2>3, <2>4, PlainMove
<1>9. CASE InitMonitor
  <2>1. mine[Initializer] = None
    BY <1>1, <1>9 DEF InitMonitor, Owned, Holding
  <2>2. d'.conn = d.conn /\ d'.state = d.state
    BY <1>9 DEF InitMonitor, TypeOK, DaemonType
  <2>3. PICK x \in {"done"} : pc' = [pc EXCEPT ![Initializer] = x]
    BY <1>9 DEF InitMonitor
  <2>4. mine' = mine /\ (conns' = conns \/ conns' = Broken(conns)) /\ closer' = closer
    BY <1>9 DEF InitMonitor
  <2>5. d'.state = "Connected" => d.conn # None
    BY <2>2 DEF Owned, ConnectedBacked
  <2> QED
    BY <1>1, <2>1, <2>2, <2>3, <2>4, <2>5, PlainMove
<1>10. ASSUME NEW a \in Actors, Ensure(a) PROVE Owned'
  BY <1>10, EnsureOwned
<1>11. ASSUME Spawn, mine' = mine, conns' = conns, d' = d, closer' = closer PROVE Owned'
  <2>1. PICK r \in Reconnectors : pc[r] = "idle" /\ pc' = [pc EXCEPT ![r] = "spawned"]
    BY <1>11 DEF Spawn
  <2>2. mine[r] = None
    BY <1>1, <2>1 DEF Owned, Holding
  <2>3. PICK x \in {"spawned"} : pc' = [pc EXCEPT ![r] = x]
    BY <2>1
  <2>4. d'.state = "Connected" => d.conn # None
    BY <1>11 DEF Owned, ConnectedBacked
  <2> QED
    BY <1>1, <1>11, <2>2, <2>3, <2>4, PlainMove
<1>12. CASE CheckDaemon \/ StatusAnswered
  BY <1>11, <1>12, OwnedSame DEF CheckDaemon, StatusAnswered
<1>13. ASSUME NEW r \in Reconnectors, ReconnectBegin(r) PROVE Owned'
  <2>1. mine[r] = None
    BY <1>1, <1>13 DEF ReconnectBegin, Owned, Holding
  <2>2. d'.conn = d.conn /\ (d'.state = d.state \/ d'.state = "Reconnecting")
    BY <1>13 DEF ReconnectBegin, TypeOK, DaemonType
  <2>3. PICK x \in {"teardown", "idle"} : pc' = [pc EXCEPT ![r] = x]
    BY <1>13 DEF ReconnectBegin
  <2> QED
    BY <1>1, <1>13, <2>1, <2>2, <2>3, PlainMove DEF ReconnectBegin, Owned, ConnectedBacked
<1>14. ASSUME NEW r \in Reconnectors, Teardown(r) PROVE Owned'
  <2>1. mine[r] = None /\ Reconnecting(r)
    BY <1>1, <1>14 DEF Teardown, Owned, Holding, Reconnecting
  <2>2. Step(r, "hangup", d.conn, None) /\ d'.state = d.state /\ conns' = conns
    BY <1>14 DEF Teardown, Step, TypeOK, DaemonType
  <2>3. Holding'
    BY <1>1, <2>1, <2>2, HoldingMove DEF Owned
  <2>4. \A e \in Conns : e # None
    BY <1>2
  <2>5. NoStrandedConn'
    BY <1>1, <2>1, <2>2, <2>4, StrandedMove DEF Owned
  <2>6. ConnectedBacked'
    BY <2>1, <2>2 DEF ConnectedBacked, Control
  <2> QED
    BY <2>3, <2>5, <2>6 DEF Owned
<1>15. ASSUME NEW r \in Reconnectors, Hangup(r) PROVE Owned'
  <2>1. Reconnecting(r) /\ d.conn = None /\ mine[r] \in Conns \cup {None}
    BY <1>1, <1>2, <1>15 DEF Hangup, Owned, Holding, Reconnecting
  <2>2. Step(r, "dial", None, None) /\ d' = d
    BY <1>15, <2>1 DEF Hangup, Step
  <2>3. Holding'
    BY <1>1, <2>1, <2>2, HoldingMove DEF Owned
  <2>4. \A e \in Conns : conns'[e] # "closed" => conns[e] # "closed" /\ e # mine[r] /\ e # d.conn
    BY <1>2, <1>15, <2>1, ClosedOne DEF Hangup, CloseClient
  <2>5. NoStrandedConn'
    BY <1>1, <2>2, <2>4, StrandedMove DEF Owned
  <2> QED
    BY <2>2, <2>3, <2>5 DEF Owned, ConnectedBacked
<1>16. ASSUME NEW r \in Reconnectors, ReconnectTransport(r) PROVE Owned'
  <2>1. mine[r] = None /\ d.conn = None /\ d.state # "Connected"
    BY <1>1, <1>16 DEF ReconnectTransport, Owned, Holding, Reconnecting, ConnectedBacked
  <2>2. d'.conn = d.conn /\ d'.state = d.state
    BY <1>16 DEF ReconnectTransport, TypeOK, DaemonType
  <2>3. PICK x \in {"ensure", "retry"} : pc' = [pc EXCEPT ![r] = x]
    BY <1>16 DEF ReconnectTransport
  <2> QED
    BY <1>1, <1>16, <2>1, <2>2, <2>3, PlainMove DEF ReconnectTransport
<1>17. ASSUME NEW r \in Reconnectors, Reconnected(r) PROVE Owned'
  <2>1. mine[r] = None /\ d.conn # None
    BY <1>1, <1>17 DEF Reconnected, Owned, Holding
  <2>2. d'.conn = d.conn
    BY <1>17 DEF Reconnected, TypeOK, DaemonType
  <2>3. PICK x \in {"idle", "monitor"} : pc' = [pc EXCEPT ![r] = x]
    BY <1>17 DEF Reconnected
  <2> QED
    BY <1>1, <1>17, <2>1, <2>2, <2>3, PlainMove DEF Reconnected
<1>18. ASSUME NEW r \in Reconnectors, ReconnectMonitor(r) PROVE Owned'
  <2>1. mine[r] = None
    BY <1>1, <1>18 DEF ReconnectMonitor, Owned, Holding
  <2>2. PICK x \in {"idle"} : pc' = [pc EXCEPT ![r] = x]
    BY <1>18 DEF ReconnectMonitor
  <2>3. mine' = mine /\ conns' = conns /\ closer' = closer /\ d' = d
    BY <1>18 DEF ReconnectMonitor
  <2>4. d'.state = "Connected" => d.conn # None
    BY <2>3 DEF Owned, ConnectedBacked
  <2> QED
    BY <1>1, <2>1, <2>2, <2>3, <2>4, PlainMove
<1>19. ASSUME NEW r \in Reconnectors, Retry(r) PROVE Owned'
  <2>1. mine[r] = None /\ d.conn = None
    BY <1>1, <1>19 DEF Retry, Owned, Holding, Reconnecting
  <2>2. d'.conn = d.conn /\ d'.state = d.state
    BY <1>19 DEF Retry, TypeOK, DaemonType
  <2>3. PICK x \in {"idle", "dial"} : pc' = [pc EXCEPT ![r] = x]
    BY <1>19 DEF Retry
  <2> QED
    BY <1>1, <1>19, <2>1, <2>2, <2>3, PlainMove DEF Retry, Owned, ConnectedBacked
<1>20. CASE CloseBegin
  <2>1. /\ d'.conn = d.conn /\ d'.state = "Closed" /\ closer'.conn = d.conn /\ closer'.pc = "hangup"
        /\ pc' = pc /\ mine' = mine /\ conns' = conns
    BY <1>20 DEF CloseBegin, TypeOK, DaemonType
  <2>2. closer.conn = None
    BY <1>20 DEF CloseBegin, Owned, Holding
  <2>3. (Early' <=> Early) /\ \A r \in Reconnectors : Reconnecting(r)' <=> Reconnecting(r)
    BY <2>1 DEF Early, Reconnecting
  <2>4. Holding'
    BY <2>1, <2>3 DEF Owned, Holding
  <2>5. NoStrandedConn'
    BY <1>2, <2>1, <2>2 DEF Owned, NoStrandedConn
  <2> QED
    BY <2>1, <2>4, <2>5 DEF Owned, ConnectedBacked
<1>21. CASE CloseHangup
  <2>1. /\ closer'.conn = None /\ closer'.pc = "wait" /\ d' = d /\ pc' = pc /\ mine' = mine
    BY <1>21 DEF CloseHangup, TypeOK, CloserType
  <2>2. \A e \in Conns : conns'[e] # "closed" => conns[e] # "closed" /\ e # closer.conn
    BY <1>2, <1>21, ClosedOne DEF CloseHangup, CloseClient
  <2>3. (Early' <=> Early) /\ \A r \in Reconnectors : Reconnecting(r)' <=> Reconnecting(r)
    BY <2>1 DEF Early, Reconnecting
  <2>4. Holding'
    BY <2>1, <2>3 DEF Owned, Holding
  <2>5. NoStrandedConn'
    BY <2>1, <2>2 DEF Owned, NoStrandedConn
  <2> QED
    BY <2>1, <2>4, <2>5 DEF Owned, ConnectedBacked
<1>22. CASE CloseWait
  <2>1. closer'.conn = closer.conn /\ closer'.pc = "done" /\ closer.pc = "wait"
    BY <1>22 DEF CloseWait, TypeOK, CloserType
  <2>2. \A e \in Conns : conns'[e] # "closed" => conns[e] # "closed"
    BY <1>22 DEF CloseWait, CloseClient, Broken
  <2> QED
    BY <1>22, <2>1, <2>2, OwnedSame DEF CloseWait
<1>23. CASE HostDown \/ RemoteChanges
  <2>1. \A e \in Conns : conns'[e] # "closed" => conns[e] # "closed"
    BY <1>23 DEF HostDown, RemoteChanges, Broken
  <2> QED
    BY <1>23, <2>1, OwnedSame DEF HostDown, RemoteChanges
<1>24. CASE Shutdown \/ HostUp \/ UNCHANGED vars \/ \E k \in Kinds : MonitorEnds(k)
  BY <1>24, OwnedSame DEF Shutdown, HostUp, vars, MonitorEnds
<1> QED
  BY <1>3, <1>4, <1>5, <1>6, <1>7, <1>8, <1>9, <1>10, <1>12, <1>13, <1>14, <1>15, <1>16, <1>17, <1>18, <1>19,
     <1>20, <1>21, <1>22, <1>23, <1>24, <1>1 DEF Next, InitStep, ReconnectStep

-----------------------------------------------------------------------------
\* newRemoteDaemon establishes the invariant.
LEMMA DaemonInit == Init => DaemonInv
<1> SUFFICES ASSUME Init PROVE DaemonInv
  OBVIOUS
<1>1. TypeOK
  <2>1. d \in DaemonType
    BY DEF Init, DaemonType, States
  <2>2. mon \in [Kinds -> MonitorType] /\ host \in HostType /\ closer \in CloserType
    BY DEF Init, MonitorType, HostType, CloserType
  <2>3. pc \in [Actors -> Places] /\ mine \in [Actors -> Conns \cup {None}] /\ lock \in Actors \cup {None}
    BY DEF Init, Places
  <2>4. faults = 0 /\ running = TRUE
    BY DEF Init
  <2>5. 0 \in 0..MaxFaults
    BY DaemonAssumption
  <2>6. client \in {"none", "live", "broken"} /\ conns \in [Conns -> {"closed", "live", "broken"}]
    BY DEF Init
  <2>7. checker \in [pc : {"idle", "status"}, conn : Conns \cup {None}]
    BY DEF Init
  <2> QED
    BY <2>1, <2>2, <2>3, <2>4, <2>5, <2>6, <2>7, Zenon DEF TypeOK
<1>2. \A a \in Actors : pc[a] = "idle" /\ mine[a] = None
  BY DEF Init
<1>3. Initializer \in Actors /\ \A r \in Reconnectors : r \in Actors
  BY DEF Actors
<1>4. OneReconnect /\ Control /\ Holding
  BY <1>2, <1>3 DEF Init, OneReconnect, Control, Holding, Reconnecting, Early
<1>5. ConnectedBacked /\ OneMonitor /\ NoStrandedConn
  BY DEF Init, ConnectedBacked, OneMonitor, NoStrandedConn
<1> QED
  BY <1>1, <1>4, <1>5 DEF DaemonInv

\* The invariant holds throughout: whatever Initialize, the health check, any
\* number of Reconnect goroutines and Close do to one remoteDaemon.
THEOREM DaemonInvariant == Spec => []DaemonInv
<1>1. DaemonInv /\ [Next]_vars => DaemonInv'
  BY TypeStep, ControlStep, MonitorStep, OwnedStep DEF DaemonInv, Owned
<1> QED
  BY DaemonInit, <1>1, PTL DEF Spec

\* The struct and everything around it keep their types.
THEOREM DaemonTypeCorrect == Spec => []TypeOK
  BY DaemonInvariant, PTL DEF DaemonInv

\* However many health checks start Reconnect, one goroutine reconnects.
THEOREM DaemonOneReconnect == Spec => []OneReconnect
  BY DaemonInvariant, PTL DEF DaemonInv

\* A Connected daemon always has a connection.
THEOREM DaemonConnectedBacked == Spec => []ConnectedBacked
  BY DaemonInvariant, PTL DEF DaemonInv

\* One cancelable monitor of each kind at most.
THEOREM DaemonOneMonitor == Spec => []OneMonitor
  BY DaemonInvariant, PTL DEF DaemonInv

\* One goroutine reconnects and one monitor of each kind runs, at most.
THEOREM DaemonNoDoubles == Spec => []NoDoubles
  BY DaemonInvariant, PTL DEF DaemonInv, NoDoubles

\* No gRPC connection is open that nobody will close.
THEOREM DaemonNoStrandedConn == Spec => []NoStrandedConn
  BY DaemonInvariant, PTL DEF DaemonInv
===============================================================================
