----------------------------- MODULE PortForwards -----------------------------
(***************************************************************************)
(* The port forwards of one remoteDaemon: the goroutine that watches the     *)
(* remote's listening ports and reconciles the forwards with them, the user  *)
(* requests and the server's reconcile loop that add and remove explicit      *)
(* ones, reconnects that tear everything down, and Close.                    *)
(*                                                                          *)
(* Both reconcilePortForwards and AddExplicitPortForward drop d.mu while     *)
(* they start listeners; what they started waits in their hands, here in      *)
(* made, until they take the lock again.                                     *)
(***************************************************************************)
EXTENDS Naturals, FiniteSets

CONSTANTS
  Keys,       \* protocol and remote port, as portForwardKey makes them
  UDP,        \* the keys whose protocol is UDP
  Same,       \* the local port with the number of the remote one, for each key
  Specs,      \* explicit forwards a user may ask for: a key and a local port
  Fwds,       \* names for the forwards that exist at a time
  Watchers,   \* names for the goroutines of monitorPorts
  None

\* Local ports; the ones of TCP and the ones of UDP are different ports.
Locals == {Same[k] : k \in Keys} \cup {s.local : s \in Specs}

ASSUME ForwardsAssumption ==
  /\ UDP \subseteq Keys /\ Specs \subseteq [key : Keys, local : Locals]
  /\ None \notin Keys \cup Locals \cup Fwds \cup Watchers

\* Who calls AddExplicitPortForward: a user's request, or a round of
\* reconcileConnections.
Adders == {"request", "round"}

VARIABLES
  closed,        \* d.closed
  explicit,      \* d.explicitPorts: the local port wanted for a key
  table,         \* d.portForwards
  fwd,           \* the activePortForward values
  current,       \* the goroutine that d.cancelMonitorPort cancels
  watch,         \* the goroutines of monitorPorts
  adder,         \* the calls of AddExplicitPortForward
  config,        \* the explicit forwards in the server's configuration
  pending,       \* what reconcileConnections has copied and not applied yet
  remote, busy,  \* ports listening on the remote; local ports others use
  carrier,       \* the forward that the connection being relayed came in by
  raced,         \* keys that two goroutines started forwards for at once
  lapsed,        \* keys whose forward is gone or dead until a later reconcile
  moves          \* bounds: how many requests, changes and reconnects are left

portVars == <<closed, explicit, table, fwd, current, watch, adder, config, pending,
              remote, busy, raced, lapsed, moves>>   \* without carrier

Unused == [key |-> None, local |-> None, conflict |-> FALSE, explicit |-> FALSE,
           listening |-> FALSE, live |-> FALSE, relays |-> FALSE, by |-> None]
Nothing == [k \in Keys |-> None]
IdleWatch == [pc |-> "idle", on |-> FALSE, inbox |-> None, ports |-> None, start |-> {},
              opts |-> Nothing, made |-> Nothing]
IdleAdd == [pc |-> "idle", key |-> None, local |-> None, made |-> None]

-----------------------------------------------------------------------------
(* Forwards.                                                                 *)

\* A forward's goroutines are counted by activeWorkers until its context is
\* canceled and its listener closed.
Working(f) == f.listening \/ f.live

InTable(tab, f) == \E k \in Keys : tab[k] = f
Held(w, a, f) == (\E x \in Watchers : \E k \in Keys : w[x].made[k] = f)
                   \/ \E x \in Adders : a[x].made = f

\* The values that nothing refers to and that do nothing any more are garbage.
Collected(fw, tab, w, a) ==
  [f \in Fwds |-> IF Working(fw[f]) \/ InTable(tab, f) \/ Held(w, a, f) \/ f = carrier
                  THEN fw[f] ELSE Unused]

Free == CHOOSE f \in Fwds : fwd[f] = Unused

\* cancel: the goroutine that waits for this closes the listener.
Canceled(f) == [f EXCEPT !.live = FALSE]

\* relayCancel: connections already accepted end as well.
RelaysCanceled(f) == [f EXCEPT !.live = FALSE, !.relays = FALSE]
\* Mutant: the listener is closed and its context left.
ClosedOnly(f) == [f EXCEPT !.listening = @ /\ f.key \in UDP]

\* listener.Close and cancel; a UDP forward has no listener to close.
Stopped(f) == [Canceled(f) EXCEPT !.listening = @ /\ f.key \in UDP]

PortTaken(l) == l \in busy \/ \E f \in Fwds : fwd[f].listening /\ fwd[f].local = l

\* startPortForward under the context of by, which is canceled unless on: TCP
\* then fails to listen, UDP does not look.
StartPortForward(k, l, wanted, by, on) ==
  LET conflict == PortTaken(l) \/ (~on /\ k \notin UDP)
  IN [key |-> k, local |-> l, conflict |-> conflict, explicit |-> wanted,
      listening |-> ~conflict, live |-> ~conflict /\ on, relays |-> ~conflict /\ on, by |-> by]

\* The goroutine of a forward whose context is canceled closes the listener.
ListenerCloses(f) ==
  /\ fwd[f].listening /\ ~fwd[f].live
  /\ fwd' = Collected([fwd EXCEPT ![f].listening = FALSE], table, watch, adder)
  /\ UNCHANGED <<closed, explicit, table, current, watch, adder, config, pending, remote,
                 busy, raced, lapsed, moves>>

-----------------------------------------------------------------------------
(* Watching the remote's ports.                                              *)

\* monitorPorts.
Monitor ==
  /\ ~closed
  /\ current = None
  /\ \E w \in Watchers :
       /\ watch[w].pc = "idle"
       /\ w = CHOOSE x \in Watchers : watch[x].pc = "idle"
       /\ watch' = [watch EXCEPT ![w] = [IdleWatch EXCEPT !.pc = "wait", !.on = TRUE]]
       /\ current' = w
  /\ UNCHANGED <<closed, explicit, table, fwd, adder, config, pending, remote, busy, raced,
                 lapsed, moves>>

Conflicted == {k \in Keys : table[k] # None /\ fwd[table[k]].conflict}

\* What the forwards should be: the detected ports and the explicit ones.
WantedPorts(ports) == ports \cup {k \in Keys : explicit[k] # None}

\* Keys that some goroutine is starting a forward for.
Starting(k) ==
  \/ \E w \in Watchers : k \in watch[w].start \/ watch[w].made[k] # None
  \/ \E a \in Adders : adder[a].key = k /\ adder[a].pc \in {"start", "conflict", "store"}

\* reconcilePortForwards up to the first unlock.
Reconcile(w, ports) ==
  LET wanted == WantedPorts(ports)
      gone == {k \in Keys : table[k] # None /\ k \notin wanted}
      retried == Conflicted \cap wanted
      start == retried \cup {k \in wanted : table[k] = None}
      tab == [k \in Keys |-> IF k \in gone \cup retried THEN None ELSE table[k]]
      w2 == [watch EXCEPT ![w] =
               [@ EXCEPT !.pc = "start", !.ports = ports, !.start = start,
                         !.inbox = IF ports = @ THEN None ELSE @,
                         !.opts = [k \in Keys |-> IF k \in start THEN explicit[k] ELSE None]]]
  IN /\ table' = tab
     /\ watch' = w2
     /\ fwd' = Collected([f \in Fwds |-> IF \E k \in gone \cup retried : table[k] = f
                                         THEN Stopped(fwd[f]) ELSE fwd[f]],
                         tab, w2, adder)
     /\ raced' = raced \cup {k \in start : Starting(k)}
     /\ lapsed' = IF watch[w].on THEN {k \in lapsed : tab[k] # None} ELSE lapsed \cup gone \cup start
     /\ UNCHANGED <<closed, explicit, current, adder, config, pending, remote, busy, moves>>

\* WatchPorts sends its first snapshot and then each change; it waits in
\* recvCh.
Arrive(w) ==
  /\ watch[w].on
  /\ watch[w].inbox = None
  /\ watch[w].ports # remote
  /\ watch' = [watch EXCEPT ![w].inbox = remote]
  /\ UNCHANGED <<closed, explicit, table, fwd, current, adder, config, pending, remote, busy,
                 raced, lapsed, moves>>

\* runPortWatchStream takes it.  The select may do so although the context is
\* canceled.
Receive(w) ==
  /\ watch[w].pc = "wait"
  /\ watch[w].inbox # None
  /\ Reconcile(w, watch[w].inbox)

\* The ticker finds forwards in conflict.  An empty snapshot is a nil slice,
\* which the ticker takes for no snapshot.
ConflictRetry(w) ==
  /\ watch[w].pc = "wait"
  /\ watch[w].ports \notin {None, {}}
  /\ Conflicted # {}
  /\ Reconcile(w, watch[w].ports)

\* The stream fails, and watchAndForwardPorts opens another.
StreamFails(w) ==
  /\ watch[w].pc = "wait" /\ watch[w].on
  /\ watch[w].ports # None
  /\ moves.faults > 0
  /\ moves' = [moves EXCEPT !.faults = @ - 1]
  /\ watch' = [watch EXCEPT ![w].ports = None, ![w].inbox = None]
  /\ UNCHANGED <<closed, explicit, table, fwd, current, adder, config, pending, remote, busy,
                 raced, lapsed>>

\* The local port of startPortForward: the option's, if there is one.
LocalFor(k, opt) == IF opt = None THEN Same[k] ELSE opt

ReconcileStart(w) ==
  /\ watch[w].pc = "start"
  /\ \E k \in watch[w].start :
       LET new == StartPortForward(k, LocalFor(k, watch[w].opts[k]), watch[w].opts[k] # None,
                                   w, watch[w].on)
       IN /\ fwd' = [fwd EXCEPT ![Free] = new]
          /\ watch' = [watch EXCEPT ![w].start = @ \ {k}, ![w].made[k] = Free]
  /\ UNCHANGED <<closed, explicit, table, current, adder, config, pending, remote, busy,
                 raced, lapsed, moves>>

\* What becomes of forwards made for a daemon that was closed meanwhile.
DropMade(fw, made) == [f \in Fwds |-> IF f \in made THEN RelaysCanceled(fw[f]) ELSE fw[f]]

\* reconcilePortForwards from the second lock on.
ReconcileDone(w) ==
  /\ watch[w].pc = "start" /\ watch[w].start = {}
  /\ LET made == watch[w].made
         tab == IF closed THEN table
                ELSE [k \in Keys |-> IF made[k] # None THEN made[k] ELSE table[k]]
         w2 == [watch EXCEPT ![w] = [@ EXCEPT !.pc = "wait", !.opts = Nothing,
                                              !.made = Nothing]]
         fw == IF closed THEN DropMade(fwd, {made[k] : k \in Keys}) ELSE fwd
     IN /\ table' = tab
        /\ watch' = w2
        /\ fwd' = Collected(fw, tab, w2, adder)
        /\ lapsed' = IF closed \/ watch[w].on THEN lapsed
                     ELSE lapsed \cup {k \in Keys : made[k] # None}
  /\ UNCHANGED <<closed, explicit, current, adder, config, pending, remote, busy, raced, moves>>

\* watchAndForwardPorts returns.
WatchEnds(w) ==
  /\ watch[w].pc = "wait"
  /\ ~watch[w].on
  /\ watch' = [watch EXCEPT ![w] = IdleWatch]
  /\ UNCHANGED <<closed, explicit, table, fwd, current, adder, config, pending, remote, busy,
                 raced, lapsed, moves>>

-----------------------------------------------------------------------------
(* Explicit forwards.                                                        *)

\* AddExplicitPortForward up to the first unlock.
AddBegin(a, k, l) ==
  LET old == table[k]
      same == old # None /\ fwd[old].local = l /\ ~fwd[old].conflict
      tab == IF old # None /\ ~same THEN [table EXCEPT ![k] = None] ELSE table
  IN /\ explicit[k] = None
     /\ explicit' = [explicit EXCEPT ![k] = l]
     /\ table' = tab
     /\ IF same
        THEN /\ fwd' = [fwd EXCEPT ![old].explicit = TRUE]
             /\ adder' = [adder EXCEPT ![a] = [IdleAdd EXCEPT !.pc = "added", !.key = k, !.local = l]]
             /\ UNCHANGED raced
        ELSE /\ fwd' = Collected([f \in Fwds |-> IF f = old
                                                 THEN RelaysCanceled(Stopped(fwd[f])) ELSE fwd[f]],
                                 tab, watch, adder)
             /\ adder' = [adder EXCEPT ![a] = [IdleAdd EXCEPT !.pc = "start", !.key = k, !.local = l]]
             /\ raced' = IF Starting(k) THEN raced \cup {k} ELSE raced

AddStart(a) ==
  /\ adder[a].pc = "start"
  /\ LET new == StartPortForward(adder[a].key, adder[a].local, TRUE, None, TRUE)
     IN IF new.conflict
        THEN /\ adder' = [adder EXCEPT ![a].pc = "conflict"]
             /\ UNCHANGED fwd
        ELSE /\ adder' = [adder EXCEPT ![a].pc = "store", ![a].made = Free]
             /\ fwd' = [fwd EXCEPT ![Free] = new]
  /\ UNCHANGED <<closed, explicit, table, current, watch, config, pending, remote, busy,
                 raced, lapsed, moves>>

AddConflict(a) ==
  /\ adder[a].pc = "conflict"
  /\ explicit' = [explicit EXCEPT ![adder[a].key] = None]
  /\ adder' = [adder EXCEPT ![a] = IdleAdd]
  /\ lapsed' = lapsed \cup {adder[a].key}
  /\ UNCHANGED <<closed, table, fwd, current, watch, config, pending, remote, busy, raced,
                 moves>>

AddStore(a) ==
  /\ adder[a].pc = "store"
  /\ LET k == adder[a].key
         tab == IF closed THEN table ELSE [table EXCEPT ![k] = adder[a].made]
         a2 == [adder EXCEPT ![a] = IF closed THEN IdleAdd ELSE [@ EXCEPT !.pc = "added", !.made = None]]
         fw == IF closed THEN DropMade(fwd, {adder[a].made}) ELSE fwd
     IN /\ table' = tab
        /\ adder' = a2
        /\ fwd' = Collected(fw, tab, watch, a2)
  /\ UNCHANGED <<closed, explicit, current, watch, config, pending, remote, busy, raced, lapsed,
                 moves>>

\* The call succeeded; AddPortForwards, which holds serverMu all the while,
\* also records the forward in the configuration.
AddDone(a) ==
  /\ adder[a].pc = "added"
  /\ config' = IF a = "request"
               THEN config \cup {[key |-> adder[a].key, local |-> adder[a].local]} ELSE config
  /\ adder' = [adder EXCEPT ![a] = IdleAdd]
  /\ UNCHANGED <<closed, explicit, table, fwd, current, watch, pending, remote, busy, raced,
                 lapsed, moves>>

\* AddPortForwards; AddExplicitPortForward has nothing to do for a key that
\* already is explicit, whatever its local port.
AddPortForwards ==
  /\ moves.requests > 0
  /\ adder["request"].pc = "idle"
  /\ \E s \in Specs :
       \/ AddBegin("request", s.key, s.local)
       \/ /\ explicit[s.key] # None
          /\ adder' = [adder EXCEPT !["request"] =
                         [IdleAdd EXCEPT !.pc = "added", !.key = s.key, !.local = s.local]]
          /\ UNCHANGED <<explicit, table, fwd, raced>>
  /\ moves' = [moves EXCEPT !.requests = @ - 1]
  /\ UNCHANGED <<closed, current, watch, config, pending, remote, busy, lapsed>>

\* RemovePortForwards with RemoveExplicitPortForward, which looks at the key
\* only; the configuration loses the very same forward only.
RemovePortForwards ==
  /\ moves.requests > 0
  /\ adder["request"].pc = "idle"
  /\ \E s \in Specs :
       LET k == s.key
           tab == IF explicit[k] = None THEN table ELSE [table EXCEPT ![k] = None]
       IN /\ explicit' = [explicit EXCEPT ![k] = None]
          /\ config' = config \ {s}
          /\ table' = tab
          /\ fwd' = Collected([f \in Fwds |-> IF explicit[k] # None /\ f = table[k]
                                              THEN RelaysCanceled(Stopped(fwd[f])) ELSE fwd[f]],
                              tab, watch, adder)
          /\ lapsed' = IF explicit[k] = None THEN lapsed ELSE lapsed \cup {k}
  /\ moves' = [moves EXCEPT !.requests = @ - 1]
  /\ UNCHANGED <<closed, current, watch, adder, pending, remote, busy, raced>>

\* reconcileConnections applies a copy of the configuration, which it read
\* under serverMu, without it, to a connected daemon.
RoundAdd ==
  /\ adder["round"].pc = "idle"
  /\ ~closed /\ current # None
  /\ \E s \in pending :
       /\ AddBegin("round", s.key, s.local)
       /\ pending' = pending \ {s}
  /\ UNCHANGED <<closed, current, watch, config, remote, busy, lapsed, moves>>

-----------------------------------------------------------------------------
(* Teardown.                                                                 *)

CurrentCanceled ==
  [w \in Watchers |-> IF w = current THEN [watch[w] EXCEPT !.on = FALSE] ELSE watch[w]]

\* The contexts that end: those of the forwards in the table and, with its
\* own, those of everything that the current watch has started.
AllCanceled ==
  [f \in Fwds |-> IF InTable(table, f) \/ (current # None /\ fwd[f].by = current)
                  THEN RelaysCanceled(fwd[f]) ELSE fwd[f]]

Cancel ==
  /\ table' = Nothing
  /\ watch' = CurrentCanceled
  /\ fwd' = Collected(AllCanceled, Nothing, CurrentCanceled, adder)
  /\ lapsed' = {}

\* teardownForReconnect.
Teardown ==
  /\ moves.faults > 0
  /\ ~closed
  /\ current # None
  /\ Cancel
  /\ current' = None
  /\ moves' = [moves EXCEPT !.faults = @ - 1]
  /\ UNCHANGED <<closed, explicit, adder, config, pending, remote, busy, raced>>

\* Close, up to its wait for the workers.
Close ==
  /\ moves.close
  /\ ~closed
  /\ closed' = TRUE
  /\ Cancel
  /\ UNCHANGED <<explicit, current, adder, config, pending, remote, busy, raced, moves>>

-----------------------------------------------------------------------------
(* The remote's ports, and other programs' on this host.                     *)

RemoteChanges ==
  /\ moves.changes > 0
  /\ \E k \in Keys : remote' = (remote \ {k}) \cup ({k} \ remote)
  /\ moves' = [moves EXCEPT !.changes = @ - 1]
  /\ UNCHANGED <<closed, explicit, table, fwd, current, watch, adder, config, pending, busy,
                 raced, lapsed>>

BusyChanges ==
  /\ moves.changes > 0
  /\ \E l \in Locals :
       \/ l \in busy /\ busy' = busy \ {l}
       \/ ~PortTaken(l) /\ busy' = busy \cup {l}
  /\ moves' = [moves EXCEPT !.changes = @ - 1]
  /\ UNCHANGED <<closed, explicit, table, fwd, current, watch, adder, config, pending, remote,
                 raced, lapsed>>

-----------------------------------------------------------------------------
PortInit ==
  /\ closed = FALSE
  /\ explicit = Nothing /\ table = Nothing
  /\ fwd = [f \in Fwds |-> Unused]
  /\ current = None /\ watch = [w \in Watchers |-> IdleWatch]
  /\ adder = [a \in Adders |-> IdleAdd]
  /\ config = {} /\ pending = {}
  /\ busy = {}
  /\ carrier = None /\ raced = {} /\ lapsed = {}

PortDaemon ==
  \/ Monitor
  \/ \E f \in Fwds : ListenerCloses(f)
  \/ \E w \in Watchers :
       \/ Arrive(w) \/ Receive(w) \/ ConflictRetry(w)
       \/ ReconcileStart(w) \/ ReconcileDone(w) \/ WatchEnds(w)
  \/ \E a \in Adders : AddStart(a) \/ AddConflict(a) \/ AddStore(a) \/ AddDone(a)
  \/ RoundAdd

PortWorld ==
  \/ \E w \in Watchers : StreamFails(w)
  \/ AddPortForwards \/ RemovePortForwards
  \/ RemoteChanges \/ BusyChanges

-----------------------------------------------------------------------------
(* Properties.                                                               *)

PortTypeOK ==
  /\ closed \in BOOLEAN
  /\ explicit \in [Keys -> Locals \cup {None}]
  /\ table \in [Keys -> Fwds \cup {None}]
  /\ fwd \in [Fwds -> [key : Keys \cup {None}, local : Locals \cup {None}, conflict : BOOLEAN,
                       explicit : BOOLEAN, listening : BOOLEAN, live : BOOLEAN,
                       relays : BOOLEAN, by : Watchers \cup {None}]]
  /\ \A f \in Fwds : fwd[f].key # None => fwd[f].local \in Locals
  /\ current \in Watchers \cup {None}
  /\ watch \in [Watchers -> [pc : {"idle", "wait", "start"}, on : BOOLEAN,
                             inbox : (SUBSET Keys) \cup {None},
                             ports : (SUBSET Keys) \cup {None}, start : SUBSET Keys,
                             opts : [Keys -> Locals \cup {None}],
                             made : [Keys -> Fwds \cup {None}]]]
  /\ adder \in [Adders -> [pc : {"idle", "start", "conflict", "store", "added"},
                           key : Keys \cup {None}, local : Locals \cup {None},
                           made : Fwds \cup {None}]]
  /\ config \subseteq Specs /\ pending \subseteq Specs
  /\ remote \subseteq Keys /\ busy \subseteq Locals
  /\ raced \subseteq Keys /\ lapsed \subseteq Keys
  /\ carrier \in Fwds \cup {None}

Tracked(f) == InTable(table, f) \/ Held(watch, adder, f)

\* Every listener that has not been told to stop can still be: the table or
\* the goroutine that made it knows it (remote_daemon.go:298, :1431).  Two
\* goroutines that start forwards for one key at once are the exception: the
\* one to finish last overwrites what the other stored, and nothing stops that
\* listener before the server itself stops.
NoneStranded == \A f \in Fwds : fwd[f].live => Tracked(f) \/ fwd[f].key \in raced

\* Close leaves nothing behind: what is started while it runs is not stored
\* (remote_daemon.go:291, :1422), so once every call in progress has returned
\* no forward is left that activeWorkers would wait for.
ClosedLeavesNothing ==
  /\ closed => table = Nothing
  /\ (/\ closed
      /\ \A a \in Adders : adder[a].pc \in {"idle", "added"}
      /\ \A w \in Watchers : watch[w].pc # "start"
      /\ \A f \in Fwds : ~(fwd[f].listening /\ ~fwd[f].live))
       => \A f \in Fwds : Working(fwd[f]) => fwd[f].key \in raced

\* The watch has handled the last snapshot and nobody starts or stops a
\* forward.
Settled ==
  /\ ~closed /\ current # None
  /\ watch[current].pc = "wait" /\ watch[current].ports = remote
  /\ watch[current].inbox = None
  /\ \A w \in Watchers \ {current} : watch[w].pc = "idle"
  /\ \A a \in Adders : adder[a].pc = "idle"
  /\ \A f \in Fwds : fwd[f].listening => fwd[f].live

Serves(f, k) == fwd[f].key = k /\ fwd[f].listening /\ fwd[f].live

\* A settled daemon mirrors the remote: each detected and each explicit port
\* has a forward, on the local port asked for, that listens or is marked as in
\* conflict, and no other port has (architecture.md:261).  Ports whose forward
\* lapsed, and ports that two goroutines raced for, are the exceptions.
Mirrored ==
  Settled =>
    \A k \in Keys \ (raced \cup lapsed) :
      IF k \in WantedPorts(remote)
      THEN /\ table[k] # None
           /\ fwd[table[k]].local = LocalFor(k, explicit[k])
           /\ fwd[table[k]].conflict \/ Serves(table[k], k)
      ELSE table[k] = None /\ \A f \in Fwds : ~Serves(f, k)

\* "Explicit port forwards survive auto-detection reconciliation; they are
\* never torn down by the auto-detection lifecycle" (remote_daemon.go:222):
\* while a key stays explicit, only a reconnect or Close ends its forward.
ExplicitSurvives ==
  [][\A k \in Keys \ raced' :
       /\ explicit[k] # None /\ explicit'[k] = explicit[k]
       /\ table[k] # None /\ fwd[table[k]].live
       /\ fwd[table[k]].local = explicit[k]
       => \/ table'[k] = table[k] /\ fwd'[table[k]].live
          \/ \E w \in Watchers : watch[w].on /\ ~watch'[w].on
          \/ closed']_portVars
===============================================================================
