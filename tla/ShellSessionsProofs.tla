-------------------------- MODULE ShellSessionsProofs --------------------------
(***************************************************************************)
(* Proofs about the shells and the SessionManager, for any shells,          *)
(* directories, connections, requests in progress and scenarios: what a     *)
(* shell reported is kept, a command never starts on a connection that was   *)
(* closed before, and one undisturbed tick settles every session.           *)
(***************************************************************************)
EXTENDS ShellSessions, TLAPS

-----------------------------------------------------------------------------
(* The inductive invariant.                                                  *)

\* A report that the daemon has carried out, or is carrying out.
Past(c) == calls[c].own /\ (calls[c].pc # "update" \/ lock = c)

\* What the holder of sessMgrMu is at, and what the requests hold.
Held ==
  /\ \A n \in Names : conns[n].state # "none" => conns[n].obj > 0
  /\ lock \in Calls => rec.pc # "idle" /\ calls[lock].pid = rec.pid /\ calls[lock].pc \in {"pin", "update"}
  /\ lock = "tick" /\ rec.pc # "idle" => tick.pc = "reconcile" /\ rec.pid \notin tick.todo
  /\ rec.pc = "lookup" => rec.sel \in Refs
  /\ tick.pc = "remove" => tick.pid \in tick.todo
  /\ tick.pc = "reconcile" => \A p \in tick.todo : sess[p] # None
  /\ \A c \in Calls :
       /\ calls[c].pc # "idle" => calls[c].pid \in Pids
       /\ calls[c].pc \in {"state", "started"} => calls[c].sel \in Refs
       /\ calls[c].pc \in {"read", "select"} => calls[c].held # None \/ sess[calls[c].pid] # None

\* A shell has one report at a time, and one that was carried out is on disk.
Reported(c) ==
  /\ calls[c].op = "report" /\ calls[c].pc \in {"update", "done"} /\ shells[calls[c].pid].alive
  /\ \A e \in Calls : calls[e].own /\ calls[e].pid = calls[c].pid => e = c
  /\ Past(c) => /\ disk[calls[c].pid].made
                /\ ~shells[calls[c].pid].unsure => disk[calls[c].pid].cwd = calls[c].cwd
Reports ==
  /\ \A c \in Calls : calls[c].own => Reported(c)
  /\ tick.pc = "remove" =>
       /\ shells[tick.pid].alive => shells[tick.pid].last = None
       /\ \A c \in Calls : calls[c].pid = tick.pid => ~Past(c)

\* Memory and disk agree on a directory, and it is the one last reported.
Known ==
  \A p \in Pids :
    /\ sess[p] # None => sess[p].cwd = disk[p].cwd
    /\ shells[p].alive /\ shells[p].last # None => disk[p].made
    /\ shells[p].alive /\ shells[p].last # None /\ ~shells[p].unsure /\ (\A c \in Calls : calls[c].pid = p => ~Past(c)) =>
         disk[p].cwd = shells[p].last

\* What a request knew to be closed is closed.
Closed ==
  /\ \A c \in Calls, n \in Names : calls[c].old[n] <= ClosedOnes[n]
  /\ RunsLive

\* The routes of a session that selects a connection, and a session that has them.
Target(r) == IF r = NoConn THEN NoForwardings ELSE ForwardedCommands(Forwardings(r), r.name)
Served(p) ==
  \/ Unreachable(Selected(p))
  \/ /\ sess[p].actual = Target(Selected(p))
     /\ disk[p].shims = DOMAIN Target(Selected(p)) \cup {"sudo"}
     /\ disk[p].conn = Selected(p).name

\* What the sweep of tickPruneSessions leaves of a shell.
Swept(p) == IF shells[p].alive THEN sess[p] # None \/ ~disk[p].made ELSE sess[p] = None /\ ~disk[p].made

\* How far a reconciliation of an undisturbed tick is.
Underway ==
  /\ rec.pc = "cwd" => ~(sess[rec.pid].pin # "" /\ Connection(sess[rec.pid].pin))
  /\ rec.pc \in {"list", "lookup", "remove", "apply"} => rec.sel = Selected(rec.pid)
  /\ rec.pc \in {"pin", "cwd", "list"} => rec.new = NoForwardings
  /\ rec.pc = "lookup" => rec.intents = Forwardings(rec.sel) /\ rec.intents # {}
  /\ rec.pc \in {"remove", "apply"} => rec.new = Target(rec.sel)
  /\ rec.pc = "apply" => disk[rec.pid].shims \subseteq DOMAIN rec.new \cup {"sudo"}

\* How far an undisturbed tick is.
Sweeping ==
  tick.calm =>
    /\ tick.pc \in {"prune", "remove"} => \A p \in Pids \ tick.todo : Swept(p)
    /\ tick.pc = "remove" => ~shells[tick.pid].alive
    /\ tick.pc = "reconcile" =>
         /\ \A p \in Pids : Swept(p)
         /\ \A p \in Pids \ tick.todo : sess[p] # None /\ (rec.pc = "idle" \/ rec.pid # p) => Served(p)
         /\ Underway

SessionsInv == TypeOK /\ Held /\ Reports /\ Known /\ Closed /\ Sweeping

-----------------------------------------------------------------------------
(* What the constants are.                                                   *)

\* Nothing that a state can hold is None, and no name is empty.
LEMMA Distinct ==
  /\ None \notin Pids /\ None \notin Dirs /\ None \notin Names /\ None \notin Calls
  /\ None # "" /\ None # "tick" /\ "" \notin Names /\ "tick" \notin Calls
  BY ShellSessionsAssumption, Zenon

\* The number of objects is a number.
LEMMA Objects == MaxObjects \in Nat
  BY ShellSessionsAssumption, Zenon

\* A session is not None (getOrCreateSession never returns nil).
LEMMA SessionNotNone ==
  ASSUME NEW x \in Sessions
  PROVE  x # None /\ x.cwd \in Dirs \cup {None} /\ x.pin \in Names \cup {""} /\ x.actual \in Routes
  <1>1. x.cwd \in Dirs \cup {None} /\ x.pin \in Names \cup {""} /\ x.actual \in Routes
    BY Zenon DEF Sessions
  <1>2. x = [cwd |-> x.cwd, pin |-> x.pin, actual |-> x.actual]
    BY Zenon DEF Sessions
  <1>3. [cwd |-> x.cwd, pin |-> x.pin, actual |-> x.actual] # None
    BY <1>1, ShellSessionsAssumption, Zenon
  <1>4. QED
    BY <1>1, <1>2, <1>3, Zenon

\* No connection is not a connection.
LEMMA NoConnNotRef ==
  /\ NoConn \notin Refs
  /\ \A r \in Refs : r.name \in Names /\ r.obj \in 1 .. MaxObjects /\ r.obj \in Nat /\ r.obj > 0
  <1>1. NoConn \notin Refs
    BY Distinct, Zenon DEF NoConn, Refs
  <1>2. ASSUME NEW r \in Refs PROVE r.name \in Names /\ r.obj \in 1 .. MaxObjects /\ r.obj \in Nat /\ r.obj > 0
    <2>1. r.name \in Names /\ r.obj \in 1 .. MaxObjects
      BY Zenon DEF Refs
    <2>2. QED
      BY <2>1, Objects
  <1>3. QED
    BY <1>1, <1>2, Zenon

\* No forwarding at all is a table of forwardings.
LEMMA NoRoutes == NoForwardings \in Routes
  <1>1. {} \in SUBSET ShimNames
    BY Zenon
  <1>2. NoForwardings \in [{} -> Refs]
    BY Zenon DEF NoForwardings
  <1>3. QED
    BY <1>1, <1>2, Zenon DEF Routes

\* A table with the routes of one connection.
LEMMA RoutesTo ==
  ASSUME NEW S \in SUBSET ShimNames, NEW r \in Refs
  PROVE  [s \in S |-> r] \in Routes
  <1>1. [s \in S |-> r] \in [S -> Refs]
    BY Zenon
  <1>2. QED
    BY <1>1, Zenon DEF Routes

\* Every route leads to a connection (Session.Which).
LEMMA RouteRef ==
  ASSUME NEW a \in Routes, NEW s \in DOMAIN a
  PROVE  a[s] \in Refs
  <1>1. PICK S \in SUBSET ShimNames : a \in [S -> Refs]
    BY Zenon DEF Routes
  <1>2. QED
    BY <1>1, Zenon

-----------------------------------------------------------------------------
(* What the manager reads from the connection table.                         *)

\* A connection in the table.
LEMMA TableRef ==
  ASSUME SessionsInv, NEW n \in Names, InTable(n)
  PROVE  Ref(n) \in Refs /\ Ref(n).name = n /\ Ref(n).obj = conns[n].obj
  <1>1. conns[n] \in Conns /\ conns[n].obj > 0
    BY Zenon DEF SessionsInv, TypeOK, Held, InTable
  <1>2. conns[n].obj \in 1 .. MaxObjects
    <2>1. conns[n].obj \in 0 .. MaxObjects
      BY <1>1, Zenon DEF Conns
    <2>2. QED
      BY <1>1, <2>1, Objects
  <1>3. QED
    BY <1>2, Zenon DEF Ref, Refs

\* connectionByCWD finds a connection of the table or none.
LEMMA ByCWD ==
  ASSUME SessionsInv, NEW d
  PROVE  ConnectionByCWD(d) \in Refs \cup {NoConn}
  <1> DEFINE matches == {n \in Names \ Background : InTable(n) /\ d \in Covers[n]}
  <1>1. CASE \E n \in Names : matches = {n}
    <2>1. PICK n \in Names : matches = {n}
      BY <1>1, Zenon
    <2>2. (CHOOSE m \in matches : TRUE) = n
      BY <2>1, Zenon
    <2>3. ConnectionByCWD(d) = Ref(n) /\ InTable(n)
      BY <1>1, <2>1, <2>2, Zenon DEF ConnectionByCWD
    <2>4. QED
      BY <2>3, TableRef, Zenon
  <1>2. CASE ~(\E n \in Names : matches = {n})
    BY <1>2, Zenon DEF ConnectionByCWD
  <1>3. QED
    BY <1>1, <1>2, Zenon

\* The forwardings of a selected connection.
LEMMA ForwardingsOf ==
  ASSUME SessionsInv, NEW r \in Refs \cup {NoConn}
  PROVE  /\ Forwardings(r) \in SUBSET Intents
         /\ Forwardings(r) # {} => r \in Refs /\ Ref(r.name) = r /\ conns[r.name].fwds = Forwardings(r)
  <1>1. \A n \in Names : conns[n].fwds \in SUBSET Intents
    BY Zenon DEF SessionsInv, TypeOK, Conns
  <1>2. QED
    BY <1>1, NoConnNotRef, Zenon DEF Forwardings

\* resolveForwardedCommandsForSession gives routes to the connection.
LEMMA ForwardedRoutes ==
  ASSUME SessionsInv, NEW i \in SUBSET Intents, NEW n \in Names, InTable(n)
  PROVE  ForwardedCommands(i, n) \in Routes
  <1>1. {LocalName(j, n) : j \in {k \in i : conns[n].avail}} \in SUBSET ShimNames
    BY Zenon DEF LocalName, ShimNames
  <1>2. QED
    BY <1>1, TableRef, RoutesTo, Zenon DEF ForwardedCommands

\* A connection whose commands are none gives no routes.
LEMMA NoForwarded ==
  ASSUME NEW n
  PROVE  ForwardedCommands({}, n) = NoForwardings
  <1>1. {LocalName(j, n) : j \in {k \in {} : conns[n].avail}} = {}
    BY Zenon
  <1>2. ForwardedCommands({}, n) = [s \in {} |-> Ref(n)]
    BY <1>1, Zenon DEF ForwardedCommands
  <1>3. QED
    BY <1>2, Zenon DEF NoForwardings

\* How many of a name's connections are closed is a number of them.
LEMMA ClosedCount ==
  ASSUME SessionsInv
  PROVE  /\ ClosedOnes \in [Names -> 0 .. MaxObjects]
         /\ \A n \in Names : ClosedOnes[n] \in Nat
  <1>1. ASSUME NEW n \in Names PROVE ClosedOnes[n] \in 0 .. MaxObjects /\ ClosedOnes[n] \in Nat
    <2>1. conns[n].obj \in 0 .. MaxObjects /\ (conns[n].state # "none" => conns[n].obj > 0)
      BY Zenon DEF SessionsInv, TypeOK, Held, Conns
    <2>2. ClosedOnes[n] = IF conns[n].state \in {"up", "down"} THEN conns[n].obj - 1 ELSE conns[n].obj
      BY Zenon DEF ClosedOnes
    <2>3. QED
      BY <2>1, <2>2, Objects
  <1>2. QED
    BY <1>1, Zenon DEF ClosedOnes

\* What is read from a table that did not change.
LEMMA SameTable ==
  ASSUME conns' = conns
  PROVE  /\ \A n : Connection(n)' = Connection(n) /\ Ref(n)' = Ref(n) /\ InTable(n)' = InTable(n)
         /\ \A d : ConnectionByCWD(d)' = ConnectionByCWD(d)
         /\ \A r : Forwardings(r)' = Forwardings(r) /\ Unreachable(r)' = Unreachable(r) /\ Target(r)' = Target(r)
         /\ ClosedOnes' = ClosedOnes
  <1>1. \A n : Connection(n)' = Connection(n) /\ Ref(n)' = Ref(n) /\ InTable(n)' = InTable(n)
    BY Zenon DEF Connection, Ref, InTable
  <1>2. \A d : ConnectionByCWD(d)' = ConnectionByCWD(d)
    BY Zenon DEF ConnectionByCWD, Ref, InTable
  <1>3. \A r : Forwardings(r)' = Forwardings(r) /\ Unreachable(r)' = Unreachable(r)
    BY Zenon DEF Forwardings, Unreachable, Connection, Ref, InTable
  <1>4. \A r : Target(r)' = Target(r)
    BY Zenon DEF Target, ForwardedCommands, Forwardings, Ref, InTable
  <1>5. ClosedOnes' = ClosedOnes
    BY Zenon DEF ClosedOnes
  <1>6. QED
    BY <1>1, <1>2, <1>3, <1>4, <1>5, Zenon

-----------------------------------------------------------------------------
(* Sessions and their directories.                                           *)

\* getOrCreateSession returns a session with the directory that is on disk.
LEMMA GotSession ==
  ASSUME SessionsInv, NEW p \in Pids
  PROVE  /\ GetOrCreateSession(p) \in Sessions /\ GetOrCreateSession(p) # None
         /\ GetOrCreateSession(p).cwd = disk[p].cwd
         /\ sess[p] # None => GetOrCreateSession(p) = sess[p]
  <1>1. disk[p] \in Directories /\ sess[p] \in Sessions \cup {None}
    BY Zenon DEF SessionsInv, TypeOK
  <1>2. CASE sess[p] # None
    BY <1>1, <1>2, Zenon DEF GetOrCreateSession, SessionsInv, Known
  <1>3. CASE sess[p] = None
    <2>1. GetOrCreateSession(p) = [cwd |-> disk[p].cwd, pin |-> "", actual |-> NoForwardings]
      BY <1>3, Zenon DEF GetOrCreateSession, NewSession
    <2>2. disk[p].cwd \in Dirs \cup {None}
      BY <1>1, Zenon DEF Directories
    <2>3. GetOrCreateSession(p) \in Sessions /\ GetOrCreateSession(p).cwd = disk[p].cwd
      <3>1. PICK d, a, e : d = disk[p].cwd /\ a = NoForwardings /\ e = ""
        BY Zenon
      <3>2. d \in Dirs \cup {None} /\ a \in Routes /\ e \in Names \cup {""}
        BY <2>2, <3>1, NoRoutes, Zenon
      <3>3. [cwd |-> d, pin |-> e, actual |-> a] \in Sessions /\ [cwd |-> d, pin |-> e, actual |-> a].cwd = d
        BY <3>2, Zenon DEF Sessions
      <3>4. QED
        BY <2>1, <3>1, <3>3, Zenon
    <2>4. QED
      BY <1>3, <2>3, SessionNotNone, Zenon
  <1>4. QED
    BY <1>2, <1>3, Zenon

\* A session's directory is there, and keeps what is in it.
LEMMA GotDirectory ==
  ASSUME SessionsInv, NEW p \in Pids
  PROVE  /\ SessionDirectory(p) \in Directories /\ SessionDirectory(p).made
         /\ SessionDirectory(p).cwd = disk[p].cwd /\ SessionDirectory(p).shims = disk[p].shims
         /\ SessionDirectory(p).conn = disk[p].conn
  <1>1. disk[p] \in Directories /\ (sess[p] # None => disk[p].made)
    BY Zenon DEF SessionsInv, TypeOK
  <1>2. CASE sess[p] # None
    BY <1>1, <1>2, Zenon DEF SessionDirectory
  <1>3. CASE sess[p] = None
    <2>1. SessionDirectory(p) = [disk[p] EXCEPT !.made = TRUE]
      BY <1>3, Zenon DEF SessionDirectory
    <2>2. QED
      BY <1>1, <2>1, Zenon DEF Directories
  <1>4. QED
    BY <1>2, <1>3, Zenon

\* The session a request works with (the object it looked up, or the table's).
LEMMA CallSession ==
  ASSUME SessionsInv, NEW c \in Calls, calls[c].pc \in {"read", "select"}
  PROVE  Session(c) \in Sessions
  <1>1. calls[c] \in InProgress /\ calls[c].pid \in Pids /\ (calls[c].held # None \/ sess[calls[c].pid] # None)
    BY Zenon DEF SessionsInv, TypeOK, Held
  <1>2. calls[c].held \in Sessions \cup {None} /\ sess[calls[c].pid] \in Sessions \cup {None}
    BY <1>1, Zenon DEF InProgress, SessionsInv, TypeOK
  <1>3. QED
    BY <1>1, <1>2, Zenon DEF Session

\* An undisturbed sweep that sees nothing change.
LEMMA SweepKept ==
  ASSUME SessionsInv, UNCHANGED <<conns, disk, sess, tick, rec>>, \A p \in Pids : shells'[p].alive = shells[p].alive
  PROVE  Sweeping'
  <1>1. \A p \in Pids : Swept(p)' = Swept(p)
    BY Zenon DEF Swept
  <1>2. \A p : Selected(p)' = Selected(p)
    BY SameTable, Zenon DEF Selected
  <1>3. \A p : Served(p)' = Served(p)
    BY <1>2, SameTable, Zenon DEF Served
  <1>4. Underway' = Underway
    BY <1>2, SameTable, Zenon DEF Underway
  <1>5. tick.pc = "remove" => tick.pid \in Pids
    BY Zenon DEF SessionsInv, TypeOK, Held, Ticks
  <1>6. QED
    BY <1>1, <1>3, <1>4, <1>5, Zenon DEF SessionsInv, Sweeping

-----------------------------------------------------------------------------
(* Requests that take no lock.                                               *)

\* What a step may make of a request that is not a report in progress: the
\* end of it, a further step of it, or a new request in its slot.
CallMove(c, v) ==
  /\ v \in InProgress
  /\ ~calls[c].own /\ lock # c
  /\ v.pc # "idle" => v.pid \in Pids
  /\ v.pc \in {"state", "started"} => v.sel \in Refs
  /\ v.pc \in {"read", "select"} => v.held # None \/ sess[v.pid] # None
  /\ \A n \in Names : v.old[n] <= ClosedOnes[n]
  /\ v.pc = "started" => v.sel.obj > v.old[v.sel.name]
  /\ v.own => v.op = "report" /\ v.pc = "update" /\ shells[v.pid].alive /\ ~Reporting(v.pid)

\* Such a step keeps the invariant.
LEMMA CallMoves ==
  ASSUME SessionsInv, NEW c \in Calls, NEW v, CallMove(c, v), calls' = [calls EXCEPT ![c] = v],
         UNCHANGED <<conns, shells, disk, sess, lock, tick, rec>>, budget' \in Budgets
  PROVE  SessionsInv'
  <1>1. /\ calls \in [Calls -> InProgress] /\ calls' \in [Calls -> InProgress]
        /\ calls'[c] = v /\ \A e \in Calls \ {c} : calls'[e] = calls[e]
    BY Zenon DEF SessionsInv, TypeOK, CallMove
  <1>2. TypeOK'
    BY <1>1, Zenon DEF SessionsInv, TypeOK
  <1>3. Held'
    <2>1. lock \in Calls => rec.pc # "idle" /\ calls'[lock].pid = rec.pid /\ calls'[lock].pc \in {"pin", "update"}
      BY <1>1, Zenon DEF SessionsInv, Held, CallMove
    <2>2. \A e \in Calls :
            /\ calls'[e].pc # "idle" => calls'[e].pid \in Pids
            /\ calls'[e].pc \in {"state", "started"} => calls'[e].sel \in Refs
            /\ calls'[e].pc \in {"read", "select"} => calls'[e].held # None \/ sess[calls'[e].pid] # None
      BY <1>1, Zenon DEF SessionsInv, Held, CallMove
    <2>3. QED
      BY <2>1, <2>2, Zenon DEF SessionsInv, Held
  <1>4. ~Past(c) /\ ~Past(c)' /\ (\A e \in Calls \ {c} : Past(e)' = Past(e))
    BY <1>1, Zenon DEF Past, CallMove
  <1>5. Reports'
    <2>1. ASSUME NEW e \in Calls, calls'[e].own PROVE Reported(e)'
      <3>1. CASE e = c
        BY <1>1, <1>4, <2>1, <3>1, Zenon DEF CallMove, Reporting, Reported
      <3>2. CASE e # c
        BY <1>1, <1>4, <2>1, <3>2, Zenon DEF SessionsInv, Reports, Reported, CallMove, Reporting
      <3>3. QED
        BY <3>1, <3>2, Zenon
    <2>2. tick.pc = "remove" =>
            /\ shells[tick.pid].alive => shells[tick.pid].last = None
            /\ \A e \in Calls : calls'[e].pid = tick.pid => ~Past(e)'
      BY <1>1, <1>4, Zenon DEF SessionsInv, Reports
    <2>3. QED
      BY <2>1, <2>2, Zenon DEF Reports
  <1>6. Known'
    <2>1. ASSUME NEW p \in Pids, \A e \in Calls : calls'[e].pid = p => ~Past(e)'
          PROVE  \A e \in Calls : calls[e].pid = p => ~Past(e)
      BY <1>1, <1>4, <2>1, Zenon
    <2>2. QED
      BY <2>1, Zenon DEF SessionsInv, Known
  <1>7. Closed'
    <2>1. \A e \in Calls, n \in Names : calls'[e].old[n] <= ClosedOnes[n]
      BY <1>1, Zenon DEF SessionsInv, Closed, CallMove
    <2>2. \A e \in Calls : calls'[e].pc = "started" => calls'[e].sel.obj > calls'[e].old[calls'[e].sel.name]
      BY <1>1, Zenon DEF SessionsInv, Closed, RunsLive, CallMove
    <2>3. QED
      BY <2>1, <2>2, SameTable, Zenon DEF Closed, RunsLive
  <1>8. Sweeping'
    BY SweepKept, Zenon
  <1>9. QED
    BY <1>2, <1>3, <1>5, <1>6, <1>7, <1>8, Zenon DEF SessionsInv

\* An empty slot is the end of a request.
LEMMA IdleMove ==
  ASSUME SessionsInv, NEW c \in Calls, ~calls[c].own, lock # c
  PROVE  CallMove(c, Idle)
  <1>1. Idle \in InProgress
    BY Objects DEF Idle, InProgress
  <1>2. Idle.pc = "idle" /\ Idle.own = FALSE /\ \A n \in Names : Idle.old[n] = 0
    BY Zenon DEF Idle
  <1>3. QED
    BY <1>1, <1>2, ClosedCount DEF CallMove

\* A request that gets on.
LEMMA StepMove ==
  ASSUME SessionsInv, NEW c \in Calls, ~calls[c].own, lock # c, calls[c].pc # "idle",
         NEW v \in InProgress, v.own = calls[c].own, v.pid = calls[c].pid, v.old = calls[c].old,
         v.pc \in {"state", "started"} => v.sel \in Refs,
         v.pc \in {"read", "select"} => v.held # None \/ sess[v.pid] # None,
         v.pc = "started" => v.sel.obj > v.old[v.sel.name]
  PROVE  CallMove(c, v)
  <1>1. calls[c].pid \in Pids /\ \A n \in Names : calls[c].old[n] <= ClosedOnes[n]
    BY Zenon DEF SessionsInv, Held, Closed
  <1>2. QED
    BY <1>1, Zenon DEF CallMove

\* A request that is not a report, at a step that takes no lock.
LEMMA Unlocked ==
  ASSUME SessionsInv, NEW c \in Calls, calls[c].pc \in {"check", "read", "select", "byCwd", "state"}
  PROVE  ~calls[c].own /\ lock # c /\ calls[c] \in InProgress
  BY Zenon DEF SessionsInv, TypeOK, Held, Reports, Reported

\* A request that has selected a connection.
LEMMA SelectMove ==
  ASSUME SessionsInv, NEW c \in Calls, calls[c].pc \in {"select", "byCwd"}, NEW r \in Refs, Select(c, r)
  PROVE  \E v : CallMove(c, v) /\ calls' = [calls EXCEPT ![c] = v]
  <1>1. ~calls[c].own /\ lock # c /\ calls[c] \in InProgress
    BY Unlocked, Zenon
  <1>2. PICK x : x = (IF calls[c].op = "select" THEN "done" ELSE "state")
    BY Zenon
  <1>3. PICK v : v = [calls[c] EXCEPT !.pc = x, !.sel = r]
    BY Zenon
  <1>4. calls' = [calls EXCEPT ![c] = v]
    BY <1>2, <1>3, Zenon DEF Select, SessionsInv, TypeOK
  <1>5. /\ v \in InProgress /\ v.own = calls[c].own /\ v.pid = calls[c].pid /\ v.old = calls[c].old
        /\ v.sel = r /\ v.pc \in {"done", "state"}
    <2>1. x \in {"done", "state"}
      BY <1>2, Zenon
    <2>2. /\ v.own = calls[c].own /\ v.pid = calls[c].pid /\ v.old = calls[c].old
          /\ v.sel = r /\ v.pc = x
      BY <1>1, <1>3, Zenon DEF InProgress
    <2>3. v \in InProgress
      BY <1>1, <1>3, <2>1, ZenonT(20) DEF InProgress
    <2>4. QED
      BY <2>1, <2>2, <2>3, Zenon
  <1>6. CallMove(c, v)
    BY <1>1, <1>5, StepMove, Zenon
  <1>7. QED
    BY <1>4, <1>6, Zenon

\* The requests' own steps: those that read the connection table and the
\* session without the lock.
LEMMA ReadingMoves ==
  ASSUME SessionsInv, NEW c \in Calls,
         PinCheck(c) \/ ReadCWD(c) \/ SelectNamed(c) \/ SelectPinned(c) \/ SelectByCWD(c) \/ Which(c) \/ RunCommand(c)
  PROVE  \E v : CallMove(c, v) /\ calls' = [calls EXCEPT ![c] = v]
  <1> DEFINE Goal == \E v : CallMove(c, v) /\ calls' = [calls EXCEPT ![c] = v]
  <1>0. ~calls[c].own /\ lock # c /\ calls[c] \in InProgress /\ calls \in [Calls -> InProgress]
    BY Unlocked, Zenon
       DEF PinCheck, ReadCWD, SelectNamed, SelectPinned, SelectByCWD, Which, RunCommand, SessionsInv, TypeOK
  <1>1. CASE End(c)
    <2>1. calls' = [calls EXCEPT ![c] = Idle] /\ CallMove(c, Idle)
      BY <1>0, <1>1, IdleMove, Zenon DEF End
    <2>2. QED
      BY <2>1, Zenon
  <1>2. ASSUME NEW x \in {"pin", "byCwd"}, calls[c].pc # "idle", calls' = [calls EXCEPT ![c].pc = x] PROVE Goal
    <2>1. PICK v : v = [calls[c] EXCEPT !.pc = x]
      BY Zenon
    <2>2. v \in InProgress /\ v.own = calls[c].own /\ v.pid = calls[c].pid /\ v.old = calls[c].old /\ v.pc = x
      BY <1>0, <2>1, Zenon DEF InProgress
    <2>3. CallMove(c, v)
      BY <1>0, <1>2, <2>2, StepMove, Zenon
    <2>4. calls' = [calls EXCEPT ![c] = v]
      BY <1>0, <1>2, <2>1, Zenon
    <2>5. QED
      BY <2>3, <2>4, Zenon
  <1>3. CASE PinCheck(c)
    BY <1>1, <1>2, <1>3, Zenon DEF PinCheck
  <1>4. CASE ReadCWD(c)
    <2>1. Session(c) \in Sessions /\ calls[c].pc = "read"
      BY <1>4, CallSession, Zenon DEF ReadCWD
    <2>2. PICK d \in Dirs \cup {None} : d = Session(c).cwd
      BY <2>1, SessionNotNone, Zenon
    <2>3. PICK v : v = [calls[c] EXCEPT !.pc = "select", !.cwd = d]
      BY Zenon
    <2>4. /\ v \in InProgress /\ v.own = calls[c].own /\ v.pid = calls[c].pid /\ v.old = calls[c].old
          /\ v.pc = "select" /\ v.held = calls[c].held
      BY <1>0, <2>2, <2>3, Zenon DEF InProgress
    <2>5. calls[c].held # None \/ sess[calls[c].pid] # None
      BY <2>1, Zenon DEF SessionsInv, Held
    <2>6. CallMove(c, v)
      BY <1>0, <2>1, <2>4, <2>5, StepMove, Zenon
    <2>7. calls' = [calls EXCEPT ![c] = v]
      BY <1>0, <1>4, <2>2, <2>3, Zenon DEF ReadCWD
    <2>8. QED
      BY <2>6, <2>7, Zenon
  <1>5. CASE SelectNamed(c)
    <2>1. CASE Connection(calls[c].name)
      <3>1. calls[c].name \in Names /\ InTable(calls[c].name)
        BY <1>0, <1>5, <2>1, Zenon DEF SelectNamed, Connection, InTable, InProgress
      <3>2. Ref(calls[c].name) \in Refs
        BY <3>1, TableRef, Zenon
      <3>3. QED
        BY <1>5, <2>1, <3>2, SelectMove, Zenon DEF SelectNamed
    <2>2. CASE ~Connection(calls[c].name)
      BY <1>1, <1>5, <2>2, Zenon DEF SelectNamed
    <2>3. QED
      BY <2>1, <2>2, Zenon
  <1>6. CASE SelectPinned(c)
    <2>1. Session(c) \in Sessions /\ calls[c].pc = "select"
      BY <1>6, CallSession, Zenon DEF SelectPinned
    <2>2. PICK pin \in Names \cup {""} : pin = Session(c).pin
      BY <2>1, SessionNotNone, Zenon
    <2>3. CASE pin # "" /\ Connection(pin)
      <3>1. Ref(pin) \in Refs
        BY <2>3, TableRef, Zenon DEF Connection, InTable
      <3>2. Select(c, Ref(pin))
        BY <1>6, <2>2, <2>3, Zenon DEF SelectPinned
      <3>3. QED
        BY <2>1, <3>1, <3>2, SelectMove, Zenon
    <2>4. CASE ~(pin # "" /\ Connection(pin))
      <3>1. calls' = [calls EXCEPT ![c].pc = "byCwd"]
        BY <1>6, <2>2, <2>4, Zenon DEF SelectPinned
      <3>2. QED
        BY <1>2, <2>1, <3>1, Zenon
    <2>5. QED
      BY <2>3, <2>4, Zenon
  <1>7. CASE SelectByCWD(c)
    <2>1. PICK r \in Refs \cup {NoConn} : r = ConnectionByCWD(calls[c].cwd)
      BY ByCWD, Zenon
    <2>2. CASE r # NoConn
      <3>1. Select(c, r) /\ r \in Refs /\ calls[c].pc = "byCwd"
        BY <1>7, <2>1, <2>2, Zenon DEF SelectByCWD
      <3>2. QED
        BY <3>1, SelectMove, Zenon
    <2>3. CASE r = NoConn
      BY <1>1, <1>7, <2>1, <2>3, Zenon DEF SelectByCWD
    <2>4. QED
      BY <2>2, <2>3, Zenon
  <1>8. CASE Which(c)
    <2>1. Session(c) \in Sessions /\ calls[c].pc = "select"
      BY <1>8, CallSession, Zenon DEF Which
    <2>2. PICK a \in Routes : a = Session(c).actual
      BY <2>1, SessionNotNone, Zenon
    <2>3. CASE "command" \in DOMAIN a
      <3>1. a["command"] \in Refs
        BY <2>3, RouteRef, Zenon
      <3>2. Select(c, a["command"])
        BY <1>8, <2>2, <2>3, Zenon DEF Which
      <3>3. QED
        BY <2>1, <3>1, <3>2, SelectMove, Zenon
    <2>4. CASE "command" \notin DOMAIN a
      BY <1>1, <1>8, <2>2, <2>4, Zenon DEF Which
    <2>5. QED
      BY <2>3, <2>4, Zenon
  <1>9. CASE RunCommand(c)
    <2>1. CASE StateConnected(calls[c].sel)
      <3>1. PICK r \in Refs : r = calls[c].sel
        BY <1>9, Zenon DEF RunCommand, SessionsInv, Held
      <3>2. r.name \in Names /\ r.obj \in Nat
        BY NoConnNotRef, Zenon
      <3>3. conns[r.name].obj = r.obj /\ conns[r.name].state = "up"
        BY <2>1, <3>1 DEF StateConnected, Ref, Connection
      <3>4. ClosedOnes[r.name] = r.obj - 1
        BY <3>2, <3>3, Zenon DEF ClosedOnes
      <3>5. calls[c].old[r.name] <= ClosedOnes[r.name] /\ calls[c].old[r.name] \in 0 .. MaxObjects
        BY <1>0, <3>2, Zenon DEF SessionsInv, Closed, InProgress
      <3>6. r.obj > calls[c].old[r.name]
        BY <3>2, <3>4, <3>5, Objects
      <3>7. PICK v : v = [calls[c] EXCEPT !.pc = "started"]
        BY ZenonT(40)
      <3>8. /\ v \in InProgress /\ v.own = calls[c].own /\ v.pid = calls[c].pid /\ v.old = calls[c].old
            /\ v.pc = "started" /\ v.sel = r
        BY <1>0, <3>1, <3>7, Zenon DEF InProgress
      <3>9. CallMove(c, v)
        BY <1>0, <1>9, <3>6, <3>8, StepMove, Zenon DEF RunCommand
      <3>10. calls' = [calls EXCEPT ![c] = v]
        BY <1>0, <1>9, <2>1, <3>7, Zenon DEF RunCommand
      <3>11. QED
        BY <3>9, <3>10, Zenon
    <2>2. CASE ~StateConnected(calls[c].sel)
      BY <1>1, <1>9, <2>2, Zenon DEF RunCommand
    <2>3. QED
      BY <2>1, <2>2, Zenon
  <1>10. QED
    BY <1>3, <1>4, <1>5, <1>6, <1>7, <1>8, <1>9, Zenon

-----------------------------------------------------------------------------
(* What keeps the parts of the invariant.                                    *)

\* A request that is still what it was, but for its progress.
SameCall(e) ==
  /\ calls'[e].own = calls[e].own /\ calls'[e].pid = calls[e].pid /\ calls'[e].cwd = calls[e].cwd
  /\ calls'[e].op = calls[e].op /\ calls'[e].old = calls[e].old /\ calls'[e].sel = calls[e].sel
  /\ calls'[e].held = calls[e].held

\* No tick, or one that was disturbed.
LEMMA SweepOver ==
  ASSUME tick'.pc = "idle" \/ ~tick'.calm
  PROVE  Sweeping'
  BY Zenon DEF Sweeping

\* Reports and directories stay as they are when the sessions' directories do.
LEMMA PlaceKept ==
  ASSUME SessionsInv, UNCHANGED shells,
         \A e \in Calls : SameCall(e) /\ (Past(e)' <=> Past(e)) /\ (calls[e].own => calls'[e].pc \in {"update", "done"}),
         \A p \in Pids : /\ disk'[p].cwd = disk[p].cwd /\ (disk[p].made => disk'[p].made)
                         /\ sess'[p] # None => sess'[p].cwd = disk[p].cwd,
         tick'.pc = "remove" => /\ shells[tick'.pid].alive => shells[tick'.pid].last = None
                                /\ \A c \in Calls : calls[c].pid = tick'.pid => ~Past(c)
  PROVE  Reports' /\ Known'
  <1>0. \A e \in Calls : calls[e].own => calls[e].pid \in Pids
    BY Zenon DEF SessionsInv, Reports, Reported, Held
  <1>1. Reports'
    <2>1. ASSUME NEW e \in Calls, calls'[e].own PROVE Reported(e)'
      <3>1. calls[e].own /\ Reported(e) /\ calls[e].pid \in Pids
        BY <1>0, <2>1, Zenon DEF SameCall, SessionsInv, Reports
      <3>2. QED
        BY <3>1 DEF Reported, SameCall
    <2>2. tick'.pc = "remove" => \A e \in Calls : calls'[e].pid = tick'.pid => ~Past(e)'
      BY Zenon DEF SameCall
    <2>3. QED
      BY <2>1, <2>2, Zenon DEF Reports
  <1>2. Known'
    <2>1. ASSUME NEW p \in Pids, \A e \in Calls : calls'[e].pid = p => ~Past(e)'
          PROVE  \A e \in Calls : calls[e].pid = p => ~Past(e)
      BY <2>1, Zenon DEF SameCall
    <2>2. QED
      BY <2>1, Zenon DEF SessionsInv, Known
  <1>3. QED
    BY <1>1, <1>2, Zenon

\* What a request knows of closed connections stays true of the same table.
LEMMA ClosedKept ==
  ASSUME SessionsInv, conns' = conns,
         \A e \in Calls : calls'[e].old = calls[e].old /\ calls'[e].sel = calls[e].sel
                          /\ (calls'[e].pc = "started" => calls[e].pc = "started")
  PROVE  Closed'
  BY SameTable, Zenon DEF SessionsInv, Closed, RunsLive

\* A session and a directory that did not change are as settled as they were.
LEMMA SameServed ==
  ASSUME conns' = conns, NEW p
  PROVE  /\ sess'[p].pin = sess[p].pin /\ sess'[p].cwd = sess[p].cwd => Selected(p)' = Selected(p)
         /\ sess'[p] = sess[p] => Selected(p)' = Selected(p)
         /\ sess'[p] = sess[p] /\ disk'[p] = disk[p] => (Served(p)' <=> Served(p))
  <1>1. sess'[p].pin = sess[p].pin /\ sess'[p].cwd = sess[p].cwd => Selected(p)' = Selected(p)
    BY SameTable, Zenon DEF Selected
  <1>2. sess'[p] = sess[p] => Selected(p)' = Selected(p)
    BY <1>1, Zenon
  <1>3. ASSUME sess'[p] = sess[p] /\ disk'[p] = disk[p] PROVE Served(p)' <=> Served(p)
    BY <1>2, <1>3, SameTable, Zenon DEF Served
  <1>4. QED
    BY <1>1, <1>2, <1>3, Zenon

\* The reconciliation has nothing to do, or starts.
LEMMA RecTypes ==
  /\ NoRec \in Reconciliations /\ NoRec.pc = "idle" /\ NoRec.new = NoForwardings
  /\ \A p \in Pids : /\ [NoRec EXCEPT !.pc = "pin", !.pid = p] \in Reconciliations
                     /\ [NoRec EXCEPT !.pc = "pin", !.pid = p].pc = "pin"
                     /\ [NoRec EXCEPT !.pc = "pin", !.pid = p].pid = p
                     /\ [NoRec EXCEPT !.pc = "pin", !.pid = p].new = NoForwardings
  <1>1. PICK f, r : f = NoForwardings /\ r = NoConn
    BY Zenon
  <1>2. f \in Routes /\ r \in Refs \cup {NoConn}
    BY <1>1, NoRoutes, Zenon
  <1>3. NoRec = [pc |-> "idle", pid |-> None, sel |-> r, intents |-> {}, new |-> f]
    BY <1>1, Zenon DEF NoRec
  <1>4. NoRec \in Reconciliations /\ NoRec.pc = "idle" /\ NoRec.new = f
    BY <1>2, <1>3, Zenon DEF Reconciliations
  <1>5. ASSUME NEW p \in Pids
        PROVE  /\ [NoRec EXCEPT !.pc = "pin", !.pid = p] \in Reconciliations
               /\ [NoRec EXCEPT !.pc = "pin", !.pid = p].pc = "pin"
               /\ [NoRec EXCEPT !.pc = "pin", !.pid = p].pid = p
               /\ [NoRec EXCEPT !.pc = "pin", !.pid = p].new = f
    BY <1>4, Zenon DEF Reconciliations
  <1>6. QED
    BY <1>1, <1>4, <1>5, Zenon

\* The holder of the lock and what it reconciles.
LEMMA Reconciling ==
  ASSUME SessionsInv, rec.pc # "idle"
  PROVE  /\ rec \in Reconciliations /\ rec.pid \in Pids /\ sess[rec.pid] \in Sessions /\ sess[rec.pid] # None
         /\ disk[rec.pid] \in Directories
         /\ lock = "tick" \/ (lock \in Calls /\ tick.pc = "idle")
         /\ lock = "tick" => tick.pc = "reconcile" /\ rec.pid \notin tick.todo
  <1>1. rec \in Reconciliations /\ rec.pid # None /\ sess[rec.pid] # None /\ lock # None
    BY Zenon DEF SessionsInv, TypeOK
  <1>2. rec.pid \in Pids
    BY <1>1, Zenon DEF Reconciliations
  <1>3. QED
    BY <1>1, <1>2, Zenon DEF SessionsInv, TypeOK, Held

\* The end of a reconciliation: the tick goes on, or the request gives up the lock.
LEMMA Returned ==
  ASSUME SessionsInv, rec.pc # "idle", Return
  PROVE  /\ rec' = NoRec
         /\ lock = "tick" => lock' = "tick" /\ calls' = calls
         /\ lock # "tick" => lock' = None
         /\ calls' \in [Calls -> InProgress]
         /\ \A e \in Calls : /\ SameCall(e) /\ (Past(e)' <=> Past(e)) /\ (calls[e].own => calls'[e].pc \in {"update", "done"})
                             /\ calls'[e].pc = calls[e].pc
                                \/ (calls[e].pc # "idle" /\ calls'[e].pc \in {"done", "get"})
  <1>1. calls \in [Calls -> InProgress] /\ (lock = "tick" \/ lock \in Calls)
    BY Reconciling, Zenon DEF SessionsInv, TypeOK
  <1>2. \A e \in Calls : calls[e].own => calls[e].op = "report" /\ calls[e].pc \in {"update", "done"}
    BY Zenon DEF SessionsInv, Reports, Reported
  <1>3. CASE lock = "tick"
    <2>1. lock' = lock /\ calls' = calls /\ rec' = NoRec
      BY <1>3, Zenon DEF Return
    <2>2. QED
      BY <1>1, <1>2, <1>3, <2>1, Zenon DEF SameCall, Past
  <1>4. CASE lock # "tick"
    <2>1. lock \in Calls /\ calls[lock].pc \in {"pin", "update"}
      BY <1>1, <1>4, Zenon DEF SessionsInv, Held
    <2>2. PICK x \in {"done", "get"} : x = IF calls[lock].op \in {"report", "pin"} THEN "done" ELSE "get"
      BY Zenon
    <2>3. PICK v : v = [calls[lock] EXCEPT !.pc = x]
      BY Zenon
    <2>4. calls' = [calls EXCEPT ![lock] = v] /\ lock' = None /\ rec' = NoRec
      BY <1>1, <1>4, <2>1, <2>2, <2>3, Zenon DEF Return, Unlock
    <2>5. /\ v \in InProgress /\ v.pc = x /\ v.own = calls[lock].own /\ v.pid = calls[lock].pid /\ v.cwd = calls[lock].cwd
          /\ v.op = calls[lock].op /\ v.old = calls[lock].old /\ v.sel = calls[lock].sel /\ v.held = calls[lock].held
      BY <1>1, <2>1, <2>2, <2>3, ZenonT(40) DEF InProgress
    <2>6. calls' \in [Calls -> InProgress] /\ calls'[lock] = v /\ \A e \in Calls \ {lock} : calls'[e] = calls[e]
      BY <1>1, <2>1, <2>4, <2>5, Zenon
    <2>7. calls[lock].own => x = "done"
      BY <1>2, <2>1, <2>2, Zenon
    <2>8. ASSUME NEW e \in Calls
          PROVE  /\ SameCall(e) /\ (Past(e)' <=> Past(e)) /\ (calls[e].own => calls'[e].pc \in {"update", "done"})
                 /\ calls'[e].pc = calls[e].pc \/ (calls[e].pc # "idle" /\ calls'[e].pc \in {"done", "get"})
      <3>1. CASE e = lock
        BY <2>1, <2>2, <2>4, <2>5, <2>6, <2>7, <3>1, Zenon DEF SameCall, Past
      <3>2. CASE e # lock
        <4>1. calls'[e] = calls[e] /\ lock' # e
          BY <2>4, <2>6, <3>2, Distinct, ZenonT(40)
        <4>2. QED
          BY <1>2, <3>2, <4>1, Zenon DEF SameCall, Past
      <3>3. QED
        BY <3>1, <3>2, Zenon
    <2>9. QED
      BY <1>4, <2>4, <2>6, <2>8, Zenon
  <1>5. QED
    BY <1>3, <1>4, Zenon

-----------------------------------------------------------------------------
(* tickReconcileSession.                                                     *)

\* A step of the reconciliation that only reads.
LEMMA RecReads ==
  ASSUME SessionsInv, rec.pc # "idle", rec' \in Reconciliations, rec'.pid = rec.pid, rec'.pc # "idle",
         rec'.pc = "lookup" => rec'.sel \in Refs,
         Underway => Underway',
         UNCHANGED <<conns, shells, disk, sess, lock, tick, calls, budget>>
  PROVE  SessionsInv'
  <1>1. TypeOK'
    BY Zenon DEF SessionsInv, TypeOK
  <1>2. Held'
    BY Zenon DEF SessionsInv, Held
  <1>3. Reports' /\ Known' /\ Closed'
    <2>1. \A e \in Calls : Past(e)' <=> Past(e)
      BY Zenon DEF Past
    <2>2. Reports'
      BY <2>1, Zenon DEF SessionsInv, Reports, Reported
    <2>3. Known'
      BY <2>1, Zenon DEF SessionsInv, Known
    <2>4. Closed'
      BY ClosedKept, Zenon
    <2>5. QED
      BY <2>2, <2>3, <2>4, Zenon
  <1>4. Sweeping'
    <2>1. \A p \in Pids : (Swept(p)' <=> Swept(p)) /\ (Served(p)' <=> Served(p))
      BY SameServed, Zenon DEF Swept
    <2>2. tick.pc = "remove" => tick.pid \in Pids
      BY Zenon DEF SessionsInv, TypeOK, Held, Ticks
    <2>3. QED
      BY <2>1, <2>2, Zenon DEF SessionsInv, Sweeping
  <1>5. QED
    BY <1>1, <1>2, <1>3, <1>4, Zenon DEF SessionsInv

\* selectConnection: the pin.
LEMMA RecPinInv ==
  ASSUME SessionsInv, RecPin
  PROVE  SessionsInv'
  <1>1. rec.pc = "pin" /\ UNCHANGED <<conns, shells, disk, sess, lock, tick, calls, budget>>
    BY ZenonT(40) DEF RecPin
  <1>2. rec \in Reconciliations /\ rec.pid \in Pids /\ sess[rec.pid] \in Sessions
    BY <1>1, Reconciling, Zenon
  <1>3. PICK pin \in Names \cup {""} : pin = sess[rec.pid].pin
    BY <1>2, SessionNotNone, ZenonT(40)
  <1>4. \A q : Selected(q)' = Selected(q)
    BY <1>1, SameServed, Zenon
  <1>5. CASE pin # "" /\ Connection(pin)
    <2>1. PICK r \in Refs : r = Ref(pin)
      BY <1>5, TableRef, Zenon DEF Connection, InTable
    <2>2. rec' = [rec EXCEPT !.pc = "list", !.sel = r]
      BY <1>3, <1>5, <2>1, Zenon DEF RecPin
    <2>3. rec' \in Reconciliations /\ rec'.pid = rec.pid /\ rec'.pc = "list" /\ rec'.sel = r /\ rec'.new = rec.new
      BY <1>2, <2>2, Zenon DEF Reconciliations
    <2>4. r = Selected(rec.pid)
      BY <1>3, <1>5, <2>1, Zenon DEF Selected
    <2>5. Underway => Underway'
      BY <1>1, <1>4, <2>3, <2>4, Zenon DEF Underway
    <2>6. QED
      BY <1>1, <2>3, <2>5, RecReads, Zenon
  <1>6. CASE ~(pin # "" /\ Connection(pin))
    <2>1. rec' = [rec EXCEPT !.pc = "cwd"]
      BY <1>3, <1>6, Zenon DEF RecPin
    <2>2. rec' \in Reconciliations /\ rec'.pid = rec.pid /\ rec'.pc = "cwd" /\ rec'.new = rec.new
      BY <1>2, <2>1, ZenonT(40) DEF Reconciliations
    <2>3. Underway => Underway'
      BY <1>1, <1>3, <1>6, <2>2, SameTable, Zenon DEF Underway
    <2>4. QED
      BY <1>1, <2>2, <2>3, RecReads, Zenon
  <1>7. QED
    BY <1>5, <1>6, Zenon

\* selectConnection: the directory.
LEMMA RecCwdInv ==
  ASSUME SessionsInv, RecCwd
  PROVE  SessionsInv'
  <1>1. rec.pc = "cwd" /\ UNCHANGED <<conns, shells, disk, sess, lock, tick, calls, budget>>
    BY Zenon DEF RecCwd
  <1>2. rec \in Reconciliations /\ rec.pid \in Pids /\ sess[rec.pid] \in Sessions
    BY <1>1, Reconciling, Zenon
  <1>3. PICK r \in Refs \cup {NoConn} : r = ConnectionByCWD(sess[rec.pid].cwd)
    BY ByCWD, Zenon
  <1>4. rec' = [rec EXCEPT !.pc = "list", !.sel = r]
    BY <1>3, Zenon DEF RecCwd
  <1>5. rec' \in Reconciliations /\ rec'.pid = rec.pid /\ rec'.pc = "list" /\ rec'.sel = r /\ rec'.new = rec.new
    BY <1>2, <1>4, ZenonT(40) DEF Reconciliations
  <1>6. \A q : Selected(q)' = Selected(q)
    BY <1>1, SameServed, Zenon
  <1>7. Underway => Underway'
    <2>1. Underway => r = Selected(rec.pid)
      BY <1>1, <1>3, Zenon DEF Underway, Selected
    <2>2. QED
      BY <1>1, <1>5, <1>6, <2>1, Zenon DEF Underway
  <1>8. QED
    BY <1>1, <1>5, <1>7, RecReads, Zenon

\* The forwardings of the selected connection.
LEMMA RecForwardingsInv ==
  ASSUME SessionsInv, RecForwardings
  PROVE  SessionsInv'
  <1>1. rec.pc = "list" /\ UNCHANGED <<conns, shells, disk, sess, lock, tick, calls, budget>>
    BY Zenon DEF RecForwardings
  <1>2. rec \in Reconciliations /\ rec.sel \in Refs \cup {NoConn}
    BY <1>1, Reconciling, Zenon DEF Reconciliations
  <1>3. PICK i \in SUBSET Intents : i = Forwardings(rec.sel)
    BY <1>2, ForwardingsOf, Zenon
  <1>4. PICK x \in {"remove", "lookup"} : x = IF i = {} THEN "remove" ELSE "lookup"
    BY Zenon
  <1>5. rec' = [rec EXCEPT !.pc = x, !.intents = i]
    BY <1>3, <1>4, Zenon DEF RecForwardings
  <1>6. rec' \in Reconciliations /\ rec'.pid = rec.pid /\ rec'.pc = x /\ rec'.sel = rec.sel /\ rec'.new = rec.new /\ rec'.intents = i
    BY <1>2, <1>5, ZenonT(40) DEF Reconciliations
  <1>7. \A q : Selected(q)' = Selected(q) /\ Target(q)' = Target(q) /\ Forwardings(q)' = Forwardings(q)
    BY <1>1, SameServed, SameTable, Zenon
  <1>8. x = "lookup" => rec.sel \in Refs
    BY <1>2, <1>3, <1>4, ForwardingsOf, Zenon
  <1>9. x = "remove" => Target(rec.sel) = NoForwardings
    BY <1>3, <1>4, NoForwarded, Zenon DEF Target
  <1>10. Underway => Underway'
    BY <1>1, <1>3, <1>4, <1>6, <1>7, <1>9, Zenon DEF Underway
  <1>11. QED
    BY <1>1, <1>4, <1>6, <1>8, <1>10, RecReads, Zenon

\* The end of a reconciliation that leaves its session served, when the tick
\* is undisturbed, and only touched that session and its directory.
LEMMA RecReturns ==
  ASSUME SessionsInv, rec.pc # "idle", Return, NEW p, p = rec.pid,
         NEW s \in Sessions, sess' = [sess EXCEPT ![p] = s], s.cwd = sess[p].cwd,
         NEW d \in Directories, disk' = [disk EXCEPT ![p] = d], d.made = disk[p].made, d.cwd = disk[p].cwd,
         lock = "tick" /\ tick.calm => Served(p)',
         UNCHANGED <<conns, shells, tick, budget>>
  PROVE  SessionsInv'
  <1>1. /\ rec.pid \in Pids /\ sess[p] \in Sessions /\ sess[p] # None /\ s # None /\ disk[p].made
        /\ sess \in [Pids -> Sessions \cup {None}] /\ disk \in [Pids -> Directories]
        /\ lock = "tick" \/ (lock \in Calls /\ tick.pc = "idle")
        /\ lock = "tick" => tick.pc = "reconcile" /\ p \notin tick.todo
    BY Reconciling, SessionNotNone, Zenon DEF SessionsInv, TypeOK
  <1>2. /\ sess' \in [Pids -> Sessions \cup {None}] /\ disk' \in [Pids -> Directories]
        /\ sess'[p] = s /\ disk'[p] = d /\ \A q \in Pids \ {p} : sess'[q] = sess[q] /\ disk'[q] = disk[q]
    BY <1>1, Zenon
  <1>3. /\ rec' = NoRec
        /\ lock = "tick" => lock' = "tick" /\ calls' = calls
        /\ lock # "tick" => lock' = None
        /\ calls' \in [Calls -> InProgress]
        /\ \A e \in Calls : /\ SameCall(e) /\ (Past(e)' <=> Past(e)) /\ (calls[e].own => calls'[e].pc \in {"update", "done"})
                            /\ calls'[e].pc = calls[e].pc
                               \/ (calls[e].pc # "idle" /\ calls'[e].pc \in {"done", "get"})
    BY Returned, Zenon
  <1>4. rec'.pc = "idle" /\ rec' \in Reconciliations
    BY <1>3, RecTypes, Zenon
  <1>5. TypeOK'
    <2>1. \A q \in Pids : sess'[q] # None => disk'[q].made
      BY <1>1, <1>2, ZenonT(40) DEF SessionsInv, TypeOK
    <2>2. lock' \in {"tick", None} /\ ((tick.pc # "idle") <=> (lock' = "tick"))
      BY <1>1, <1>3, Distinct, Zenon DEF SessionsInv, TypeOK
    <2>3. QED
      BY <1>2, <1>3, <1>4, <2>1, <2>2, Zenon DEF SessionsInv, TypeOK
  <1>6. Held'
    <2>1. lock' \notin Calls
      BY <1>1, <1>3, Distinct, ZenonT(40)
    <2>2. tick.pc = "reconcile" => \A q \in tick.todo : sess'[q] # None
      <3>1. tick.todo \subseteq Pids
        BY Zenon DEF SessionsInv, TypeOK, Ticks
      <3>2. QED
        BY <1>1, <1>2, <3>1, Zenon DEF SessionsInv, Held
    <2>3. ASSUME NEW c \in Calls
          PROVE  /\ calls'[c].pc # "idle" => calls'[c].pid \in Pids
                 /\ calls'[c].pc \in {"state", "started"} => calls'[c].sel \in Refs
                 /\ calls'[c].pc \in {"read", "select"} => calls'[c].held # None \/ sess'[calls'[c].pid] # None
      <3>1. SameCall(c) /\ (calls'[c].pc = calls[c].pc \/ (calls[c].pc # "idle" /\ calls'[c].pc \in {"done", "get"}))
        BY <1>3, Zenon
      <3>2. \A q \in Pids : sess[q] # None => sess'[q] # None
        BY <1>1, <1>2, Zenon
      <3>3. QED
        BY <3>1, <3>2, Zenon DEF SessionsInv, Held, SameCall
    <2>4. QED
      BY <1>4, <2>1, <2>2, <2>3, Zenon DEF SessionsInv, Held
  <1>7. Reports' /\ Known'
    <2>1. \A q \in Pids : /\ disk'[q].cwd = disk[q].cwd /\ (disk[q].made => disk'[q].made)
                          /\ sess'[q] # None => sess'[q].cwd = disk[q].cwd
      <3>1. \A q \in Pids : sess[q] # None => sess[q].cwd = disk[q].cwd
        BY Zenon DEF SessionsInv, Known
      <3>2. disk'[p].cwd = disk[p].cwd /\ (disk[p].made => disk'[p].made) /\ sess'[p].cwd = disk[p].cwd
        BY <1>1, <1>2, <3>1, Zenon
      <3>3. QED
        BY <1>2, <3>1, <3>2, Zenon
    <2>2. tick'.pc = "remove" => /\ shells[tick'.pid].alive => shells[tick'.pid].last = None
                                 /\ \A c \in Calls : calls[c].pid = tick'.pid => ~Past(c)
      BY Zenon DEF SessionsInv, Reports
    <2>3. QED
      BY <1>3, <2>1, <2>2, PlaceKept, Zenon
  <1>8. Closed'
    <2>1. \A e \in Calls : calls'[e].old = calls[e].old /\ calls'[e].sel = calls[e].sel
                           /\ (calls'[e].pc = "started" => calls[e].pc = "started")
      BY <1>3, Zenon DEF SameCall
    <2>2. QED
      BY <2>1, ClosedKept, Zenon
  <1>9. Sweeping'
    <2>1. CASE lock # "tick" \/ ~tick.calm
      BY <1>1, <2>1, SweepOver, Zenon
    <2>2. CASE lock = "tick" /\ tick.calm
      <3>1. tick.pc = "reconcile" /\ tick' = tick /\ Served(p)'
        BY <1>1, <2>2, Zenon
      <3>2. \A q \in Pids : Swept(q)'
        <4>1. \A q \in Pids : Swept(q)
          BY <2>2, <3>1, Zenon DEF SessionsInv, Sweeping
        <4>2. QED
          BY <1>1, <1>2, <4>1, Zenon DEF Swept
      <3>3. ASSUME NEW q \in Pids \ tick.todo, sess'[q] # None PROVE Served(q)'
        <4>1. CASE q = p
          BY <3>1, <4>1, Zenon
        <4>2. CASE q # p
          <5>1. sess'[q] = sess[q] /\ disk'[q] = disk[q]
            BY <1>2, <4>2, Zenon
          <5>2. Served(q)
            BY <2>2, <3>1, <3>3, <4>2, <5>1, Zenon DEF SessionsInv, Sweeping
          <5>3. QED
            BY <5>1, <5>2, SameServed, Zenon
        <4>3. QED
          BY <4>1, <4>2, Zenon
      <3>4. Underway'
        BY <1>4, Zenon DEF Underway
      <3>5. QED
        BY <3>1, <3>2, <3>3, <3>4, Zenon DEF Sweeping
    <2>3. QED
      BY <2>1, <2>2, Zenon
  <1>10. QED
    BY <1>5, <1>6, <1>7, <1>8, <1>9, Zenon DEF SessionsInv

\* The destination is looked up; one that cannot be used ends the reconciliation.
LEMMA RecLookupInv ==
  ASSUME SessionsInv, RecLookup
  PROVE  SessionsInv'
  <1>1. rec.pc = "lookup" /\ UNCHANGED <<conns, shells, disk, sess, tick, budget>>
    BY Zenon DEF RecLookup
  <1>2. rec \in Reconciliations /\ rec.pid \in Pids /\ sess[rec.pid] \in Sessions /\ disk[rec.pid] \in Directories /\ rec.sel \in Refs
    BY <1>1, Reconciling, Zenon DEF SessionsInv, Held
  <1>3. PICK n \in Names : n = rec.sel.name
    BY <1>2, NoConnNotRef, Zenon
  <1>4. rec.intents \in SUBSET Intents
    BY <1>2, Zenon DEF Reconciliations
  <1>5. CASE Connection(n)
    <2>1. PICK f \in Routes : f = ForwardedCommands(rec.intents, n)
      BY <1>4, <1>5, ForwardedRoutes, Zenon DEF Connection, InTable
    <2>2. rec' = [rec EXCEPT !.pc = "remove", !.new = f] /\ lock' = lock /\ calls' = calls
      BY <1>3, <1>5, <2>1, Zenon DEF RecLookup
    <2>3. rec' \in Reconciliations /\ rec'.pid = rec.pid /\ rec'.pc = "remove" /\ rec'.sel = rec.sel /\ rec'.new = f
      BY <1>2, <2>2, ZenonT(40) DEF Reconciliations
    <2>4. \A q : Selected(q)' = Selected(q) /\ Target(q)' = Target(q)
      BY <1>1, SameServed, SameTable, Zenon
    <2>5. Underway => f = Target(rec.sel)
      BY <1>1, <1>2, <1>3, <2>1, NoConnNotRef, Zenon DEF Underway, Target
    <2>6. Underway => Underway'
      BY <1>1, <2>3, <2>4, <2>5, Zenon DEF Underway
    <2>7. QED
      BY <1>1, <2>2, <2>3, <2>6, RecReads, Zenon
  <1>6. CASE ~Connection(n)
    <2>1. Return
      BY <1>3, <1>6, Zenon DEF RecLookup
    <2>2. PICK p, s, d : p = rec.pid /\ s = sess[p] /\ d = disk[p]
      BY Zenon
    <2>3. sess' = [sess EXCEPT ![p] = s] /\ disk' = [disk EXCEPT ![p] = d] /\ s \in Sessions /\ d \in Directories
      BY <1>1, <1>2, <2>2, Zenon DEF SessionsInv, TypeOK
    <2>4. lock = "tick" /\ tick.calm => Served(p)'
      <3>1. ASSUME lock = "tick", tick.calm PROVE Served(p)'
        <4>1. Underway
          BY <1>1, <3>1, Reconciling, Zenon DEF SessionsInv, Sweeping
        <4>2. rec.sel = Selected(p) /\ Forwardings(rec.sel) # {}
          BY <1>1, <2>2, <4>1, Zenon DEF Underway
        <4>3. conns[n].fwds # {}
          BY <1>2, <1>3, <4>2, ForwardingsOf, Zenon
        <4>4. Unreachable(Selected(p))
          BY <1>2, <1>3, <1>6, <4>2, <4>3, NoConnNotRef, Zenon DEF Unreachable
        <4>5. Served(p)
          BY <4>4, Zenon DEF Served
        <4>6. QED
          BY <1>1, <4>5, SameServed, Zenon
      <3>2. QED
        BY <3>1, Zenon
    <2>5. QED
      BY <1>1, <2>1, <2>2, <2>3, <2>4, RecReturns, Zenon
  <1>7. QED
    BY <1>5, <1>6, Zenon

\* The routes, the shims and the prompt's connection are put in place.
LEMMA RecApplyInv ==
  ASSUME SessionsInv, RecApply
  PROVE  SessionsInv'
  <1>1. rec.pc = "apply" /\ Return /\ UNCHANGED <<conns, shells, tick, budget>>
    BY Zenon DEF RecApply
  <1>2. PICK p : p = rec.pid
    BY Zenon
  <1>3. rec \in Reconciliations /\ p \in Pids /\ sess[p] \in Sessions /\ disk[p] \in Directories
    BY <1>1, <1>2, Reconciling, Zenon
  <1>4. PICK f \in Routes, r \in Refs \cup {NoConn} : f = rec.new /\ r = rec.sel
    BY <1>3, Zenon DEF Reconciliations
  <1>5. DOMAIN f \subseteq ShimNames
    <2>1. PICK S \in SUBSET ShimNames : f \in [S -> Refs]
      BY Zenon DEF Routes
    <2>2. QED
      BY <2>1, Zenon
  <1>6. r.name \in Names \cup {"", None}
    <2>1. CASE r \in Refs
      BY <2>1, NoConnNotRef, Zenon
    <2>2. CASE r = NoConn
      BY <2>2, Zenon DEF NoConn
    <2>3. QED
      BY <2>1, <2>2, Zenon
  <1>7. PICK s : s = [sess[p] EXCEPT !.actual = f]
    BY Zenon
  <1>8. s \in Sessions /\ s.cwd = sess[p].cwd /\ s.pin = sess[p].pin /\ s.actual = f
    BY <1>3, <1>7, Zenon DEF Sessions
  <1>9. PICK m : m = disk[p].shims \cup DOMAIN f \cup {"sudo"}
    BY Zenon
  <1>10. m \in SUBSET ShimNames
    BY <1>3, <1>5, <1>9, Zenon DEF Directories, ShimNames
  <1>11. PICK d : d = [disk[p] EXCEPT !.shims = m, !.conn = r.name]
    BY Zenon
  <1>12. d \in Directories /\ d.made = disk[p].made /\ d.cwd = disk[p].cwd /\ d.shims = m /\ d.conn = r.name
    BY <1>3, <1>6, <1>10, <1>11, Zenon DEF Directories
  <1>13. sess' = [sess EXCEPT ![p] = s] /\ disk' = [disk EXCEPT ![p] = d]
    <2>1. sess \in [Pids -> Sessions \cup {None}] /\ disk \in [Pids -> Directories]
      BY Zenon DEF SessionsInv, TypeOK
    <2>2. sess' = [sess EXCEPT ![p].actual = f]
      BY <1>2, <1>4, Zenon DEF RecApply
    <2>3. disk' = [disk EXCEPT ![p].shims = @ \cup DOMAIN f \cup {"sudo"}, ![p].conn = r.name]
      BY <1>2, <1>4, Zenon DEF RecApply
    <2>4. sess' = [sess EXCEPT ![p] = s]
      BY <1>7, <2>1, <2>2, Zenon
    <2>5. disk' = [disk EXCEPT ![p] = d]
      BY <1>9, <1>11, <2>1, <2>3, ZenonT(40)
    <2>6. QED
      BY <2>4, <2>5, Zenon
  <1>14. lock = "tick" /\ tick.calm => Served(p)'
    <2>1. ASSUME lock = "tick", tick.calm PROVE Served(p)'
      <3>1. Underway
        BY <1>1, <2>1, Reconciling, Zenon DEF SessionsInv, Sweeping
      <3>2. r = Selected(p) /\ f = Target(r) /\ disk[p].shims \subseteq DOMAIN f \cup {"sudo"}
        BY <1>1, <1>2, <1>4, <3>1, Zenon DEF Underway
      <3>3. sess'[p] = s /\ disk'[p] = d
        BY <1>3, <1>13, Zenon DEF SessionsInv, TypeOK
      <3>4. Selected(p)' = r
        BY <1>1, <1>8, <3>2, <3>3, SameServed, Zenon
      <3>5. m = DOMAIN f \cup {"sudo"}
        BY <1>9, <3>2, Zenon
      <3>6. Target(r)' = f
        BY <1>1, <3>2, SameTable, Zenon
      <3>7. QED
        BY <1>8, <1>12, <3>3, <3>4, <3>5, <3>6, Zenon DEF Served
    <2>2. QED
      BY <2>1, Zenon
  <1>15. QED
    BY <1>1, <1>2, <1>8, <1>12, <1>13, <1>14, RecReturns, Zenon

\* The shims no longer wanted go.
LEMMA RecRemoveInv ==
  ASSUME SessionsInv, RecRemove
  PROVE  SessionsInv'
  <1>1. rec.pc = "remove" /\ UNCHANGED <<conns, shells, sess, lock, tick, calls, budget>>
    BY Zenon DEF RecRemove
  <1>2. PICK p, f : p = rec.pid /\ f = rec.new
    BY Zenon
  <1>3. rec \in Reconciliations /\ p \in Pids /\ disk[p] \in Directories /\ disk \in [Pids -> Directories]
    BY <1>1, <1>2, Reconciling, Zenon DEF SessionsInv, TypeOK
  <1>4. PICK m : m = disk[p].shims \ ShimsToDelete(disk[p].shims, f)
    BY Zenon
  <1>5. PICK d : d = [disk[p] EXCEPT !.shims = m]
    BY Zenon
  <1>6. d \in Directories /\ d.made = disk[p].made /\ d.cwd = disk[p].cwd /\ d.shims = m
    BY <1>3, <1>4, <1>5, Zenon DEF Directories
  <1>7. disk' = [disk EXCEPT ![p] = d]
    <2>1. disk' = [disk EXCEPT ![p].shims = @ \ ShimsToDelete(@, f)]
      BY <1>2, Zenon DEF RecRemove
    <2>2. QED
      BY <1>3, <1>4, <1>5, <2>1, Zenon
  <1>8. rec' = [rec EXCEPT !.pc = "apply"]
    BY Zenon DEF RecRemove
  <1>9. rec' \in Reconciliations /\ rec'.pid = p /\ rec'.pc = "apply" /\ rec'.sel = rec.sel /\ rec'.new = f
    BY <1>2, <1>3, <1>8, Zenon DEF Reconciliations
  <1>10. disk' \in [Pids -> Directories] /\ disk'[p] = d /\ \A q \in Pids \ {p} : disk'[q] = disk[q]
    BY <1>3, <1>6, <1>7, Zenon
  <1>11. \A q \in Pids : disk'[q].cwd = disk[q].cwd /\ disk'[q].made = disk[q].made
    BY <1>6, <1>10, Zenon
  <1>12. TypeOK'
    BY <1>1, <1>2, <1>9, <1>10, <1>11, Zenon DEF SessionsInv, TypeOK
  <1>13. Held'
    BY <1>1, <1>2, <1>9, Zenon DEF SessionsInv, Held
  <1>14. Reports' /\ Known'
    <2>1. \A e \in Calls : SameCall(e) /\ (Past(e)' <=> Past(e)) /\ (calls[e].own => calls'[e].pc \in {"update", "done"})
      BY <1>1, Zenon DEF SameCall, Past, SessionsInv, Reports, Reported
    <2>2. \A q \in Pids : /\ disk'[q].cwd = disk[q].cwd /\ (disk[q].made => disk'[q].made)
                          /\ sess'[q] # None => sess'[q].cwd = disk[q].cwd
      BY <1>1, <1>11, Zenon DEF SessionsInv, Known
    <2>3. tick'.pc = "remove" => /\ shells[tick'.pid].alive => shells[tick'.pid].last = None
                                 /\ \A c \in Calls : calls[c].pid = tick'.pid => ~Past(c)
      BY <1>1, Zenon DEF SessionsInv, Reports
    <2>4. QED
      BY <1>1, <2>1, <2>2, <2>3, PlaceKept, Zenon
  <1>15. Closed'
    BY <1>1, ClosedKept, Zenon
  <1>16. Sweeping'
    <2>1. CASE lock # "tick" \/ ~tick.calm
      BY <1>1, <2>1, Reconciling, SweepOver, Zenon
    <2>2. CASE lock = "tick" /\ tick.calm
      <3>1. tick.pc = "reconcile" /\ Underway /\ (\A q \in Pids : Swept(q))
        BY <1>1, <2>2, Reconciling, Zenon DEF SessionsInv, Sweeping
      <3>2. \A q \in Pids : Swept(q)'
        BY <1>1, <1>11, <3>1, Zenon DEF Swept
      <3>3. ASSUME NEW q \in Pids \ tick.todo, sess[q] # None, p # q PROVE Served(q)'
        <4>1. Served(q)
          BY <1>1, <1>2, <2>2, <3>1, <3>3, Zenon DEF SessionsInv, Sweeping
        <4>2. QED
          BY <1>1, <1>10, <3>3, <4>1, SameServed, Zenon
      <3>4. Underway'
        <4>1. \A x : Selected(x)' = Selected(x) /\ Target(x)' = Target(x)
          BY <1>1, SameServed, SameTable, Zenon
        <4>2. rec.sel = Selected(p) /\ f = Target(rec.sel)
          BY <1>1, <1>2, <3>1, Zenon DEF Underway
        <4>3. d.shims \subseteq DOMAIN f \cup {"sudo"}
          BY <1>4, <1>6, Zenon DEF ShimsToDelete
        <4>4. QED
          BY <1>9, <1>10, <4>1, <4>2, <4>3, Zenon DEF Underway
      <3>5. QED
        BY <1>1, <1>9, <3>1, <3>2, <3>3, <3>4, Zenon DEF Sweeping
    <2>3. QED
      BY <2>1, <2>2, Zenon
  <1>17. QED
    BY <1>12, <1>13, <1>14, <1>15, <1>16, Zenon DEF SessionsInv

-----------------------------------------------------------------------------
(* The tick.                                                                 *)

\* The tick holds the lock.
LEMMA Ticking ==
  ASSUME SessionsInv, tick.pc # "idle"
  PROVE  /\ tick \in Ticks /\ tick.todo \subseteq Pids /\ lock = "tick" /\ lock \notin Calls
         /\ tick.pc \in {"prune", "remove"} => rec.pc = "idle"
         /\ tick.pc = "remove" => tick.pid \in Pids
  BY Distinct, ZenonT(40) DEF SessionsInv, TypeOK, Held, Ticks

\* A step of the tick that changes neither sessions nor requests.
LEMMA TickPlace ==
  ASSUME SessionsInv, UNCHANGED <<conns, shells, disk, sess, calls>>,
         \A c \in Calls : lock' = c <=> lock = c,
         tick'.pc = "remove" => tick' = tick \/ (tick'.pid \in Pids /\ ~shells[tick'.pid].alive)
  PROVE  Reports' /\ Known' /\ Closed'
  <1>1. \A e \in Calls : SameCall(e) /\ (Past(e)' <=> Past(e)) /\ (calls[e].own => calls'[e].pc \in {"update", "done"})
    BY Zenon DEF SameCall, Past, SessionsInv, Reports, Reported
  <1>2. tick'.pc = "remove" => /\ shells[tick'.pid].alive => shells[tick'.pid].last = None
                               /\ \A c \in Calls : calls[c].pid = tick'.pid => ~Past(c)
    BY Zenon DEF SessionsInv, Reports, Reported, Past
  <1>3. \A q \in Pids : /\ disk'[q].cwd = disk[q].cwd /\ (disk[q].made => disk'[q].made)
                        /\ sess'[q] # None => sess'[q].cwd = disk[q].cwd
    BY Zenon DEF SessionsInv, Known
  <1>4. QED
    BY <1>1, <1>2, <1>3, PlaceKept, ClosedKept, Zenon

\* The tick takes the lock and lists the session directories.
LEMMA TickStartInv ==
  ASSUME SessionsInv, TickStart
  PROVE  SessionsInv'
  <1>1. /\ lock = None /\ tick.pc = "idle" /\ lock' = "tick" /\ rec.pc = "idle"
        /\ UNCHANGED <<conns, shells, disk, sess, rec, calls, budget>>
    BY Zenon DEF TickStart, SessionsInv, TypeOK
  <1>2. PICK t : t = {p \in Pids : disk[p].made}
    BY Zenon
  <1>3. tick' = [NoTick EXCEPT !.pc = "prune", !.todo = t, !.calm = TRUE]
    BY <1>2, Zenon DEF TickStart
  <1>4. tick' \in Ticks /\ tick'.pc = "prune" /\ tick'.todo = t
    BY <1>2, <1>3, Zenon DEF Ticks, NoTick
  <1>5. TypeOK'
    BY <1>1, <1>4, Zenon DEF SessionsInv, TypeOK
  <1>6. Held'
    BY <1>1, <1>4, Distinct, Zenon DEF SessionsInv, Held
  <1>7. Reports' /\ Known' /\ Closed'
    BY <1>1, <1>4, TickPlace, Distinct, Zenon
  <1>8. Sweeping'
    <2>1. \A p \in Pids \ t : Swept(p)'
      BY <1>1, <1>2, Zenon DEF Swept, SessionsInv, TypeOK
    <2>2. QED
      BY <1>4, <2>1, Zenon DEF Sweeping
  <1>9. QED
    BY <1>5, <1>6, <1>7, <1>8, Zenon DEF SessionsInv

\* The process of a session directory is gone.
LEMMA TickDeadInv ==
  ASSUME SessionsInv, NEW p \in Pids, TickDead(p)
  PROVE  SessionsInv'
  <1>1. /\ tick.pc = "prune" /\ p \in tick.todo /\ ~shells[p].alive
        /\ UNCHANGED <<conns, shells, disk, sess, lock, rec, calls, budget>>
    BY Zenon DEF TickDead
  <1>2. tick \in Ticks /\ lock = "tick" /\ rec.pc = "idle"
    BY <1>1, Ticking, Zenon
  <1>3. tick' \in Ticks /\ tick'.pc = "remove" /\ tick'.pid = p /\ tick'.todo = tick.todo /\ tick'.calm = tick.calm
    BY <1>2, ZenonT(40) DEF TickDead, Ticks
  <1>4. TypeOK'
    BY <1>1, <1>2, <1>3, Zenon DEF SessionsInv, TypeOK
  <1>5. Held'
    BY <1>1, <1>2, <1>3, Zenon DEF SessionsInv, Held
  <1>6. Reports' /\ Known' /\ Closed'
    BY <1>1, <1>3, TickPlace, Zenon
  <1>7. Sweeping'
    <2>1. \A q \in Pids : Swept(q)' <=> Swept(q)
      BY <1>1, Zenon DEF Swept
    <2>2. QED
      BY <1>1, <1>3, <2>1, Zenon DEF SessionsInv, Sweeping
  <1>8. QED
    BY <1>4, <1>5, <1>6, <1>7, Zenon DEF SessionsInv

\* The sweep is over, and the sessions are reconciled.
LEMMA TickPrunedInv ==
  ASSUME SessionsInv, TickPruned
  PROVE  SessionsInv'
  <1>1. /\ tick.pc = "prune" /\ tick.todo = {}
        /\ UNCHANGED <<conns, shells, disk, sess, lock, rec, calls, budget>>
    BY Zenon DEF TickPruned
  <1>2. tick \in Ticks /\ lock = "tick" /\ rec.pc = "idle"
    BY <1>1, Ticking, Zenon
  <1>3. PICK t : t = {p \in Pids : sess[p] # None}
    BY ZenonT(40)
  <1>4. tick' \in Ticks /\ tick'.pc = "reconcile" /\ tick'.todo = t /\ tick'.calm = tick.calm
    BY <1>2, <1>3, Zenon DEF TickPruned, Ticks
  <1>5. TypeOK'
    BY <1>1, <1>2, <1>4, Zenon DEF SessionsInv, TypeOK
  <1>6. Held'
    BY <1>1, <1>2, <1>3, <1>4, Zenon DEF SessionsInv, Held
  <1>7. Reports' /\ Known' /\ Closed'
    BY <1>1, <1>4, TickPlace, Zenon
  <1>8. Sweeping'
    <2>1. tick.calm => \A q \in Pids : Swept(q)
      BY <1>1, Zenon DEF SessionsInv, Sweeping
    <2>2. tick.calm => \A q \in Pids : Swept(q)'
      BY <1>1, <2>1, Zenon DEF Swept
    <2>3. Underway'
      BY <1>1, <1>2, Zenon DEF Underway
    <2>4. QED
      BY <1>1, <1>3, <1>4, <2>2, <2>3, Zenon DEF Sweeping
  <1>9. QED
    BY <1>5, <1>6, <1>7, <1>8, Zenon DEF SessionsInv

\* One session is reconciled.
LEMMA TickReconcileInv ==
  ASSUME SessionsInv, NEW p \in Pids, TickReconcile(p)
  PROVE  SessionsInv'
  <1>1. /\ tick.pc = "reconcile" /\ rec.pc = "idle" /\ p \in tick.todo
        /\ UNCHANGED <<conns, shells, disk, sess, lock, calls, budget>>
    BY Zenon DEF TickReconcile
  <1>2. tick \in Ticks /\ lock = "tick" /\ lock \notin Calls /\ sess[p] # None
    BY <1>1, Ticking, Zenon DEF SessionsInv, Held
  <1>3. tick' \in Ticks /\ tick'.pc = "reconcile" /\ tick'.todo = tick.todo \ {p} /\ tick'.calm = tick.calm
    BY <1>1, <1>2, Zenon DEF TickReconcile, Ticks
  <1>4. rec' \in Reconciliations /\ rec'.pc = "pin" /\ rec'.pid = p /\ rec'.new = NoForwardings
    BY RecTypes, ZenonT(40) DEF TickReconcile, Reconcile
  <1>5. TypeOK'
    BY <1>1, <1>2, <1>3, <1>4, Distinct, ZenonT(40) DEF SessionsInv, TypeOK
  <1>6. Held'
    BY <1>1, <1>2, <1>3, <1>4, ZenonT(40) DEF SessionsInv, Held
  <1>7. Reports' /\ Known' /\ Closed'
    BY <1>1, <1>3, TickPlace, Zenon
  <1>8. Sweeping'
    <2>1. \A q \in Pids : (Swept(q)' <=> Swept(q)) /\ (Served(q)' <=> Served(q))
      BY <1>1, SameServed, Zenon DEF Swept
    <2>2. Underway'
      BY <1>4, Zenon DEF Underway
    <2>3. QED
      BY <1>1, <1>3, <1>4, <2>1, <2>2, Zenon DEF SessionsInv, Sweeping
  <1>9. QED
    BY <1>5, <1>6, <1>7, <1>8, Zenon DEF SessionsInv

\* The tick gives up the lock.
LEMMA TickEndInv ==
  ASSUME SessionsInv, TickEnd
  PROVE  SessionsInv'
  <1>1. /\ tick.pc = "reconcile" /\ rec.pc = "idle" /\ lock' = None /\ tick' = NoTick
        /\ UNCHANGED <<conns, shells, disk, sess, rec, calls, budget>>
    BY Zenon DEF TickEnd
  <1>2. lock = "tick"
    BY <1>1, Ticking, Zenon
  <1>3. tick' \in Ticks /\ tick'.pc = "idle"
    BY <1>1, Zenon DEF Ticks, NoTick
  <1>4. TypeOK'
    BY <1>1, <1>3, Distinct, ZenonT(40) DEF SessionsInv, TypeOK
  <1>5. Held'
    BY <1>1, <1>3, Distinct, ZenonT(40) DEF SessionsInv, Held
  <1>6. Reports' /\ Known' /\ Closed'
    BY <1>1, <1>2, <1>3, TickPlace, Distinct, ZenonT(40)
  <1>7. QED
    BY <1>3, <1>4, <1>5, <1>6, SweepOver, Zenon DEF SessionsInv

\* A session is found or made, in memory and on disk.
LEMMA Touched ==
  ASSUME SessionsInv, NEW p \in Pids, NEW s \in Sessions, NEW d \in Directories,
         sess' = [sess EXCEPT ![p] = s], disk' = [disk EXCEPT ![p] = d], d.made
  PROVE  /\ sess' \in [Pids -> Sessions \cup {None}] /\ disk' \in [Pids -> Directories]
         /\ sess'[p] = s /\ disk'[p] = d /\ s # None
         /\ \A q \in Pids \ {p} : sess'[q] = sess[q] /\ disk'[q] = disk[q]
         /\ \A q \in Pids : (sess[q] # None => sess'[q] # None) /\ (disk[q].made => disk'[q].made)
         /\ \A q \in Pids : sess'[q] # None => disk'[q].made
  <1>1. sess \in [Pids -> Sessions \cup {None}] /\ disk \in [Pids -> Directories] /\ s # None
    BY SessionNotNone, Zenon DEF SessionsInv, TypeOK
  <1>2. /\ sess' \in [Pids -> Sessions \cup {None}] /\ disk' \in [Pids -> Directories]
        /\ sess'[p] = s /\ disk'[p] = d
        /\ \A q \in Pids \ {p} : sess'[q] = sess[q] /\ disk'[q] = disk[q]
    BY <1>1, Zenon
  <1>3. QED
    BY <1>1, <1>2, Zenon DEF SessionsInv, TypeOK

\* The process of a session directory is there.
LEMMA TickFoundInv ==
  ASSUME SessionsInv, NEW p \in Pids, TickFound(p)
  PROVE  SessionsInv'
  <1>1. /\ tick.pc = "prune" /\ p \in tick.todo /\ shells[p].alive
        /\ UNCHANGED <<conns, shells, lock, rec, calls, budget>>
    BY Zenon DEF TickFound
  <1>2. tick \in Ticks /\ tick.todo \subseteq Pids /\ lock = "tick" /\ lock \notin Calls /\ rec.pc = "idle"
    BY <1>1, Ticking, Zenon
  <1>3. PICK s \in Sessions, d \in Directories : s = GetOrCreateSession(p) /\ d = SessionDirectory(p)
    BY GotSession, GotDirectory, Zenon
  <1>4. d.made /\ d.cwd = disk[p].cwd /\ s.cwd = disk[p].cwd
    BY <1>3, GotSession, GotDirectory, Zenon
  <1>5. sess' = [sess EXCEPT ![p] = s] /\ disk' = [disk EXCEPT ![p] = d]
    BY <1>3, Zenon DEF TickFound
  <1>6. /\ sess' \in [Pids -> Sessions \cup {None}] /\ disk' \in [Pids -> Directories]
        /\ sess'[p] = s /\ disk'[p] = d /\ s # None
        /\ \A q \in Pids \ {p} : sess'[q] = sess[q] /\ disk'[q] = disk[q]
        /\ \A q \in Pids : (sess[q] # None => sess'[q] # None) /\ (disk[q].made => disk'[q].made)
        /\ \A q \in Pids : sess'[q] # None => disk'[q].made
    BY <1>4, <1>5, Touched, ZenonT(40)
  <1>7. tick' \in Ticks /\ tick'.pc = "prune" /\ tick'.todo = tick.todo \ {p} /\ tick'.calm = tick.calm
    BY <1>1, <1>2, Zenon DEF TickFound, Ticks
  <1>8. TypeOK'
    BY <1>1, <1>2, <1>6, <1>7, Zenon DEF SessionsInv, TypeOK
  <1>9. Held'
    BY <1>1, <1>2, <1>6, <1>7, ZenonT(40) DEF SessionsInv, Held
  <1>10. Reports' /\ Known'
    <2>1. \A e \in Calls : SameCall(e) /\ (Past(e)' <=> Past(e)) /\ (calls[e].own => calls'[e].pc \in {"update", "done"})
      BY <1>1, ZenonT(40) DEF SameCall, Past, SessionsInv, Reports, Reported
    <2>2. \A q \in Pids : /\ disk'[q].cwd = disk[q].cwd /\ (disk[q].made => disk'[q].made)
                          /\ sess'[q] # None => sess'[q].cwd = disk[q].cwd
      BY <1>4, <1>6, Zenon DEF SessionsInv, Known
    <2>3. QED
      BY <1>1, <1>7, <2>1, <2>2, PlaceKept
  <1>11. Closed'
    BY <1>1, ClosedKept, Zenon
  <1>12. Sweeping'
    <2>1. \A q \in Pids \ {p} : Swept(q)' <=> Swept(q)
      BY <1>1, <1>6, Zenon DEF Swept
    <2>2. Swept(p)'
      BY <1>1, <1>6, Zenon DEF Swept
    <2>3. QED
      BY <1>1, <1>7, <2>1, <2>2, ZenonT(40) DEF SessionsInv, Sweeping
  <1>13. QED
    BY <1>8, <1>9, <1>10, <1>11, <1>12, Zenon DEF SessionsInv

\* removeSession; requests keep the object they looked up.
LEMMA TickRemoveInv ==
  ASSUME SessionsInv, TickRemove
  PROVE  SessionsInv'
  <1>1. tick.pc = "remove" /\ UNCHANGED <<conns, shells, lock, rec, budget>>
    BY Zenon DEF TickRemove
  <1>2. PICK p : p = tick.pid
    BY Zenon
  <1>3. tick \in Ticks /\ p \in Pids /\ lock = "tick" /\ lock \notin Calls /\ rec.pc = "idle" /\ p \in tick.todo
    BY <1>1, <1>2, Ticking, Zenon DEF SessionsInv, Held
  <1>4. sess \in [Pids -> Sessions \cup {None}] /\ disk \in [Pids -> Directories] /\ calls \in [Calls -> InProgress]
    BY Zenon DEF SessionsInv, TypeOK
  <1>5. NoDir \in Directories /\ NoDir.made = FALSE
    BY Zenon DEF NoDir, Directories
  <1>6. sess' = [sess EXCEPT ![p] = None] /\ disk' = [disk EXCEPT ![p] = NoDir]
    BY <1>2, Zenon DEF TickRemove
  <1>7. /\ sess' \in [Pids -> Sessions \cup {None}] /\ disk' \in [Pids -> Directories]
        /\ sess'[p] = None /\ disk'[p] = NoDir
        /\ \A q \in Pids \ {p} : sess'[q] = sess[q] /\ disk'[q] = disk[q]
    BY <1>3, <1>4, <1>5, <1>6, Zenon
  <1>8. tick' \in Ticks /\ tick'.pc = "prune" /\ tick'.todo = tick.todo \ {p} /\ tick'.calm = tick.calm
    BY <1>2, <1>3, Zenon DEF TickRemove, Ticks
  <1>9. \A e \in Calls : calls'[e] = IF calls[e].pid = p /\ calls[e].pc \in {"read", "select"} /\ calls[e].held = None
                                    THEN [calls[e] EXCEPT !.held = sess[p]]
                                    ELSE calls[e]
    BY <1>2, Zenon DEF TickRemove
  <1>10. calls' = [e \in Calls |-> calls'[e]]
    BY Zenon DEF TickRemove
  <1>11. ASSUME NEW e \in Calls
         PROVE  /\ calls'[e] \in InProgress
                /\ calls'[e].own = calls[e].own /\ calls'[e].pid = calls[e].pid /\ calls'[e].cwd = calls[e].cwd
                /\ calls'[e].op = calls[e].op /\ calls'[e].old = calls[e].old /\ calls'[e].sel = calls[e].sel
                /\ calls'[e].pc = calls[e].pc
                /\ calls'[e].held = calls[e].held \/ calls[e].pid = p
                /\ calls[e].pc \in {"read", "select"} /\ calls[e].pid = p => calls'[e].held # None
    <2>1. CASE calls[e].pid = p /\ calls[e].pc \in {"read", "select"} /\ calls[e].held = None
      <3>1. sess[p] # None
        BY <2>1, Zenon DEF SessionsInv, Held
      <3>2. sess[p] \in Sessions /\ calls[e] \in InProgress
        BY <1>3, <1>4, <3>1, Zenon
      <3>3. calls'[e] = [calls[e] EXCEPT !.held = sess[p]]
        BY <1>9, <2>1, Zenon
      <3>4. QED
        BY <2>1, <3>1, <3>2, <3>3, ZenonT(40) DEF InProgress
    <2>2. CASE ~(calls[e].pid = p /\ calls[e].pc \in {"read", "select"} /\ calls[e].held = None)
      <3>1. calls'[e] = calls[e]
        BY <1>9, <2>2, ZenonT(40)
      <3>2. QED
        BY <1>4, <2>2, <3>1, Zenon
    <2>3. QED
      BY <2>1, <2>2, Zenon
  <1>12. calls' \in [Calls -> InProgress]
    BY <1>10, <1>11, Zenon
  <1>13. TypeOK'
    <2>1. \A q \in Pids : sess'[q] # None => disk'[q].made
      BY <1>7, Zenon DEF SessionsInv, TypeOK
    <2>2. QED
      BY <1>1, <1>3, <1>7, <1>8, <1>12, <2>1, Zenon DEF SessionsInv, TypeOK
  <1>14. Held'
    <2>1. ASSUME NEW c \in Calls
          PROVE  /\ calls'[c].pc # "idle" => calls'[c].pid \in Pids
                 /\ calls'[c].pc \in {"state", "started"} => calls'[c].sel \in Refs
                 /\ calls'[c].pc \in {"read", "select"} => calls'[c].held # None \/ sess'[calls'[c].pid] # None
      BY <1>7, <1>11, SMTT(30) DEF SessionsInv, Held
    <2>2. QED
      BY <1>1, <1>3, <1>8, <2>1, Zenon DEF SessionsInv, Held
  <1>15. \A e \in Calls : Past(e)' <=> Past(e)
    BY <1>1, <1>11, Zenon DEF Past
  <1>16. (shells[p].alive => shells[p].last = None) /\ \A e \in Calls : calls[e].pid = p => ~Past(e)
    BY <1>1, <1>2, Zenon DEF SessionsInv, Reports
  <1>17. Reports'
    <2>1. ASSUME NEW e \in Calls, calls'[e].own PROVE Reported(e)'
      <3>1. calls[e].own /\ Reported(e) /\ calls[e].pid \in Pids
        BY <1>11, <2>1, Zenon DEF SessionsInv, Reports, Held, Reported
      <3>2. Past(e)' => calls[e].pid # p
        BY <1>15, <1>16, Zenon
      <3>3. QED
        BY <1>1, <1>7, <1>11, <1>15, <3>1, <3>2, SMTT(30) DEF Reported
    <2>2. QED
      BY <1>8, <2>1 DEF Reports
  <1>18. Known'
    <2>1. ASSUME NEW q \in Pids
          PROVE  /\ sess'[q] # None => sess'[q].cwd = disk'[q].cwd
                 /\ shells[q].alive /\ shells[q].last # None => disk'[q].made
                 /\ shells[q].alive /\ shells[q].last # None /\ ~shells[q].unsure /\ (\A c \in Calls : calls'[c].pid = q => ~Past(c)') =>
                      disk'[q].cwd = shells[q].last
      <3>1. CASE q = p
        BY <1>7, <1>16, <3>1, Zenon
      <3>2. CASE q # p
        BY <1>7, <1>11, <1>15, <3>2 DEF SessionsInv, Known
      <3>3. QED
        BY <3>1, <3>2, Zenon
    <2>2. QED
      BY <1>1, <2>1, Zenon DEF Known
  <1>19. Closed'
    BY <1>1, <1>11, ClosedKept, Zenon
  <1>20. Sweeping'
    <2>1. \A q \in Pids \ {p} : Swept(q)' <=> Swept(q)
      BY <1>1, <1>7, ZenonT(40) DEF Swept
    <2>2. tick.calm => Swept(p)'
      BY <1>1, <1>2, <1>5, <1>7, Zenon DEF Swept, SessionsInv, Sweeping
    <2>3. QED
      BY <1>1, <1>8, <2>1, <2>2, ZenonT(40) DEF SessionsInv, Sweeping
  <1>21. QED
    BY <1>13, <1>14, <1>17, <1>18, <1>19, <1>20, Zenon DEF SessionsInv

-----------------------------------------------------------------------------
(* Requests that take the lock.                                              *)

\* Nobody ticks or reconciles while the lock is free.
LEMMA Free ==
  ASSUME SessionsInv, lock = None
  PROVE  tick.pc = "idle" /\ rec.pc = "idle"
  BY Distinct, ZenonT(40) DEF SessionsInv, TypeOK

\* A request in progress.
LEMMA Calling ==
  ASSUME SessionsInv, NEW c \in Calls, calls[c].pc # "idle"
  PROVE  calls[c] \in InProgress /\ calls[c].pid \in Pids /\ calls \in [Calls -> InProgress]
  BY Zenon DEF SessionsInv, TypeOK, Held

\* The pin is set, and the session reconciled under the same lock.
LEMMA PinInv ==
  ASSUME SessionsInv, NEW c \in Calls, Pin(c)
  PROVE  SessionsInv'
  <1>1. calls[c].pc = "pin" /\ lock = None /\ lock' = c /\ UNCHANGED <<conns, shells, tick, calls, budget>>
    BY Zenon DEF Pin
  <1>2. PICK p \in Pids : p = calls[c].pid
    BY <1>1, Calling, Zenon
  <1>3. tick.pc = "idle" /\ rec.pc = "idle" /\ calls[c] \in InProgress /\ calls[c].name \in Names \cup {""} /\ ~calls[c].own
    BY <1>1, Free, Calling, ZenonT(40) DEF InProgress, SessionsInv, Reports, Reported
  <1>4. PICK g \in Sessions, d \in Directories : g = GetOrCreateSession(p) /\ d = SessionDirectory(p)
    BY GotSession, GotDirectory, Zenon
  <1>5. PICK s : s = [g EXCEPT !.pin = calls[c].name]
    BY Zenon
  <1>6. s \in Sessions /\ s.cwd = g.cwd
    BY <1>3, <1>4, <1>5, Zenon DEF Sessions
  <1>7. d.made /\ d.cwd = disk[p].cwd /\ s.cwd = disk[p].cwd
    BY <1>4, <1>6, GotSession, GotDirectory, Zenon
  <1>8. sess' = [sess EXCEPT ![p] = s] /\ disk' = [disk EXCEPT ![p] = d]
    BY <1>2, <1>4, <1>5, Zenon DEF Pin
  <1>9. /\ sess' \in [Pids -> Sessions \cup {None}] /\ disk' \in [Pids -> Directories]
        /\ sess'[p] = s /\ disk'[p] = d /\ s # None
        /\ \A q \in Pids \ {p} : sess'[q] = sess[q] /\ disk'[q] = disk[q]
        /\ \A q \in Pids : (sess[q] # None => sess'[q] # None) /\ (disk[q].made => disk'[q].made)
        /\ \A q \in Pids : sess'[q] # None => disk'[q].made
    BY <1>6, <1>7, <1>8, Touched, ZenonT(40)
  <1>10. rec' \in Reconciliations /\ rec'.pc = "pin" /\ rec'.pid = p
    BY <1>2, RecTypes, Zenon DEF Pin, Reconcile
  <1>11. TypeOK'
    BY <1>1, <1>3, <1>9, <1>10, Distinct, ZenonT(40) DEF SessionsInv, TypeOK
  <1>12. Held'
    BY <1>1, <1>2, <1>3, <1>9, <1>10, Distinct, ZenonT(40) DEF SessionsInv, Held
  <1>13. Reports' /\ Known'
    <2>1. \A e \in Calls : SameCall(e) /\ (Past(e)' <=> Past(e)) /\ (calls[e].own => calls'[e].pc \in {"update", "done"})
      BY <1>1, <1>3, Distinct, ZenonT(40) DEF SameCall, Past, SessionsInv, Reports, Reported
    <2>2. \A q \in Pids : /\ disk'[q].cwd = disk[q].cwd /\ (disk[q].made => disk'[q].made)
                          /\ sess'[q] # None => sess'[q].cwd = disk[q].cwd
      BY <1>7, <1>9, ZenonT(40) DEF SessionsInv, Known
    <2>3. QED
      BY <1>1, <1>3, <2>1, <2>2, PlaceKept, ZenonT(40)
  <1>14. Closed'
    BY <1>1, ClosedKept, Zenon
  <1>15. QED
    BY <1>1, <1>3, <1>11, <1>12, <1>13, <1>14, SweepOver, Zenon DEF SessionsInv

\* A request looks its session up.
LEMMA SessionByPIDInv ==
  ASSUME SessionsInv, NEW c \in Calls, SessionByPID(c)
  PROVE  SessionsInv'
  <1>1. calls[c].pc = "get" /\ lock = None /\ UNCHANGED <<conns, shells, lock, tick, rec, budget>>
    BY Zenon DEF SessionByPID
  <1>2. PICK p \in Pids : p = calls[c].pid
    BY <1>1, Calling, Zenon
  <1>3. /\ tick.pc = "idle" /\ rec.pc = "idle" /\ calls[c] \in InProgress /\ calls \in [Calls -> InProgress]
        /\ ~calls[c].own
    BY <1>1, Free, Calling, ZenonT(40) DEF SessionsInv, Reports, Reported
  <1>4. PICK s \in Sessions, d \in Directories : s = GetOrCreateSession(p) /\ d = SessionDirectory(p)
    BY GotSession, GotDirectory, Zenon
  <1>5. d.made /\ d.cwd = disk[p].cwd /\ s.cwd = disk[p].cwd
    BY <1>4, GotSession, GotDirectory, Zenon
  <1>6. sess' = [sess EXCEPT ![p] = s] /\ disk' = [disk EXCEPT ![p] = d]
    BY <1>2, <1>4, Zenon DEF SessionByPID
  <1>7. /\ sess' \in [Pids -> Sessions \cup {None}] /\ disk' \in [Pids -> Directories]
        /\ sess'[p] = s /\ disk'[p] = d /\ s # None
        /\ \A q \in Pids \ {p} : sess'[q] = sess[q] /\ disk'[q] = disk[q]
        /\ \A q \in Pids : (sess[q] # None => sess'[q] # None) /\ (disk[q].made => disk'[q].made)
        /\ \A q \in Pids : sess'[q] # None => disk'[q].made
    BY <1>5, <1>6, Touched, Zenon
  <1>8. PICK x \in {"done", "read", "select"} :
          x = IF calls[c].op = "look" THEN "done" ELSE IF calls[c].op = "exact" THEN "read" ELSE "select"
    BY Zenon
  <1>9. PICK v : v = [calls[c] EXCEPT !.pc = x]
    BY Zenon
  <1>10. calls' = [calls EXCEPT ![c] = v]
    BY <1>3, <1>8, <1>9, Zenon DEF SessionByPID
  <1>11. /\ v \in InProgress /\ v.pc = x /\ v.own = calls[c].own /\ v.pid = calls[c].pid /\ v.cwd = calls[c].cwd
         /\ v.op = calls[c].op /\ v.old = calls[c].old /\ v.sel = calls[c].sel /\ v.held = calls[c].held
    <2>1. calls[c] \in InProgress /\ x \in {"done", "read", "select"} /\ v = [calls[c] EXCEPT !.pc = x]
      BY <1>3, <1>8, <1>9, Zenon
    <2>2. QED
      BY <2>1, Zenon DEF InProgress
  <1>12. calls' \in [Calls -> InProgress] /\ calls'[c] = v /\ \A e \in Calls \ {c} : calls'[e] = calls[e]
    BY <1>3, <1>10, <1>11, Zenon
  <1>13. TypeOK'
    BY <1>1, <1>3, <1>7, <1>12, Zenon DEF SessionsInv, TypeOK
  <1>14. Held'
    <2>1. ASSUME NEW e \in Calls
          PROVE  /\ calls'[e].pc # "idle" => calls'[e].pid \in Pids
                 /\ calls'[e].pc \in {"state", "started"} => calls'[e].sel \in Refs
                 /\ calls'[e].pc \in {"read", "select"} => calls'[e].held # None \/ sess'[calls'[e].pid] # None
      <3>1. CASE e = c
        BY <1>2, <1>7, <1>8, <1>11, <1>12, <3>1
      <3>2. CASE e # c
        BY <1>7, <1>12, <3>2, ZenonT(40) DEF SessionsInv, Held
      <3>3. QED
        BY <3>1, <3>2, Zenon
    <2>2. QED
      BY <1>1, <1>3, <2>1, Distinct, ZenonT(40) DEF SessionsInv, Held
  <1>15. \A e \in Calls : SameCall(e) /\ (Past(e)' <=> Past(e)) /\ (calls[e].own => calls'[e].pc \in {"update", "done"})
    <2>1. ASSUME NEW e \in Calls
          PROVE  SameCall(e) /\ (Past(e)' <=> Past(e)) /\ (calls[e].own => calls'[e].pc \in {"update", "done"})
      <3>1. CASE e = c
        BY <1>3, <1>11, <1>12, <3>1, Zenon DEF SameCall, Past
      <3>2. CASE e # c
        BY <1>1, <1>12, <3>2, ZenonT(40) DEF SameCall, Past, SessionsInv, Reports, Reported
      <3>3. QED
        BY <3>1, <3>2, Zenon
    <2>2. QED
      BY <2>1, Zenon
  <1>16. Reports' /\ Known'
    <2>1. \A q \in Pids : /\ disk'[q].cwd = disk[q].cwd /\ (disk[q].made => disk'[q].made)
                          /\ sess'[q] # None => sess'[q].cwd = disk[q].cwd
      BY <1>5, <1>7, Zenon DEF SessionsInv, Known
    <2>2. QED
      BY <1>1, <1>3, <1>15, <2>1, PlaceKept, Zenon
  <1>17. Closed'
    <2>1. \A e \in Calls : calls'[e].old = calls[e].old /\ calls'[e].sel = calls[e].sel
                           /\ (calls'[e].pc = "started" => calls[e].pc = "started")
      BY <1>8, <1>11, <1>12, Zenon
    <2>2. QED
      BY <1>1, <2>1, ClosedKept, Zenon
  <1>18. QED
    BY <1>1, <1>3, <1>13, <1>14, <1>16, <1>17, SweepOver, Zenon DEF SessionsInv

\* A report of the directory the session already has (UpdateSessionCWD returns early).
LEMMA SameCWDInv ==
  ASSUME SessionsInv, NEW c \in Calls, SameCWD(c)
  PROVE  SessionsInv'
  <1>1. calls[c].pc = "update" /\ lock = None /\ lock' = None /\ UNCHANGED <<conns, tick, rec, budget>>
    BY Zenon DEF SameCWD, Unlock
  <1>2. PICK p \in Pids : p = calls[c].pid
    BY <1>1, Calling, Zenon
  <1>3. tick.pc = "idle" /\ rec.pc = "idle" /\ calls[c] \in InProgress /\ calls \in [Calls -> InProgress]
    BY <1>1, Free, Calling, Zenon
  <1>4. PICK s \in Sessions, d \in Directories : s = GetOrCreateSession(p) /\ d = SessionDirectory(p)
    BY GotSession, GotDirectory, Zenon
  <1>5. d.made /\ d.cwd = disk[p].cwd /\ s.cwd = disk[p].cwd /\ s.cwd = calls[c].cwd
    BY <1>2, <1>4, GotSession, GotDirectory, Zenon DEF SameCWD
  <1>6. sess' = [sess EXCEPT ![p] = s] /\ disk' = [disk EXCEPT ![p] = d]
    BY <1>2, <1>4, Zenon DEF SameCWD
  <1>7. /\ sess' \in [Pids -> Sessions \cup {None}] /\ disk' \in [Pids -> Directories]
        /\ sess'[p] = s /\ disk'[p] = d /\ s # None
        /\ \A q \in Pids \ {p} : sess'[q] = sess[q] /\ disk'[q] = disk[q]
        /\ \A q \in Pids : (sess[q] # None => sess'[q] # None) /\ (disk[q].made => disk'[q].made)
        /\ \A q \in Pids : sess'[q] # None => disk'[q].made
    BY <1>5, <1>6, Touched, Zenon
  <1>8. PICK x \in {"done", "get"} : x = IF calls[c].op \in {"report", "pin"} THEN "done" ELSE "get"
    BY Zenon
  <1>9. PICK v : v = [calls[c] EXCEPT !.pc = x]
    BY Zenon
  <1>10. calls' = [calls EXCEPT ![c] = v]
    BY <1>3, <1>8, <1>9, Zenon DEF SameCWD, Unlock
  <1>11. /\ v \in InProgress /\ v.pc = x /\ v.own = calls[c].own /\ v.pid = calls[c].pid /\ v.cwd = calls[c].cwd
         /\ v.op = calls[c].op /\ v.old = calls[c].old /\ v.sel = calls[c].sel /\ v.held = calls[c].held
    <2>1. calls[c] \in InProgress /\ x \in {"done", "get"} /\ v = [calls[c] EXCEPT !.pc = x]
      BY <1>3, <1>8, <1>9, Zenon
    <2>2. QED
      BY <2>1, Zenon DEF InProgress
  <1>12. calls' \in [Calls -> InProgress] /\ calls'[c] = v /\ \A e \in Calls \ {c} : calls'[e] = calls[e]
    BY <1>3, <1>10, <1>11, Zenon
  <1>13. /\ shells' \in [Pids -> Shells] /\ \A q \in Pids \ {p} : shells'[q] = shells[q]
         /\ shells'[p].alive = shells[p].alive /\ shells'[p].last = shells[p].last
         /\ ~calls[c].own => shells'[p].unsure = shells[p].unsure
    <2>1. shells \in [Pids -> Shells] /\ calls[c].own \in BOOLEAN
      BY <1>3, Zenon DEF SessionsInv, TypeOK, InProgress
    <2>2. PICK u \in BOOLEAN : u = (shells[p].unsure /\ ~calls[c].own)
      BY Zenon
    <2>3. shells' = [shells EXCEPT ![p].unsure = u]
      BY <1>2, <2>2, Zenon DEF SameCWD
    <2>4. shells' \in [Pids -> Shells] /\ shells'[p].alive = shells[p].alive /\ shells'[p].last = shells[p].last
          /\ shells'[p].unsure = u /\ \A q \in Pids \ {p} : shells'[q] = shells[q]
      BY <2>1, <2>2, <2>3, ZenonT(40) DEF Shells
    <2>5. ~calls[c].own => u = shells[p].unsure
      <3>1. shells[p].unsure \in BOOLEAN
        BY <2>1, Zenon DEF Shells
      <3>2. QED
        BY <2>2, <3>1, Zenon
    <2>6. QED
      BY <2>4, <2>5, Zenon
  <1>14. TypeOK'
    BY <1>1, <1>3, <1>7, <1>12, <1>13, Zenon DEF SessionsInv, TypeOK
  <1>15. Held'
    <2>1. ASSUME NEW e \in Calls
          PROVE  /\ calls'[e].pc # "idle" => calls'[e].pid \in Pids
                 /\ calls'[e].pc \in {"state", "started"} => calls'[e].sel \in Refs
                 /\ calls'[e].pc \in {"read", "select"} => calls'[e].held # None \/ sess'[calls'[e].pid] # None
      <3>1. CASE e = c
        BY <1>2, <1>7, <1>8, <1>11, <1>12, <3>1, Zenon
      <3>2. CASE e # c
        BY <1>7, <1>12, <3>2 DEF SessionsInv, Held
      <3>3. QED
        BY <3>1, <3>2, Zenon
    <2>2. QED
      BY <1>1, <1>3, <2>1, Distinct, ZenonT(40) DEF SessionsInv, Held
  <1>16. /\ \A e \in Calls \ {c} : calls'[e] = calls[e] /\ (Past(e)' <=> Past(e))
         /\ calls[c].own <=> calls'[c].own
         /\ calls[c].own => Past(c)' /\ ~Past(c) /\ x = "done"
    <2>1. calls[c].own => calls[c].op = "report"
      BY Zenon DEF SessionsInv, Reports, Reported
    <2>2. \A e \in Calls : lock # e /\ lock' # e
      BY <1>1, Distinct, ZenonT(40)
    <2>3. QED
      BY <1>1, <1>8, <1>11, <1>12, <2>1, <2>2, ZenonT(40) DEF Past
  <1>17. Reports'
    <2>1. ASSUME NEW e \in Calls, calls'[e].own PROVE Reported(e)'
      <3>1. calls[e].own /\ Reported(e) /\ calls[e].pid \in Pids
        BY <1>16, <2>1, ZenonT(40) DEF SessionsInv, Reports, Held, Reported
      <3>2. \A f \in Calls : calls'[f].own /\ calls'[f].pid = calls'[e].pid => f = e
        BY <1>11, <1>12, <3>1, SMTT(30) DEF Reported
      <3>3. CASE e = c
        BY <1>2, <1>5, <1>7, <1>11, <1>12, <1>13, <1>16, <3>1, <3>2, <3>3, SMTT(30) DEF Reported
      <3>4. CASE e # c
        <4>1. calls'[e] = calls[e] /\ (Past(e)' <=> Past(e)) /\ shells'[calls[e].pid].alive
          BY <1>13, <1>16, <3>1, <3>4, ZenonT(40) DEF Reported
        <4>2. CASE calls[e].pid = p
          <5>1. ~calls[c].own
            BY <1>2, <3>1, <3>4, <4>2, ZenonT(40) DEF Reported
          <5>2. QED
            BY <1>5, <1>7, <1>13, <3>1, <3>2, <4>1, <4>2, <5>1, ZenonT(40) DEF Reported
        <4>3. CASE calls[e].pid # p
          BY <1>7, <1>13, <3>1, <3>2, <4>1, <4>3, SMTT(30) DEF Reported
        <4>4. QED
          BY <4>2, <4>3, Zenon
      <3>5. QED
        BY <3>3, <3>4, Zenon
    <2>2. QED
      BY <1>1, <1>3, <2>1 DEF Reports
  <1>18. Known'
    <2>1. ASSUME NEW q \in Pids
          PROVE  /\ sess'[q] # None => sess'[q].cwd = disk'[q].cwd
                 /\ shells'[q].alive /\ shells'[q].last # None => disk'[q].made
                 /\ shells'[q].alive /\ shells'[q].last # None /\ ~shells'[q].unsure /\ (\A e \in Calls : calls'[e].pid = q => ~Past(e)') =>
                      disk'[q].cwd = shells'[q].last
      <3>1. CASE q = p
        <4>1. CASE calls[c].own
          BY <1>2, <1>5, <1>7, <1>11, <1>12, <1>16, <3>1, <4>1, ZenonT(40)
        <4>2. CASE ~calls[c].own
          <5>1. ~Past(c)
            BY <4>2, Zenon DEF Past
          <5>2. (\A e \in Calls : calls'[e].pid = p => ~Past(e)') => \A e \in Calls : calls[e].pid = p => ~Past(e)
            BY <1>16, <5>1, ZenonT(40)
          <5>3. QED
            BY <1>5, <1>7, <1>13, <3>1, <4>2, <5>2, ZenonT(40) DEF SessionsInv, Known
        <4>3. QED
          BY <4>1, <4>2, ZenonT(40)
      <3>2. CASE q # p
        <4>1. (\A e \in Calls : calls'[e].pid = q => ~Past(e)') => \A e \in Calls : calls[e].pid = q => ~Past(e)
          BY <1>2, <1>16, <3>2, ZenonT(40)
        <4>2. QED
          BY <1>7, <1>13, <3>2, <4>1, ZenonT(40) DEF SessionsInv, Known
      <3>3. QED
        BY <3>1, <3>2, ZenonT(40)
    <2>2. QED
      BY <2>1, Zenon DEF Known
  <1>19. Closed'
    <2>1. \A e \in Calls : calls'[e].old = calls[e].old /\ calls'[e].sel = calls[e].sel
                           /\ (calls'[e].pc = "started" => calls[e].pc = "started")
      BY <1>8, <1>11, <1>12, Zenon
    <2>2. QED
      BY <1>1, <2>1, ClosedKept
  <1>20. QED
    BY <1>1, <1>3, <1>14, <1>15, <1>17, <1>18, <1>19, SweepOver, Zenon DEF SessionsInv

\* A report of another directory: in memory, on disk, and the reconciliation under the same lock.
LEMMA UpdateSessionCWDInv ==
  ASSUME SessionsInv, NEW c \in Calls, UpdateSessionCWD(c)
  PROVE  SessionsInv'
  <1>1. calls[c].pc = "update" /\ lock = None /\ lock' = c /\ UNCHANGED <<conns, tick, calls, budget>>
    BY Zenon DEF UpdateSessionCWD
  <1>2. PICK p \in Pids : p = calls[c].pid
    BY <1>1, Calling, Zenon
  <1>3. /\ tick.pc = "idle" /\ rec.pc = "idle" /\ calls[c] \in InProgress /\ calls \in [Calls -> InProgress]
        /\ calls[c].cwd \in Dirs \cup {None}
    BY <1>1, Free, Calling, Zenon DEF InProgress
  <1>4. PICK g \in Sessions, f \in Directories : g = GetOrCreateSession(p) /\ f = SessionDirectory(p)
    BY GotSession, GotDirectory, Zenon
  <1>5. PICK s, d : s = [g EXCEPT !.cwd = calls[c].cwd] /\ d = [f EXCEPT !.cwd = calls[c].cwd]
    BY Zenon
  <1>6. s \in Sessions /\ s.cwd = calls[c].cwd /\ d \in Directories /\ d.cwd = calls[c].cwd /\ d.made
    <2>1. f.made
      BY <1>4, GotDirectory, Zenon
    <2>2. s \in Sessions /\ s.cwd = calls[c].cwd
      BY <1>3, <1>5, Zenon DEF Sessions
    <2>3. d \in Directories /\ d.cwd = calls[c].cwd /\ d.made = f.made
      BY <1>3, <1>5, Zenon DEF Directories
    <2>4. QED
      BY <2>1, <2>2, <2>3, Zenon
  <1>7. sess' = [sess EXCEPT ![p] = s] /\ disk' = [disk EXCEPT ![p] = d]
    BY <1>2, <1>4, <1>5, Zenon DEF UpdateSessionCWD
  <1>8. /\ sess' \in [Pids -> Sessions \cup {None}] /\ disk' \in [Pids -> Directories]
        /\ sess'[p] = s /\ disk'[p] = d /\ s # None
        /\ \A q \in Pids \ {p} : sess'[q] = sess[q] /\ disk'[q] = disk[q]
        /\ \A q \in Pids : (sess[q] # None => sess'[q] # None) /\ (disk[q].made => disk'[q].made)
        /\ \A q \in Pids : sess'[q] # None => disk'[q].made
    BY <1>6, <1>7, Touched, Zenon
  <1>9. /\ shells' \in [Pids -> Shells] /\ \A q \in Pids \ {p} : shells'[q] = shells[q]
        /\ shells'[p].alive = shells[p].alive /\ shells'[p].last = shells[p].last
        /\ ~calls[c].own => shells'[p].unsure
    <2>1. shells \in [Pids -> Shells]
      BY Zenon DEF SessionsInv, TypeOK
    <2>2. PICK u \in BOOLEAN : u = (~calls[c].own)
      BY Zenon
    <2>3. shells' = [shells EXCEPT ![p].unsure = u]
      BY <1>2, <2>2, Zenon DEF UpdateSessionCWD
    <2>4. shells' \in [Pids -> Shells] /\ shells'[p].alive = shells[p].alive /\ shells'[p].last = shells[p].last
          /\ shells'[p].unsure = u /\ \A q \in Pids \ {p} : shells'[q] = shells[q]
      BY <2>1, <2>2, <2>3, ZenonT(40) DEF Shells
    <2>5. QED
      BY <2>2, <2>4, Zenon
  <1>10. rec' \in Reconciliations /\ rec'.pc = "pin" /\ rec'.pid = p
    BY <1>2, RecTypes, Zenon DEF UpdateSessionCWD, Reconcile
  <1>11. TypeOK'
    BY <1>1, <1>3, <1>8, <1>9, <1>10, Distinct, ZenonT(40) DEF SessionsInv, TypeOK
  <1>12. Held'
    <2>1. lock' \in Calls => rec'.pc # "idle" /\ calls'[lock'].pid = rec'.pid /\ calls'[lock'].pc \in {"pin", "update"}
      BY <1>1, <1>2, <1>10, Zenon
    <2>2. lock' # "tick" /\ tick'.pc = "idle" /\ rec'.pc # "lookup"
      BY <1>1, <1>3, <1>10, Distinct, ZenonT(40)
    <2>3. \A e \in Calls :
            /\ calls'[e].pc # "idle" => calls'[e].pid \in Pids
            /\ calls'[e].pc \in {"state", "started"} => calls'[e].sel \in Refs
            /\ calls'[e].pc \in {"read", "select"} => calls'[e].held # None \/ sess'[calls'[e].pid] # None
      BY <1>1, <1>8, ZenonT(40) DEF SessionsInv, Held
    <2>4. QED
      BY <1>1, <2>1, <2>2, <2>3, ZenonT(40) DEF SessionsInv, Held
  <1>13. \A e \in Calls : e # c => (Past(e)' <=> Past(e))
    BY <1>1, Distinct, ZenonT(40) DEF Past
  <1>14. calls[c].own => Past(c)'
    BY <1>1, ZenonT(40) DEF Past
  <1>15. Reports'
    <2>1. ASSUME NEW e \in Calls, calls'[e].own PROVE Reported(e)'
      <3>1. calls[e].own /\ Reported(e) /\ calls[e].pid \in Pids
        BY <1>1, <2>1, ZenonT(40) DEF SessionsInv, Reports, Held, Reported
      <3>2. CASE e = c
        BY <1>1, <1>2, <1>6, <1>8, <1>9, <3>1, <3>2, ZenonT(40) DEF Reported
      <3>3. CASE e # c /\ calls[e].pid = p
        <4>1. ~calls[c].own
          BY <1>2, <3>1, <3>3, Zenon DEF Reported
        <4>2. QED
          BY <1>1, <1>6, <1>8, <1>9, <3>1, <3>3, <4>1, ZenonT(40) DEF Reported
      <3>4. CASE e # c /\ calls[e].pid # p
        BY <1>1, <1>8, <1>9, <1>13, <3>1, <3>4, ZenonT(40) DEF Reported
      <3>5. QED
        BY <3>2, <3>3, <3>4, Zenon
    <2>2. QED
      BY <1>1, <1>3, <2>1, Zenon DEF Reports
  <1>16. Known'
    <2>1. ASSUME NEW q \in Pids
          PROVE  /\ sess'[q] # None => sess'[q].cwd = disk'[q].cwd
                 /\ shells'[q].alive /\ shells'[q].last # None => disk'[q].made
                 /\ shells'[q].alive /\ shells'[q].last # None /\ ~shells'[q].unsure /\ (\A e \in Calls : calls'[e].pid = q => ~Past(e)') =>
                      disk'[q].cwd = shells'[q].last
      <3>1. CASE q = p
        BY <1>1, <1>2, <1>6, <1>8, <1>9, <1>14, <3>1, ZenonT(40)
      <3>2. CASE q # p
        <4>1. (\A e \in Calls : calls'[e].pid = q => ~Past(e)') => \A e \in Calls : calls[e].pid = q => ~Past(e)
          BY <1>1, <1>2, <1>13, <3>2, Zenon
        <4>2. QED
          BY <1>8, <1>9, <3>2, <4>1, ZenonT(40) DEF SessionsInv, Known
      <3>3. QED
        BY <3>1, <3>2
    <2>2. QED
      BY <2>1, ZenonT(40) DEF Known
  <1>17. Closed'
    BY <1>1, ClosedKept, Zenon
  <1>18. QED
    BY <1>1, <1>3, <1>11, <1>12, <1>15, <1>16, <1>17, SweepOver, Zenon DEF SessionsInv

\* A request ends; the shell notes a directory it has reported.
LEMMA AnswerInv ==
  ASSUME SessionsInv, NEW c \in Calls, Answer(c)
  PROVE  SessionsInv'
  <1>1. calls[c].pc \in {"done", "started"} /\ calls' = [calls EXCEPT ![c] = Idle] /\ UNCHANGED <<conns, disk, sess, lock, tick, rec, budget>>
    BY Zenon DEF Answer, End
  <1>2. lock # c /\ calls[c].pid \in Pids
    BY <1>1, Zenon DEF SessionsInv, Held
  <1>3. CASE ~calls[c].own
    <2>1. UNCHANGED shells
      BY <1>3, Zenon DEF Answer
    <2>2. budget' \in Budgets
      BY <1>1, Zenon DEF SessionsInv, TypeOK
    <2>3. QED
      BY <1>1, <1>2, <1>3, <2>1, <2>2, IdleMove, CallMoves, Zenon
  <1>4. CASE calls[c].own
    <2>1. PICK p \in Pids : p = calls[c].pid
      BY <1>2, Zenon
    <2>2. calls \in [Calls -> InProgress] /\ calls[c].cwd \in Dirs \cup {None} /\ shells \in [Pids -> Shells]
      BY Zenon DEF SessionsInv, TypeOK, InProgress
    <2>3. shells' = [shells EXCEPT ![p].last = calls[c].cwd]
      BY <1>4, <2>1, Zenon DEF Answer
    <2>4. /\ shells' \in [Pids -> Shells] /\ \A q \in Pids \ {p} : shells'[q] = shells[q]
          /\ shells'[p].last = calls[c].cwd /\ shells'[p].alive = shells[p].alive /\ shells'[p].unsure = shells[p].unsure
      BY <2>2, <2>3, Zenon DEF Shells
    <2>5. Idle \in InProgress /\ Idle.pc = "idle" /\ ~Idle.own /\ \A n \in Names : Idle.old[n] = 0
      BY Objects DEF Idle, InProgress
    <2>6. calls' \in [Calls -> InProgress] /\ calls'[c] = Idle /\ \A e \in Calls \ {c} : calls'[e] = calls[e]
      BY <1>1, <2>2, <2>5, Zenon
    <2>7. /\ Reported(c) /\ Past(c) /\ ~Past(c)' /\ \A e \in Calls \ {c} : Past(e)' <=> Past(e)
      BY <1>1, <1>4, <2>5, <2>6, ZenonT(40) DEF SessionsInv, Reports, Past
    <2>8. /\ disk[p].made /\ (~shells[p].unsure => disk[p].cwd = calls[c].cwd)
          /\ \A e \in Calls \ {c} : ~(calls[e].own /\ calls[e].pid = p)
          /\ tick.pc = "remove" => tick.pid # p
      BY <2>1, <2>7, ZenonT(40) DEF Reported, SessionsInv, Reports
    <2>9. TypeOK'
      BY <1>1, <2>4, <2>6, ZenonT(40) DEF SessionsInv, TypeOK
    <2>10. Held'
      <3>1. lock \in Calls => rec.pc # "idle" /\ calls'[lock].pid = rec.pid /\ calls'[lock].pc \in {"pin", "update"}
        BY <1>2, <2>6, ZenonT(40) DEF SessionsInv, Held
      <3>2. \A e \in Calls :
              /\ calls'[e].pc # "idle" => calls'[e].pid \in Pids
              /\ calls'[e].pc \in {"state", "started"} => calls'[e].sel \in Refs
              /\ calls'[e].pc \in {"read", "select"} => calls'[e].held # None \/ sess[calls'[e].pid] # None
        BY <2>5, <2>6 DEF SessionsInv, Held
      <3>3. QED
        BY <1>1, <3>1, <3>2, ZenonT(40) DEF SessionsInv, Held
    <2>11. Reports'
      <3>1. ASSUME NEW e \in Calls, calls'[e].own PROVE Reported(e)'
        <4>1. e # c /\ calls'[e] = calls[e] /\ calls[e].own /\ Reported(e) /\ calls[e].pid \in Pids /\ calls[e].pid # p
          BY <2>5, <2>6, <2>8, <3>1, ZenonT(40) DEF SessionsInv, Reports, Held, Reported
        <4>2. \A g \in Calls : calls'[g].own /\ calls'[g].pid = calls'[e].pid => g = e
          BY <2>5, <2>6, <4>1, ZenonT(40) DEF Reported
        <4>3. QED
          BY <1>1, <2>4, <2>7, <4>1, <4>2, ZenonT(40) DEF Reported
      <3>2. ASSUME tick.pc = "remove"
            PROVE  /\ shells'[tick.pid].alive => shells'[tick.pid].last = None
                   /\ \A e \in Calls : calls'[e].pid = tick.pid => ~Past(e)'
        <4>1. tick.pid \in Pids \ {p}
          BY <2>8, <3>2, ZenonT(40) DEF SessionsInv, Held, TypeOK, Ticks
        <4>2. QED
          BY <2>4, <2>6, <2>7, <3>2, <4>1, ZenonT(40) DEF SessionsInv, Reports
      <3>3. QED
        BY <1>1, <3>1, <3>2, ZenonT(40) DEF Reports
    <2>12. Known'
      <3>1. ASSUME NEW q \in Pids
            PROVE  /\ sess[q] # None => sess[q].cwd = disk[q].cwd
                   /\ shells'[q].alive /\ shells'[q].last # None => disk[q].made
                   /\ shells'[q].alive /\ shells'[q].last # None /\ ~shells'[q].unsure /\ (\A e \in Calls : calls'[e].pid = q => ~Past(e)') =>
                        disk[q].cwd = shells'[q].last
        <4>1. CASE q = p
          BY <2>4, <2>8, <4>1, Zenon DEF SessionsInv, Known
        <4>2. CASE q # p
          <5>1. (\A e \in Calls : calls'[e].pid = q => ~Past(e)') => \A e \in Calls : calls[e].pid = q => ~Past(e)
            BY <2>1, <2>6, <2>7, <4>2, Zenon
          <5>2. QED
            BY <2>4, <4>2, <5>1, Zenon DEF SessionsInv, Known
        <4>3. QED
          BY <4>1, <4>2, Zenon
      <3>2. QED
        BY <1>1, <3>1, ZenonT(40) DEF Known
    <2>13. Closed'
      <3>1. \A e \in Calls, n \in Names : calls'[e].old[n] <= ClosedOnes[n]
        BY <2>5, <2>6, ClosedCount DEF SessionsInv, Closed
      <3>2. \A e \in Calls : calls'[e].pc = "started" => calls'[e].sel.obj > calls'[e].old[calls'[e].sel.name]
        BY <2>5, <2>6, Zenon DEF SessionsInv, Closed, RunsLive
      <3>3. QED
        BY <1>1, <3>1, <3>2, SameTable, ZenonT(40) DEF Closed, RunsLive
    <2>14. Sweeping'
      BY <1>1, <2>4, SweepKept, Zenon
    <2>15. QED
      BY <2>9, <2>10, <2>11, <2>12, <2>13, <2>14, Zenon DEF SessionsInv
  <1>5. QED
    BY <1>3, <1>4, Zenon

-----------------------------------------------------------------------------
(* Shells and users.                                                         *)

\* What happens is counted.
LEMMA Spent ==
  ASSUME budget \in Budgets, NEW b \in {"shells", "exits", "cds", "calls", "changes", "restarts"}, Spend(b)
  PROVE  budget' \in Budgets
  <1>1. CASE b = "shells"
    BY <1>1 DEF Spend, Budgets
  <1>2. CASE b = "exits"
    BY <1>2 DEF Spend, Budgets
  <1>3. CASE b = "cds"
    BY <1>3 DEF Spend, Budgets
  <1>4. CASE b = "calls"
    BY <1>4 DEF Spend, Budgets
  <1>5. CASE b = "changes"
    BY <1>5 DEF Spend, Budgets
  <1>6. CASE b = "restarts"
    BY <1>6 DEF Spend, Budgets
  <1>7. QED
    BY <1>1, <1>2, <1>3, <1>4, <1>5, <1>6, Zenon

\* A disturbed tick.
LEMMA Disturbed ==
  ASSUME SessionsInv, Disturb
  PROVE  /\ tick' \in Ticks /\ tick'.pc = tick.pc /\ tick'.todo = tick.todo /\ tick'.pid = tick.pid /\ ~tick'.calm
         /\ tick.pc = "remove" => tick.pid \in Pids
  <1>1. tick \in Ticks
    BY Zenon DEF SessionsInv, TypeOK
  <1>2. \A b \in BOOLEAN : /\ [tick EXCEPT !.calm = b] \in Ticks /\ [tick EXCEPT !.calm = b].pc = tick.pc
                           /\ [tick EXCEPT !.calm = b].todo = tick.todo /\ [tick EXCEPT !.calm = b].pid = tick.pid
                           /\ [tick EXCEPT !.calm = b].calm = b
    BY <1>1, Zenon DEF Ticks
  <1>3. QED
    BY <1>2, Zenon DEF Disturb, SessionsInv, Held, TypeOK, Ticks

\* A free slot.
LEMMA IdleType == Idle \in InProgress /\ Idle.pc = "idle" /\ Idle.own = FALSE /\ \A n \in Names : Idle.old[n] = 0
  BY Objects DEF Idle, InProgress

\* What a request may ask to pin or to run on, and a request in progress whatever names are.
PinNames == Names \cup {""}
InProgressFor(T) ==
  [op : Requests \cup {"none"}, pid : Pids \cup {None}, cwd : Dirs \cup {None}, name : T, own : BOOLEAN,
   pc : {"idle", "check", "pin", "update", "get", "read", "select", "byCwd", "state", "started", "done"},
   sel : Refs \cup {NoConn}, held : Sessions \cup {None}, old : [Names -> 0 .. MaxObjects]]

\* The type of requests, with the names a request may ask for (RunCommand, PinConnection) folded.
LEMMA InProgressNames == InProgress = InProgressFor(PinNames)
  BY Zenon DEF InProgress, InProgressFor, PinNames

\* What a request starts with.
Started(i, op, p, d, n, own, o, x) == [i EXCEPT !.op = op, !.pid = p, !.cwd = d, !.name = n, !.own = own, !.old = o, !.pc = x]

\* A request that starts is a request in progress with what was asked for
\* (SessionPinConnection and the other handlers that call the SessionManager).
LEMMA NewCall ==
  ASSUME NEW T, NEW i \in InProgressFor(T), NEW op \in Requests, NEW p \in Pids, NEW d \in Dirs \cup {None}, NEW n \in T, NEW own \in BOOLEAN,
         NEW x \in {"check", "get", "update"}, NEW o \in [Names -> 0 .. MaxObjects], NEW v,
         v = Started(i, op, p, d, n, own, o, x)
  PROVE  v \in InProgressFor(T) /\ v.pc = x /\ v.pid = p /\ v.own = own /\ v.op = op /\ v.old = o
  BY ZenonT(40) DEF InProgressFor, Started

\* A request begins in a free slot.
LEMMA Begins ==
  ASSUME SessionsInv, NEW c \in Calls, NEW op \in Requests, NEW p \in Pids, NEW d \in Dirs \cup {None}, NEW n \in PinNames,
         NEW own \in BOOLEAN, Begin(c, op, p, d, n, own), (own = TRUE) => op = "report" /\ shells[p].alive /\ ~Reporting(p)
  PROVE  \E v : CallMove(c, v) /\ calls' = [calls EXCEPT ![c] = v]
  <1>1. calls[c] = Idle
    BY Zenon DEF Begin
  <1>2. Idle.pc = "idle" /\ ~Idle.own
    BY Zenon DEF Idle
  <1>3. ~calls[c].own /\ lock # c
    BY <1>1, <1>2, Zenon DEF SessionsInv, Held
  <1>4. PICK x \in {"check", "get", "update"} : x = (CASE op = "pin" -> "check" [] op = "look" -> "get" [] OTHER -> "update")
    BY Zenon
  <1>5. PICK o : o = ClosedOnes
    BY Zenon
  <1>6. o \in [Names -> 0 .. MaxObjects] /\ \A m \in Names : o[m] \in Nat
    BY <1>5, ClosedCount, Zenon
  <1>7. PICK v : v = Started(Idle, op, p, d, n, own, o, x)
    BY Zenon
  <1>8. calls' = [calls EXCEPT ![c] = v]
    BY <1>4, <1>5, <1>7, Zenon DEF Begin, Started
  <1>9. v \in InProgress /\ v.pc = x /\ v.pid = p /\ v.own = own /\ v.op = op /\ v.old = o
    <2>1. Idle \in InProgressFor(PinNames)
      BY IdleType, InProgressNames, Zenon
    <2>2. v \in InProgressFor(PinNames) /\ v.pc = x /\ v.pid = p /\ v.own = own /\ v.op = op /\ v.old = o
      BY <1>6, <1>7, <2>1, NewCall, SMTT(30)
    <2>3. QED
      BY <2>2, InProgressNames, Zenon
  <1>10. \A m \in Names : o[m] <= o[m]
    BY <1>6
  <1>11. (own = TRUE) => x = "update"
    BY <1>4, Zenon
  <1>12. CallMove(c, v)
    <2>1. \A m \in Names : v.old[m] <= ClosedOnes[m]
      BY <1>5, <1>9, <1>10, Zenon
    <2>2. v.own => v.op = "report" /\ v.pc = "update" /\ shells[v.pid].alive /\ ~Reporting(v.pid)
      <3>1. v.own => v.op = "report" /\ v.pc = "update" /\ shells[p].alive /\ ~Reporting(p)
        BY <1>9, <1>11, Zenon
      <3>2. QED
        BY <1>9, <3>1, Zenon
    <2>3. v.pc \in {"check", "get", "update"} /\ v.pid \in Pids
      BY <1>4, <1>9, Zenon
    <2>4. QED
      BY <1>3, <1>9, <2>1, <2>2, <2>3, Zenon DEF CallMove
  <1>13. QED
    BY <1>8, <1>12, Zenon

\* The prompt reports the directory.
LEMMA PromptInv ==
  ASSUME SessionsInv, NEW p \in Pids, NEW c \in Calls, Prompt(p, c)
  PROVE  SessionsInv'
  <1>1. PICK d : d = shells[p].cwd
    BY Zenon
  <1>2. d \in Dirs \cup {None} /\ budget \in Budgets
    BY <1>1, Zenon DEF SessionsInv, TypeOK, Shells
  <1>3. Begin(c, "report", p, d, "", TRUE) /\ shells[p].alive /\ ~Reporting(p) /\ UNCHANGED <<conns, shells, disk, sess, lock, tick, rec, budget>>
    BY <1>1, Zenon DEF Prompt
  <1>4. "report" \in Requests
    BY Zenon DEF Requests
  <1>5. "" \in PinNames
    BY Zenon DEF PinNames
  <1>6. QED
    BY <1>2, <1>3, <1>4, <1>5, Begins, CallMoves, Zenon

\* A request of some process with the shell's GRAFT_SESSION.
LEMMA RequestInv ==
  ASSUME SessionsInv, NEW c \in Calls, NEW op \in budget.ops, NEW p \in Pids, NEW d \in budget.dirs, NEW n \in Names \cup {""},
         Request(c, op, p, d, n)
  PROVE  SessionsInv'
  <1>1. budget \in Budgets /\ op \in Requests /\ d \in Dirs
    BY Zenon DEF SessionsInv, TypeOK, Budgets
  <1>2. budget' \in Budgets
    BY <1>1, Spent, Zenon DEF Request
  <1>3. Begin(c, op, p, d, n, FALSE) /\ UNCHANGED <<conns, shells, disk, sess, lock, tick, rec>>
    BY Zenon DEF Request
  <1>4. n \in PinNames
    BY Zenon DEF PinNames
  <1>5. QED
    BY <1>1, <1>2, <1>3, <1>4, Begins, CallMoves, ZenonT(40)

\* A shell goes elsewhere; it has not reported yet.
LEMMA CdInv ==
  ASSUME SessionsInv, NEW p \in Pids, NEW d \in budget.dirs, Cd(p, d)
  PROVE  SessionsInv'
  <1>1. budget \in Budgets /\ d \in Dirs /\ shells \in [Pids -> Shells]
    BY Zenon DEF SessionsInv, TypeOK, Budgets
  <1>2. budget' \in Budgets /\ UNCHANGED <<conns, disk, sess, lock, tick, rec, calls>> /\ shells' = [shells EXCEPT ![p].cwd = d]
    BY <1>1, Spent, Zenon DEF Cd
  <1>3. /\ shells' \in [Pids -> Shells]
        /\ \A q \in Pids : /\ shells'[q].alive = shells[q].alive /\ shells'[q].last = shells[q].last
                           /\ shells'[q].unsure = shells[q].unsure
    BY <1>1, <1>2, Zenon DEF Shells
  <1>4. TypeOK'
    BY <1>2, <1>3, Zenon DEF SessionsInv, TypeOK
  <1>5. Held'
    BY <1>2, Zenon DEF SessionsInv, Held
  <1>6. \A e \in Calls : Past(e)' <=> Past(e)
    BY <1>2, Zenon DEF Past
  <1>7. Reports'
    <2>1. ASSUME NEW e \in Calls, calls'[e].own PROVE Reported(e)'
      <3>1. calls[e].own /\ Reported(e) /\ calls[e].pid \in Pids
        BY <1>2, <2>1, Zenon DEF SessionsInv, Reports, Held, Reported
      <3>2. QED
        BY <1>2, <1>3, <1>6, <3>1 DEF Reported
    <2>2. tick.pc = "remove" => tick.pid \in Pids
      BY Zenon DEF SessionsInv, Held, TypeOK, Ticks
    <2>3. QED
      BY <1>2, <1>3, <1>6, <2>1, <2>2, Zenon DEF SessionsInv, Reports
  <1>8. Known'
    BY <1>2, <1>3, <1>6, Zenon DEF SessionsInv, Known
  <1>9. Closed'
    BY <1>2, ClosedKept, Zenon
  <1>10. Sweeping'
    BY <1>2, <1>3, SweepKept, Zenon
  <1>11. QED
    BY <1>4, <1>5, <1>7, <1>8, <1>9, <1>10, Zenon DEF SessionsInv

\* A shell starts, perhaps with the pid of one that is gone, and activation makes its directory.
LEMMA ShellStartInv ==
  ASSUME SessionsInv, NEW p \in Pids, NEW d \in budget.dirs, ShellStart(p, d)
  PROVE  SessionsInv'
  <1>1. budget \in Budgets /\ d \in Dirs /\ shells \in [Pids -> Shells] /\ disk \in [Pids -> Directories]
    BY Zenon DEF SessionsInv, TypeOK, Budgets
  <1>2. budget' \in Budgets /\ ~shells[p].alive /\ UNCHANGED <<conns, sess, lock, rec, calls>> /\ Disturb
    BY <1>1, Spent, Zenon DEF ShellStart
  <1>3. /\ shells' \in [Pids -> Shells] /\ shells'[p].alive /\ shells'[p].last = None
        /\ \A q \in Pids \ {p} : shells'[q] = shells[q]
    <2>1. PICK s : s = [alive |-> TRUE, cwd |-> d, last |-> None, unsure |-> FALSE]
      BY Zenon
    <2>2. s \in Shells /\ s.alive /\ s.last = None
      BY <1>1, <2>1, Zenon DEF Shells
    <2>3. shells' = [shells EXCEPT ![p] = s]
      BY <2>1, Zenon DEF ShellStart
    <2>4. QED
      BY <1>1, <2>2, <2>3, Zenon
  <1>4. /\ disk' \in [Pids -> Directories]
        /\ \A q \in Pids : disk'[q].cwd = disk[q].cwd /\ (disk[q].made => disk'[q].made)
    <2>1. \A b \in BOOLEAN : /\ [disk[p] EXCEPT !.made = b] \in Directories /\ [disk[p] EXCEPT !.made = b].cwd = disk[p].cwd
                             /\ [disk[p] EXCEPT !.made = b].made = b
      BY <1>1, Zenon DEF Directories
    <2>2. PICK x : x = [disk[p] EXCEPT !.made = TRUE]
      BY Zenon
    <2>3. x \in Directories /\ x.cwd = disk[p].cwd /\ x.made = TRUE
      BY <2>1, <2>2, ZenonT(40)
    <2>4. disk' = [disk EXCEPT ![p] = x]
      BY <1>1, <2>2, Zenon DEF ShellStart
    <2>5. QED
      BY <1>1, <2>3, <2>4, Zenon
  <1>5. /\ tick' \in Ticks /\ tick'.pc = tick.pc /\ tick'.todo = tick.todo /\ tick'.pid = tick.pid /\ ~tick'.calm
        /\ tick.pc = "remove" => tick.pid \in Pids
    BY <1>2, Disturbed, Zenon
  <1>6. TypeOK'
    BY <1>2, <1>3, <1>4, <1>5, ZenonT(40) DEF SessionsInv, TypeOK
  <1>7. Held'
    BY <1>2, <1>5, ZenonT(40) DEF SessionsInv, Held
  <1>8. \A e \in Calls : Past(e)' <=> Past(e)
    BY <1>2, Zenon DEF Past
  <1>9. Reports'
    <2>1. ASSUME NEW e \in Calls, calls'[e].own PROVE Reported(e)'
      <3>1. calls[e].own /\ Reported(e) /\ calls[e].pid \in Pids \ {p}
        BY <1>2, <2>1, ZenonT(40) DEF SessionsInv, Reports, Held, Reported
      <3>2. QED
        BY <1>2, <1>3, <1>4, <1>8, <3>1, ZenonT(40) DEF Reported
    <2>2. tick'.pc = "remove" =>
            /\ shells'[tick'.pid].alive => shells'[tick'.pid].last = None
            /\ \A e \in Calls : calls'[e].pid = tick'.pid => ~Past(e)'
      BY <1>2, <1>3, <1>5, <1>8, ZenonT(40) DEF SessionsInv, Reports
    <2>3. QED
      BY <2>1, <2>2, ZenonT(40) DEF Reports
  <1>10. Known'
    BY <1>2, <1>3, <1>4, <1>8, ZenonT(40) DEF SessionsInv, Known
  <1>11. Closed'
    BY <1>2, ClosedKept, Zenon
  <1>12. Sweeping'
    BY <1>5, SweepOver, Zenon
  <1>13. QED
    BY <1>6, <1>7, <1>9, <1>10, <1>11, <1>12, Zenon DEF SessionsInv

\* A shell exits; what it reports nobody waits for.
LEMMA ShellExitInv ==
  ASSUME SessionsInv, NEW p \in Pids, ShellExit(p)
  PROVE  SessionsInv'
  <1>1. shells \in [Pids -> Shells] /\ calls \in [Calls -> InProgress]
    BY Zenon DEF SessionsInv, TypeOK
  <1>2. budget' \in Budgets /\ UNCHANGED <<conns, disk, sess, lock, rec>> /\ Disturb
    BY Spent, Zenon DEF ShellExit, SessionsInv, TypeOK
  <1>3. /\ shells' \in [Pids -> Shells] /\ ~shells'[p].alive
        /\ \A q \in Pids \ {p} : shells'[q] = shells[q]
    <2>1. \A b \in BOOLEAN : [shells[p] EXCEPT !.alive = b] \in Shells /\ [shells[p] EXCEPT !.alive = b].alive = b
      BY <1>1, Zenon DEF Shells
    <2>2. PICK s : s = [shells[p] EXCEPT !.alive = FALSE]
      BY Zenon
    <2>3. s \in Shells /\ ~s.alive
      BY <2>1, <2>2, Zenon
    <2>4. shells' = [shells EXCEPT ![p] = s]
      BY <1>1, <2>2, Zenon DEF ShellExit
    <2>5. QED
      BY <1>1, <2>3, <2>4, Zenon
  <1>4. \A e \in Calls : calls'[e] = IF calls[e].pid = p THEN [calls[e] EXCEPT !.own = FALSE] ELSE calls[e]
    BY Zenon DEF ShellExit
  <1>5. ASSUME NEW e \in Calls
        PROVE  /\ calls'[e] \in InProgress
               /\ calls'[e].pid = calls[e].pid /\ calls'[e].cwd = calls[e].cwd
               /\ calls'[e].op = calls[e].op /\ calls'[e].old = calls[e].old /\ calls'[e].sel = calls[e].sel
               /\ calls'[e].pc = calls[e].pc /\ calls'[e].held = calls[e].held
               /\ calls[e].pid # p => calls'[e] = calls[e]
               /\ calls[e].pid = p => ~calls'[e].own
    <2>1. CASE calls[e].pid = p
      <3>1. calls[e] \in InProgress
        BY <1>1, Zenon
      <3>2. \A b \in BOOLEAN : LET v == [calls[e] EXCEPT !.own = b]
                               IN  /\ v \in InProgress /\ v.pc = calls[e].pc /\ v.own = b /\ v.pid = calls[e].pid /\ v.cwd = calls[e].cwd
                                   /\ v.op = calls[e].op /\ v.old = calls[e].old /\ v.sel = calls[e].sel /\ v.held = calls[e].held
        BY <3>1, Zenon DEF InProgress
      <3>3. calls'[e] = [calls[e] EXCEPT !.own = FALSE]
        BY <1>4, <2>1, Zenon
      <3>4. QED
        BY <2>1, <3>2, <3>3, Zenon
    <2>2. CASE calls[e].pid # p
      BY <1>1, <1>4, <2>2, ZenonT(40)
    <2>3. QED
      BY <2>1, <2>2, Zenon
  <1>6. calls' \in [Calls -> InProgress]
    <2>1. calls' = [e \in Calls |-> calls'[e]]
      BY Zenon DEF ShellExit
    <2>2. QED
      BY <1>5, <2>1, Zenon
  <1>7. /\ tick' \in Ticks /\ tick'.pc = tick.pc /\ tick'.todo = tick.todo /\ tick'.pid = tick.pid /\ ~tick'.calm
        /\ tick.pc = "remove" => tick.pid \in Pids
    BY <1>2, Disturbed, Zenon
  <1>8. TypeOK'
    BY <1>2, <1>3, <1>6, <1>7, Zenon DEF SessionsInv, TypeOK
  <1>9. Held'
    <2>1. lock \in Calls => rec.pc # "idle" /\ calls'[lock].pid = rec.pid /\ calls'[lock].pc \in {"pin", "update"}
      BY <1>5, ZenonT(40) DEF SessionsInv, Held
    <2>2. \A e \in Calls :
            /\ calls'[e].pc # "idle" => calls'[e].pid \in Pids
            /\ calls'[e].pc \in {"state", "started"} => calls'[e].sel \in Refs
            /\ calls'[e].pc \in {"read", "select"} => calls'[e].held # None \/ sess[calls'[e].pid] # None
      BY <1>5 DEF SessionsInv, Held
    <2>3. QED
      BY <1>2, <1>7, <2>1, <2>2, ZenonT(40) DEF SessionsInv, Held
  <1>10. \A e \in Calls : (Past(e)' => Past(e)) /\ (calls[e].pid # p => (Past(e)' <=> Past(e)))
    BY <1>2, <1>5, ZenonT(40) DEF Past
  <1>11. Reports'
    <2>1. ASSUME NEW e \in Calls, calls'[e].own PROVE Reported(e)'
      <3>1. calls'[e] = calls[e] /\ calls[e].own /\ Reported(e) /\ calls[e].pid \in Pids \ {p}
        BY <1>5, <2>1, ZenonT(40) DEF SessionsInv, Reports, Held, Reported
      <3>2. \A g \in Calls : calls'[g].own /\ calls'[g].pid = calls'[e].pid => g = e
        BY <1>5, <3>1, ZenonT(40) DEF Reported
      <3>3. QED
        BY <1>2, <1>3, <1>10, <3>1, <3>2, ZenonT(40) DEF Reported
    <2>2. tick'.pc = "remove" =>
            /\ shells'[tick'.pid].alive => shells'[tick'.pid].last = None
            /\ \A e \in Calls : calls'[e].pid = tick'.pid => ~Past(e)'
      BY <1>2, <1>3, <1>5, <1>7, <1>10, SMTT(30) DEF SessionsInv, Reports
    <2>3. QED
      BY <2>1, <2>2, ZenonT(40) DEF Reports
  <1>12. Known'
    <2>1. ASSUME NEW q \in Pids
          PROVE  /\ sess[q] # None => sess[q].cwd = disk[q].cwd
                 /\ shells'[q].alive /\ shells'[q].last # None => disk[q].made
                 /\ shells'[q].alive /\ shells'[q].last # None /\ ~shells'[q].unsure /\ (\A e \in Calls : calls'[e].pid = q => ~Past(e)') =>
                      disk[q].cwd = shells'[q].last
      <3>1. CASE q = p
        BY <1>3, <3>1 DEF SessionsInv, Known
      <3>2. CASE q # p
        <4>1. (\A e \in Calls : calls'[e].pid = q => ~Past(e)') => \A e \in Calls : calls[e].pid = q => ~Past(e)
          BY <1>5, <1>10, <3>2, ZenonT(40)
        <4>2. QED
          BY <1>3, <3>2, <4>1, ZenonT(40) DEF SessionsInv, Known
      <3>3. QED
        BY <3>1, <3>2, Zenon
    <2>2. QED
      BY <1>2, <2>1 DEF Known
  <1>13. Closed'
    BY <1>2, <1>5, ClosedKept, ZenonT(40)
  <1>14. Sweeping'
    BY <1>7, SweepOver, Zenon
  <1>15. QED
    BY <1>8, <1>9, <1>11, <1>12, <1>13, <1>14, Zenon DEF SessionsInv

-----------------------------------------------------------------------------
(* Connections.                                                              *)

\* How many connections of a name are closed when it has the connection r.
ClosedOf(r) == IF r.state \in {"up", "down"} THEN r.obj - 1 ELSE r.obj

\* A connection that is and stays in the table or not, and never reopens, leaves the invariant.
LEMMA Changes ==
  ASSUME SessionsInv, NEW n \in Names, NEW r \in Conns, Change(n, r), budget' \in Budgets,
         r.state # "none" => r.obj > 0, ClosedOf(conns[n]) <= ClosedOf(r)
  PROVE  SessionsInv'
  <1>1. conns \in [Names -> Conns] /\ conns' = [conns EXCEPT ![n] = r] /\ UNCHANGED <<shells, disk, sess, lock, rec, calls>> /\ Disturb
    BY Zenon DEF Change, SessionsInv, TypeOK
  <1>2. conns' \in [Names -> Conns] /\ conns'[n] = r /\ \A m \in Names \ {n} : conns'[m] = conns[m]
    BY <1>1, Zenon
  <1>3. /\ tick' \in Ticks /\ tick'.pc = tick.pc /\ tick'.todo = tick.todo /\ tick'.pid = tick.pid /\ ~tick'.calm
        /\ tick.pc = "remove" => tick.pid \in Pids
    BY <1>1, Disturbed, Zenon
  <1>4. TypeOK'
    BY <1>1, <1>2, <1>3, Zenon DEF SessionsInv, TypeOK
  <1>5. Held'
    <2>1. \A m \in Names : conns'[m].state # "none" => conns'[m].obj > 0
      BY <1>2, ZenonT(40) DEF SessionsInv, Held
    <2>2. QED
      BY <1>1, <1>3, <2>1, ZenonT(40) DEF SessionsInv, Held
  <1>6. Reports' /\ Known'
    <2>1. \A e \in Calls : SameCall(e) /\ (Past(e)' <=> Past(e)) /\ (calls[e].own => calls'[e].pc \in {"update", "done"})
      BY <1>1, ZenonT(40) DEF SameCall, Past, SessionsInv, Reports, Reported
    <2>2. \A q \in Pids : /\ disk'[q].cwd = disk[q].cwd /\ (disk[q].made => disk'[q].made)
                          /\ sess'[q] # None => sess'[q].cwd = disk[q].cwd
      BY <1>1, Zenon DEF SessionsInv, Known
    <2>3. tick'.pc = "remove" => /\ shells[tick'.pid].alive => shells[tick'.pid].last = None
                                 /\ \A c \in Calls : calls[c].pid = tick'.pid => ~Past(c)
      BY <1>3, Zenon DEF SessionsInv, Reports
    <2>4. QED
      BY <1>1, <2>1, <2>2, <2>3, PlaceKept, ZenonT(40)
  <1>7. Closed'
    <2>1. ASSUME NEW m \in Names PROVE ClosedOnes[m] <= ClosedOnes'[m] /\ ClosedOnes[m] \in Nat /\ ClosedOnes'[m] \in Int
      <3>1. ClosedOnes[m] = ClosedOf(conns[m]) /\ ClosedOnes'[m] = ClosedOf(conns'[m])
        BY Zenon DEF ClosedOnes, ClosedOf
      <3>2. ClosedOnes[m] \in Nat
        BY ClosedCount, Zenon
      <3>3. conns'[m].obj \in Nat
        BY <1>2, Objects DEF Conns
      <3>4. ClosedOf(conns'[m]) \in Int
        BY <3>3 DEF ClosedOf
      <3>5. ClosedOf(conns[m]) <= ClosedOf(conns'[m])
        BY <1>2, <3>1, <3>2
      <3>6. QED
        BY <3>1, <3>2, <3>4, <3>5, Zenon
    <2>2. \A e \in Calls, m \in Names : calls'[e].old[m] <= ClosedOnes'[m]
      <3>1. ASSUME NEW e \in Calls, NEW m \in Names PROVE calls'[e].old[m] <= ClosedOnes'[m]
        <4>1. calls[e].old[m] <= ClosedOnes[m] /\ calls[e].old[m] \in Int
          <5>1. calls[e].old[m] <= ClosedOnes[m] /\ calls[e] \in InProgress
            BY Zenon DEF SessionsInv, Closed, TypeOK
          <5>2. calls[e].old \in [Names -> 0 .. MaxObjects]
            BY <5>1, ZenonT(40) DEF InProgress
          <5>3. QED
            BY <5>1, <5>2, Objects
        <4>2. QED
          BY <1>1, <2>1, <4>1
      <3>2. QED
        BY <3>1, Zenon
    <2>3. RunsLive'
      BY <1>1, Zenon DEF SessionsInv, Closed, RunsLive
    <2>4. QED
      BY <2>2, <2>3, Zenon DEF Closed
  <1>8. Sweeping'
    BY <1>3, SweepOver, Zenon
  <1>9. QED
    BY <1>4, <1>5, <1>6, <1>7, <1>8 DEF SessionsInv

\* A connection connects, is lost, finds commands, forwards them, is closed, deleted and made again.
LEMMA ConnectionInv ==
  ASSUME SessionsInv, NEW n \in Names,
         \/ Up(n) \/ Down(n) \/ Available(n) \/ Remove(n) \/ Add(n) \/ Unforward(n) \/ (\E i \in Intents : Forward(n, i))
         \/ Delete(n) \/ ReconcileForwards(n)
  PROVE  SessionsInv'
  <1>1. PICK q : q = conns[n]
    BY Zenon
  <1>2. /\ q \in Conns /\ (q.state # "none" => q.obj > 0) /\ budget \in Budgets
        /\ q.fwds \in SUBSET Intents /\ q.conf \in SUBSET Intents /\ q.obj \in 0 .. MaxObjects /\ q.avail \in BOOLEAN
        /\ q.state \in {"none", "up", "down", "closed"} /\ q.obj \in Nat
    BY <1>1, Objects, SMTT(30) DEF SessionsInv, TypeOK, Held, Conns
  <1>3. Spend("changes") => budget' \in Budgets
    BY <1>2, Spent, Zenon
  <1>4. CASE Up(n)
    <2>1. PICK r : r = [q EXCEPT !.state = "up"]
      BY ZenonT(40)
    <2>2. r \in Conns /\ r.obj = q.obj /\ r.state = "up" /\ q.state = "down" /\ Change(n, r) /\ budget' \in Budgets
      BY <1>1, <1>2, <1>3, <1>4, <2>1, Zenon DEF Conns, Up
    <2>3. ClosedOf(q) <= ClosedOf(r)
      BY <1>2, <2>2, SMTT(30) DEF ClosedOf
    <2>4. QED
      BY <1>1, <1>2, <2>2, <2>3, Changes, Zenon
  <1>5. CASE Down(n)
    <2>1. PICK r : r = [q EXCEPT !.state = "down"]
      BY ZenonT(40)
    <2>2. r \in Conns /\ r.obj = q.obj /\ r.state = "down" /\ q.state = "up" /\ Change(n, r) /\ budget' \in Budgets
      BY <1>1, <1>2, <1>3, <1>5, <2>1, Zenon DEF Conns, Down
    <2>3. ClosedOf(q) <= ClosedOf(r)
      BY <1>2, <2>2, SMTT(30) DEF ClosedOf
    <2>4. QED
      BY <1>1, <1>2, <2>2, <2>3, Changes, Zenon
  <1>6. CASE Available(n)
    <2>1. PICK a \in BOOLEAN : a = ~q.avail
      BY Zenon
    <2>2. PICK r : r = [q EXCEPT !.avail = a]
      BY Zenon
    <2>3. r \in Conns /\ r.obj = q.obj /\ r.state = q.state
      BY <1>2, <2>1, <2>2, ZenonT(40) DEF Conns
    <2>4. r = [q EXCEPT !.avail = ~@]
      BY <1>2, <2>1, <2>2, Zenon
    <2>5. Change(n, r) /\ budget' \in Budgets
      BY <1>1, <1>3, <1>6, <2>4, Zenon DEF Available
    <2>6. ClosedOf(q) <= ClosedOf(r)
      BY <1>2, <2>3 DEF ClosedOf
    <2>7. QED
      BY <1>1, <1>2, <2>3, <2>5, <2>6, Changes, Zenon
  <1>7. CASE Remove(n)
    <2>1. PICK r : r = [q EXCEPT !.state = "closed"]
      BY ZenonT(40)
    <2>2. r \in Conns /\ r.obj = q.obj /\ r.state = "closed" /\ q.state \in {"up", "down"} /\ Change(n, r) /\ budget' \in Budgets
      BY <1>1, <1>2, <1>3, <1>7, <2>1, Zenon DEF Conns, Remove
    <2>3. ClosedOf(q) <= ClosedOf(r)
      BY <1>2, <2>2, SMTT(30) DEF ClosedOf
    <2>4. QED
      BY <1>1, <1>2, <2>2, <2>3, Changes, Zenon
  <1>8. CASE Delete(n)
    <2>1. PICK r : r = [q EXCEPT !.state = "none"]
      BY Zenon
    <2>2. r \in Conns /\ r.obj = q.obj /\ r.state = "none" /\ q.state = "closed" /\ Change(n, r) /\ budget' \in Budgets
      BY <1>1, <1>2, <1>8, <2>1, Zenon DEF Conns, Delete
    <2>3. ClosedOf(q) <= ClosedOf(r)
      BY <1>2, <2>2, SMTT(30) DEF ClosedOf
    <2>4. QED
      BY <1>1, <1>2, <2>2, <2>3, Changes, Zenon
  <1>9. CASE Add(n)
    <2>1. PICK r : r = [q EXCEPT !.state = "down", !.obj = @ + 1, !.fwds = {}, !.conf = {}]
      BY Zenon
    <2>2. q.obj < MaxObjects /\ q.state = "none" /\ Change(n, r) /\ budget' \in Budgets
      BY <1>1, <1>3, <1>9, <2>1, Zenon DEF Add
    <2>3. q.obj + 1 \in 0 .. MaxObjects
      BY <1>2, <2>2, Objects, SMTT(30)
    <2>4. r \in Conns /\ r.obj = q.obj + 1 /\ r.state = "down"
      BY <1>2, <2>1, <2>3, Zenon DEF Conns
    <2>5. ClosedOf(q) <= ClosedOf(r)
      BY <1>2, <2>2, <2>4, SMTT(30) DEF ClosedOf
    <2>6. r.obj > 0
      BY <1>2, <2>4, SMTT(30)
    <2>7. QED
      BY <1>1, <2>2, <2>4, <2>5, <2>6, Changes, Zenon
  <1>10. CASE Unforward(n)
    <2>1. PICK r : r = [q EXCEPT !.fwds = {}, !.conf = {}]
      BY Zenon
    <2>2. r \in Conns /\ r.obj = q.obj /\ r.state = q.state /\ Change(n, r) /\ budget' \in Budgets
      BY <1>1, <1>2, <1>3, <1>10, <2>1, Zenon DEF Conns, Unforward
    <2>3. ClosedOf(q) <= ClosedOf(r)
      BY <1>2, <2>2, SMTT(30) DEF ClosedOf
    <2>4. QED
      BY <1>1, <1>2, <2>2, <2>3, Changes, Zenon
  <1>11. ASSUME NEW i \in Intents, Forward(n, i) PROVE SessionsInv'
    <2>1. PICK r : r = [q EXCEPT !.fwds = @ \cup {i}, !.conf = @ \cup {i}]
      BY Zenon
    <2>2. r \in Conns /\ r.obj = q.obj /\ r.state = q.state
      BY <1>2, <2>1, ZenonT(40) DEF Conns
    <2>3. Change(n, r) /\ budget' \in Budgets
      BY <1>1, <1>3, <1>11, <2>1, Zenon DEF Forward
    <2>4. ClosedOf(q) <= ClosedOf(r)
      BY <1>2, <2>2 DEF ClosedOf
    <2>5. QED
      BY <1>1, <1>2, <2>2, <2>3, <2>4, Changes, Zenon
  <1>12. CASE ReconcileForwards(n)
    <2>1. PICK r : r = [q EXCEPT !.fwds = @ \cup q.conf]
      OBVIOUS
    <2>2. r \in Conns /\ r.obj = q.obj /\ r.state = q.state
      BY <1>2, <2>1, Zenon DEF Conns
    <2>3. Change(n, r) /\ budget' \in Budgets
      BY <1>1, <1>2, <1>12, <2>1, Zenon DEF ReconcileForwards
    <2>4. ClosedOf(q) <= ClosedOf(r)
      BY <1>2, <2>2 DEF ClosedOf
    <2>5. QED
      BY <1>1, <1>2, <2>2, <2>3, <2>4, Changes
  <1>13. QED
    BY <1>4, <1>5, <1>6, <1>7, <1>8, <1>9, <1>10, <1>11, <1>12, Zenon

\* The daemon is killed and started again: sessions and requests are gone, what is on disk stays.
LEMMA RestartInv ==
  ASSUME SessionsInv, Restart
  PROVE  SessionsInv'
  <1>1. /\ conns \in [Names -> Conns] /\ shells \in [Pids -> Shells] /\ disk \in [Pids -> Directories]
        /\ \A n \in Names : conns[n].state # "none" => conns[n].obj > 0
    BY Zenon DEF SessionsInv, TypeOK, Held
  <1>2. /\ budget' \in Budgets /\ disk' = disk /\ sess' = [p \in Pids |-> None] /\ calls' = [c \in Calls |-> Idle]
        /\ lock' = None /\ tick' = NoTick /\ rec' = NoRec
    BY Spent DEF Restart, SessionsInv, TypeOK
  <1>3. conns' \in [Names -> Conns] /\ \A n \in Names : conns'[n].state # "none" => conns'[n].obj > 0
    <2>1. ASSUME NEW n \in Names PROVE conns'[n] \in Conns /\ (conns'[n].state # "none" => conns'[n].obj > 0)
      <3>1. PICK r : r = [conns[n] EXCEPT !.state = "down", !.fwds = {}]
        BY Zenon
      <3>2. r \in Conns /\ r.obj = conns[n].obj
        BY <1>1, <3>1 DEF Conns
      <3>3. conns'[n] = IF InTable(n) THEN r ELSE conns[n]
        BY <3>1 DEF Restart
      <3>4. QED
        BY <1>1, <3>2, <3>3, Zenon DEF InTable
    <2>2. conns' = [n \in Names |-> conns'[n]]
      BY DEF Restart
    <2>3. QED
      BY <2>1, <2>2, Zenon
  <1>4. /\ shells' \in [Pids -> Shells]
        /\ \A p \in Pids : /\ shells'[p].alive = shells[p].alive /\ shells'[p].last = shells[p].last
                           /\ ~shells'[p].unsure => ~shells[p].unsure /\ \A c \in Calls : calls[c].pid = p => ~Past(c)
    <2>1. ASSUME NEW p \in Pids
          PROVE  /\ shells'[p] \in Shells /\ shells'[p].alive = shells[p].alive /\ shells'[p].last = shells[p].last
                 /\ ~shells'[p].unsure => ~shells[p].unsure /\ \A c \in Calls : calls[c].pid = p => ~Past(c)
      <3>1. PICK u \in BOOLEAN : u = (shells[p].unsure \/ \E c \in Calls : calls[c].pid = p /\ Past(c))
        OBVIOUS
      <3>2. shells[p] \in Shells
        BY <1>1, Zenon
      <3>3. \A b \in BOOLEAN : /\ [shells[p] EXCEPT !.unsure = b] \in Shells /\ [shells[p] EXCEPT !.unsure = b].alive = shells[p].alive
                               /\ [shells[p] EXCEPT !.unsure = b].last = shells[p].last /\ [shells[p] EXCEPT !.unsure = b].unsure = b
        BY <3>2, Zenon DEF Shells
      <3>4. shells'[p] = [shells[p] EXCEPT !.unsure = u]
        BY <3>1 DEF Restart, Past
      <3>5. shells'[p] \in Shells /\ shells'[p].alive = shells[p].alive /\ shells'[p].last = shells[p].last /\ shells'[p].unsure = u
        BY <3>3, <3>4, Zenon
      <3>6. ~u => ~shells[p].unsure /\ \A c \in Calls : calls[c].pid = p => ~Past(c)
        BY <3>1
      <3>7. QED
        BY <3>5, <3>6, Zenon
    <2>2. shells' = [p \in Pids |-> shells'[p]]
      BY DEF Restart
    <2>3. QED
      BY <2>1, <2>2, Zenon
  <1>5. NoTick \in Ticks /\ NoTick.pc = "idle"
    BY Zenon DEF NoTick, Ticks
  <1>6. TypeOK'
    <2>1. calls' \in [Calls -> InProgress] /\ sess' \in [Pids -> Sessions \cup {None}] /\ \A p \in Pids : sess'[p] = None
      BY <1>2, IdleType, Zenon
    <2>2. QED
      BY <1>1, <1>2, <1>3, <1>4, <1>5, <2>1, RecTypes, Distinct DEF TypeOK
  <1>7. \A c \in Calls : calls'[c].pc = "idle" /\ ~calls'[c].own /\ \A n \in Names : calls'[c].old[n] = 0
    BY <1>2, IdleType, Zenon
  <1>8. Held'
    BY <1>2, <1>3, <1>5, <1>7, RecTypes, Distinct DEF Held
  <1>9. Reports'
    BY <1>2, <1>5, <1>7, Zenon DEF Reports
  <1>10. Known'
    <2>1. \A p \in Pids : sess'[p] = None
      BY <1>2, Zenon
    <2>2. QED
      BY <1>2, <1>4, <2>1, Zenon DEF Known, SessionsInv
  <1>11. Closed'
    <2>1. ASSUME NEW n \in Names PROVE 0 <= ClosedOnes'[n]
      <3>1. ClosedOnes'[n] = IF conns'[n].state \in {"up", "down"} THEN conns'[n].obj - 1 ELSE conns'[n].obj
        BY Zenon DEF ClosedOnes
      <3>2. conns'[n].obj \in Nat /\ (conns'[n].state # "none" => conns'[n].obj > 0)
        BY <1>3, Objects DEF Conns
      <3>3. QED
        BY <3>1, <3>2
    <2>2. QED
      BY <1>7, <2>1, Zenon DEF Closed, RunsLive
  <1>12. Sweeping'
    BY <1>2, <1>5, SweepOver, Zenon
  <1>13. QED
    BY <1>6, <1>8, <1>9, <1>10, <1>11, <1>12, Zenon DEF SessionsInv

\* The daemon starts with the connections of its configuration and no session.
LEMMA InitInv ==
  ASSUME Init
  PROVE  SessionsInv
  <1>1. PICK s \in Scenarios : conns = s.conns /\ budget = s.budget
    BY Zenon DEF Init
  <1>2. conns \in [Names -> Conns] /\ budget \in Budgets /\ \A n \in Names : conns[n].state # "none" => conns[n].obj > 0
    BY <1>1, ShellSessionsAssumption
  <1>3. /\ disk = [p \in Pids |-> NoDir] /\ sess = [p \in Pids |-> None] /\ calls = [c \in Calls |-> Idle]
        /\ lock = None /\ tick = NoTick /\ rec = NoRec
    BY Zenon DEF Init
  <1>4. shells \in [Pids -> Shells] /\ \A p \in Pids : ~shells[p].alive
    <2>1. \A a, b \in BOOLEAN : [alive |-> a, cwd |-> None, last |-> None, unsure |-> b] \in Shells
                                /\ [alive |-> a, cwd |-> None, last |-> None, unsure |-> b].alive = a
      BY Zenon DEF Shells
    <2>2. PICK x : x = [alive |-> FALSE, cwd |-> None, last |-> None, unsure |-> FALSE]
      OBVIOUS
    <2>3. x \in Shells /\ x.alive = FALSE
      BY <2>1, <2>2
    <2>4. shells = [p \in Pids |-> x]
      BY <2>2, Zenon DEF Init
    <2>5. QED
      BY <2>3, <2>4, Zenon
  <1>5. NoTick \in Ticks /\ NoTick.pc = "idle" /\ NoDir \in Directories
    BY Zenon DEF NoTick, Ticks, NoDir, Directories
  <1>6. TypeOK
    <2>1. calls \in [Calls -> InProgress] /\ sess \in [Pids -> Sessions \cup {None}] /\ (\A p \in Pids : sess[p] = None) /\ disk \in [Pids -> Directories]
      BY <1>3, <1>5, IdleType, Zenon
    <2>2. QED
      BY <1>2, <1>3, <1>4, <1>5, <2>1, RecTypes, Distinct DEF TypeOK
  <1>7. \A c \in Calls : calls[c].pc = "idle" /\ ~calls[c].own /\ \A n \in Names : calls[c].old[n] = 0
    BY <1>3, IdleType, Zenon
  <1>8. Held
    BY <1>2, <1>3, <1>5, <1>7, RecTypes, Distinct DEF Held
  <1>9. Reports
    BY <1>3, <1>5, <1>7, Zenon DEF Reports
  <1>10. Known
    BY <1>3, <1>4 DEF Known
  <1>11. Closed
    <2>1. ASSUME NEW n \in Names PROVE 0 <= ClosedOnes[n]
      <3>1. ClosedOnes[n] = IF conns[n].state \in {"up", "down"} THEN conns[n].obj - 1 ELSE conns[n].obj
        BY Zenon DEF ClosedOnes
      <3>2. conns[n].obj \in Nat /\ (conns[n].state # "none" => conns[n].obj > 0)
        BY <1>2, Objects DEF Conns
      <3>3. QED
        BY <3>1, <3>2
    <2>2. QED
      BY <1>7, <2>1, Zenon DEF Closed, RunsLive
  <1>12. Sweeping
    BY <1>3, <1>5, Zenon DEF Sweeping
  <1>13. QED
    BY <1>6, <1>8, <1>9, <1>10, <1>11, <1>12, Zenon DEF SessionsInv

\* The steps of requests that only read.
LEMMA ReadingInv ==
  ASSUME SessionsInv, NEW c \in Calls,
         PinCheck(c) \/ ReadCWD(c) \/ SelectNamed(c) \/ SelectPinned(c) \/ SelectByCWD(c) \/ Which(c) \/ RunCommand(c)
  PROVE  SessionsInv'
  <1>1. UNCHANGED <<conns, shells, disk, sess, lock, tick, rec, budget>>
    BY DEF PinCheck, ReadCWD, SelectNamed, SelectPinned, SelectByCWD, Which, RunCommand
  <1>2. budget' \in Budgets
    BY <1>1, Zenon DEF SessionsInv, TypeOK
  <1>3. PICK v : CallMove(c, v) /\ calls' = [calls EXCEPT ![c] = v]
    BY ReadingMoves, Zenon
  <1>4. QED
    BY <1>1, <1>2, <1>3, CallMoves

\* Every step keeps the invariant.
LEMMA StepInv ==
  ASSUME SessionsInv, [Next]_vars
  PROVE  SessionsInv'
  <1>1. CASE RecStep
    BY <1>1, RecPinInv, RecCwdInv, RecForwardingsInv, RecLookupInv, RecRemoveInv, RecApplyInv, Zenon DEF RecStep
  <1>2. CASE Tick
    BY <1>2, TickStartInv, TickRemoveInv, TickPrunedInv, TickEndInv, TickFoundInv, TickDeadInv, TickReconcileInv, Zenon DEF Tick
  <1>3. ASSUME NEW c \in Calls, CallStep(c) PROVE SessionsInv'
    BY <1>3, ReadingInv, PinInv, SameCWDInv, UpdateSessionCWDInv, SessionByPIDInv, AnswerInv, Zenon DEF CallStep
  <1>4. CASE World
    <2>1. budget.names \subseteq Names
      BY Zenon DEF SessionsInv, TypeOK, Budgets
    <2>2. ASSUME NEW n \in Names, Delete(n) \/ ReconcileForwards(n) PROVE SessionsInv'
      BY <2>2, ConnectionInv, Zenon
    <2>3. ASSUME NEW n \in budget.names,
                 Up(n) \/ Down(n) \/ Available(n) \/ Remove(n) \/ Add(n) \/ Unforward(n) \/ \E i \in Intents : Forward(n, i)
          PROVE  SessionsInv'
      BY <2>1, <2>3, ConnectionInv, Zenon
    <2>4. QED
      BY <1>4, <2>2, <2>3, PromptInv, CdInv, ShellStartInv, RequestInv, ShellExitInv, RestartInv DEF World
  <1>5. CASE UNCHANGED vars
    <2>1. UNCHANGED <<conns, shells, disk, sess, lock, tick, rec, calls, budget>>
      BY <1>5, Zenon DEF vars
    <2>2. TypeOK' /\ Held'
      BY <2>1 DEF SessionsInv, TypeOK, Held
    <2>3. Reports' /\ Known' /\ Closed'
      BY <2>1, TickPlace
    <2>4. Sweeping'
      BY <2>1, SweepKept, Zenon
    <2>5. QED
      BY <2>2, <2>3, <2>4, Zenon DEF SessionsInv
  <1>6. QED
    BY <1>1, <1>2, <1>3, <1>4, <1>5, Zenon DEF Next

-----------------------------------------------------------------------------
(* The theorems.                                                             *)

\* The SessionManager (session_manager.go), its ticks, requests and restarts keep the invariant.
THEOREM SessionsInvariant == Spec => []SessionsInv
  <1>1. Init => SessionsInv
    BY InitInv, Zenon
  <1>2. SessionsInv /\ [Next]_vars => SessionsInv'
    BY StepInv, Zenon
  <1>3. QED
    BY <1>1, <1>2, PTL DEF Spec

\* What a shell has reported (SessionReportCWD) stays its session's directory.
LEMMA ReportKept == SessionsInv => SessionsKept
  <1>1. SUFFICES ASSUME SessionsInv, NEW p \in Pids, shells[p].alive, shells[p].last # None, ~shells[p].unsure, ~Reporting(p)
                 PROVE  GetOrCreateSession(p).cwd = shells[p].last
    BY Zenon DEF SessionsKept, CwdKept, SessionsInv
  <1>2. \A c \in Calls : calls[c].pid = p => ~Past(c)
    BY <1>1, Zenon DEF Reporting, Past
  <1>3. disk[p].cwd = shells[p].last
    BY <1>1, <1>2, Zenon DEF SessionsInv, Known
  <1>4. QED
    BY <1>1, <1>3, GotSession, Zenon

\* The directory a shell reported is kept through restarts at any step, pruning
\* (tickPruneSessions) and the death of an earlier shell with the same pid.
THEOREM ShellSessionsKept == Spec => []SessionsKept
  BY SessionsInvariant, ReportKept, PTL

\* RunCommand never starts a command on a connection closed before the request began.
THEOREM CommandsRunLive == Spec => []RunsLive
  <1>1. SessionsInv => RunsLive
    BY Zenon DEF SessionsInv, Closed
  <1>2. QED
    BY <1>1, SessionsInvariant, PTL

\* A tick that nothing disturbed has settled every session.
LEMMA SweptAndServed == SessionsInv => TickSettles
  <1>1. SUFFICES ASSUME SessionsInv, tick.pc = "reconcile", tick.todo = {}, rec.pc = "idle", tick.calm, NEW p \in Pids
                 PROVE  Settled(p)
    BY DEF TickSettles
  <1>2. Swept(p) /\ (sess[p] # None => Served(p))
    BY <1>1, Zenon DEF SessionsInv, Sweeping
  <1>3. CASE ~shells[p].alive
    BY <1>2, <1>3, Zenon DEF Settled, Swept
  <1>4. CASE shells[p].alive /\ sess[p] = None
    <2>1. ~disk[p].made
      BY <1>2, <1>4, Zenon DEF Swept
    <2>2. shells[p].last = None
      BY <1>1, <1>4, <2>1, Zenon DEF SessionsInv, Known
    <2>3. QED
      BY <1>4, <2>1, <2>2 DEF Settled
  <1>5. CASE shells[p].alive /\ sess[p] # None
    BY <1>2, <1>5 DEF Settled, Served, Target
  <1>6. QED
    BY <1>3, <1>4, <1>5, Zenon

\* One tick of the SessionManager repairs everything (tickPruneSessions, tickReconcileSession).
THEOREM OneTickSettles == Spec => []TickSettles
  BY SessionsInvariant, SweptAndServed, PTL

===============================================================================
