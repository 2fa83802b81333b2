---- MODULE ShellSessions ----
(***************************************************************************)
(* The shells of a user and the daemon's SessionManager.  A shell is known *)
(* by its pid.  The daemon keeps for it a session in memory (working       *)
(* directory, pinned connection, where each shimmed command goes) and a    *)
(* directory on disk (the same working directory, the shims the shell has  *)
(* in its PATH, the connection its prompt shows).  Once a second, and when *)
(* a request changes a session, the manager brings the shims in line with  *)
(* the connection the session selects.                                     *)
(*                                                                         *)
(* sessMgrMu is held for a whole tick or update, but the connection table  *)
(* has a lock of its own: connections come, go and change between any two  *)
(* steps of the manager, and requests that run commands read the session   *)
(* without the lock.  The daemon may be killed and started again at any    *)
(* step.                                                                   *)
(*                                                                         *)
(* One command is enough to tell shims apart: a connection may forward it  *)
(* under its own name ("plain") or under the connection's ("prefixed").    *)
(***************************************************************************)
EXTENDS Integers

CONSTANTS Pids, Dirs, None,
          Names,        \* of connections
          Covers,       \* the directories under each connection's local root
          Background,   \* the connections not selected by directory
          Calls,        \* slots for requests in progress
          Scenarios,    \* initial connections and bounds
          MaxObjects    \* bound on the connections made with one name

(* A name is not empty, a slot is not the tick, and nothing is None.  A    *)
(* scenario's connections have been made, and it says how often what may   *)
(* happen.                                                                 *)
Intents == {"plain", "prefixed"}
ShimNames == Names \cup {"command", "sudo"}
Refs == [name : Names, obj : 1..MaxObjects]
Routes == UNION {[S -> Refs] : S \in SUBSET ShimNames}
Conns == [state : {"none", "up", "down", "closed"}, obj : 0..MaxObjects, fwds : SUBSET Intents, conf : SUBSET Intents, avail : BOOLEAN]
Requests == {"report", "pin", "look", "select", "exact", "shim"}
Budgets == [ops : SUBSET Requests, dirs : SUBSET Dirs, names : SUBSET Names,
            shells : Nat, exits : Nat, cds : Nat, calls : Nat, changes : Nat, restarts : Nat]

ASSUME ShellSessionsAssumption ==
  /\ None \notin Pids \cup Dirs \cup Names \cup Calls \cup {"", "tick"}
  /\ \A d \in Dirs \cup {None}, n \in Names \cup {""}, a \in Routes : [cwd |-> d, pin |-> n, actual |-> a] # None
  /\ "" \notin Names /\ "tick" \notin Calls
  /\ MaxObjects \in Nat
  /\ \A s \in Scenarios : /\ s.conns \in [Names -> Conns] /\ s.budget \in Budgets
                          /\ \A n \in Names : s.conns[n].state # "none" => s.conns[n].obj > 0

VARIABLES
  conns,   \* the connection table: the object a name has, its state, the
           \* commands it forwards and those configured for it
  shells,  \* the processes: directory, and the directory last reported
  disk,    \* the session directories
  sess,    \* SessionManager.sessions
  lock,    \* who holds sessMgrMu: a call or "tick"
  tick,    \* the progress of the tick
  rec,     \* the progress of tickReconcileSession, run by the lock's holder
  calls,   \* the requests in progress
  budget   \* what happens in this scenario, where, to whom, and how often

vars == <<conns, shells, disk, sess, lock, tick, rec, calls, budget>>

(* ForwardCommandIntent.LocalName: the connection's name stands for the    *)
(* prefixed name.                                                          *)
LocalName(i, n) == IF i = "prefixed" THEN n ELSE "command"

NoConn == [name |-> "", obj |-> 0]
Ref(n) == [name |-> n, obj |-> conns[n].obj]
NoDir == [made |-> FALSE, cwd |-> None, shims |-> {}, conn |-> None]
NoForwardings == [s \in {} |-> NoConn]
Idle == [op |-> "none", pid |-> None, cwd |-> None, name |-> "", own |-> FALSE, pc |-> "idle",
         sel |-> NoConn, held |-> None, old |-> [n \in Names |-> 0]]
NoTick == [pc |-> "idle", todo |-> {}, pid |-> None, calm |-> FALSE]
NoRec == [pc |-> "idle", pid |-> None, sel |-> NoConn, intents |-> {}, new |-> NoForwardings]

(***************************************************************************)
(* The connection table, as the manager reads it.                          *)
(***************************************************************************)
InTable(n) == conns[n].state # "none"

(* ConnectionManager.Connection. *)
Connection(n) == conns[n].state = "up"

(* connectionByCWD: the one connection, in whatever state, whose root the  *)
(* directory is under.                                                     *)
ConnectionByCWD(cwd) ==
  LET matches == {n \in Names \ Background : InTable(n) /\ cwd \in Covers[n]}
  IN  IF \E n \in Names : matches = {n} THEN Ref(CHOOSE n \in matches : TRUE) ELSE NoConn

(* ConnectionManager.forwardings for a selected connection: no intent is   *)
(* global, so only those of the very connection selected count.            *)
Forwardings(sel) ==
  IF sel # NoConn /\ InTable(sel.name) /\ Ref(sel.name) = sel THEN conns[sel.name].fwds ELSE {}

(* resolveForwardedCommandsForSession for a connection that was found. *)
ForwardedCommands(intents, n) ==
  [s \in {LocalName(i, n) : i \in {j \in intents : conns[n].avail}} |-> Ref(n)]

(***************************************************************************)
(* Sessions.                                                               *)
(***************************************************************************)
ForgetfulSession(d) == [cwd |-> None, pin |-> "", actual |-> NoForwardings]

(* getOrCreateSession, with the directory as it is on disk: the session    *)
(* the table has, or a new one with the working directory found on disk.   *)
NewSession(d) == [cwd |-> d.cwd, pin |-> "", actual |-> NoForwardings]
GetOrCreateSession(p) == IF sess[p] # None THEN sess[p] ELSE NewSession(disk[p])

SessionDirectory(p) == IF sess[p] # None THEN disk[p] ELSE [disk[p] EXCEPT !.made = TRUE]

(* The shims a reconciliation deletes: a shim that is still wanted is left *)
(* in place, and so is sudo's.                                             *)
KeepAllShims(existing, new) == {}
ShimsToDelete(existing, new) == (existing \ {"sudo"}) \ DOMAIN new

(***************************************************************************)
(* tickReconcileSession, by the holder of the lock.                        *)
(***************************************************************************)
Reconcile(p) == rec' = [NoRec EXCEPT !.pc = "pin", !.pid = p]

(* The reconciliation returns to the tick, or to the request, which gives  *)
(* up the lock.                                                            *)
Unlock(c) == lock' = None /\ calls' = [calls EXCEPT ![c].pc = IF calls[c].op \in {"report", "pin"} THEN "done" ELSE "get"]
Return ==
  /\ rec' = NoRec
  /\ IF lock = "tick" THEN UNCHANGED <<lock, calls>> ELSE Unlock(lock)

(* selectConnection: the pinned connection, when it is connected. *)
RecPin ==
  /\ rec.pc = "pin"
  /\ LET pin == sess[rec.pid].pin
     IN  rec' = IF pin # "" /\ Connection(pin)
                THEN [rec EXCEPT !.pc = "list", !.sel = Ref(pin)]
                ELSE [rec EXCEPT !.pc = "cwd"]
  /\ UNCHANGED <<conns, shells, disk, sess, lock, tick, calls, budget>>

(* selectConnection: otherwise the one of the working directory. *)
RecCwd ==
  /\ rec.pc = "cwd"
  /\ rec' = [rec EXCEPT !.pc = "list", !.sel = ConnectionByCWD(sess[rec.pid].cwd)]
  /\ UNCHANGED <<conns, shells, disk, sess, lock, tick, calls, budget>>

RecForwardings ==
  /\ rec.pc = "list"
  /\ rec' = [rec EXCEPT !.pc = IF Forwardings(rec.sel) = {} THEN "remove" ELSE "lookup",
                        !.intents = Forwardings(rec.sel)]
  /\ UNCHANGED <<conns, shells, disk, sess, lock, tick, calls, budget>>

(* The destination is looked up by its name; when it cannot be used the    *)
(* reconciliation returns and leaves everything as it was.                 *)
RecLookup ==
  /\ rec.pc = "lookup"
  /\ \/ /\ Connection(rec.sel.name)
        /\ rec' = [rec EXCEPT !.pc = "remove", !.new = ForwardedCommands(rec.intents, rec.sel.name)]
        /\ UNCHANGED <<lock, calls>>
     \/ ~Connection(rec.sel.name) /\ Return
  /\ UNCHANGED <<conns, shells, disk, sess, tick, budget>>

(* Shims no longer wanted go first. *)
RecRemove ==
  /\ rec.pc = "remove"
  /\ disk' = [disk EXCEPT ![rec.pid].shims = @ \ ShimsToDelete(@, rec.new)]
  /\ rec' = [rec EXCEPT !.pc = "apply"]
  /\ UNCHANGED <<conns, shells, sess, lock, tick, calls, budget>>

(* UpdateActualForwardCommands, shimCommand for every forwarding and for   *)
(* sudo, writeSessionConnectionFile.                                       *)
RecApply ==
  /\ rec.pc = "apply"
  /\ sess' = [sess EXCEPT ![rec.pid].actual = rec.new]
  /\ disk' = [disk EXCEPT ![rec.pid].shims = @ \cup DOMAIN rec.new \cup {"sudo"}, ![rec.pid].conn = rec.sel.name]
  /\ Return
  /\ UNCHANGED <<conns, shells, tick, budget>>

RecStep == RecPin \/ RecCwd \/ RecForwardings \/ RecLookup \/ RecRemove \/ RecApply

(***************************************************************************)
(* The tick of every second.                                               *)
(***************************************************************************)
TickStart ==
  /\ lock = None /\ tick.pc = "idle"
  /\ lock' = "tick"
  /\ tick' = [NoTick EXCEPT !.pc = "prune", !.todo = {p \in Pids : disk[p].made}, !.calm = TRUE]
  /\ UNCHANGED <<conns, shells, disk, sess, rec, calls, budget>>

(* tickPruneSessions: the process of a session directory is there, and the *)
(* session is created when the daemon does not have it.                    *)
TickFound(p) ==
  /\ tick.pc = "prune" /\ p \in tick.todo /\ shells[p].alive
  /\ sess' = [sess EXCEPT ![p] = GetOrCreateSession(p)]
  /\ disk' = [disk EXCEPT ![p] = SessionDirectory(p)]
  /\ tick' = [tick EXCEPT !.todo = @ \ {p}]
  /\ UNCHANGED <<conns, shells, lock, rec, calls, budget>>

TickDead(p) ==
  /\ tick.pc = "prune" /\ p \in tick.todo /\ ~shells[p].alive
  /\ tick' = [tick EXCEPT !.pc = "remove", !.pid = p]
  /\ UNCHANGED <<conns, shells, disk, sess, lock, rec, calls, budget>>

(* removeSession, which does not ask for the process again.  Requests that *)
(* have looked the session up keep the object.                             *)
TickRemove ==
  /\ tick.pc = "remove"
  /\ sess' = [sess EXCEPT ![tick.pid] = None]
  /\ disk' = [disk EXCEPT ![tick.pid] = NoDir]
  /\ calls' = [c \in Calls |-> IF calls[c].pid = tick.pid /\ calls[c].pc \in {"read", "select"} /\ calls[c].held = None
                               THEN [calls[c] EXCEPT !.held = sess[tick.pid]]
                               ELSE calls[c]]
  /\ tick' = [tick EXCEPT !.pc = "prune", !.todo = @ \ {tick.pid}, !.pid = None]
  /\ UNCHANGED <<conns, shells, lock, rec, budget>>

TickPruned ==
  /\ tick.pc = "prune" /\ tick.todo = {}
  /\ tick' = [tick EXCEPT !.pc = "reconcile", !.todo = {p \in Pids : sess[p] # None}]
  /\ UNCHANGED <<conns, shells, disk, sess, lock, rec, calls, budget>>

TickReconcile(p) ==
  /\ tick.pc = "reconcile" /\ rec.pc = "idle" /\ p \in tick.todo
  /\ Reconcile(p)
  /\ tick' = [tick EXCEPT !.todo = @ \ {p}]
  /\ UNCHANGED <<conns, shells, disk, sess, lock, calls, budget>>

TickEnd ==
  /\ tick.pc = "reconcile" /\ rec.pc = "idle" /\ tick.todo = {}
  /\ lock' = None /\ tick' = NoTick
  /\ UNCHANGED <<conns, shells, disk, sess, rec, calls, budget>>

Tick ==
  \/ TickStart \/ TickRemove \/ TickPruned \/ TickEnd
  \/ \E p \in Pids : TickFound(p) \/ TickDead(p) \/ TickReconcile(p)

(***************************************************************************)
(* Requests.  "report" is SessionReportCWD, "pin" SessionPinConnection,    *)
(* "look" any request that only looks the session up, "select" one that    *)
(* asks for the connection, "exact" and "shim" run a command.              *)
(***************************************************************************)
Session(c) == IF calls[c].held # None THEN calls[c].held ELSE sess[calls[c].pid]
End(c) == calls' = [calls EXCEPT ![c] = Idle]

(* PinConnection asks for the connection before it takes the lock. *)
PinCheck(c) ==
  /\ calls[c].pc = "check"
  /\ IF calls[c].name = "" \/ Connection(calls[c].name)
     THEN calls' = [calls EXCEPT ![c].pc = "pin"]
     ELSE End(c)
  /\ UNCHANGED <<conns, shells, disk, sess, lock, tick, rec, budget>>

Pin(c) ==
  /\ calls[c].pc = "pin" /\ lock = None
  /\ lock' = c
  /\ sess' = [sess EXCEPT ![calls[c].pid] = [GetOrCreateSession(calls[c].pid) EXCEPT !.pin = calls[c].name]]
  /\ disk' = [disk EXCEPT ![calls[c].pid] = SessionDirectory(calls[c].pid)]
  /\ Reconcile(calls[c].pid)
  /\ UNCHANGED <<conns, shells, tick, calls, budget>>

(* UpdateSessionCWD when the directory is the one it has. *)
SameCWD(c) ==
  LET p == calls[c].pid
  IN  /\ calls[c].pc = "update" /\ lock = None
      /\ GetOrCreateSession(p).cwd = calls[c].cwd
      /\ sess' = [sess EXCEPT ![p] = GetOrCreateSession(p)]
      /\ disk' = [disk EXCEPT ![p] = SessionDirectory(p)]
      /\ Unlock(c)
      /\ shells' = [shells EXCEPT ![p].unsure = @ /\ ~calls[c].own]
      /\ UNCHANGED <<conns, tick, rec, budget>>

(* UpdateSessionCWD when it changes: in memory, on disk, and the shims. *)
UpdateSessionCWD(c) ==
  LET p == calls[c].pid
  IN  /\ calls[c].pc = "update" /\ lock = None
      /\ GetOrCreateSession(p).cwd # calls[c].cwd
      /\ lock' = c
      /\ sess' = [sess EXCEPT ![p] = [GetOrCreateSession(p) EXCEPT !.cwd = calls[c].cwd]]
      /\ disk' = [disk EXCEPT ![p] = [SessionDirectory(p) EXCEPT !.cwd = calls[c].cwd]]
      /\ Reconcile(p)
      /\ shells' = [shells EXCEPT ![p].unsure = ~calls[c].own]
      /\ UNCHANGED <<conns, tick, calls, budget>>

(* SessionByPID. *)
SessionByPID(c) ==
  LET p == calls[c].pid
  IN  /\ calls[c].pc = "get" /\ lock = None
      /\ sess' = [sess EXCEPT ![p] = GetOrCreateSession(p)]
      /\ disk' = [disk EXCEPT ![p] = SessionDirectory(p)]
      /\ calls' = [calls EXCEPT ![c].pc = IF calls[c].op = "look" THEN "done"
                                           ELSE IF calls[c].op = "exact" THEN "read"
                                           ELSE "select"]
      /\ UNCHANGED <<conns, shells, lock, tick, rec, budget>>

Select(c, r) == calls' = [calls EXCEPT ![c].pc = IF calls[c].op = "select" THEN "done" ELSE "state", ![c].sel = r]

(* RunCommand reads the directory once, before selectConnection; the other *)
(* requests go by the directory of the request.                            *)
ReadCWD(c) ==
  /\ calls[c].pc = "read"
  /\ calls' = [calls EXCEPT ![c].pc = "select", ![c].cwd = Session(c).cwd]
  /\ UNCHANGED <<conns, shells, disk, sess, lock, tick, rec, budget>>

(* selectConnection: by name, by pin, by directory. *)
SelectNamed(c) ==
  /\ calls[c].pc = "select" /\ calls[c].op # "shim" /\ calls[c].name # ""
  /\ IF Connection(calls[c].name) THEN Select(c, Ref(calls[c].name)) ELSE End(c)
  /\ UNCHANGED <<conns, shells, disk, sess, lock, tick, rec, budget>>

SelectPinned(c) ==
  /\ calls[c].pc = "select" /\ calls[c].op # "shim" /\ calls[c].name = ""
  /\ LET pin == Session(c).pin
     IN  IF pin # "" /\ Connection(pin)
         THEN Select(c, Ref(pin))
         ELSE calls' = [calls EXCEPT ![c].pc = "byCwd"]
  /\ UNCHANGED <<conns, shells, disk, sess, lock, tick, rec, budget>>

SelectByCWD(c) ==
  /\ calls[c].pc = "byCwd"
  /\ LET r == ConnectionByCWD(calls[c].cwd)
     IN  IF r # NoConn THEN Select(c, r) ELSE End(c)
  /\ UNCHANGED <<conns, shells, disk, sess, lock, tick, rec, budget>>

(* Session.Which, for the shim that has the command's own name. *)
Which(c) ==
  /\ calls[c].pc = "select" /\ calls[c].op = "shim"
  /\ IF "command" \in DOMAIN Session(c).actual THEN Select(c, Session(c).actual["command"]) ELSE End(c)
  /\ UNCHANGED <<conns, shells, disk, sess, lock, tick, rec, budget>>

(* Connection.State of an object: one that is not in the table any more    *)
(* was closed.                                                             *)
AnyState(r) == TRUE
StateConnected(r) == Ref(r.name) = r /\ Connection(r.name)

(* RunCommand refuses a connection that is not connected. *)
RunCommand(c) ==
  /\ calls[c].pc = "state"
  /\ IF StateConnected(calls[c].sel) THEN calls' = [calls EXCEPT ![c].pc = "started"] ELSE End(c)
  /\ UNCHANGED <<conns, shells, disk, sess, lock, tick, rec, budget>>

(* The answer; the shell notes a directory it has reported. *)
Answer(c) ==
  /\ calls[c].pc \in {"done", "started"}
  /\ End(c)
  /\ shells' = IF calls[c].own THEN [shells EXCEPT ![calls[c].pid].last = calls[c].cwd] ELSE shells
  /\ UNCHANGED <<conns, disk, sess, lock, tick, rec, budget>>

CallStep(c) ==
  \/ PinCheck(c) \/ Pin(c) \/ SameCWD(c) \/ UpdateSessionCWD(c) \/ SessionByPID(c)
  \/ ReadCWD(c) \/ SelectNamed(c) \/ SelectPinned(c) \/ SelectByCWD(c) \/ Which(c) \/ RunCommand(c) \/ Answer(c)

(***************************************************************************)
(* Shells, users and connections.                                          *)
(***************************************************************************)
Spend(b) == budget[b] > 0 /\ budget' = [budget EXCEPT ![b] = @ - 1]
Disturb == tick' = [tick EXCEPT !.calm = FALSE]
Reporting(p) == \E c \in Calls : calls[c].pid = p /\ calls[c].own

(* How many of a name's connections are closed. *)
ClosedOnes == [n \in Names |-> IF conns[n].state \in {"up", "down"} THEN conns[n].obj - 1 ELSE conns[n].obj]

Begin(c, op, p, d, n, own) ==
  /\ \E e \in Calls : calls[e] = Idle
  /\ c = CHOOSE e \in Calls : calls[e] = Idle
  /\ calls' = [calls EXCEPT ![c] = [Idle EXCEPT !.op = op, !.pid = p, !.cwd = d, !.name = n, !.own = own, !.old = ClosedOnes,
                                    !.pc = CASE op = "pin" -> "check" [] op = "look" -> "get" [] OTHER -> "update"]]

(* The prompt reports the directory when it is not the one reported last. *)
Prompt(p, c) ==
  /\ shells[p].alive /\ shells[p].cwd # shells[p].last /\ ~Reporting(p)
  /\ Begin(c, "report", p, shells[p].cwd, "", TRUE)
  /\ UNCHANGED <<conns, shells, disk, sess, lock, tick, rec, budget>>

Cd(p, d) ==
  /\ Spend("cds") /\ shells[p].alive /\ ~Reporting(p) /\ shells[p].cwd # d
  /\ shells' = [shells EXCEPT ![p].cwd = d]
  /\ UNCHANGED <<conns, disk, sess, lock, tick, rec, calls>>

(* A request of the shell or of some other process with its GRAFT_SESSION, *)
(* which may be anywhere.                                                  *)
Request(c, op, p, d, n) ==
  /\ Spend("calls") /\ shells[p].alive
  /\ op \in {"report", "look", "shim"} => n = ""
  /\ op \in {"pin", "look"} => d = shells[p].cwd
  /\ Begin(c, op, p, d, n, FALSE)
  /\ UNCHANGED <<conns, shells, disk, sess, lock, tick, rec>>

(* Activation makes the session directory. *)
ShellStart(p, d) ==
  /\ Spend("shells") /\ ~shells[p].alive
  /\ shells' = [shells EXCEPT ![p] = [alive |-> TRUE, cwd |-> d, last |-> None, unsure |-> FALSE]]
  /\ disk' = [disk EXCEPT ![p].made = TRUE]
  /\ Disturb
  /\ UNCHANGED <<conns, sess, lock, rec, calls>>

ShellExit(p) ==
  /\ Spend("exits") /\ shells[p].alive
  /\ shells' = [shells EXCEPT ![p].alive = FALSE]
  /\ calls' = [c \in Calls |-> IF calls[c].pid = p THEN [calls[c] EXCEPT !.own = FALSE] ELSE calls[c]]
  /\ Disturb
  /\ UNCHANGED <<conns, disk, sess, lock, rec>>

Change(n, r) ==
  /\ conns' = [conns EXCEPT ![n] = r]
  /\ Disturb
  /\ UNCHANGED <<shells, disk, sess, lock, rec, calls>>

(* The daemon of a connection connects, or is lost and reconnects. *)
Up(n) == Spend("changes") /\ conns[n].state = "down" /\ Change(n, [conns[n] EXCEPT !.state = "up"])
Down(n) == Spend("changes") /\ conns[n].state = "up" /\ Change(n, [conns[n] EXCEPT !.state = "down"])

(* The commands found on the remote. *)
Available(n) == Spend("changes") /\ conns[n].state = "up" /\ Change(n, [conns[n] EXCEPT !.avail = ~@])

(* UpdateForwardCommands, on the connection and in the configuration. *)
Forward(n, i) ==
  /\ Spend("changes") /\ Connection(n)
  /\ Change(n, [conns[n] EXCEPT !.fwds = @ \cup {i}, !.conf = @ \cup {i}])

(* RemoveForwardCommands goes by the command's name alone. *)
Unforward(n) ==
  /\ Spend("changes") /\ Connection(n) /\ conns[n].conf # {}
  /\ Change(n, [conns[n] EXCEPT !.fwds = {}, !.conf = {}])

(* restore and the reconcile loop apply what is configured once the        *)
(* connection is connected.                                                *)
ReconcileForwards(n) ==
  /\ Connection(n) /\ ~(conns[n].conf \subseteq conns[n].fwds)
  /\ Change(n, [conns[n] EXCEPT !.fwds = @ \cup conns[n].conf])
  /\ UNCHANGED budget

(* ConnectionManager.remove closes the connection and then deletes it. *)
Remove(n) == Spend("changes") /\ conns[n].state \in {"up", "down"} /\ Change(n, [conns[n] EXCEPT !.state = "closed"])
Delete(n) == conns[n].state = "closed" /\ Change(n, [conns[n] EXCEPT !.state = "none"]) /\ UNCHANGED budget

Add(n) ==
  /\ Spend("changes") /\ conns[n].state = "none" /\ conns[n].obj < MaxObjects
  /\ Change(n, [conns[n] EXCEPT !.state = "down", !.obj = @ + 1, !.fwds = {}, !.conf = {}])

(* The daemon is killed and started again: it restores the connections of  *)
(* its configuration, and requests fail.  A report that fails may have     *)
(* been carried out.                                                       *)
Restart ==
  /\ Spend("restarts")
  /\ conns' = [n \in Names |-> IF InTable(n) THEN [conns[n] EXCEPT !.state = "down", !.fwds = {}] ELSE conns[n]]
  /\ sess' = [p \in Pids |-> None]
  /\ shells' = [p \in Pids |-> [shells[p] EXCEPT !.unsure = @ \/ \E c \in Calls : calls[c].pid = p /\ calls[c].own /\ (calls[c].pc # "update" \/ lock = c)]]
  /\ calls' = [c \in Calls |-> Idle]
  /\ lock' = None /\ tick' = NoTick /\ rec' = NoRec
  /\ UNCHANGED disk

World ==
  \/ \E p \in Pids, c \in Calls : Prompt(p, c)
  \/ \E p \in Pids, d \in budget.dirs : Cd(p, d) \/ ShellStart(p, d)
  \/ \E c \in Calls, op \in budget.ops, p \in Pids, d \in budget.dirs, n \in Names \cup {""} : Request(c, op, p, d, n)
  \/ \E p \in Pids : ShellExit(p)
  \/ \E n \in Names : Delete(n) \/ ReconcileForwards(n)
  \/ \E n \in budget.names : Up(n) \/ Down(n) \/ Available(n) \/ Remove(n) \/ Add(n) \/ Unforward(n) \/ \E i \in Intents : Forward(n, i)
  \/ Restart

Init ==
  /\ \E s \in Scenarios : conns = s.conns /\ budget = s.budget
  /\ shells = [p \in Pids |-> [alive |-> FALSE, cwd |-> None, last |-> None, unsure |-> FALSE]]
  /\ disk = [p \in Pids |-> NoDir]
  /\ sess = [p \in Pids |-> None]
  /\ lock = None /\ tick = NoTick /\ rec = NoRec
  /\ calls = [c \in Calls |-> Idle]

Next == RecStep \/ Tick \/ (\E c \in Calls : CallStep(c)) \/ World

Spec == Init /\ [][Next]_vars

(***************************************************************************)
(* Properties.                                                             *)
(***************************************************************************)
Sessions == [cwd : Dirs \cup {None}, pin : Names \cup {""}, actual : Routes]
Shells == [alive : BOOLEAN, cwd : Dirs \cup {None}, last : Dirs \cup {None}, unsure : BOOLEAN]
Directories == [made : BOOLEAN, cwd : Dirs \cup {None}, shims : SUBSET ShimNames, conn : Names \cup {"", None}]
Ticks == [pc : {"idle", "prune", "remove", "reconcile"}, todo : SUBSET Pids, pid : Pids \cup {None}, calm : BOOLEAN]
Reconciliations == [pc : {"idle", "pin", "cwd", "list", "lookup", "remove", "apply"}, pid : Pids \cup {None},
                    sel : Refs \cup {NoConn}, intents : SUBSET Intents, new : Routes]
InProgress == [op : Requests \cup {"none"}, pid : Pids \cup {None}, cwd : Dirs \cup {None}, name : Names \cup {""}, own : BOOLEAN,
               pc : {"idle", "check", "pin", "update", "get", "read", "select", "byCwd", "state", "started", "done"},
               sel : Refs \cup {NoConn}, held : Sessions \cup {None}, old : [Names -> 0..MaxObjects]]

(* The variables have their types, a session in memory has its directory   *)
(* on disk (getOrCreateSession, removeSession), and only the holder of     *)
(* sessMgrMu ticks or reconciles.                                          *)
TypeOK ==
  /\ conns \in [Names -> Conns]
  /\ shells \in [Pids -> Shells]
  /\ disk \in [Pids -> Directories]
  /\ sess \in [Pids -> Sessions \cup {None}]
  /\ \A p \in Pids : sess[p] # None => disk[p].made
  /\ lock \in Calls \cup {"tick", None}
  /\ rec \in Reconciliations
  /\ rec.pc # "idle" => lock # None /\ rec.pid # None /\ sess[rec.pid] # None
  /\ tick \in Ticks
  /\ (tick.pc # "idle") <=> (lock = "tick")
  /\ calls \in [Calls -> InProgress]
  /\ budget \in Budgets

(* A directory a shell has reported stays the session's: its prompt only   *)
(* reports changes, so what the daemon knows must survive restarts at any  *)
(* step, pruning, and the death of an earlier shell with the same pid.     *)
(* Except when another process with the shell's GRAFT_SESSION has sent a   *)
(* request from elsewhere, or a report failed after it was carried out.    *)
CwdKept ==
  \A p \in Pids :
    shells[p].alive /\ shells[p].last # None /\ ~shells[p].unsure /\ ~Reporting(p) =>
      GetOrCreateSession(p).cwd = shells[p].last

SessionsKept == TypeOK /\ CwdKept

(* A command is never started on a connection that was closed before the   *)
(* request for it began: a session may still forward to such a connection, *)
(* but RunCommand asks for its state.                                      *)
RunsLive ==
  \A c \in Calls : calls[c].pc = "started" => calls[c].sel.obj > calls[c].old[calls[c].sel.name]

(* The connection the hierarchy of pin and directory gives a session. *)
Selected(p) ==
  IF sess[p].pin # "" /\ Connection(sess[p].pin) THEN Ref(sess[p].pin) ELSE ConnectionByCWD(sess[p].cwd)

(* A selected connection that forwards commands but is not connected: the  *)
(* reconciliation returns early.                                           *)
Unreachable(r) == r # NoConn /\ conns[r.name].fwds # {} /\ ~Connection(r.name)

(* What a tick works towards: a live shell has a session that forwards the *)
(* commands its connection forwards and has, to that connection, with just *)
(* those shims in its directory, and its prompt names the connection; of a *)
(* shell that is gone nothing is left.  (A shell that got the pid of one   *)
(* just found dead loses the directory it made, until its first report.)   *)
Settled(p) ==
  IF shells[p].alive
  THEN IF sess[p] = None THEN shells[p].last = None /\ ~disk[p].made
       ELSE LET r == Selected(p)
                new == IF r = NoConn THEN NoForwardings ELSE ForwardedCommands(Forwardings(r), r.name)
            IN  Unreachable(r) \/ (sess[p].actual = new /\ disk[p].shims = DOMAIN new \cup {"sudo"} /\ disk[p].conn = r.name)
  ELSE sess[p] = None /\ ~disk[p].made

(* One tick repairs everything: when neither shells nor connections change *)
(* while it runs, then after it every session is settled, whatever         *)
(* restarts, half-done reconciliations, removed connections, shells that   *)
(* are gone and reused pids came before.  No stale shim, route, prompt or  *)
(* session directory is left behind.                                       *)
TickSettles ==
  tick.pc = "reconcile" /\ tick.todo = {} /\ rec.pc = "idle" /\ tick.calm => \A p \in Pids : Settled(p)

(* "When a session needs a connection (for running commands, opening a     *)
(* shell, etc.), the daemon follows this hierarchy": pin, then directory.  *)
(* So a shim starts its command on the connection the session selects.     *)
ShimFollowsSelection ==
  \A c \in Calls : calls[c].pc = "started" /\ calls[c].op = "shim" => calls[c].sel = Selected(calls[c].pid)

====
