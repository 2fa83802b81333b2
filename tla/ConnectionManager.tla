-------------------------- MODULE ConnectionManager --------------------------
(* The table of connections and the daemons they share (ConnectionManager):  *)
(* goroutines that restore the configured connections after a start, at most *)
(* one connect or remove request at a time (Server.serverMu), and shutdown.  *)
(* connMgrMu is released between the steps of initialize, and each step here *)
(* is one of its critical sections or one part of remoteDaemon.Initialize.   *)
(*                                                                           *)
(* Every call makes at most one connection and one daemon, so both are named *)
(* by the call that made them.                                               *)
EXTENDS Naturals, Integers, FiniteSets

CONSTANTS
  Restores,   \* calls of Restore, one per configured connection
  Requests,   \* calls of Initialize made for a client
  Names,      \* names of connections
  Keys,       \* daemonKeys
  Resolve,    \* the key of a destination once the transport has resolved its host
  Intents,    \* the names and destinations the calls may be made with
  None,
  MaxRemoves  \* bound: connections removed

Calls == Restores \cup Requests

ASSUME ManagerAssumption ==
  /\ Restores \cap Requests = {} /\ IsFiniteSet(Restores) /\ IsFiniteSet(Requests)
  /\ None \notin Calls /\ None \notin Keys
  /\ Resolve \in [Keys -> Keys]
  /\ \A k \in Keys : Resolve[Resolve[k]] = Resolve[k]
  /\ Intents \subseteq [Calls -> [name : Names, dest : Keys]]
  /\ MaxRemoves \in Nat

VARIABLES
  connections,  \* name -> connection
  daemons,      \* key -> daemon
  dm,           \* per daemon: mapKey, refCount, supersededBy and its Initialize
  backing,      \* per connection: Connection.daemon
  call,         \* per call: where initialize is, and its name, destination and daemon
  remover,      \* a RemoveConnection request
  removes,      \* removals so far
  doomed,       \* daemons being closed or closed, by Destroy or Close
  open          \* the manager was not closed

vars == <<connections, daemons, dm, backing, call, remover, removes, doomed, open>>

Init ==
  /\ connections = [n \in Names |-> None]
  /\ daemons = [k \in Keys |-> None]
  /\ dm = [d \in Calls |-> [key |-> None, refs |-> 0, by |-> None, init |-> "none"]]
  /\ backing = [c \in Calls |-> None]
  /\ \E i \in Intents : call = [c \in Calls |-> [pc |-> "idle", name |-> i[c].name, dest |-> i[c].dest, dm |-> None]]
  /\ remover = [pc |-> "idle", name |-> None, conn |-> None]
  /\ removes = 0
  /\ doomed = {}
  /\ open = TRUE

At(c, p) == call[c].pc = p
Goto(c, p) == call' = [call EXCEPT ![c].pc = p]

\* serverMu: a request runs to its end before the next starts.
ServerBusy == remover.pc # "idle" \/ \E c \in Requests : ~(At(c, "idle") \/ At(c, "done"))

-----------------------------------------------------------------------------
(* initialize, up to the daemon's Initialize.                                *)

\* A connection of that name is returned, or refused if it goes elsewhere.
Lookup(c) ==
  /\ At(c, "idle")
  /\ c \in Requests => ~ServerBusy
  /\ Goto(c, IF connections[call[c].name] = None THEN "get" ELSE "done")
  /\ UNCHANGED <<connections, daemons, dm, backing, remover, removes, doomed, open>>

\* Mutant: a daemon found under the key is used without counting it.
TakeRefUncounted(c, d) ==
  /\ call' = [call EXCEPT ![c].dm = d, ![c].pc = "create"]
  /\ UNCHANGED dm

\* A reference to the daemon found is taken for the connection to be.
TakeRef(c, d) ==
  /\ dm' = [dm EXCEPT ![d].refs = @ + 1]
  /\ call' = [call EXCEPT ![c].dm = d, ![c].pc = "create"]

\* getOrCreateDaemon, first critical section.
GetDaemon(c) ==
  LET d == daemons[call[c].dest]
  IN  /\ At(c, "get")
      /\ IF d # None THEN TakeRef(c, d) ELSE Goto(c, "make") /\ UNCHANGED dm
      /\ UNCHANGED <<connections, daemons, backing, remover, removes, doomed, open>>

\* CreateConnector fails; or the second critical section takes the daemon that
\* appeared meanwhile, or adds a new one.
CreateDaemon(c) ==
  LET k == call[c].dest
      d == daemons[k]
  IN  /\ At(c, "make")
      /\ \/ Goto(c, "done") /\ UNCHANGED <<daemons, dm>>
         \/ d # None /\ TakeRef(c, d) /\ UNCHANGED daemons
         \/ /\ d = None
            /\ daemons' = [daemons EXCEPT ![k] = c]
            /\ dm' = [dm EXCEPT ![c].key = k, ![c].refs = 1]
            /\ call' = [call EXCEPT ![c].dm = c, ![c].pc = "create"]
      /\ UNCHANGED <<connections, backing, remover, removes, doomed, open>>

\* checkOverlappingRoots may refuse the local root if there are connections.
CreateConnection(c) ==
  /\ At(c, "create")
  /\ \/ /\ \E n \in Names : connections[n] # None
        /\ Goto(c, "done")
        /\ UNCHANGED <<connections, backing>>
     \/ /\ connections' = [connections EXCEPT ![call[c].name] = c]
        /\ backing' = [backing EXCEPT ![c] = call[c].dm]
        /\ Goto(c, "init")
  /\ UNCHANGED <<daemons, dm, remover, removes, doomed, open>>

-----------------------------------------------------------------------------
(* remoteDaemon.Initialize.                                                  *)

\* close(initDone) after initErr was set.
Published(d, result) == [dm EXCEPT ![d].init = result]

InitDone(d) == dm[d].init \in {"ok", "failed", "superseded"}

\* The first caller initializes; a daemon whose Close came first refuses it and
\* all later callers.
InitializeFirst(c) ==
  LET d == call[c].dm
  IN  /\ call[c].pc \in {"init", "merged"}
      /\ dm[d].init = "none"
      /\ \/ d \in doomed /\ Goto(c, "failed") /\ dm' = Published(d, "failed")
         \/ /\ dm' = [dm EXCEPT ![d].init = "running"]
            /\ Goto(c, IF At(c, "init") THEN "transport" ELSE "ensure")
      /\ UNCHANGED <<connections, daemons, backing, remover, removes, doomed, open>>

\* The others wait for its result; a request may give up.
InitializeWait(c) ==
  LET d == call[c].dm
  IN  /\ call[c].pc \in {"init", "merged"}
      /\ \/ /\ InitDone(d)
            /\ Goto(c, CASE dm[d].init = "ok" -> "done"
                         [] dm[d].init = "superseded" /\ At(c, "init") -> "follow"
                         [] OTHER -> "failed")
         \/ dm[d].init = "running" /\ c \in Requests /\ Goto(c, "failed")
      /\ UNCHANGED <<connections, daemons, dm, backing, remover, removes, doomed, open>>

\* InitializeRemote resolves the host in the URL of the call that made the
\* connector; another call's URL stays as it is.
ResolvedKey(c) == IF call[c].dm = c THEN Resolve[call[c].dest] ELSE call[c].dest

\* reassignDaemon: the key of a superseded daemon is deleted.
Superseded(k) == [daemons EXCEPT ![k] = None]

\* InitializeRemote and then reassignDaemon, which re-keys the daemon unless
\* another one serves the resolved destination.
Transport(c) ==
  LET d == call[c].dm
      k == ResolvedKey(c)
  IN  /\ At(c, "transport")
      /\ \/ /\ dm' = Published(d, "failed")
            /\ Goto(c, "failed")
            /\ UNCHANGED daemons
         \/ /\ dm[d].key = k
            /\ Goto(c, "ensure")
            /\ UNCHANGED <<daemons, dm>>
         \/ /\ dm[d].key # k /\ daemons[k] # None
            /\ daemons' = Superseded(dm[d].key)
            /\ dm' = [dm EXCEPT ![d].by = daemons[k], ![d].init = "superseded"]
            /\ Goto(c, "follow")
         \/ /\ dm[d].key # k /\ daemons[k] = None
            /\ daemons' = [daemons EXCEPT ![dm[d].key] = None, ![k] = d]
            /\ dm' = [dm EXCEPT ![d].key = k]
            /\ Goto(c, "ensure")
      /\ UNCHANGED <<connections, backing, remover, removes, doomed, open>>

\* ensureDaemon and publishing the result.
Ensure(c) ==
  LET d == call[c].dm
  IN  /\ At(c, "ensure")
      /\ \/ dm' = Published(d, "ok") /\ Goto(c, "done")
         \/ dm' = Published(d, "failed") /\ Goto(c, "failed")
      /\ UNCHANGED <<connections, daemons, backing, remover, removes, doomed, open>>

-----------------------------------------------------------------------------
(* initialize, after the daemon's Initialize.                                *)

\* Mutant: only the superseded daemon's count is adjusted.
MovedHalf(from, to) == [dm EXCEPT ![from].refs = @ - 1]

\* followSupersede.
Moved(from, to) == [dm EXCEPT ![from].refs = @ - 1, ![to].refs = @ + 1]

FollowSupersede(c) ==
  LET from == call[c].dm
      to == dm[from].by
  IN  /\ At(c, "follow")
      /\ dm' = Moved(from, to)
      /\ call' = [call EXCEPT ![c].dm = to, ![c].pc = "update"]
      /\ UNCHANGED <<connections, daemons, backing, remover, removes, doomed, open>>

\* Mutant: the connection keeps its daemon.
UpdateForgotten(c) ==
  /\ At(c, "update")
  /\ Goto(c, "merged")
  /\ UNCHANGED <<connections, daemons, dm, backing, remover, removes, doomed, open>>

\* Connection.updateDaemon.
UpdateDaemon(c) ==
  /\ At(c, "update")
  /\ backing' = [backing EXCEPT ![c] = call[c].dm]
  /\ Goto(c, "merged")
  /\ UNCHANGED <<connections, daemons, dm, remover, removes, doomed, open>>

\* releaseDaemon.
Release(d) ==
  /\ dm' = [dm EXCEPT ![d].refs = @ - 1]
  /\ IF dm[d].refs > 1
     THEN UNCHANGED <<daemons, doomed>>
     ELSE /\ daemons' = [daemons EXCEPT ![dm[d].key] = None]
          /\ doomed' = doomed \cup {d}

\* A failed restore keeps its connection; a failed request takes it back.
Failed(c) ==
  /\ At(c, "failed")
  /\ Goto(c, "done")
  /\ IF c \in Requests
     THEN /\ connections' = [connections EXCEPT ![call[c].name] = None]
          /\ Release(call[c].dm)
     ELSE UNCHANGED <<connections, daemons, dm, doomed>>
  /\ UNCHANGED <<backing, remover, removes, open>>

Initialize(c) ==
  \/ Lookup(c) \/ GetDaemon(c) \/ CreateDaemon(c) \/ CreateConnection(c)
  \/ InitializeFirst(c) \/ InitializeWait(c) \/ Transport(c) \/ Ensure(c)
  \/ FollowSupersede(c) \/ UpdateDaemon(c) \/ Failed(c)

-----------------------------------------------------------------------------
(* Removal and shutdown.                                                     *)

\* remove looks the connection up and closes it without the lock.
RemoveLookup(n) ==
  /\ ~ServerBusy
  /\ removes < MaxRemoves
  /\ connections[n] # None
  /\ remover' = [pc |-> "delete", name |-> n, conn |-> connections[n]]
  /\ removes' = removes + 1
  /\ UNCHANGED <<connections, daemons, dm, backing, call, doomed, open>>

RemoveDelete ==
  /\ remover.pc = "delete"
  /\ connections' = [connections EXCEPT ![remover.name] = None]
  /\ Release(backing[remover.conn])
  /\ remover' = [pc |-> "idle", name |-> None, conn |-> None]
  /\ UNCHANGED <<backing, call, removes, open>>

Emptied == [k \in Keys |-> None]

\* Close takes the daemons out of the map and closes them.
Close ==
  /\ open
  /\ open' = FALSE
  /\ doomed' = doomed \cup {daemons[k] : k \in {x \in Keys : daemons[x] # None}}
  /\ daemons' = Emptied
  /\ UNCHANGED <<connections, dm, backing, call, remover, removes>>

\* All calls returned.
Rest == (\A c \in Calls : At(c, "done")) /\ UNCHANGED vars

Next ==
  \/ \E c \in Calls : Initialize(c)
  \/ \E n \in Names : RemoveLookup(n)
  \/ RemoveDelete
  \/ Close
  \/ Rest

Spec == Init /\ [][Next]_vars

-----------------------------------------------------------------------------
DaemonType ==
  [key : Keys \cup {None}, refs : Int, by : Calls \cup {None},
   init : {"none", "running", "ok", "failed", "superseded"}]
CallType ==
  [pc : {"idle", "get", "make", "create", "init", "transport", "ensure", "follow", "update", "merged", "failed", "done"},
   name : Names, dest : Keys, dm : Calls \cup {None}]

\* Every variable has its type.
TypeOK ==
  /\ connections \in [Names -> Calls \cup {None}]
  /\ daemons \in [Keys -> Calls \cup {None}]
  /\ dm \in [Calls -> DaemonType]
  /\ backing \in [Calls -> Calls \cup {None}]
  /\ call \in [Calls -> CallType]
  /\ remover \in [pc : {"idle", "delete"}, name : Names \cup {None}, conn : Calls \cup {None}]
  /\ removes \in 0 .. MaxRemoves
  /\ doomed \subseteq Calls
  /\ open \in BOOLEAN

Listed(c) == connections[call[c].name] = c

\* What holds a reference to a daemon: a listed connection backed by it, or a
\* call that took one for its connection.
Holds(c, d) ==
  \/ Listed(c) /\ backing[c] = d /\ ~At(c, "update")
  \/ call[c].dm = d /\ call[c].pc \in {"create", "update"}

\* The count of a daemon in use never falls below its users, however restores,
\* requests and removals of the same names and hosts interleave, and although
\* a connection changes its daemon in two steps (followSupersede).
RefsCover ==
  \A d \in Calls :
    dm[d].by = None => dm[d].refs >= Cardinality({c \in Calls : Holds(c, d)})

\* A daemon is destroyed by a removal or a failed request only when no
\* connection in the table is backed by it (releaseDaemon).
DestroyedUnused ==
  [][\A d \in Calls :
       d \in doomed' \ doomed /\ open' /\ dm[d].by = None =>
         \A c \in Calls : ~(Listed(c)' /\ backing'[c] = d)]_vars

\* The map holds a daemon under its own mapKey and never one that another
\* daemon has superseded, so the health checks and later calls for a host find
\* the daemon that serves it (reassignDaemon, releaseDaemon).
MapSound ==
  \A k \in Keys : daemons[k] # None => dm[daemons[k]].key = k /\ dm[daemons[k]].by = None

\* When initialize has returned, its connection is not backed by a superseded
\* daemon: one hop of followSupersede is enough.
SupersedeFollowed ==
  \A c \in Calls : At(c, "done") /\ Listed(c) => dm[backing[c]].by = None

\* An Initialize in progress is some call's work, so that the calls waiting
\* for its result (initDone) are not left waiting.
InitOwned ==
  \A d \in Calls :
    dm[d].init = "running" => \E c \in Calls : call[c].dm = d /\ call[c].pc \in {"transport", "ensure"}

\* The table of daemons at every moment: well typed, each daemon where its key
\* says, superseding followed, and no initialization that nobody performs.
DaemonTable == TypeOK /\ MapSound /\ SupersedeFollowed /\ InitOwned
===============================================================================
