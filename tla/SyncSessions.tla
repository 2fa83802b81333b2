---------------------------- MODULE SyncSessions ----------------------------
(***************************************************************************)
(* Who owns a synchronization session.  The local daemon keeps three       *)
(* records of a user's syncs that are updated at different moments: the    *)
(* configuration file (what the user asked for), the connection's table of *)
(* active syncs, and mutagen's sessions, which live on disk and outlast    *)
(* the daemon.  Three goroutines establish syncs: restore after a start,   *)
(* the reconcile loop every second, and the SyncFilesToConnection RPC; the *)
(* reconcile loop also terminates the sessions that no configuration       *)
(* entry names.  Connections are removed and made again, the transport     *)
(* drops, and the daemon stops in order or crashes, at any of their steps. *)
(*                                                                         *)
(* One connection name.  Its objects are numbered 1..MaxObjects; an object *)
(* that is no longer the named one is closed.  A session's configuration   *)
(* (ignores, modes) is one stamp: equal stamps mean "not stale".           *)
(***************************************************************************)
EXTENDS Naturals, FiniteSets

CONSTANTS
    Dirs,        \* local directories that may be synced
    Stamps,      \* session configurations a user may ask for
    Ids,         \* session identifiers
    MaxObjects,  \* connection objects at a time: the named one, closed ones in use
    Scenarios,   \* where to start from and what may happen: see Scenario
    None         \* no intent, no entry, no session

ASSUME IdsAssumption == /\ Ids \subseteq Nat \ {0}
                        /\ IsFiniteSet(Ids)
                        /\ MaxObjects \in Nat \ {0}

VARIABLES
    phase,     \* the daemon: "down", "up" or "closing" (connections closed)
    listed,    \* the configuration names the connection
    config,    \* [dir -> intent or None]: the persisted synchronizations
    live,      \* the connection object under the name, 0 if there is none
    online,    \* its transport works
    entries,   \* its table synchronizations: [dir -> active sync or None]
    sess,      \* [id -> session or None], on disk and in the manager
    est,       \* the three establishers
    budget,    \* outside events still allowed
    mode,      \* "calm" or "busy", chosen at the start: see Calm
    wants,     \* <<dir, intent>> pairs the user may ask for
    asked,     \* history: the syncs whose RPC succeeded and nobody removed
    owned,     \* history: sessions an establisher obtained, not paused since
    outlived,  \* history: an establisher was still at work on a removed object
    forsaken   \* history: dirs where an error struck half-way: the stale session
               \* was terminated and not replaced, or the new sync not saved

server == <<phase, listed, config>>
conn == <<live, online, entries>>
scene == <<mode, wants>>
history == <<asked, owned, outlived, forsaken>>
vars == <<server, conn, sess, est, budget, scene, history>>

Establishers == {"restore", "reconcile", "user"}
Kinds == {"main", "git"}
Intent == [git : BOOLEAN, stamp : Stamps]
MaybeId == Ids \cup {0}
Table == [Dirs -> Intent \cup {None}]
ActiveSync == [git : BOOLEAN, stamp : Stamps, sid : MaybeId, gsid : MaybeId]
Session == [dir : Dirs, kind : Kinds, stamp : Stamps, paused : BOOLEAN,
            archive : {"none", "empty", "history"}]
Nothing == [d \in Dirs |-> None]
Events == {"sync", "remove", "edit", "drop", "fault", "stop", "crash"}
Scenario == [start : Table, mode : {"calm", "busy"},
             wants : SUBSET (Dirs \X Intent), budget : [Events -> Nat]]
ASSUME ScenariosAssumption == \A s \in Scenarios : s \in Scenario

(***************************************************************************)
(* An establisher: its program counter, the object it works on, the table  *)
(* it read its intents from and the directories of it still to do, the one *)
(* it is at, whether it is at the main session or the .git replica, the    *)
(* session its lookup found, the entry it will record, the replica of the  *)
(* entry it replaces, and whether the round is due to reap.                *)
(***************************************************************************)
Found == [id : MaybeId, paused : BOOLEAN, stale : BOOLEAN]
NotFound == [id |-> 0, paused |-> FALSE, stale |-> FALSE]
Establisher ==
    [pc : {"idle", "connect", "next", "lock", "lookup", "act", "record",
           "update", "write", "reap"},
     obj : 0..MaxObjects, copy : Table, todo : SUBSET Dirs, due : BOOLEAN,
     dir : Dirs \cup {None}, kind : Kinds, found : Found,
     entry : ActiveSync \cup {None}, old : MaybeId]
Idle == [pc |-> "idle", obj |-> 0, copy |-> Nothing, todo |-> {},
         due |-> FALSE, dir |-> None, kind |-> "main", found |-> NotFound,
         entry |-> None, old |-> 0]

TypeOK ==
    /\ phase \in {"down", "up", "closing"}
    /\ listed \in BOOLEAN
    /\ config \in Table
    /\ live \in 0..MaxObjects
    /\ online \in BOOLEAN
    /\ entries \in [Dirs -> ActiveSync \cup {None}]
    /\ sess \in [Ids -> Session \cup {None}]
    /\ est \in [Establishers -> Establisher]
    /\ budget \in [Events -> Nat]
    /\ mode \in {"calm", "busy"}
    /\ wants \subseteq Dirs \X Intent
    /\ asked \in Table
    /\ owned \subseteq Ids
    /\ outlived \in BOOLEAN
    /\ forsaken \subseteq Dirs
    /\ (phase = "down" => \A e \in Establishers : est[e] = Idle)
    /\ (~listed => config = Nothing)

Init ==
    /\ \E s \in Scenarios : /\ config = s.start /\ mode = s.mode
                             /\ wants = s.wants /\ budget = s.budget
    /\ phase = "down" /\ listed = TRUE
    /\ live = 0 /\ online = FALSE /\ entries = Nothing
    /\ sess = [id \in Ids |-> None]
    /\ est = [e \in Establishers |-> Idle]
    /\ asked = config /\ owned = {} /\ outlived = FALSE /\ forsaken = {}

-----------------------------------------------------------------------------
(* Sessions.                                                               *)

Existing == {id \in Ids : sess[id] # None}
Named(d, k) == {id \in Existing : sess[id].dir = d /\ sess[id].kind = k}
Fresh == Ids \ Existing

(* Pause: a session that is gone or disabled gives an error, only logged.  *)
Paused(S, ids) ==
    [id \in Ids |-> IF id \in ids /\ S[id] # None
                    THEN [S[id] EXCEPT !.paused = TRUE] ELSE S[id]]

Terminated(S, ids) == [id \in Ids |-> IF id \in ids THEN None ELSE S[id]]

(* Create: session file, then an empty archive, then a running loop.       *)
Created(d, k, s) == [dir |-> d, kind |-> k, stamp |-> s, paused |-> FALSE,
                     archive |-> "empty"]

Spend(ev) == budget[ev] > 0 /\ budget' = [budget EXCEPT ![ev] = @ - 1]

-----------------------------------------------------------------------------
(* Establishing: Connection.EstablishSynchronization and its callers.      *)

Want(e) == est[e].copy[est[e].dir]
Closed(o) == o # live \/ phase = "closing"
InMu(e) == est[e].pc \in {"lookup", "act", "record"}

\* Mutant: EstablishSynchronization does not take syncMu.
SyncMuIgnored(o) == TRUE

SyncMuFree(o) == \A e \in Establishers : ~(InMu(e) /\ est[e].obj = o)

Matches(a, w) == a.git = w.git /\ a.stamp = w.stamp

(* What an establisher does after one intent: the RPC and restore stop at  *)
(* an error, reconcile logs it and goes on; then the RPC saves the         *)
(* configuration, reconcile may reap.                                      *)
After(e, todo) ==
    LET rest == [Idle EXCEPT !.copy = est[e].copy, !.due = est[e].due] IN
    IF todo # {} THEN [rest EXCEPT !.pc = "next", !.todo = todo]
    ELSE IF e = "user" THEN [Idle EXCEPT !.pc = "update"]
    ELSE IF est[e].due THEN [rest EXCEPT !.pc = "reap"] ELSE Idle
AfterError(e) == IF e = "reconcile" THEN After(e, est[e].todo) ELSE Idle

To(e, r) == est' = [est EXCEPT ![e] = r]

(* ConnectionManager.Connection: found only while Connected (a closed      *)
(* connection is in state Closed).                                         *)
Usable == live # 0 /\ online /\ phase = "up"

(* ConnectionManager.EstablishSynchronization: the object under the name   *)
(* now; it is used from here on, even when it is closed meanwhile.         *)
Take(e) ==
    /\ est[e].pc = "next"
    /\ \E d \in est[e].todo :
          To(e, IF ~Usable
                THEN IF e = "reconcile" THEN After(e, est[e].todo \ {d}) ELSE Idle
                ELSE [est[e] EXCEPT !.pc = "lock", !.obj = live, !.dir = d,
                                    !.todo = @ \ {d}])
    /\ UNCHANGED <<server, conn, sess, budget, scene, history>>

(* syncSnapshot: a closed object's table is empty. *)
Snapshot(e) == IF Closed(est[e].obj) THEN None ELSE entries[est[e].dir]

(* Under syncMu, the same intent is already active. *)
EnterActive(e) ==
    /\ est[e].pc = "lock" /\ SyncMuFree(est[e].obj)
    /\ Snapshot(e) # None /\ Matches(Snapshot(e), Want(e))
    /\ To(e, After(e, est[e].todo))
    /\ UNCHANGED <<server, conn, sess, budget, scene, history>>

NotActive(e) ==
    /\ est[e].pc = "lock" /\ SyncMuFree(est[e].obj)
    /\ Snapshot(e) # None => ~Matches(Snapshot(e), Want(e))

(* A remote step failed: no transport, a closed object, or a fault.        *)
RemoteFails(e) ==
    IF online /\ ~Closed(est[e].obj) THEN Spend("fault") ELSE UNCHANGED budget

EnterFails(e) ==
    /\ NotActive(e) /\ RemoteFails(e)
    /\ To(e, AfterError(e))
    /\ UNCHANGED <<server, conn, sess, scene, history>>

(* applyGitReplicaFlip: only the replica is to come or to go.              *)
EnterFlip(e) ==
    LET cur == Snapshot(e) IN
    /\ NotActive(e) /\ online
    /\ cur # None /\ cur.stamp = Want(e).stamp
    /\ IF Want(e).git
       THEN /\ To(e, [est[e] EXCEPT !.pc = "lookup", !.kind = "git",
                                    !.entry = cur])
            /\ UNCHANGED <<sess, owned>>
       ELSE /\ To(e, [est[e] EXCEPT !.pc = "record", !.kind = "git",
                                    !.entry = [cur EXCEPT !.git = FALSE, !.gsid = 0]])
            /\ sess' = Paused(sess, {cur.gsid})
            /\ owned' = owned \ {cur.gsid}
    /\ UNCHANGED <<server, conn, budget, scene, asked, outlived, forsaken>>

(* Otherwise a session is resumed, reused or created for the intent.       *)
EnterNew(e) ==
    LET cur == Snapshot(e) IN
    /\ NotActive(e) /\ online
    /\ cur # None => cur.stamp # Want(e).stamp
    /\ To(e, [est[e] EXCEPT
                !.pc = "lookup",
                !.entry = [git |-> FALSE, stamp |-> Want(e).stamp,
                           sid |-> 0, gsid |-> 0],
                !.old = IF cur = None THEN 0 ELSE cur.gsid])
    /\ UNCHANGED <<server, conn, sess, budget, scene, history>>

(* findExistingSessionByName: a listing, used after the lock is released.  *)
Lookup(e) ==
    LET names == Named(est[e].dir, est[e].kind) IN
    /\ est[e].pc = "lookup"
    /\ IF names = {}
       THEN To(e, [est[e] EXCEPT !.pc = "act", !.found = NotFound])
       ELSE \E id \in names :
              To(e, [est[e] EXCEPT !.pc = "act",
                       !.found = [id |-> id, paused |-> sess[id].paused,
                                  stale |-> sess[id].stamp # est[e].entry.stamp]])
    /\ UNCHANGED <<server, conn, sess, budget, scene, history>>

(* A session of another configuration is terminated, with its archive.     *)
TerminateStale(e) ==
    /\ est[e].pc = "act" /\ est[e].found.id # 0 /\ est[e].found.stale
    /\ IF sess[est[e].found.id] = None
       THEN To(e, AfterError(e)) /\ UNCHANGED <<sess, owned, forsaken>>
       ELSE /\ To(e, [est[e] EXCEPT !.found = NotFound])
            /\ sess' = Terminated(sess, {est[e].found.id})
            /\ owned' = owned \ {est[e].found.id}
            /\ forsaken' = forsaken \cup {est[e].dir}
    /\ UNCHANGED <<server, conn, budget, scene, asked, outlived>>

(* The session obtained: into the entry, and the replaced entry's replica  *)
(* is paused when the new intent has none.                                 *)
Obtained(e, id) ==
    IF est[e].kind = "main"
    THEN [est[e] EXCEPT !.pc = "record", !.entry.sid = id, !.found = NotFound]
    ELSE [est[e] EXCEPT !.pc = "record", !.entry.gsid = id, !.entry.git = TRUE,
                        !.found = NotFound]
Replaced(e) ==
    IF est[e].kind = "main" /\ ~Want(e).git THEN {est[e].old} ELSE {}

(* A session the lookup saw running is reused without a word to mutagen.   *)
Reuse(e) ==
    /\ est[e].pc = "act" /\ est[e].found.id # 0
    /\ ~est[e].found.stale /\ ~est[e].found.paused
    /\ To(e, Obtained(e, est[e].found.id))
    /\ sess' = Paused(sess, Replaced(e))
    /\ owned' = (owned \cup ({est[e].found.id} \cap Existing)) \ Replaced(e)
    /\ UNCHANGED <<server, conn, budget, scene, asked, outlived, forsaken>>

(* controller.resume: the session is unpaused and its loop runs even when  *)
(* an endpoint cannot be reached, which is then reported as an error.      *)
Resumed(S, id) == [S EXCEPT ![id].paused = FALSE]

Resume(e) ==
    LET id == est[e].found.id IN
    /\ est[e].pc = "act" /\ id # 0 /\ ~est[e].found.stale /\ est[e].found.paused
    /\ \/ /\ id \notin Existing
          /\ To(e, AfterError(e))
          /\ UNCHANGED <<sess, budget, owned>>
       \/ /\ id \in Existing /\ RemoteFails(e)
          /\ To(e, AfterError(e))
          /\ sess' = Resumed(sess, id)
          /\ UNCHANGED owned
       \/ /\ id \in Existing /\ online
          /\ To(e, Obtained(e, id))
          /\ sess' = Paused(Resumed(sess, id), Replaced(e))
          /\ owned' = (owned \cup {id}) \ Replaced(e)
          /\ UNCHANGED budget
    /\ UNCHANGED <<server, conn, scene, asked, outlived, forsaken>>

(* Manager.Create: nothing is saved unless both endpoints are reached.     *)
Create(e) ==
    /\ est[e].pc = "act" /\ est[e].found.id = 0
    /\ \/ /\ RemoteFails(e)
          /\ To(e, AfterError(e))
          /\ UNCHANGED <<sess, owned, forsaken>>
       \/ /\ online
          /\ forsaken' = forsaken \ {est[e].dir}
          /\ \E id \in Fresh :
               /\ \A other \in Fresh : id <= other
               /\ To(e, Obtained(e, id))
               /\ sess' = Paused([sess EXCEPT ![id] =
                             Created(est[e].dir, est[e].kind, est[e].entry.stamp)],
                             Replaced(e))
               /\ owned' = (owned \cup {id}) \ Replaced(e)
          /\ UNCHANGED budget
    /\ UNCHANGED <<server, conn, scene, asked, outlived>>

(* recordSync on a closed object: Close never saw the sessions.            *)
RecordClosed(ids) == sess' = Paused(sess, ids) /\ owned' = owned \ ids

(* recordSync.  The main session is recorded before the replica is tried;  *)
(* that first record has no replica even when the replaced entry had one.  *)
Record(e) ==
    LET ids == {est[e].entry.sid, est[e].entry.gsid} IN
    /\ est[e].pc = "record"
    /\ IF Closed(est[e].obj)
       THEN /\ RecordClosed(ids)
            /\ To(e, AfterError(e))
            /\ UNCHANGED entries
       ELSE /\ entries' = [entries EXCEPT ![est[e].dir] = est[e].entry]
            /\ To(e, IF est[e].kind = "main" /\ Want(e).git
                     THEN [est[e] EXCEPT !.pc = "lookup", !.kind = "git"]
                     ELSE After(e, est[e].todo))
            /\ owned' = owned \ (IF est[e].kind = "main" THEN {est[e].old} ELSE {})
            /\ UNCHANGED sess
    /\ UNCHANGED <<server, live, online, budget, scene, asked, outlived, forsaken>>

Establish(e) ==
    \/ Take(e) \/ EnterActive(e) \/ EnterFails(e) \/ EnterFlip(e) \/ EnterNew(e)
    \/ Lookup(e) \/ TerminateStale(e) \/ Reuse(e) \/ Resume(e) \/ Create(e)
    \/ Record(e)

(* Server.UpdateSynchronizations, under serverMu: the connection must be   *)
(* usable, then the configuration becomes whatever its table holds, which  *)
(* is nothing when Server.Close has closed it in between.                  *)
Rewritten ==
    [d \in Dirs |-> IF entries[d] = None THEN None
                    ELSE [git |-> entries[d].git, stamp |-> entries[d].stamp]]

Update ==
    /\ est["user"].pc = "update"
    /\ IF Usable
       THEN To("user", [Idle EXCEPT !.pc = "write"]) /\ UNCHANGED forsaken
       ELSE /\ To("user", Idle)
            /\ forsaken' = forsaken \cup
                  {d \in Dirs : entries[d] # None /\ config[d] = None}
    /\ UNCHANGED <<server, conn, sess, budget, scene, asked, owned, outlived>>

Write ==
    /\ est["user"].pc = "write"
    /\ To("user", Idle)
    /\ config' = Rewritten
    /\ asked' = [d \in Dirs |->
                   IF entries[d] = None THEN asked[d] ELSE Rewritten[d]]
    /\ UNCHANGED <<phase, listed, conn, sess, budget, scene, owned, outlived, forsaken>>

ServerMuFree == est["user"].pc # "write"

-----------------------------------------------------------------------------
(* The reconcile loop.                                                     *)

\* Mutant: an intent never equals the resolved one that is active.
MissingAlways(table) == {d \in Dirs : table[d] # None}

(* computeMissingSyncs and expectedSyncSessionNames.                       *)
Missing(table) ==
    {d \in Dirs : /\ table[d] # None
                  /\ entries[d] # None => ~Matches(entries[d], table[d])}

\* Mutant: the .git replicas' names are not among the expected ones.
ExpectedMain(table, id) == table[sess[id].dir] # None /\ sess[id].kind = "main"

Expected(table, id) ==
    /\ table[sess[id].dir] # None
    /\ sess[id].kind = "git" => table[sess[id].dir].git
Orphans(table) == {id \in Existing : ~Expected(table, id)}

(* In calm mode a user's request, a removal and an orderly stop come only  *)
(* while the daemon's own work is done, and that work waits for the        *)
(* request: what a user sees who does one thing at a time.                 *)
OwnWorkDone ==
    /\ est["restore"].pc = "idle" /\ est["reconcile"].pc = "idle"
    /\ Usable => Missing(config) = {}
Calm == mode = "calm" => OwnWorkDone
CalmUser == mode = "calm" => est["user"].pc = "idle"

(* A round copies the configuration under serverMu, then looks at the      *)
(* connection; it reaps if orphanReapInterval has passed since the last    *)
(* time.  Rounds that would find nothing to do are left out.               *)
Round ==
    /\ phase = "up" /\ est["reconcile"].pc = "idle" /\ CalmUser /\ ServerMuFree
    /\ Usable
    /\ Missing(config) # {} \/ Orphans(config) # {}
    /\ \E due \in BOOLEAN :
          /\ Missing(config) = {} => due
          /\ To("reconcile", [Idle EXCEPT
                  !.copy = config, !.todo = Missing(config), !.due = due,
                  !.pc = IF Missing(config) = {} THEN "reap" ELSE "next"])
    /\ UNCHANGED <<server, conn, sess, budget, scene, history>>

(* reapOrphanSyncs, with the copy the round began with.                    *)
Reap ==
    LET gone == Orphans(est["reconcile"].copy) IN
    /\ est["reconcile"].pc = "reap"
    /\ To("reconcile", Idle)
    /\ sess' = Terminated(sess, gone)
    /\ owned' = owned \ gone
    /\ UNCHANGED <<server, conn, budget, scene, asked, outlived, forsaken>>

-----------------------------------------------------------------------------
(* The daemon's life, the connection's and the user's.                     *)

(* NewServer loads the sessions (unpaused ones run at once) and Run starts *)
(* restore for the configured connection.                                  *)
Boot ==
    /\ phase = "down"
    /\ phase' = "up"
    /\ IF listed
       THEN To("restore", [Idle EXCEPT !.pc = "connect", !.copy = config,
                             !.todo = {d \in Dirs : config[d] # None}])
       ELSE UNCHANGED est
    /\ UNCHANGED <<listed, config, conn, sess, budget, scene, history>>

(* Restore: the connection object appears, then it connects or fails.      *)
Unused == {o \in 1..MaxObjects : o # live /\ \A e \in Establishers : est[e].obj # o}
Object(o) == o \in Unused /\ \A p \in Unused : o <= p

RestoreObject ==
    /\ est["restore"].pc = "connect" /\ est["restore"].obj = 0
    /\ live = 0 /\ phase = "up"
    /\ \E o \in 1..MaxObjects :
          /\ Object(o)
          /\ live' = o
          /\ To("restore", [est["restore"] EXCEPT !.obj = o])
    /\ UNCHANGED <<server, online, entries, sess, budget, scene, history>>

RestoreConnected ==
    /\ est["restore"].pc = "connect" /\ est["restore"].obj # 0
    /\ \/ /\ est["restore"].obj = live /\ phase = "up"
          /\ online' = TRUE
          /\ To("restore", After("restore", est["restore"].todo))
          /\ UNCHANGED budget
       \/ /\ IF Closed(est["restore"].obj) THEN UNCHANGED budget
             ELSE Spend("fault")
          /\ To("restore", Idle)
          /\ UNCHANGED online
    /\ UNCHANGED <<server, live, entries, sess, scene, history>>

(* The reconnect loop of the remote daemon brings the transport back.      *)
Reconnect ==
    /\ phase = "up" /\ live # 0 /\ ~online /\ est["restore"].pc # "connect"
    /\ online' = TRUE
    /\ UNCHANGED <<server, live, entries, sess, est, budget, scene, history>>

(* A running session synchronizes once: its archive now has a history.     *)
Cycle(id) ==
    /\ phase = "up" /\ Usable /\ id \in Existing
    /\ ~sess[id].paused /\ sess[id].archive = "empty"
    /\ sess' = [sess EXCEPT ![id].archive = "history"]
    /\ UNCHANGED <<server, conn, est, budget, scene, history>>

(* SyncFilesToConnection: the user asks for a sync, new or changed.        *)
Sync(d, w) ==
    /\ phase = "up" /\ Usable /\ est["user"].pc = "idle" /\ Calm
    /\ Spend("sync")
    /\ To("user", [Idle EXCEPT !.pc = "next", !.todo = {d},
                     !.copy = [Nothing EXCEPT ![d] = w]])
    /\ UNCHANGED <<server, conn, sess, scene, history>>

Held(T) == {T[d].sid : d \in {x \in Dirs : T[x] # None}}
           \cup {T[d].gsid : d \in {x \in Dirs : T[x] # None}}

\* Mutant: Close terminates the sessions.
CloseTerminates ==
    /\ sess' = Terminated(sess, Held(entries))
    /\ owned' = owned \ Held(entries)
    /\ entries' = Nothing
    /\ forsaken' = {}

(* Connection.Close: the table's sessions are paused, not terminated.      *)
CloseObject ==
    /\ sess' = Paused(sess, Held(entries))
    /\ owned' = owned \ Held(entries)
    /\ entries' = Nothing
    /\ forsaken' = {}

(* RemoveConnection, under serverMu.                                       *)
Remove ==
    /\ phase = "up" /\ live # 0 /\ Calm /\ CalmUser /\ ServerMuFree
    /\ Spend("remove")
    /\ CloseObject
    /\ live' = 0 /\ online' = FALSE
    /\ listed' = FALSE /\ config' = Nothing /\ asked' = Nothing
    /\ outlived' = (outlived \/ \E e \in Establishers : est[e].obj = live)
    /\ UNCHANGED <<phase, est, scene>>

(* Initialize...Connection, under serverMu: a new object, no syncs.        *)
Initialize ==
    /\ phase = "up" /\ live = 0 /\ ~listed
    /\ \E o \in 1..MaxObjects : Object(o) /\ live' = o
    /\ online' = TRUE /\ listed' = TRUE
    /\ UNCHANGED <<phase, config, entries, sess, est, budget, scene, history>>

(* The user edits the configuration file while the daemon is down.         *)
Edit(d) ==
    /\ phase = "down" /\ config[d] # None
    /\ Spend("edit")
    /\ config' = [config EXCEPT ![d] = None]
    /\ asked' = [asked EXCEPT ![d] = None]
    /\ UNCHANGED <<phase, listed, conn, sess, est, scene, owned, outlived, forsaken>>

Drop ==
    /\ phase = "up" /\ Usable
    /\ Spend("drop")
    /\ online' = FALSE
    /\ UNCHANGED <<server, live, entries, sess, est, scene, history>>

(* Server.Close: the connections, then mutagen's Shutdown, which leaves    *)
(* each session's paused flag as it is; then the process ends.             *)
CloseConnections ==
    /\ phase = "up" /\ Calm /\ CalmUser
    /\ Spend("stop")
    /\ phase' = "closing"
    /\ CloseObject
    /\ UNCHANGED <<listed, config, live, online, est, scene, asked, outlived>>

Ended ==
    /\ phase' = "down" /\ live' = 0 /\ online' = FALSE /\ entries' = Nothing
    /\ est' = [e \in Establishers |-> Idle]
    /\ owned' = {} /\ forsaken' = {}

Shutdown ==
    /\ phase = "closing"
    /\ Ended
    /\ UNCHANGED <<listed, config, sess, budget, scene, asked, outlived>>

(* A crash; in the middle of Create the session file may be there without  *)
(* the archive, and such a session never synchronizes.                     *)
Crash ==
    /\ phase # "down"
    /\ Spend("crash")
    /\ Ended
    /\ \/ UNCHANGED sess
       \/ \E e \in Establishers, id \in Fresh :
            /\ est[e].pc = "act" /\ est[e].found.id = 0 /\ online
            /\ sess' = [sess EXCEPT ![id] =
                          [Created(est[e].dir, est[e].kind, est[e].entry.stamp)
                             EXCEPT !.archive = "none"]]
    /\ UNCHANGED <<listed, config, scene, asked, outlived>>

-----------------------------------------------------------------------------
Daemon ==
    \/ \E e \in Establishers : Establish(e)
    \/ Update \/ Write \/ Round \/ Reap
    \/ Boot \/ RestoreObject \/ RestoreConnected \/ Reconnect
    \/ Shutdown
    \/ \E id \in Ids : Cycle(id)

World ==
    \/ \E w \in wants : Sync(w[1], w[2])
    \/ Remove \/ Initialize \/ Drop \/ CloseConnections \/ Crash
    \/ \E d \in Dirs : Edit(d)

Next == Daemon \/ World

Spec == Init /\ [][Next]_vars

-----------------------------------------------------------------------------
(* Properties.                                                             *)

Busy(e) == est[e].pc \notin {"idle", "reap"}

(* There is never a second session of one name: each lookup and the create *)
(* that follows it run under the connection's syncMu, so restore, the      *)
(* reconcile loop and an RPC cannot both find none and both create one.    *)
(* The exception is an establisher that goes on with a removed connection's *)
(* object, whose syncMu is not the new connection's.                       *)
OnePerName ==
    ~outlived => \A d \in Dirs, k \in Kinds : Cardinality(Named(d, k)) <= 1

(* A session obtained for a connection does not run on after it: once the  *)
(* connection is closed and no establisher is under way, each one has been *)
(* paused, by Close or by the recordSync that came after it.               *)
ClosedPaused ==
    (live = 0 \/ phase = "closing") /\ (\A e \in Establishers : ~Busy(e))
        => owned = {}

(* The table of sessions at every moment: well typed, one for a name, and  *)
(* none that runs on after its connection (connection.go:798, :907).       *)
SessionsSound == TypeOK /\ OnePerName /\ ClosedPaused

(* Served: an active sync's sessions exist, run and have its stamp.        *)
Served(d) ==
    /\ entries[d].sid \in Named(d, "main") /\ ~sess[entries[d].sid].paused
    /\ sess[entries[d].sid].stamp = entries[d].stamp
    /\ entries[d].git => /\ entries[d].gsid \in Named(d, "git")
                         /\ ~sess[entries[d].gsid].paused

Resting == ~ENABLED Daemon

ServedAsAsked(d) ==
    asked[d] # None =>
        entries[d] # None /\ Matches(entries[d], asked[d]) /\ Served(d)

(* For a user who does one thing at a time, wherever the daemon comes to   *)
(* rest on a working connection, after restarts, crashes, drops and errors *)
(* at any step, each sync they asked for is active and its sessions run.   *)
(* The exceptions are a sync whose stale session was terminated for a new  *)
(* one that then could not be created, and a sync that became active but   *)
(* whose RPC failed to save it.                                            *)
RestsServed ==
    mode = "calm" /\ Usable /\ Resting
        => \A d \in Dirs \ forsaken : ServedAsAsked(d)

AskedFor(id) == asked[sess[id].dir] # None
                /\ (sess[id].kind = "git" => asked[sess[id].dir].git)

(* For that user, a session is terminated, and its archive lost, only when *)
(* nothing they asked for and did not take back names it, or to make room  *)
(* for a changed configuration: no restart, drop, crash or error does it.  *)
HistoryKept ==
    [][mode = "calm" =>
         \A id \in Ids :
            (sess[id] # None /\ sess[id].archive = "history" /\ sess'[id] = None)
               => \/ ~AskedFor(id)
                  \/ \E e \in Establishers :
                        est[e].found.id = id /\ Want(e).stamp # sess[id].stamp]_vars

(* The daemon's own work ends: with finitely many requests and failures,   *)
(* every behaviour comes to rest (no round re-establishes for ever what    *)
(* another keeps undoing).                                                 *)
ComesToRest == <>[][World]_vars
=============================================================================
