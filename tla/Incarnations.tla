---- MODULE Incarnations ----
(***************************************************************************)
(* The daemon processes of one host and the files through which they know  *)
(* of each other: the socket path ("kind of a process lock"), the pid file *)
(* and commands.json, the record of the running command groups from which  *)
(* the next daemon cleans up after a crashed one.                          *)
(*                                                                         *)
(* A daemon is a member of Daemons that is launched at most once; its name *)
(* is its pid.  A command is a member of Cmds; its name is the id of its   *)
(* process group, the pid of its leader.  When nothing of the group is     *)
(* left and the leader has been waited for, the kernel may give the pid to *)
(* a process that is none of graft's.                                      *)
(*                                                                         *)
(* In the mode "orderly" daemons are launched and told to stop one at a    *)
(* time, while crashes come at any moment; in the mode "racing" launches   *)
(* and stops overlap as they like.                                         *)
(***************************************************************************)
EXTENDS FiniteSets, Integers

CONSTANTS Daemons, Cmds, None,
          Modes,        \* subset of {"orderly", "racing"}
          Manners,      \* how commands take signals: subset of {"meek", "stubborn", "stuck"}
          MaxCrashes,   \* bound on the crashes
          MaxRacers,    \* bound on the daemons launched in the mode "racing"
          MaxRaceCmds   \* bound on the commands spawned in that mode

ASSUME IncarnationsAssumption ==
  /\ None \notin Daemons \cup Cmds \cup {"empty"} /\ "empty" \notin Daemons
  /\ \A S \in SUBSET Cmds : S # None
  /\ Modes \subseteq {"orderly", "racing"} /\ Manners \subseteq {"meek", "stubborn", "stuck"}
  /\ MaxCrashes \in Nat

VARIABLES
  mode,
  pc,         \* how far each daemon process is
  replace,    \* the daemons launched with --replace
  victim,     \* whom a replacing daemon is killing
  sigs,       \* the daemons with a shutdown signal in their channel
  sock,       \* who bound the socket file that is at the path now
  pidFile,    \* the pid file: who created it and what it holds
  pidFd,      \* the pid file each daemon has open: named by its creator
  cmds,       \* the process groups, with what their daemon knows of them
  file,       \* commands.json
  esc,        \* the escalateStaleKill goroutines: <<daemon, command>>
  crashes

vars == <<mode, pc, replace, victim, sigs, sock, pidFile, pidFd, cmds, file, esc, crashes>>
files == <<sock, pidFile, pidFd>>

Starting == {"gate", "probe", "term", "wait", "unlink", "built", "swept", "bind", "pidOpen", "pidWrite"}
Closing  == {"killing", "stop", "unpid", "unsock"}
Dead     == {"closed", "failed", "crashed"}
Alive(d) == pc[d] \in Starting \cup {"serving"} \cup Closing

(* Past the bind and not past the exit. *)
Bound == {d \in Daemons : pc[d] \in {"pidOpen", "pidWrite", "serving"} \cup Closing}

NoPidFile == [by |-> None, pid |-> None]

Phases == {"unborn", "serving"} \cup Starting \cup Closing \cup Dead
CmdType == [group : {"unborn", "leader", "members", "gone", "other", "hit"},
            manner : {"meek", "stubborn", "stuck"},
            owner : Daemons \cup {None},
            known : {"no", "spawned", "held", "exited", "refused"},
            swept : Daemons \cup {None}]

TypeOK ==
  /\ mode \in Modes
  /\ pc \in [Daemons -> Phases]
  /\ replace \subseteq Daemons
  /\ victim \in [Daemons -> Daemons \cup {None}]
  /\ sigs \subseteq {d \in Daemons : Alive(d)}
  /\ sock \in Daemons \cup {None}
  /\ pidFile \in [by : Daemons \cup {None}, pid : Daemons \cup {None, "empty"}]
  /\ pidFile.pid = None <=> pidFile.by = None
  /\ pidFd \in [Daemons -> Daemons \cup {None}]
  /\ cmds \in [Cmds -> CmdType]
  /\ \A c \in Cmds : cmds[c].known = "exited" => cmds[c].group # "leader"
  /\ file \in {None} \cup SUBSET Cmds
  /\ esc \subseteq {d \in Daemons : Alive(d)} \X Cmds
  /\ crashes \in 0..MaxCrashes

(* A command's group: whether its leader lives, whether only other members *)
(* do, whether the pid is someone else's by now ("other"), and whether     *)
(* that someone got a signal meant for the group ("hit").                  *)
Unborn == [group |-> "unborn", manner |-> "meek", owner |-> None, known |-> "no", swept |-> None]
Up(c) == cmds[c].group \in {"leader", "members"}

Init ==
  /\ mode \in Modes
  /\ pc = [d \in Daemons |-> "unborn"] /\ replace = {} /\ victim = [d \in Daemons |-> None]
  /\ sigs = {} /\ sock = None /\ pidFile = NoPidFile /\ pidFd = [d \in Daemons |-> None]
  /\ cmds = [c \in Cmds |-> Unborn] /\ file = None /\ esc = {} /\ crashes = 0

Goto(d, phase) == pc' = [pc EXCEPT ![d] = phase]

(* A signal to a whole group.  A meek one dies of SIGTERM, a stubborn one  *)
(* only of SIGKILL, and a stuck one (uninterruptible sleep) of neither.    *)
Signalled(k, sig) ==
  CASE k.group = "other" -> [k EXCEPT !.group = "hit"]
    [] k.group \in {"leader", "members"} /\ (k.manner = "meek" \/ (k.manner = "stubborn" /\ sig = "kill"))
         -> [k EXCEPT !.group = "gone"]
    [] OTHER -> k

----------------------------------------------------------------------------
(* Launching: NewServer up to the gate.                                    *)

Quiet == sigs = {} /\ \A d \in Daemons : pc[d] \notin Starting \cup Closing

Launch(d, r) ==
  /\ pc[d] = "unborn"
  /\ IF mode = "orderly" THEN Quiet ELSE Cardinality({e \in Daemons : pc[e] # "unborn"}) < MaxRacers
  /\ Goto(d, "gate") /\ replace' = IF r THEN replace \cup {d} ELSE replace
  /\ UNCHANGED <<mode, victim, sigs, files, cmds, file, esc, crashes>>

(* Without --replace the socket file must not exist. *)
StatSocket(d) ==
  /\ pc[d] = "gate" /\ d \notin replace
  /\ Goto(d, IF sock = None THEN "built" ELSE "failed")
  /\ sigs' = IF sock = None THEN sigs ELSE sigs \ {d}
  /\ UNCHANGED <<mode, replace, victim, files, cmds, file, esc, crashes>>

(* killDaemonByPIDFile.  A file with no number in it is removed: no live   *)
(* daemon to kill.                                                         *)
ReadPid(d) ==
  /\ pc[d] = "gate" /\ d \in replace
  /\ IF pidFile.pid \in Daemons
     THEN Goto(d, "probe") /\ victim' = [victim EXCEPT ![d] = pidFile.pid] /\ UNCHANGED pidFile
     ELSE Goto(d, "unlink") /\ pidFile' = NoPidFile /\ UNCHANGED victim
  /\ UNCHANGED <<mode, replace, sigs, sock, pidFd, cmds, file, esc, crashes>>

(* The old daemon is gone: its pid file goes too. *)
VictimGone(d) ==
  /\ Goto(d, "unlink") /\ pidFile' = NoPidFile
  /\ victim' = [victim EXCEPT ![d] = None]
  /\ UNCHANGED <<mode, replace, sigs, sock, pidFd, cmds, file, esc, crashes>>

\* Mutant: the old daemon is taken for dead.
GoneAnyway(v) == TRUE

(* The probe, then SIGTERM, then the wait: each may find it dead. *)
Gone(v) == ~Alive(v)

FindGone(d) == pc[d] \in {"probe", "term", "wait"} /\ Gone(victim[d]) /\ VictimGone(d)

Probe(d) ==
  /\ pc[d] = "probe" /\ ~Gone(victim[d]) /\ Goto(d, "term")
  /\ UNCHANGED <<mode, replace, victim, sigs, files, cmds, file, esc, crashes>>

Terminate(d) ==
  /\ pc[d] = "term" /\ ~Gone(victim[d]) /\ Goto(d, "wait")
  /\ sigs' = IF Alive(victim[d]) THEN sigs \cup {victim[d]} ELSE sigs
  /\ UNCHANGED <<mode, replace, victim, files, cmds, file, esc, crashes>>

(* A process ends: its goroutines, its registry and its signals with it,   *)
(* the files stay.                                                         *)
Ends(d) == sigs' = sigs \ {d} /\ esc' = {e \in esc : e[1] # d}

(* replaceSIGTERMWait is over: SIGKILL, and wait for the death. *)
KillVictim(d) ==
  /\ pc[d] = "wait" /\ ~Gone(victim[d])
  /\ pc' = [pc EXCEPT ![d] = "unlink", ![victim[d]] = "crashed"]
  /\ Ends(victim[d])
  /\ pidFile' = NoPidFile /\ victim' = [victim EXCEPT ![d] = None]
  /\ UNCHANGED <<mode, replace, sock, pidFd, cmds, file, crashes>>

(* os.Remove(sockPath): whoever's it is. *)
Unlinked == None

Unlink(d) ==
  /\ pc[d] = "unlink" /\ Goto(d, "built") /\ sock' = Unlinked
  /\ UNCHANGED <<mode, replace, victim, sigs, pidFile, pidFd, cmds, file, esc, crashes>>

----------------------------------------------------------------------------
(* Run: ReconcileStale, the bind, the pid file.                            *)

(* The registry of d as writeStateLocked writes it: what has not exited.   *)
Running(d, ks) == {c \in Cmds : ks[c].owner = d /\ ks[c].known = "held"}

\* Mutant: whoever has the pid now is taken for the command.
LooksAnyhow(c) == cmds[c].group \in {"leader", "other"}

(* processLooksGraftSpawned: the pid is still the one that was recorded.   *)
LooksGraftSpawned(c) == cmds[c].group = "leader"

(* A leader must look like ours; without a leader the group must have      *)
(* members.                                                                *)
Signallable(c) == LooksGraftSpawned(c) \/ cmds[c].group = "members"

\* Mutant: the group is signalled and forgotten.
EscalatingNot(d, stale) == {}

(* Each group signalled gets an escalateStaleKill goroutine. *)
Escalating(d, stale) == {d} \X stale

(* The entries of the file are signalled.  With no file there is nothing   *)
(* to do, not even the write that follows.                                 *)
ReconcileStale(d) ==
  /\ pc[d] = "built"
  /\ LET stale == IF file = None THEN {} ELSE {c \in file : Signallable(c)} IN
     /\ cmds' = [c \in Cmds |-> IF c \in stale THEN [Signalled(cmds[c], "term") EXCEPT !.swept = d]
                                ELSE cmds[c]]
     /\ esc' = esc \cup Escalating(d, stale)
  /\ Goto(d, IF file = None THEN "bind" ELSE "swept")
  /\ UNCHANGED <<mode, replace, victim, sigs, files, file, crashes>>

(* The record is overwritten while the escalations are still pending. *)
Overwrite(d) ==
  /\ pc[d] = "swept" /\ Goto(d, "bind") /\ file' = Running(d, cmds)
  /\ UNCHANGED <<mode, replace, victim, sigs, files, cmds, esc, crashes>>

(* escalateStaleKill after the grace. *)
EscalateStaleKill(d, c) ==
  /\ <<d, c>> \in esc
  /\ esc' = esc \ {<<d, c>>}
  /\ cmds' = IF Signallable(c) THEN [cmds EXCEPT ![c] = Signalled(@, "kill")] ELSE cmds
  /\ UNCHANGED <<mode, pc, replace, victim, sigs, files, file, crashes>>

(* listenUnixSocket fails when the path exists; the process then ends      *)
(* without Close, and its escalations with it.                             *)
Bind(d) ==
  /\ pc[d] = "bind"
  /\ IF sock = None
     THEN sock' = d /\ Goto(d, "pidOpen") /\ UNCHANGED <<sigs, esc>>
     ELSE Goto(d, "failed") /\ Ends(d) /\ UNCHANGED sock
  /\ UNCHANGED <<mode, replace, victim, pidFile, pidFd, cmds, file, crashes>>

(* os.WriteFile: the file is opened and truncated, then written. *)
OpenPid(d) ==
  /\ pc[d] = "pidOpen" /\ Goto(d, "pidWrite")
  /\ pidFile' = [by |-> IF pidFile.by = None THEN d ELSE pidFile.by, pid |-> "empty"]
  /\ pidFd' = [pidFd EXCEPT ![d] = pidFile'.by]
  /\ UNCHANGED <<mode, replace, victim, sigs, sock, cmds, file, esc, crashes>>

WritePid(d) ==
  /\ pc[d] = "pidWrite" /\ Goto(d, "serving")
  /\ pidFile' = IF pidFile.by = pidFd[d] /\ pidFile # NoPidFile THEN [pidFile EXCEPT !.pid = d] ELSE pidFile
  /\ pidFd' = [pidFd EXCEPT ![d] = None]
  /\ UNCHANGED <<mode, replace, victim, sigs, sock, cmds, file, esc, crashes>>

----------------------------------------------------------------------------
(* Commands: runManagedLocalCommand spawns the process first and registers *)
(* it next; waitAndReap notes the exit.                                    *)

Spawn(d, c, m) ==
  /\ pc[d] \in {"serving", "killing"} /\ cmds[c] = Unborn
  /\ mode = "racing" => Cardinality({k \in Cmds : cmds[k] # Unborn}) < MaxRaceCmds
  /\ cmds' = [cmds EXCEPT ![c] = [Unborn EXCEPT !.group = "leader", !.manner = m, !.owner = d, !.known = "spawned"]]
  /\ UNCHANGED <<mode, pc, replace, victim, sigs, files, file, esc, crashes>>

(* The registry refuses once CloseAll has begun; the handler then kills    *)
(* what it spawned.                                                        *)
Refused(k) == [Signalled(k, "kill") EXCEPT !.known = "refused"]

Register(c) ==
  LET d == cmds[c].owner IN
  /\ cmds[c].known = "spawned" /\ Alive(d)
  /\ IF pc[d] \in Closing
     THEN cmds' = [cmds EXCEPT ![c] = Refused(@)] /\ UNCHANGED file
     ELSE /\ cmds' = [cmds EXCEPT ![c].known = "held"]
          /\ file' = Running(d, cmds')
  /\ UNCHANGED <<mode, pc, replace, victim, sigs, files, esc, crashes>>

(* The leader exits by itself, with or without descendants in its group.   *)
LeaderExits(c) ==
  /\ cmds[c].group = "leader" /\ cmds[c].manner # "stuck"
  /\ \E g \in {"members", "gone"} : cmds' = [cmds EXCEPT ![c].group = g]
  /\ UNCHANGED <<mode, pc, replace, victim, sigs, files, file, esc, crashes>>

(* cmd.Wait has returned. *)
Waited(c) == cmds[c].group \in {"members", "gone"}

(* waitAndReap: the daemon that spawned it waits for the leader. *)
WaitAndReap(c) ==
  /\ cmds[c].known = "held" /\ Waited(c) /\ Alive(cmds[c].owner)
  /\ cmds' = [cmds EXCEPT ![c].known = "exited"]
  /\ file' = Running(cmds[c].owner, cmds')
  /\ UNCHANGED <<mode, pc, replace, victim, sigs, files, esc, crashes>>

(* The pid of a dead leader that was waited for (by its daemon, or by init *)
(* when that is gone) is given to another process.                         *)
Recycle(c) ==
  /\ cmds[c].group = "gone" /\ (cmds[c].known = "exited" \/ ~Alive(cmds[c].owner))
  /\ cmds' = [cmds EXCEPT ![c].group = "other"]
  /\ UNCHANGED <<mode, pc, replace, victim, sigs, files, file, esc, crashes>>

----------------------------------------------------------------------------
(* Shutting down: a signal in the channel, then Close.                     *)

(* SIGINT, SIGTERM, or the Shutdown and Restart calls (killSelf). *)
Stop(d) ==
  /\ Alive(d) /\ d \notin sigs /\ (mode = "orderly" => pc[d] = "serving" /\ Quiet)
  /\ sigs' = sigs \cup {d}
  /\ UNCHANGED <<mode, pc, replace, victim, files, cmds, file, esc, crashes>>

Owned(d) == {c \in Cmds : cmds[c].owner = d /\ cmds[c].known = "held"}

(* CloseAll closes the registry and asks every group to end. *)
CloseAll(d) ==
  /\ pc[d] = "serving" /\ d \in sigs /\ Goto(d, "killing")
  /\ cmds' = [c \in Cmds |-> IF c \in Owned(d) THEN Signalled(cmds[c], "term") ELSE cmds[c]]
  /\ UNCHANGED <<mode, replace, victim, sigs, files, file, esc, crashes>>

(* killGroupWithGrace: SIGKILL once the grace is over. *)
KillRest(d) ==
  /\ pc[d] = "killing" /\ \E c \in Owned(d) : Signalled(cmds[c], "kill") # cmds[c]
  /\ cmds' = [c \in Cmds |-> IF c \in Owned(d) THEN Signalled(cmds[c], "kill") ELSE cmds[c]]
  /\ UNCHANGED <<mode, pc, replace, victim, sigs, files, file, esc, crashes>>

(* Every command is done, or is stuck and abandoned; the record is written *)
(* a last time.                                                            *)
AllDone(d) == \A c \in Owned(d) : cmds[c].manner = "stuck" /\ Up(c)

CloseFinish(d) ==
  /\ pc[d] = "killing" /\ AllDone(d) /\ Goto(d, "stop")
  /\ file' = Running(d, cmds)
  /\ UNCHANGED <<mode, replace, victim, sigs, files, cmds, esc, crashes>>

(* grpcSrv.Stop closes the listener, and closing it unlinks its path. *)
StopServing(d) ==
  /\ pc[d] = "stop" /\ Goto(d, "unpid") /\ sock' = None
  /\ UNCHANGED <<mode, replace, victim, sigs, pidFile, pidFd, cmds, file, esc, crashes>>

(* The deferred removals, the pid file first; then the process is over. *)
RemovePid(d) ==
  /\ pc[d] = "unpid" /\ Goto(d, "unsock") /\ pidFile' = NoPidFile
  /\ UNCHANGED <<mode, replace, victim, sigs, sock, pidFd, cmds, file, esc, crashes>>

RemoveSocket(d) ==
  /\ pc[d] = "unsock" /\ Goto(d, "closed") /\ sock' = None /\ Ends(d)
  /\ UNCHANGED <<mode, replace, victim, pidFile, pidFd, cmds, file, crashes>>

(* The process dies where it stands: killed, out of memory, panicked. *)
Crash(d) ==
  /\ Alive(d) /\ crashes < MaxCrashes
  /\ Goto(d, "crashed") /\ crashes' = crashes + 1 /\ Ends(d)
  /\ UNCHANGED <<mode, replace, victim, files, cmds, file>>

----------------------------------------------------------------------------
Startup(d) ==
  \/ StatSocket(d) \/ ReadPid(d) \/ FindGone(d) \/ Probe(d) \/ Terminate(d) \/ KillVictim(d) \/ Unlink(d)
  \/ ReconcileStale(d) \/ Overwrite(d) \/ Bind(d) \/ OpenPid(d) \/ WritePid(d)

Shutdown(d) ==
  CloseAll(d) \/ KillRest(d) \/ CloseFinish(d) \/ StopServing(d) \/ RemovePid(d) \/ RemoveSocket(d)

Steps ==
  \/ \E d \in Daemons : Startup(d) \/ Shutdown(d) \/ \E c \in Cmds : EscalateStaleKill(d, c)
  \/ \E c \in Cmds : Register(c) \/ WaitAndReap(c)

World ==
  \/ \E d \in Daemons : (\E r \in BOOLEAN : Launch(d, r)) \/ Stop(d) \/ Crash(d)
  \/ \E d \in Daemons, c \in Cmds, m \in Manners : Spawn(d, c, m)
  \/ \E c \in Cmds : LeaderExits(c) \/ Recycle(c)

Next == Steps \/ World
Spec == Init /\ [][Next]_vars

----------------------------------------------------------------------------
(* Properties.                                                             *)

(* No process that is not graft's is ever signalled by the clean-up after  *)
(* a previous daemon, however its pid was recycled: the guards of          *)
(* ReconcileStale and escalateStaleKill (command_registry.go:721, :763).   *)
OnlyOursSignalled == \A c \in Cmds : cmds[c].group # "hit"

(* When daemons are launched one at a time, two of them are never past the *)
(* bind together, whatever crashed in between: --replace ends the old      *)
(* daemon before the new one takes its place (server.go:156).              *)
OneDaemon == mode = "orderly" => \A d, e \in Bound : d = e

(* ... and the daemon that serves is the one the socket path leads to and  *)
(* the pid file names: neither the closing of an older daemon nor a launch *)
(* that failed took them away, so the next --replace finds it.             *)
Reachable ==
  mode = "orderly" => \A d \in Daemons : pc[d] = "serving" => sock = d /\ pidFile.pid = d

(* ... and --replace always replaces: no daemon so launched ends with an   *)
(* error, whatever a crash left behind (server.go:157).                    *)
ReplaceWins == mode = "orderly" => \A d \in replace : pc[d] # "failed"

(* Together: whatever crashed and whoever was replaced, there is one       *)
(* daemon, and it is the one that clients and the next launch will find.   *)
OneServes == TypeOK /\ OneDaemon /\ Reachable /\ ReplaceWins

(* A daemon that shut down in order leaves no registered command running   *)
(* but one that no signal ends (command_registry.go:641).                  *)
ShutdownLeavesNone ==
  \A c \in Cmds : Up(c) /\ cmds[c].owner # None /\ pc[cmds[c].owner] = "closed"
    => cmds[c].manner = "stuck" \/ cmds[c].group = "members" \/ cmds[c].known = "spawned"

(* A command whose daemon died stays on record until a later daemon has    *)
(* signalled it.  The exceptions are a command that its daemon had spawned *)
(* and not registered, or refused to register, and the descendants of a    *)
(* leader that its daemon saw exit.                                        *)
NoneForgotten ==
  mode = "orderly" =>
    \A c \in Cmds : Up(c) /\ cmds[c].known = "held" /\ ~Alive(cmds[c].owner)
      => cmds[c].swept # None \/ (file # None /\ c \in file)

(* While a daemon serves, a command of an older daemon that was on record  *)
(* and still runs is one that no signal ends, or the goroutine that will   *)
(* kill it is pending, or the daemon that signalled it died before it could *)
(* escalate (escalateStaleKill).                                           *)
StaleAreGone ==
  mode = "orderly" =>
    \A d \in Daemons, c \in Cmds :
      pc[d] = "serving" /\ cmds[c].known = "held" /\ ~Alive(cmds[c].owner) /\ Up(c)
        => \/ cmds[c].manner = "stuck"
           \/ <<cmds[c].swept, c>> \in esc
           \/ cmds[c].swept \in {e \in Daemons : ~Alive(e)}

(* No command outlives the daemons that should have ended it, neither one  *)
(* that shut down in order nor one that cleaned up after a crash, and none *)
(* drops out of the record before that.                                    *)
NoneOutlives == ShutdownLeavesNone /\ NoneForgotten /\ StaleAreGone
====
