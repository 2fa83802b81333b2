-------------------------- MODULE IncarnationsProofs --------------------------
(***************************************************************************)
(* Proofs that the invariants of Incarnations hold for any number of daemon *)
(* processes, commands and crashes.                                         *)
(***************************************************************************)
EXTENDS Incarnations, TLAPS

\* Where a daemon is that has served, and what it goes through once it has
\* swept up after the previous one.
Past  == {"serving"} \cup Closing \cup Dead
Late  == {"stop", "unpid", "unsock", "closed"}
After == {"swept", "bind", "pidOpen", "pidWrite", "serving"} \cup Closing

\* A command belongs to a daemon that has served.
Born ==
  \A c \in Cmds :
    \/ cmds[c] = Unborn
    \/ cmds[c].owner \in Daemons /\ pc[cmds[c].owner] \in Past /\ cmds[c].known # "no" /\ cmds[c].group # "unborn"

\* Whom the pid file names, and whom a replacing daemon kills, has served.
Named ==
  /\ pidFile.pid \in Daemons => pc[pidFile.pid] \in Past
  /\ \A d \in Daemons : /\ victim[d] # None => pc[victim[d]] \in Past
                        /\ pc[d] \in {"probe", "term", "wait"} => victim[d] # None

\* Only a daemon that has swept kills what it swept.
Escalates == esc \subseteq {d \in Daemons : pc[d] \in After} \X Cmds

Sound == TypeOK /\ Born /\ Named /\ Escalates

\* The process id of a command is reused only when no daemon will signal it as
\* its own.
Ours ==
  \A c \in Cmds :
    /\ cmds[c].group # "hit"
    /\ cmds[c].group = "other" => cmds[c].known = "exited" \/ ~Alive(cmds[c].owner)

\* What a daemon that shuts down leaves behind no signal ends.
Left ==
  \A c \in Cmds :
    /\ cmds[c].known = "held" /\ pc[cmds[c].owner] \in Late => cmds[c].manner = "stuck"
    /\ cmds[c].known = "refused" /\ cmds[c].group = "leader" => cmds[c].manner = "stuck"

\* A daemon that lives will kill what it has signalled.
Pending ==
  \A c \in Cmds :
    cmds[c].swept # None =>
      /\ pc[cmds[c].swept] \in After \cup Dead
      /\ Alive(cmds[c].swept) /\ Up(c) => cmds[c].manner = "stuck" \/ <<cmds[c].swept, c>> \in esc

-----------------------------------------------------------------------------
(* What a step does to a daemon and to a command.                            *)

\* A daemon that has served goes on towards its end and stays there.
PcMove(d) ==
  /\ pc[d] \in Past => pc'[d] \in Past
  /\ pc[d] \in Dead => pc'[d] = pc[d]
  /\ pc'[d] \in Late => pc[d] \in Late \/ (AllDone(d) /\ cmds' = cmds)
  /\ pc'[d] \in After => pc[d] \in After \/ ReconcileStale(d)
  /\ pc[d] \in After => pc'[d] \in After \cup Dead

\* What happens to a command.
Spawned(c) ==
  /\ cmds[c] = Unborn /\ cmds'[c].group = "leader" /\ cmds'[c].known = "spawned" /\ cmds'[c].swept = None
  /\ cmds'[c].owner \in Daemons /\ pc[cmds'[c].owner] \in {"serving", "killing"} /\ pc' = pc
Changed(c, field) ==
  /\ field # "group" => cmds'[c].group = cmds[c].group
  /\ field # "known" => cmds'[c].known = cmds[c].known
  /\ field # "swept" => cmds'[c].swept = cmds[c].swept
  /\ cmds'[c].manner = cmds[c].manner /\ cmds'[c].owner = cmds[c].owner
Enrolled(c) ==
  /\ cmds[c].known = "spawned" /\ Alive(cmds[c].owner) /\ pc[cmds[c].owner] \notin Closing /\ pc' = pc
  /\ Changed(c, "known") /\ cmds'[c].known = "held" /\ file' = Running(cmds[c].owner, cmds')
Rejected(c) ==
  /\ cmds[c].known = "spawned" /\ Alive(cmds[c].owner)
  /\ cmds'[c] = Refused(cmds[c])
Exited(c) ==
  /\ cmds[c].group = "leader" /\ Changed(c, "group") /\ cmds'[c].group \in {"members", "gone"}
Reaped(c) ==
  /\ cmds[c].group \in {"members", "gone"} /\ Changed(c, "known") /\ cmds'[c].known = "exited"
Recycled(c) ==
  /\ cmds[c].group = "gone" /\ (cmds[c].known = "exited" \/ ~Alive(cmds[c].owner))
  /\ Changed(c, "group") /\ cmds'[c].group = "other"
Killed(c, sig) ==
  \/ Up(c) /\ cmds'[c] = Signalled(cmds[c], sig)
  \/ cmds[c].known = "held" /\ Alive(cmds[c].owner) /\ cmds'[c] = Signalled(cmds[c], sig)
SweptBy(c, d) ==
  Up(c) /\ cmds'[c] = [Signalled(cmds[c], "term") EXCEPT !.swept = d] /\ <<d, c>> \in esc'

CmdMove(c) ==
  \/ cmds'[c] = cmds[c]
  \/ Spawned(c) \/ Enrolled(c) \/ Rejected(c) \/ Exited(c) \/ Reaped(c) \/ Recycled(c)
  \/ \E sig \in {"term", "kill"} : Killed(c, sig)
  \/ \E d \in Daemons : SweptBy(c, d)

\* The constants as the steps below use them.
LEMMA Constants == /\ None \notin Daemons /\ None \notin Cmds /\ None # "empty" /\ "empty" \notin Daemons
                   /\ Modes \subseteq {"orderly", "racing"} /\ Manners \subseteq {"meek", "stubborn", "stuck"}
                   /\ MaxCrashes \in Nat /\ None \notin SUBSET Cmds
BY IncarnationsAssumption

\* Moving one daemon to a later phase.
LEMMA GotoMove ==
  ASSUME TypeOK, NEW d \in Daemons, NEW p \in Phases, Goto(d, p)
  PROVE  pc' \in [Daemons -> Phases] /\ pc'[d] = p /\ \A e \in Daemons : e # d => pc'[e] = pc[e]
BY DEF TypeOK, Goto

\* What a signal does to a group: it ends it, or nothing happens to it, unless
\* its process id is another process's.
LEMMA SignalEffect ==
  ASSUME NEW k \in CmdType, NEW sig \in {"term", "kill"}
  PROVE  /\ Signalled(k, sig) \in CmdType
         /\ Signalled(k, sig).known = k.known /\ Signalled(k, sig).owner = k.owner
         /\ Signalled(k, sig).manner = k.manner /\ Signalled(k, sig).swept = k.swept
         /\ Signalled(k, sig).group \in {k.group, "gone", "hit"}
         /\ Signalled(k, sig).group = "hit" => k.group \in {"other", "hit"}
         /\ Signalled(k, sig).group = "gone" => k.group \in {"leader", "members", "gone"}
         /\ sig = "kill" /\ Signalled(k, sig).group \in {"leader", "members"} => k.manner = "stuck"
<1>1. CASE k.group = "other"
  BY <1>1 DEF Signalled, CmdType
<1>2. CASE k.group \in {"leader", "members"} /\ (k.manner = "meek" \/ (k.manner = "stubborn" /\ sig = "kill"))
  BY <1>2 DEF Signalled, CmdType
<1>3. CASE k.group # "other" /\ ~(k.group \in {"leader", "members"} /\ (k.manner = "meek" \/ (k.manner = "stubborn" /\ sig = "kill")))
  BY <1>3 DEF Signalled, CmdType
<1> QED
  BY <1>1, <1>2, <1>3

\* A step of one daemon alone.
LEMMA StepsMove ==
  ASSUME Sound, NEW d \in Daemons, Startup(d) \/ Shutdown(d), ~KillVictim(d)
  PROVE  /\ pc' \in [Daemons -> Phases]
         /\ \A e \in Daemons : e # d => pc'[e] = pc[e]
         /\ PcMove(d)
<1> USE DEF Starting, Closing, Dead, Past, Late, After, PcMove, Phases
<1>0. TypeOK
  BY DEF Sound
<1>1. CASE StatSocket(d)
  BY <1>0, <1>1 DEF StatSocket, Goto, TypeOK
<1>2. CASE ReadPid(d)
  BY <1>0, <1>2 DEF ReadPid, Goto, TypeOK
<1>3. CASE FindGone(d)
  BY <1>0, <1>3 DEF FindGone, VictimGone, Goto, TypeOK
<1>4. CASE Probe(d)
  BY <1>0, <1>4 DEF Probe, Goto, TypeOK
<1>5. CASE Terminate(d)
  BY <1>0, <1>5 DEF Terminate, Goto, TypeOK
<1>6. CASE Unlink(d)
  BY <1>0, <1>6 DEF Unlink, Goto, TypeOK
<1>7. CASE ReconcileStale(d)
  <2>1. pc[d] = "built" /\ pc' = [pc EXCEPT ![d] = IF file = None THEN "bind" ELSE "swept"]
    BY <1>7 DEF ReconcileStale, Goto
  <2> QED
    BY <1>0, <1>7, <2>1 DEF TypeOK
<1>8. CASE Overwrite(d)
  BY <1>0, <1>8 DEF Overwrite, Goto, TypeOK
<1>9. CASE Bind(d)
  BY <1>0, <1>9 DEF Bind, Goto, TypeOK
<1>10. CASE OpenPid(d)
  BY <1>0, <1>10 DEF OpenPid, Goto, TypeOK
<1>11. CASE WritePid(d)
  BY <1>0, <1>11 DEF WritePid, Goto, TypeOK
<1>12. CASE CloseAll(d)
  BY <1>0, <1>12 DEF CloseAll, Goto, TypeOK
<1>13. CASE KillRest(d)
  BY <1>0, <1>13 DEF KillRest, Goto, TypeOK
<1>14. CASE CloseFinish(d)
  BY <1>0, <1>14 DEF CloseFinish, Goto, TypeOK
<1>15. CASE StopServing(d)
  BY <1>0, <1>15 DEF StopServing, Goto, TypeOK
<1>16. CASE RemovePid(d)
  BY <1>0, <1>16 DEF RemovePid, Goto, TypeOK
<1>17. CASE RemoveSocket(d)
  BY <1>0, <1>17 DEF RemoveSocket, Goto, TypeOK
<1> HIDE DEF Starting, Closing, Dead, Past, Late, After, PcMove, Phases
<1> QED
  BY <1>1, <1>2, <1>3, <1>4, <1>5, <1>6, <1>7, <1>8, <1>9, <1>10, <1>11, <1>12, <1>13, <1>14, <1>15, <1>16, <1>17
     DEF Startup, Shutdown

\* A daemon that does not move.
LEMMA StaysMove ==
  ASSUME NEW d \in Daemons, pc'[d] = pc[d]
  PROVE  PcMove(d)
BY DEF PcMove, Past, Late, After

\* Whom a replacing daemon kills is another daemon that has served, and it
\* lives.
LEMMA VictimServed ==
  ASSUME Sound, NEW d \in Daemons, KillVictim(d)
  PROVE  /\ victim[d] \in Daemons /\ victim[d] # d /\ pc[d] = "wait"
         /\ pc[victim[d]] \in {"serving"} \cup Closing
         /\ pc' \in [Daemons -> Phases]
         /\ pc'[d] = "unlink" /\ pc'[victim[d]] = "crashed"
         /\ \A e \in Daemons : e # d /\ e # victim[d] => pc'[e] = pc[e]
<1>1. /\ pc[d] = "wait" /\ Alive(victim[d])
      /\ pc' = [pc EXCEPT ![d] = "unlink", ![victim[d]] = "crashed"]
  BY DEF KillVictim, Gone
<1>2. victim[d] # None /\ victim[d] \in Daemons /\ pc[victim[d]] \in Past /\ pc \in [Daemons -> Phases]
  BY <1>1 DEF Sound, Named, TypeOK
<1>3. pc[victim[d]] \in {"serving"} \cup Closing
  BY <1>1, <1>2 DEF Alive, Past, Starting, Closing, Dead
<1>4. victim[d] # d
  BY <1>1, <1>3 DEF Closing
<1> QED
  BY <1>1, <1>2, <1>3, <1>4 DEF Phases, Starting, Dead

\* Every step moves the daemons so (server.go, Run and Close).
LEMMA PcMoves ==
  ASSUME Sound, [Next]_vars
  PROVE  pc' \in [Daemons -> Phases] /\ \A d \in Daemons : PcMove(d)
<1>0. pc \in [Daemons -> Phases]
  BY DEF Sound, TypeOK
<1>1. CASE UNCHANGED pc
  BY <1>0, <1>1, StaysMove
<1>2. ASSUME NEW d \in Daemons, KillVictim(d)
      PROVE  pc' \in [Daemons -> Phases] /\ \A e \in Daemons : PcMove(e)
  <2>1. PcMove(d) /\ PcMove(victim[d])
    BY <1>2, VictimServed DEF PcMove, Past, Late, After, Closing, Dead
  <2> QED
    BY <1>2, <2>1, VictimServed, StaysMove
<1>3. ASSUME NEW d \in Daemons, Startup(d) \/ Shutdown(d)
      PROVE  pc' \in [Daemons -> Phases] /\ \A e \in Daemons : PcMove(e)
  BY <1>2, <1>3, StepsMove, StaysMove
<1>4. ASSUME NEW d \in Daemons, NEW r \in BOOLEAN, Launch(d, r)
      PROVE  pc' \in [Daemons -> Phases] /\ \A e \in Daemons : PcMove(e)
  <2>1. pc[d] = "unborn" /\ pc' = [pc EXCEPT ![d] = "gate"]
    BY <1>4 DEF Launch, Goto
  <2>2. PcMove(d)
    BY <1>0, <2>1 DEF PcMove, Past, Late, After, Closing, Dead
  <2> QED
    BY <1>0, <2>1, <2>2, StaysMove DEF Phases, Starting
<1>5. ASSUME NEW d \in Daemons, Crash(d)
      PROVE  pc' \in [Daemons -> Phases] /\ \A e \in Daemons : PcMove(e)
  <2>1. Alive(d) /\ pc' = [pc EXCEPT ![d] = "crashed"]
    BY <1>5 DEF Crash, Goto
  <2>2. PcMove(d)
    BY <1>0, <2>1 DEF PcMove, Past, Late, After, Closing, Dead, Alive, Starting
  <2> QED
    BY <1>0, <2>1, <2>2, StaysMove DEF Phases, Dead
<1>6. ASSUME NEW d \in Daemons, NEW c \in Cmds, EscalateStaleKill(d, c)
      PROVE  UNCHANGED pc
  BY <1>6 DEF EscalateStaleKill
<1>7. ASSUME NEW c \in Cmds, Register(c) \/ WaitAndReap(c) \/ LeaderExits(c) \/ Recycle(c)
      PROVE  UNCHANGED pc
  BY <1>7 DEF Register, WaitAndReap, LeaderExits, Recycle
<1>8. ASSUME NEW d \in Daemons, Stop(d) \/ \E c \in Cmds, m \in Manners : Spawn(d, c, m)
      PROVE  UNCHANGED pc
  BY <1>8, Zenon DEF Stop, Spawn
<1>9. UNCHANGED vars => UNCHANGED pc
  BY DEF vars
<1> QED
  BY <1>1, <1>3, <1>4, <1>5, <1>6, <1>7, <1>8, <1>9 DEF Next, Steps, World

-----------------------------------------------------------------------------
\* Every step changes a command so, and keeps the type of the record.
LEMMA CmdMoves ==
  ASSUME Sound, [Next]_vars
  PROVE  cmds' \in [Cmds -> CmdType] /\ \A c \in Cmds : CmdMove(c)
<1> DEFINE Goal == cmds' \in [Cmds -> CmdType] /\ \A c \in Cmds : CmdMove(c)
<1>0. cmds \in [Cmds -> CmdType]
  BY DEF Sound, TypeOK
<1>1. CASE UNCHANGED cmds
  BY <1>0, <1>1 DEF CmdMove
<1>2. ASSUME NEW d \in Daemons, ReconcileStale(d)
      PROVE  Goal
  <2>1. PICK stale \in SUBSET Cmds :
           /\ \A c \in stale : Up(c)
           /\ cmds' = [c \in Cmds |-> IF c \in stale THEN [Signalled(cmds[c], "term") EXCEPT !.swept = d]
                                      ELSE cmds[c]]
           /\ {d} \X stale \subseteq esc'
    <3>1. file \in {None} \cup SUBSET Cmds
      BY DEF Sound, TypeOK
    <3> DEFINE st == IF file = None THEN {} ELSE {c \in file : Signallable(c)}
    <3>2. st \in SUBSET Cmds /\ \A c \in st : Up(c)
      BY <3>1 DEF Signallable, LooksGraftSpawned, Up
    <3>3. /\ cmds' = [c \in Cmds |-> IF c \in st THEN [Signalled(cmds[c], "term") EXCEPT !.swept = d]
                                     ELSE cmds[c]]
          /\ {d} \X st \subseteq esc'
      BY <1>2 DEF ReconcileStale, Escalating
    <3> QED
      BY <3>2, <3>3, Zenon
  <2>2. ASSUME NEW c \in Cmds
        PROVE  cmds'[c] \in CmdType /\ CmdMove(c)
    <3>1. CASE c \in stale
      <4>1. Signalled(cmds[c], "term") \in CmdType
        BY <1>0, SignalEffect
      <4>2. cmds'[c] = [Signalled(cmds[c], "term") EXCEPT !.swept = d] /\ Up(c) /\ <<d, c>> \in esc'
        BY <2>1, <3>1
      <4>3. cmds'[c] \in CmdType
        BY <4>1, <4>2 DEF CmdType
      <4> QED
        BY <4>2, <4>3 DEF CmdMove, SweptBy
    <3> QED
      BY <1>0, <2>1, <3>1 DEF CmdMove
  <2> QED
    BY <2>1, <2>2, Zenon
<1>3. ASSUME NEW d \in Daemons, NEW sig \in {"term", "kill"}, NEW S \in SUBSET Cmds,
             \A c \in S : Up(c) \/ (cmds[c].known = "held" /\ Alive(cmds[c].owner)),
             cmds' = [c \in Cmds |-> IF c \in S THEN Signalled(cmds[c], sig) ELSE cmds[c]]
      PROVE  Goal
  BY <1>0, <1>3, SignalEffect DEF CmdMove, Killed
<1>4. ASSUME NEW d \in Daemons, CloseAll(d) \/ KillRest(d)
      PROVE  Goal
  <2>1. /\ pc[d] \in {"serving", "killing"}
        /\ \E sig \in {"term", "kill"} :
             cmds' = [c \in Cmds |-> IF c \in Owned(d) THEN Signalled(cmds[c], sig) ELSE cmds[c]]
    BY <1>4 DEF CloseAll, KillRest
  <2>2. Owned(d) \in SUBSET Cmds /\ \A c \in Owned(d) : cmds[c].known = "held" /\ Alive(cmds[c].owner)
    BY <2>1 DEF Owned, Alive, Closing
  <2> QED
    BY <1>3, <2>1, <2>2
<1>5. ASSUME NEW d \in Daemons, NEW c \in Cmds, EscalateStaleKill(d, c)
      PROVE  Goal
  <2>1. CASE Signallable(c)
    <3>1. Up(c) /\ cmds' = [cmds EXCEPT ![c] = Signalled(cmds[c], "kill")]
      BY <1>5, <2>1 DEF EscalateStaleKill, Signallable, LooksGraftSpawned, Up
    <3> QED
      BY <1>0, <3>1, SignalEffect DEF CmdMove, Killed
  <2>2. CASE ~Signallable(c)
    BY <1>1, <1>5, <2>2 DEF EscalateStaleKill
  <2> QED
    BY <2>1, <2>2
<1>6. ASSUME NEW c \in Cmds, NEW k \in CmdType, cmds' = [cmds EXCEPT ![c] = k], CmdMove(c)
      PROVE  Goal
  BY <1>0, <1>6 DEF CmdMove
<1>7. ASSUME NEW c \in Cmds, Register(c)
      PROVE  Goal
  <2>0. cmds[c].known = "spawned" /\ Alive(cmds[c].owner) /\ pc' = pc /\ cmds[c] \in CmdType
    BY <1>0, <1>7 DEF Register
  <2>1. CASE pc[cmds[c].owner] \in Closing
    <3>1. cmds' = [cmds EXCEPT ![c] = Refused(cmds[c])]
      BY <1>7, <2>1 DEF Register
    <3>2. Signalled(cmds[c], "kill") \in CmdType
      BY <2>0, SignalEffect
    <3>3. Refused(cmds[c]) \in CmdType
      BY <3>2 DEF Refused, CmdType
    <3>4. CmdMove(c)
      BY <1>0, <2>0, <3>1 DEF CmdMove, Rejected
    <3> QED
      BY <1>6, <3>1, <3>3, <3>4, Zenon
  <2>2. CASE pc[cmds[c].owner] \notin Closing
    <3>1. cmds' = [cmds EXCEPT ![c] = [cmds[c] EXCEPT !.known = "held"]] /\ file' = Running(cmds[c].owner, cmds')
      BY <1>7, <2>2 DEF Register
    <3>2. [cmds[c] EXCEPT !.known = "held"] \in CmdType
      BY <2>0 DEF CmdType
    <3>3. cmds'[c] = [cmds[c] EXCEPT !.known = "held"]
      BY <1>0, <3>1
    <3>4. Changed(c, "known") /\ cmds'[c].known = "held"
      BY <2>0, <3>3 DEF Changed, CmdType
    <3>5. CmdMove(c)
      BY <2>0, <2>2, <3>1, <3>4 DEF CmdMove, Enrolled
    <3> QED
      BY <1>6, <3>1, <3>2, <3>5, Zenon
  <2> QED
    BY <2>1, <2>2
<1>8. ASSUME NEW c \in Cmds, WaitAndReap(c)
      PROVE  Goal
  <2>1. /\ cmds[c].group \in {"members", "gone"} /\ cmds[c] \in CmdType
        /\ cmds' = [cmds EXCEPT ![c] = [cmds[c] EXCEPT !.known = "exited"]]
    BY <1>0, <1>8 DEF WaitAndReap, Waited
  <2>2. [cmds[c] EXCEPT !.known = "exited"] \in CmdType
    BY <2>1 DEF CmdType
  <2>3. cmds'[c] = [cmds[c] EXCEPT !.known = "exited"]
    BY <1>0, <2>1
  <2>4. Changed(c, "known") /\ cmds'[c].known = "exited"
    BY <2>1, <2>3 DEF Changed, CmdType
  <2> QED
    BY <1>6, <2>1, <2>2, <2>4, Zenon DEF CmdMove, Reaped
<1>9. ASSUME NEW c \in Cmds, LeaderExits(c) \/ Recycle(c)
      PROVE  Goal
  <2>1. PICK g \in {"members", "gone", "other"} : cmds' = [cmds EXCEPT ![c] = [cmds[c] EXCEPT !.group = g]]
                  /\ \/ cmds[c].group = "leader" /\ g \in {"members", "gone"}
                     \/ cmds[c].group = "gone" /\ (cmds[c].known = "exited" \/ ~Alive(cmds[c].owner)) /\ g = "other"
    BY <1>0, <1>9 DEF LeaderExits, Recycle
  <2>2. [cmds[c] EXCEPT !.group = g] \in CmdType /\ cmds[c] \in CmdType
    BY <1>0, <2>1 DEF CmdType
  <2>3. cmds'[c] = [cmds[c] EXCEPT !.group = g]
    BY <1>0, <2>1
  <2>4. Changed(c, "group") /\ cmds'[c].group = g
    BY <2>2, <2>3 DEF Changed, CmdType
  <2>5. CmdMove(c)
    BY <2>1, <2>4 DEF CmdMove, Exited, Recycled
  <2> QED
    BY <1>6, <2>1, <2>2, <2>5, Zenon
<1>10. ASSUME NEW d \in Daemons, NEW c \in Cmds, NEW m \in Manners, Spawn(d, c, m)
       PROVE  Goal
  <2> DEFINE k == [Unborn EXCEPT !.group = "leader", !.manner = m, !.owner = d, !.known = "spawned"]
  <2>1. pc[d] \in {"serving", "killing"} /\ cmds[c] = Unborn /\ pc' = pc /\ cmds' = [cmds EXCEPT ![c] = k]
    BY <1>10 DEF Spawn
  <2>2. m \in {"meek", "stubborn", "stuck"}
    BY Constants
  <2>3. k \in CmdType /\ k.group = "leader" /\ k.known = "spawned" /\ k.swept = None /\ k.owner = d
    BY <2>2, Zenon DEF Unborn, CmdType
  <2>4. cmds'[c] = k
    BY <1>0, <2>1
  <2> HIDE DEF k
  <2> QED
    BY <1>6, <2>1, <2>3, <2>4, Zenon DEF CmdMove, Spawned
<1>11. ASSUME NEW d \in Daemons,
              \/ StatSocket(d) \/ ReadPid(d) \/ FindGone(d) \/ Probe(d) \/ Terminate(d) \/ KillVictim(d) \/ Unlink(d)
              \/ Overwrite(d) \/ Bind(d) \/ OpenPid(d) \/ WritePid(d)
              \/ CloseFinish(d) \/ StopServing(d) \/ RemovePid(d) \/ RemoveSocket(d)
              \/ (\E r \in BOOLEAN : Launch(d, r)) \/ Stop(d) \/ Crash(d)
       PROVE  UNCHANGED cmds
  BY <1>11, Zenon DEF StatSocket, ReadPid, FindGone, VictimGone, Probe, Terminate, KillVictim, Unlink, Overwrite, Bind,
               OpenPid, WritePid, CloseFinish, StopServing, RemovePid, RemoveSocket, Launch, Stop, Crash
<1>12. UNCHANGED vars => UNCHANGED cmds
  BY DEF vars
<1> HIDE DEF Goal
<1>13. Goal
  BY <1>1, <1>2, <1>4, <1>5, <1>7, <1>8, <1>9, <1>10, <1>11, <1>12 DEF Goal, Next, Steps, World, Startup, Shutdown
<1> QED
  BY <1>13 DEF Goal

-----------------------------------------------------------------------------
\* A daemon that ends takes its signals and its goroutines with it; the others
\* keep theirs.
LEMMA SignalsKept ==
  ASSUME Sound, [Next]_vars
  PROVE  sigs' \subseteq {d \in Daemons : Alive(d)}' /\ Escalates'
<1> DEFINE Goal == sigs' \subseteq {d \in Daemons : Alive(d)}' /\ Escalates'
<1>0. /\ pc \in [Daemons -> Phases] /\ sigs \subseteq {d \in Daemons : Alive(d)}
      /\ esc \subseteq {d \in Daemons : pc[d] \in After} \X Cmds
  BY DEF Sound, TypeOK, Escalates
<1>1. ASSUME pc' = pc, sigs' \subseteq {d \in Daemons : Alive(d)}, esc' \subseteq esc
      PROVE  Goal
  BY <1>0, <1>1 DEF Alive, Escalates
<1>2. ASSUME NEW d \in Daemons, NEW p \in Phases, pc' = [pc EXCEPT ![d] = p],
             sigs' \subseteq {e \in Daemons : Alive(e)}, esc' \subseteq esc,
             p \in Dead => d \notin sigs', p \in Dead \cup (Starting \ After) => \A e \in esc' : e[1] # d,
             p # "unborn"
      PROVE  Goal
  <2>1. ASSUME NEW e \in sigs' PROVE e \in Daemons /\ pc'[e] \in Starting \cup {"serving"} \cup Closing
    <3>1. CASE e = d
      BY <1>0, <1>2, <2>1, <3>1 DEF Phases
    <3>2. CASE e # d
      BY <1>0, <1>2, <2>1, <3>2 DEF Alive
    <3> QED
      BY <3>1, <3>2
  <2>2. ASSUME NEW e \in esc' PROVE e \in {x \in Daemons : pc'[x] \in After} \X Cmds
    <3>1. PICK x \in Daemons, c \in Cmds : e = <<x, c>> /\ pc[x] \in After
      BY <1>0, <1>2, <2>2
    <3>2. pc'[x] \in After
      <4>1. CASE x = d
        BY <1>0, <1>2, <2>2, <3>1, <4>1 DEF Phases, After
      <4>2. CASE x # d
        BY <1>0, <1>2, <3>1, <4>2
      <4> QED
        BY <4>1, <4>2
    <3> QED
      BY <3>1, <3>2
  <2> QED
    BY <2>1, <2>2 DEF Alive, Escalates
<1>3. ASSUME NEW d \in Daemons, pc[d] \notin After PROVE \A e \in esc : e[1] # d
  BY <1>0, <1>3
<1> USE DEF Starting, Closing, Dead, After, Phases
<1>4. ASSUME NEW d \in Daemons, StatSocket(d) PROVE Goal
  BY <1>0, <1>2, <1>3, <1>4, Zenon DEF StatSocket, Goto
<1>5. ASSUME NEW d \in Daemons, ReadPid(d) PROVE Goal
  BY <1>0, <1>2, <1>3, <1>5 DEF ReadPid, Goto
<1>6. ASSUME NEW d \in Daemons, FindGone(d) PROVE Goal
  BY <1>0, <1>2, <1>3, <1>6, ZenonT(40) DEF FindGone, VictimGone, Goto
<1>7. ASSUME NEW d \in Daemons, Probe(d) PROVE Goal
  BY <1>0, <1>2, <1>3, <1>7, ZenonT(40) DEF Probe, Goto
<1>8. ASSUME NEW d \in Daemons, Terminate(d) PROVE Goal
  <2>1. victim[d] \in Daemons \cup {None} /\ pc[d] = "term" /\ victim[d] # None
    BY <1>8 DEF Sound, TypeOK, Named, Terminate
  <2>2. sigs' \subseteq {e \in Daemons : Alive(e)} /\ pc' = [pc EXCEPT ![d] = "wait"] /\ esc' = esc
    BY <1>0, <1>8, <2>1 DEF Terminate, Goto
  <2> QED
    BY <1>2, <1>3, <2>1, <2>2, Zenon
<1>9. ASSUME NEW d \in Daemons, Unlink(d) PROVE Goal
  BY <1>0, <1>2, <1>3, <1>9, ZenonT(40) DEF Unlink, Goto
<1>10. ASSUME NEW d \in Daemons, Overwrite(d) PROVE Goal
  BY <1>0, <1>2, <1>10, Zenon DEF Overwrite, Goto
<1>11. ASSUME NEW d \in Daemons, Bind(d) PROVE Goal
  BY <1>0, <1>2, <1>11 DEF Bind, Goto, Ends
<1>12. ASSUME NEW d \in Daemons, OpenPid(d) PROVE Goal
  BY <1>0, <1>2, <1>12, ZenonT(40) DEF OpenPid, Goto
<1>13. ASSUME NEW d \in Daemons, WritePid(d) PROVE Goal
  BY <1>0, <1>2, <1>13, ZenonT(40) DEF WritePid, Goto
<1>14. ASSUME NEW d \in Daemons, CloseAll(d) PROVE Goal
  BY <1>0, <1>2, <1>14, Zenon DEF CloseAll, Goto
<1>15. ASSUME NEW d \in Daemons, KillRest(d) PROVE Goal
  BY <1>0, <1>1, <1>15 DEF KillRest
<1>16. ASSUME NEW d \in Daemons, CloseFinish(d) PROVE Goal
  BY <1>0, <1>2, <1>16, ZenonT(40) DEF CloseFinish, Goto
<1>17. ASSUME NEW d \in Daemons, StopServing(d) PROVE Goal
  BY <1>0, <1>2, <1>17, ZenonT(40) DEF StopServing, Goto
<1>18. ASSUME NEW d \in Daemons, RemovePid(d) PROVE Goal
  BY <1>0, <1>2, <1>18, ZenonT(40) DEF RemovePid, Goto
<1>19. ASSUME NEW d \in Daemons, RemoveSocket(d) PROVE Goal
  BY <1>0, <1>2, <1>19, ZenonT(40) DEF RemoveSocket, Goto, Ends
<1>20. ASSUME NEW d \in Daemons, Crash(d) PROVE Goal
  BY <1>0, <1>2, <1>20, ZenonT(40) DEF Crash, Goto, Ends
<1>21. ASSUME NEW d \in Daemons, NEW r \in BOOLEAN, Launch(d, r) PROVE Goal
  BY <1>0, <1>2, <1>3, <1>21, Zenon DEF Launch, Goto
<1> HIDE DEF Starting, Closing, Dead, After, Phases
<1>22. ASSUME NEW d \in Daemons, KillVictim(d) PROVE Goal
  <2>1. sigs' = sigs \ {victim[d]} /\ esc' = {e \in esc : e[1] # victim[d]}
    BY <1>22 DEF KillVictim, Ends
  <2>2. \A e \in sigs' : Alive(e)'
    BY <1>0, <1>22, <2>1, VictimServed DEF Alive, Starting
  <2>3. pc[d] \notin After
    BY <1>22, VictimServed DEF After, Closing
  <2>4. \A e \in esc' : e[1] # d /\ e[1] # victim[d]
    BY <1>3, <2>1, <2>3
  <2>5. esc' \subseteq {e \in Daemons : pc'[e] \in After} \X Cmds
    BY <1>0, <1>22, <2>1, <2>4, VictimServed
  <2> QED
    BY <1>0, <2>1, <2>2, <2>5 DEF Escalates
<1>23. ASSUME NEW d \in Daemons, ReconcileStale(d) PROVE Goal
  <2>1. pc[d] = "built" /\ pc' = [pc EXCEPT ![d] = IF file = None THEN "bind" ELSE "swept"] /\ sigs' = sigs
    BY <1>23 DEF ReconcileStale, Goto
  <2>2. file \in {None} \cup SUBSET Cmds
    BY DEF Sound, TypeOK
  <2>3. esc' \subseteq esc \cup ({d} \X Cmds)
    BY <1>23, <2>2 DEF ReconcileStale, Escalating
  <2>4. esc' \subseteq {e \in Daemons : pc'[e] \in After} \X Cmds
    BY <1>0, <2>1, <2>3 DEF After
  <2>5. \A e \in sigs' : Alive(e)'
    BY <1>0, <2>1 DEF Alive, Starting
  <2> QED
    BY <1>0, <2>1, <2>4, <2>5 DEF Escalates
<1>24. ASSUME NEW d \in Daemons, Stop(d) PROVE Goal
  BY <1>0, <1>1, <1>24 DEF Stop
<1>25. ASSUME NEW d \in Daemons, NEW c \in Cmds, EscalateStaleKill(d, c) PROVE Goal
  BY <1>0, <1>1, <1>25 DEF EscalateStaleKill
<1>26. ASSUME NEW c \in Cmds, Register(c) \/ WaitAndReap(c) \/ LeaderExits(c) \/ Recycle(c) PROVE Goal
  BY <1>0, <1>1, <1>26 DEF Register, WaitAndReap, LeaderExits, Recycle
<1>27. ASSUME NEW d \in Daemons, NEW c \in Cmds, NEW m \in Manners, Spawn(d, c, m) PROVE Goal
  BY <1>0, <1>1, <1>27 DEF Spawn
<1>28. ASSUME UNCHANGED vars PROVE Goal
  BY <1>0, <1>1, <1>28 DEF vars
<1> HIDE DEF Goal
<1>29. Goal
  BY <1>4, <1>5, <1>6, <1>7, <1>8, <1>9, <1>10, <1>11, <1>12, <1>13, <1>14, <1>15, <1>16, <1>17, <1>18, <1>19, <1>20,
     <1>21, <1>22, <1>23, <1>24, <1>25, <1>26, <1>27, <1>28 DEF Next, Steps, World, Startup, Shutdown
<1> QED
  BY <1>29 DEF Goal

\* A command stays with the daemon that spawned it, and a leader that was waited
\* for is dead.
LEMMA CommandsKept ==
  ASSUME Sound, [Next]_vars
  PROVE  Born' /\ \A c \in Cmds : cmds'[c].known = "exited" => cmds'[c].group # "leader"
<1>1. /\ cmds \in [Cmds -> CmdType] /\ Born
      /\ \A c \in Cmds : cmds[c].known = "exited" => cmds[c].group # "leader"
  BY DEF Sound, TypeOK
<1>2. /\ \A d \in Daemons : pc[d] \in Past => pc'[d] \in Past
      /\ \A c \in Cmds : CmdMove(c)
  BY PcMoves, CmdMoves DEF PcMove
<1>3. ASSUME NEW c \in Cmds
      PROVE  /\ \/ cmds'[c] = Unborn
                \/ cmds'[c].owner \in Daemons /\ pc'[cmds'[c].owner] \in Past
                   /\ cmds'[c].known # "no" /\ cmds'[c].group # "unborn"
             /\ cmds'[c].known = "exited" => cmds'[c].group # "leader"
  <2>0. cmds[c] \in CmdType /\ Unborn.known = "no" /\ Unborn.group = "unborn"
    BY <1>1 DEF Unborn
  <2>1. CASE cmds'[c] = cmds[c]
    BY <1>1, <1>2, <2>1 DEF Born
  <2>2. CASE Spawned(c)
    BY <2>2 DEF Spawned, Past, Closing
  <2>3. CASE Enrolled(c) \/ Exited(c) \/ Reaped(c) \/ Recycled(c)
    BY <1>1, <1>2, <2>0, <2>3 DEF Born, Enrolled, Exited, Reaped, Recycled, Changed
  <2>4. ASSUME NEW sig \in {"term", "kill"}, Killed(c, sig) PROVE cmds'[c] = Signalled(cmds[c], sig) /\ cmds[c] # Unborn
    BY <2>0, <2>4 DEF Killed, Up
  <2>5. ASSUME NEW sig \in {"term", "kill"}, Killed(c, sig)
        PROVE  /\ cmds'[c].owner \in Daemons /\ pc'[cmds'[c].owner] \in Past
               /\ cmds'[c].known # "no" /\ cmds'[c].group # "unborn"
               /\ cmds'[c].known = "exited" => cmds'[c].group # "leader"
    BY <1>1, <1>2, <2>0, <2>4, <2>5, SignalEffect DEF Born
  <2>6. ASSUME NEW d \in Daemons, SweptBy(c, d)
        PROVE  /\ cmds'[c].owner \in Daemons /\ pc'[cmds'[c].owner] \in Past
               /\ cmds'[c].known # "no" /\ cmds'[c].group # "unborn"
               /\ cmds'[c].known = "exited" => cmds'[c].group # "leader"
    <3>1. /\ cmds'[c] = [Signalled(cmds[c], "term") EXCEPT !.swept = d]
          /\ Signalled(cmds[c], "term") \in CmdType /\ cmds[c] # Unborn
      BY <2>0, <2>6, SignalEffect DEF SweptBy, Up
    <3>2. /\ cmds'[c].owner = Signalled(cmds[c], "term").owner
          /\ cmds'[c].known = Signalled(cmds[c], "term").known
          /\ cmds'[c].group = Signalled(cmds[c], "term").group
      BY <3>1 DEF CmdType
    <3> QED
      BY <1>1, <1>2, <2>0, <3>1, <3>2, SignalEffect DEF Born
  <2>7. CASE Rejected(c)
    <3>1. /\ cmds'[c] = [Signalled(cmds[c], "kill") EXCEPT !.known = "refused"] /\ cmds[c].known = "spawned"
          /\ Signalled(cmds[c], "kill") \in CmdType /\ cmds[c] # Unborn
      BY <2>0, <2>7, SignalEffect DEF Rejected, Refused
    <3>2. /\ cmds'[c].owner = Signalled(cmds[c], "kill").owner
          /\ cmds'[c].known = "refused"
          /\ cmds'[c].group = Signalled(cmds[c], "kill").group
      BY <3>1 DEF CmdType
    <3> QED
      BY <1>1, <1>2, <2>0, <3>1, <3>2, SignalEffect DEF Born
  <2> QED
    BY <1>2, <2>1, <2>2, <2>3, <2>5, <2>6, <2>7 DEF CmdMove
<1> QED
  BY <1>3 DEF Born

\* The rest of the state.
RestType ==
  /\ mode \in Modes
  /\ replace \subseteq Daemons
  /\ victim \in [Daemons -> Daemons \cup {None}]
  /\ sock \in Daemons \cup {None}
  /\ pidFile \in [by : Daemons \cup {None}, pid : Daemons \cup {None, "empty"}]
  /\ pidFile.pid = None <=> pidFile.by = None
  /\ pidFd \in [Daemons -> Daemons \cup {None}]
  /\ file \in {None} \cup SUBSET Cmds
  /\ crashes \in 0..MaxCrashes

\* A step keeps the types of the files and of the bookkeeping of a replacement.
LEMMA RestKept ==
  ASSUME Sound, [Next]_vars
  PROVE  RestType'
<1>0. RestType /\ pc \in [Daemons -> Phases]
  BY DEF Sound, TypeOK, RestType
<1>1. NoPidFile \in [by : Daemons \cup {None}, pid : Daemons \cup {None, "empty"}] /\ (NoPidFile.pid = None <=> NoPidFile.by = None)
  BY DEF NoPidFile
<1>2. \A d, ks : Running(d, ks) \in SUBSET Cmds
  BY DEF Running
<1> USE DEF RestType, files
<1>3. ASSUME NEW d \in Daemons, StatSocket(d) PROVE RestType'
  BY <1>0, <1>3 DEF StatSocket
<1>4. ASSUME NEW d \in Daemons, ReadPid(d) PROVE RestType'
  BY <1>0, <1>1, <1>4 DEF ReadPid
<1>5. ASSUME NEW d \in Daemons, FindGone(d) PROVE RestType'
  BY <1>0, <1>1, <1>5 DEF FindGone, VictimGone
<1>6. ASSUME NEW d \in Daemons, Probe(d) \/ Terminate(d) PROVE RestType'
  BY <1>0, <1>6 DEF Probe, Terminate
<1>7. ASSUME NEW d \in Daemons, KillVictim(d) PROVE RestType'
  BY <1>0, <1>1, <1>7 DEF KillVictim
<1>8. ASSUME NEW d \in Daemons, Unlink(d) PROVE RestType'
  BY <1>0, <1>8 DEF Unlink, Unlinked
<1>9. ASSUME NEW d \in Daemons, ReconcileStale(d) PROVE RestType'
  BY <1>0, <1>9 DEF ReconcileStale
<1>10. ASSUME NEW d \in Daemons, Overwrite(d) \/ CloseFinish(d) PROVE RestType'
  BY <1>0, <1>2, <1>10 DEF Overwrite, CloseFinish
<1>11. ASSUME NEW d \in Daemons, Bind(d) PROVE RestType'
  BY <1>0, <1>11 DEF Bind
<1>12. ASSUME NEW d \in Daemons, OpenPid(d) PROVE RestType'
  <2>1. PICK b \in Daemons : pidFile' = [by |-> b, pid |-> "empty"] /\ pidFd' = [pidFd EXCEPT ![d] = b]
    BY <1>0, <1>12, Zenon DEF OpenPid
  <2>2. pidFile' \in [by : Daemons \cup {None}, pid : Daemons \cup {None, "empty"}] /\ pidFile'.pid # None /\ pidFile'.by # None
    BY <2>1, Constants
  <2> QED
    BY <1>0, <1>12, <2>1, <2>2 DEF OpenPid
<1>13. ASSUME NEW d \in Daemons, WritePid(d) PROVE RestType'
  <2>1. CASE pidFile.by = pidFd[d] /\ pidFile # NoPidFile
    <3>1. pidFile' = [pidFile EXCEPT !.pid = d]
      BY <1>13, <2>1 DEF WritePid
    <3>2. pidFile.by # None
      BY <1>0, <2>1 DEF NoPidFile
    <3>3. pidFile' \in [by : Daemons \cup {None}, pid : Daemons \cup {None, "empty"}] /\ pidFile'.pid # None /\ pidFile'.by # None
      BY <1>0, <3>1, <3>2, Constants
    <3> QED
      BY <1>0, <1>13, <3>3 DEF WritePid
  <2>2. CASE ~(pidFile.by = pidFd[d] /\ pidFile # NoPidFile)
    BY <1>0, <1>13, <2>2 DEF WritePid
  <2> QED
    BY <2>1, <2>2
<1>14. ASSUME NEW d \in Daemons, CloseAll(d) \/ KillRest(d) PROVE RestType'
  BY <1>0, <1>14 DEF CloseAll, KillRest
<1>15. ASSUME NEW d \in Daemons, StopServing(d) \/ RemoveSocket(d) PROVE RestType'
  BY <1>0, <1>15 DEF StopServing, RemoveSocket
<1>16. ASSUME NEW d \in Daemons, RemovePid(d) PROVE RestType'
  BY <1>0, <1>1, <1>16 DEF RemovePid
<1>17. ASSUME NEW d \in Daemons, Crash(d) PROVE RestType'
  BY <1>0, <1>17, Constants DEF Crash
<1>18. ASSUME NEW d \in Daemons, NEW r \in BOOLEAN, Launch(d, r) PROVE RestType'
  BY <1>0, <1>18 DEF Launch
<1>19. ASSUME NEW d \in Daemons, Stop(d) PROVE RestType'
  BY <1>0, <1>19 DEF Stop
<1>20. ASSUME NEW d \in Daemons, NEW c \in Cmds, EscalateStaleKill(d, c) \/ \E m \in Manners : Spawn(d, c, m) PROVE RestType'
  BY <1>0, <1>20, Zenon DEF EscalateStaleKill, Spawn
<1>21. ASSUME NEW c \in Cmds, Register(c) \/ WaitAndReap(c) PROVE RestType'
  BY <1>0, <1>2, <1>21 DEF Register, WaitAndReap
<1>22. ASSUME NEW c \in Cmds, LeaderExits(c) \/ Recycle(c) PROVE RestType'
  BY <1>0, <1>22 DEF LeaderExits, Recycle
<1>23. ASSUME UNCHANGED vars PROVE RestType'
  BY <1>0, <1>23 DEF vars
<1> HIDE DEF RestType
<1> QED
  BY <1>3, <1>4, <1>5, <1>6, <1>7, <1>8, <1>9, <1>10, <1>11, <1>12, <1>13, <1>14, <1>15, <1>16, <1>17, <1>18, <1>19, <1>20,
     <1>21, <1>22, <1>23 DEF Next, Steps, World, Startup, Shutdown

\* The pid file names a daemon that serves, and a replacing daemon kills whom it
\* names (server.go, killDaemonByPIDFile).
LEMMA NamedKept ==
  ASSUME Sound, [Next]_vars
  PROVE  Named'
<1>0. /\ pc \in [Daemons -> Phases] /\ victim \in [Daemons -> Daemons \cup {None}] /\ Named
      /\ pidFile \in [by : Daemons \cup {None}, pid : Daemons \cup {None, "empty"}]
  BY DEF Sound, TypeOK
<1>1. \A d \in Daemons : pc[d] \in Past => pc'[d] \in Past
  BY PcMoves DEF PcMove
<1>2. NoPidFile.pid \notin Daemons
  BY Constants DEF NoPidFile
<1>3. ASSUME pidFile' = pidFile, victim' = victim,
             \A d \in Daemons : pc'[d] \in {"probe", "term", "wait"} => pc[d] \in {"probe", "term", "wait"}
      PROVE  Named'
  BY <1>0, <1>1, <1>3 DEF Named
<1>4. ASSUME pidFile'.pid \notin Daemons, \A d \in Daemons : victim'[d] \in {victim[d], None},
             \A d \in Daemons : pc'[d] \in {"probe", "term", "wait"} => pc[d] \in {"probe", "term", "wait"} /\ victim'[d] = victim[d]
      PROVE  Named'
  BY <1>0, <1>1, <1>4 DEF Named
<1>5. ASSUME NEW d \in Daemons, StatSocket(d) \/ Probe(d) \/ Terminate(d) \/ Unlink(d) \/ Overwrite(d) \/ Bind(d) PROVE Named'
  BY <1>0, <1>3, <1>5 DEF StatSocket, Probe, Terminate, Unlink, Overwrite, Bind, Goto, files
<1>6. ASSUME NEW d \in Daemons, CloseAll(d) \/ KillRest(d) \/ CloseFinish(d) \/ StopServing(d) \/ RemoveSocket(d) \/ Crash(d)
      PROVE Named'
  BY <1>0, <1>3, <1>6 DEF CloseAll, KillRest, CloseFinish, StopServing, RemoveSocket, Crash, Goto, files
<1>7. ASSUME NEW d \in Daemons, ReconcileStale(d) PROVE Named'
  <2>1. pc' = [pc EXCEPT ![d] = IF file = None THEN "bind" ELSE "swept"] /\ UNCHANGED <<files, victim>>
    BY <1>7 DEF ReconcileStale, Goto
  <2> QED
    BY <1>0, <1>3, <2>1 DEF files
<1>8. ASSUME NEW d \in Daemons, NEW r \in BOOLEAN, Launch(d, r) PROVE Named'
  BY <1>0, <1>3, <1>8 DEF Launch, Goto, files
<1>9. ASSUME NEW d \in Daemons, ReadPid(d) PROVE Named'
  <2>1. CASE pidFile.pid \in Daemons
    <3>1. pc' = [pc EXCEPT ![d] = "probe"] /\ victim' = [victim EXCEPT ![d] = pidFile.pid] /\ pidFile' = pidFile
      BY <1>9, <2>1 DEF ReadPid, Goto
    <3> QED
      BY <1>0, <1>1, <2>1, <3>1, Constants DEF Named
  <2>2. CASE pidFile.pid \notin Daemons
    <3>1. pc' = [pc EXCEPT ![d] = "unlink"] /\ victim' = victim /\ pidFile' = NoPidFile
      BY <1>9, <2>2 DEF ReadPid, Goto
    <3> QED
      BY <1>0, <1>2, <1>4, <3>1
  <2> QED
    BY <2>1, <2>2
<1>10. ASSUME NEW d \in Daemons, FindGone(d) PROVE Named'
  BY <1>0, <1>2, <1>4, <1>10 DEF FindGone, VictimGone, Goto
<1>11. ASSUME NEW d \in Daemons, KillVictim(d) PROVE Named'
  <2>1. pidFile' = NoPidFile /\ victim' = [victim EXCEPT ![d] = None]
    BY <1>11 DEF KillVictim
  <2> QED
    BY <1>0, <1>2, <1>4, <1>11, <2>1, VictimServed
<1>12. ASSUME NEW d \in Daemons, OpenPid(d) PROVE Named'
  <2>1. pidFile'.pid = "empty" /\ pc' = [pc EXCEPT ![d] = "pidWrite"] /\ victim' = victim
    BY <1>12 DEF OpenPid, Goto
  <2> QED
    BY <1>0, <1>4, <2>1, Constants
<1>13. ASSUME NEW d \in Daemons, WritePid(d) PROVE Named'
  <2>1. pidFile'.pid \in {pidFile.pid, d} /\ pc' = [pc EXCEPT ![d] = "serving"] /\ victim' = victim
    BY <1>0, <1>13 DEF WritePid, Goto
  <2> QED
    BY <1>0, <1>1, <2>1 DEF Named, Past
<1>14. ASSUME NEW d \in Daemons, RemovePid(d) PROVE Named'
  BY <1>0, <1>2, <1>4, <1>14 DEF RemovePid, Goto
<1>15. ASSUME NEW d \in Daemons, Stop(d) PROVE Named'
  BY <1>3, <1>15 DEF Stop, files
<1>16. ASSUME NEW d \in Daemons, NEW c \in Cmds, EscalateStaleKill(d, c) \/ \E m \in Manners : Spawn(d, c, m) PROVE Named'
  BY <1>3, <1>16, Zenon DEF EscalateStaleKill, Spawn, files
<1>17. ASSUME NEW c \in Cmds, Register(c) \/ WaitAndReap(c) \/ LeaderExits(c) \/ Recycle(c) PROVE Named'
  BY <1>3, <1>17 DEF Register, WaitAndReap, LeaderExits, Recycle, files
<1>18. ASSUME UNCHANGED vars PROVE Named'
  BY <1>3, <1>18 DEF vars
<1> QED
  BY <1>5, <1>6, <1>7, <1>8, <1>9, <1>10, <1>11, <1>12, <1>13, <1>14, <1>15, <1>16, <1>17, <1>18
     DEF Next, Steps, World, Startup, Shutdown

\* Together: every step keeps the state sound.
LEMMA SoundKept ==
  ASSUME Sound, [Next]_vars
  PROVE  Sound'
<1>1. esc' \subseteq {d \in Daemons : Alive(d)}' \X Cmds
  BY SignalsKept DEF Escalates, After, Alive, Starting, Closing
<1>2. TypeOK'
  BY <1>1, PcMoves, CmdMoves, CommandsKept, SignalsKept, RestKept DEF TypeOK, RestType
<1> QED
  BY <1>2, CommandsKept, NamedKept, SignalsKept DEF Sound

-----------------------------------------------------------------------------
(* What the signals reach.                                                   *)

\* Alive or dead, and no way back.
LEMMA DeadStays ==
  ASSUME Sound, [Next]_vars, NEW d \in Daemons, pc[d] \in Past, Alive(d)'
  PROVE  Alive(d)
<1>1. pc'[d] \in Starting \cup {"serving"} \cup Closing
  BY DEF Alive
<1>2. pc[d] \notin Dead
  BY <1>1, PcMoves, SMTT(20) DEF PcMove, Starting, Closing, Dead
<1> QED
  BY <1>2 DEF Past, Alive

\* Of the recorded commands a step changes the group, what is known and who swept
\* it, as follows.
CmdEffect(c) ==
  /\ cmds[c] # Unborn => cmds'[c].owner = cmds[c].owner /\ cmds'[c].manner = cmds[c].manner
  /\ cmds'[c].group = "hit" => \/ cmds[c].group = "hit"
                               \/ cmds[c].group = "other" /\ cmds[c].known # "exited" /\ Alive(cmds[c].owner)
  /\ cmds'[c].group = "other" => cmds[c].group = "other" \/ Recycled(c)
  /\ cmds'[c].known = "held" => cmds[c].known = "held" \/ Enrolled(c)
  /\ cmds'[c].known = "refused" => cmds[c].known = "refused" \/ Rejected(c)
  /\ Up(c)' => Up(c) \/ cmds[c] = Unborn
  /\ cmds'[c].group = "leader" => cmds[c].group = "leader" \/ cmds[c] = Unborn
  /\ cmds[c].known = "exited" => cmds'[c].known = "exited"
  /\ cmds[c].swept # None => cmds'[c].swept # None
  /\ cmds'[c].swept # cmds[c].swept => cmds'[c].swept \in Daemons /\ <<cmds'[c].swept, c>> \in esc'

\* Every step has these effects.
LEMMA CmdEffects ==
  ASSUME Sound, [Next]_vars, NEW c \in Cmds
  PROVE  CmdEffect(c)
<1>0. cmds[c] \in CmdType /\ CmdMove(c)
  BY CmdMoves DEF Sound, TypeOK
<1>1. Unborn = [group |-> "unborn", manner |-> "meek", owner |-> None, known |-> "no", swept |-> None]
  BY DEF Unborn
<1> USE DEF CmdEffect, Up
<1>2. CASE cmds'[c] = cmds[c]
  BY <1>2
<1>3. CASE Spawned(c)
  BY <1>1, <1>3 DEF Spawned
<1>4. CASE Enrolled(c)
  BY <1>4, ZenonT(40) DEF Enrolled, Changed
<1>5. CASE Exited(c)
  BY <1>5 DEF Exited, Changed
<1>6. CASE Reaped(c)
  BY <1>6 DEF Reaped, Changed
<1>7. CASE Recycled(c)
  BY <1>7, SMTT(20) DEF Recycled, Changed
<1>8. ASSUME NEW sig \in {"term", "kill"}, Killed(c, sig) PROVE CmdEffect(c)
  <2>1. cmds'[c] = Signalled(cmds[c], sig) /\ (Up(c) \/ (cmds[c].known = "held" /\ Alive(cmds[c].owner)))
    BY <1>8 DEF Killed
  <2> QED
    BY <1>0, <2>1, SignalEffect
<1>9. ASSUME NEW d \in Daemons, SweptBy(c, d) PROVE CmdEffect(c)
  <2>1. /\ cmds'[c] = [Signalled(cmds[c], "term") EXCEPT !.swept = d]
        /\ Signalled(cmds[c], "term") \in CmdType /\ <<d, c>> \in esc' /\ Up(c)
    BY <1>0, <1>9, SignalEffect DEF SweptBy
  <2>2. /\ cmds'[c].owner = Signalled(cmds[c], "term").owner /\ cmds'[c].manner = Signalled(cmds[c], "term").manner
        /\ cmds'[c].known = Signalled(cmds[c], "term").known
        /\ cmds'[c].group = Signalled(cmds[c], "term").group
        /\ cmds'[c].swept = d
    BY <2>1 DEF CmdType
  <2> QED
    BY <1>0, <2>1, <2>2, SignalEffect, Constants
<1>10. CASE Rejected(c)
  <2>1. /\ cmds'[c] = [Signalled(cmds[c], "kill") EXCEPT !.known = "refused"] /\ cmds[c].known = "spawned"
        /\ Signalled(cmds[c], "kill") \in CmdType /\ Alive(cmds[c].owner)
    BY <1>0, <1>10, SignalEffect DEF Rejected, Refused
  <2>2. /\ cmds'[c].owner = Signalled(cmds[c], "kill").owner /\ cmds'[c].manner = Signalled(cmds[c], "kill").manner
        /\ cmds'[c].known = "refused"
        /\ cmds'[c].group = Signalled(cmds[c], "kill").group
        /\ cmds'[c].swept = Signalled(cmds[c], "kill").swept
    BY <2>1 DEF CmdType
  <2> QED
    BY <1>0, <1>10, <2>1, <2>2, SignalEffect
<1> HIDE DEF CmdEffect, Up
<1> QED
  BY <1>0, <1>2, <1>3, <1>4, <1>5, <1>6, <1>7, <1>8, <1>9, <1>10 DEF CmdMove

\* Only what the previous daemons left, and what a daemon holds itself, gets a
\* signal, and neither has a process id that was reused (command_registry.go,
\* processLooksGraftSpawned).
LEMMA OursKept ==
  ASSUME Sound, Ours, [Next]_vars
  PROVE  Ours'
<1> SUFFICES ASSUME NEW c \in Cmds
             PROVE  /\ cmds'[c].group # "hit"
                    /\ cmds'[c].group = "other" => cmds'[c].known = "exited" \/ ~Alive(cmds[c].owner)'
  BY DEF Ours
<1>1. CmdEffect(c) /\ (cmds[c] = Unborn \/ (cmds[c].owner \in Daemons /\ pc[cmds[c].owner] \in Past))
  BY CmdEffects DEF Sound, Born
<1>2. cmds'[c].group # "hit"
  BY <1>1 DEF CmdEffect, Ours
<1>3. ASSUME cmds'[c].group = "other"
      PROVE  cmds'[c].known = "exited" \/ ~Alive(cmds[c].owner)'
  <2>1. cmds[c].group = "other" \/ Recycled(c)
    BY <1>1, <1>3 DEF CmdEffect
  <2>2. cmds[c] # Unborn /\ (cmds[c].known = "exited" \/ ~Alive(cmds[c].owner))
    BY <2>1, SMTT(20) DEF Ours, Recycled, Unborn
  <2>3. cmds'[c].owner = cmds[c].owner /\ (cmds[c].known = "exited" => cmds'[c].known = "exited")
    BY <1>1, <2>2 DEF CmdEffect
  <2> QED
    BY <1>1, <2>2, <2>3, DeadStays
<1> QED
  BY <1>2, <1>3

\* A goroutine that is no longer pending has killed its group, or its daemon has
\* ended (command_registry.go, escalateStaleKill).
LEMMA EscMoves ==
  ASSUME Sound, [Next]_vars, NEW d \in Daemons, NEW c \in Cmds, <<d, c>> \in esc
  PROVE  <<d, c>> \in esc' \/ pc'[d] \in Dead \/ (Up(c)' => cmds[c].manner = "stuck")
<1>0. pc \in [Daemons -> Phases] /\ cmds \in [Cmds -> CmdType]
  BY DEF Sound, TypeOK
<1> DEFINE Goal == <<d, c>> \in esc' \/ pc'[d] \in Dead \/ (Up(c)' => cmds[c].manner = "stuck")
<1>1. ASSUME esc \subseteq esc' PROVE Goal
  BY <1>1
<1>2. ASSUME NEW e \in Daemons, esc' = {x \in esc : x[1] # e}, pc'[e] \in Dead PROVE Goal
  BY <1>2
<1>3. ASSUME NEW e \in Daemons, Bind(e) PROVE Goal
  BY <1>0, <1>1, <1>2, <1>3 DEF Bind, Ends, Goto, Dead
<1>4. ASSUME NEW e \in Daemons, RemoveSocket(e) \/ Crash(e) PROVE Goal
  BY <1>0, <1>2, <1>4 DEF RemoveSocket, Crash, Ends, Goto, Dead
<1>5. ASSUME NEW e \in Daemons, KillVictim(e) PROVE Goal
  <2>1. esc' = {x \in esc : x[1] # victim[e]}
    BY <1>5 DEF KillVictim, Ends
  <2> QED
    BY <1>2, <1>5, <2>1, VictimServed DEF Dead
<1>6. ASSUME NEW e \in Daemons, NEW x \in Cmds, EscalateStaleKill(e, x) PROVE Goal
  <2>1. CASE <<e, x>> # <<d, c>>
    BY <1>6, <2>1 DEF EscalateStaleKill
  <2>2. CASE e = d /\ x = c
    <3>1. CASE Up(c)
      <4>1. cmds'[c] = Signalled(cmds[c], "kill")
        BY <1>0, <1>6, <2>2, <3>1 DEF EscalateStaleKill, Signallable, LooksGraftSpawned, Up
      <4> QED
        BY <1>0, <4>1, SignalEffect DEF Up
    <3>2. CASE ~Up(c)
      BY <1>0, <1>6, <2>2, <3>2 DEF EscalateStaleKill, Signallable, LooksGraftSpawned, Up
    <3> QED
      BY <3>1, <3>2
  <2> QED
    BY <2>1, <2>2
<1>7. ASSUME NEW e \in Daemons, ReconcileStale(e) PROVE Goal
  BY <1>1, <1>7 DEF ReconcileStale
<1>8. ASSUME NEW e \in Daemons,
             \/ StatSocket(e) \/ ReadPid(e) \/ FindGone(e) \/ Probe(e) \/ Terminate(e) \/ Unlink(e)
             \/ Overwrite(e) \/ OpenPid(e) \/ WritePid(e) \/ CloseAll(e) \/ KillRest(e)
             \/ CloseFinish(e) \/ StopServing(e) \/ RemovePid(e)
             \/ (\E r \in BOOLEAN : Launch(e, r)) \/ Stop(e) \/ (\E x \in Cmds, m \in Manners : Spawn(e, x, m))
      PROVE  Goal
  BY <1>1, <1>8, Zenon DEF StatSocket, ReadPid, FindGone, VictimGone, Probe, Terminate, Unlink, Overwrite,
                    OpenPid, WritePid, CloseAll, KillRest, CloseFinish, StopServing, RemovePid, Launch, Stop, Spawn
<1>9. ASSUME NEW x \in Cmds, Register(x) \/ WaitAndReap(x) \/ LeaderExits(x) \/ Recycle(x) PROVE Goal
  BY <1>1, <1>9 DEF Register, WaitAndReap, LeaderExits, Recycle
<1>10. ASSUME UNCHANGED vars PROVE Goal
  BY <1>1, <1>10 DEF vars
<1> HIDE DEF Goal
<1>11. Goal
  BY <1>3, <1>4, <1>5, <1>6, <1>7, <1>8, <1>9, <1>10 DEF Next, Steps, World, Startup, Shutdown
<1> QED
  BY <1>11 DEF Goal

\* A group that was swept is killed while the daemon that swept it lives.
LEMMA PendingKept ==
  ASSUME Sound, Pending, [Next]_vars
  PROVE  Pending'
<1> SUFFICES ASSUME NEW c \in Cmds, cmds'[c].swept # None
             PROVE  /\ pc'[cmds'[c].swept] \in After \cup Dead
                    /\ Alive(cmds[c].swept)' /\ Up(c)' =>
                         cmds'[c].manner = "stuck" \/ <<cmds'[c].swept, c>> \in esc'
  BY DEF Pending
<1>1. CmdEffect(c) /\ cmds[c] \in CmdType /\ Escalates'
  BY CmdEffects, SignalsKept DEF Sound, TypeOK
<1>2. CASE cmds'[c].swept # cmds[c].swept
  BY <1>1, <1>2, ZenonT(40) DEF CmdEffect, Escalates
<1>3. CASE cmds'[c].swept = cmds[c].swept
  <2> DEFINE e == cmds[c].swept
  <2>0. Unborn.swept = None
    BY DEF Unborn
  <2>1. e \in Daemons /\ pc[e] \in After \cup Dead /\ cmds[c] # Unborn
    BY <1>1, <1>3, <2>0, Zenon DEF Pending, CmdType
  <2>2. pc'[e] \in After \cup Dead /\ (pc[e] \in Dead => pc'[e] \in Dead)
    BY <2>1, PcMoves DEF PcMove
  <2>3. ASSUME Alive(cmds[c].swept)', Up(c)'
        PROVE  cmds'[c].manner = "stuck" \/ <<e, c>> \in esc'
    <3>0. pc'[e] \in Starting \cup {"serving"} \cup Closing
      BY <1>3, <2>3 DEF Alive
    <3>1. pc'[e] \notin Dead /\ Up(c) /\ cmds'[c].manner = cmds[c].manner
      BY <1>1, <2>1, <2>3, <3>0 DEF CmdEffect, Starting, Closing, Dead
    <3>2. Alive(e)
      BY <2>1, <2>2, <3>1 DEF Alive, After, Starting
    <3>3. cmds[c].manner = "stuck" \/ <<e, c>> \in esc
      BY <1>3, <3>1, <3>2 DEF Pending
    <3> QED
      BY <2>1, <2>3, <3>1, <3>3, EscMoves
  <2> QED
    BY <1>3, <2>2, <2>3
<1> QED
  BY <1>2, <1>3

\* CloseAll ends what it holds, and the handler what was refused
\* (command_registry.go, CloseAll and killGroupWithGrace).
LEMMA LeftKept ==
  ASSUME Sound, Left, [Next]_vars
  PROVE  Left'
<1> SUFFICES ASSUME NEW c \in Cmds
             PROVE  /\ cmds'[c].known = "held" /\ pc'[cmds'[c].owner] \in Late => cmds'[c].manner = "stuck"
                    /\ cmds'[c].known = "refused" /\ cmds'[c].group = "leader" => cmds'[c].manner = "stuck"
  BY SMTT(20) DEF Left
<1>1. /\ CmdEffect(c) /\ cmds[c] \in CmdType /\ Unborn.known = "no"
      /\ (cmds[c] = Unborn \/ (cmds[c].owner \in Daemons /\ pc[cmds[c].owner] \in Past))
  BY CmdEffects DEF Sound, TypeOK, Born, Unborn
<1>2. ASSUME cmds'[c].known = "held", pc'[cmds'[c].owner] \in Late
      PROVE  cmds'[c].manner = "stuck"
  <2>1. CASE Enrolled(c)
    BY <1>2, <2>1 DEF Enrolled, Changed, Alive, Late, Closing, Starting
  <2>2. CASE cmds[c].known = "held"
    <3>1. cmds'[c].owner = cmds[c].owner /\ cmds'[c].manner = cmds[c].manner /\ cmds[c].owner \in Daemons
      BY <1>1, <2>2 DEF CmdEffect
    <3>2. CASE pc[cmds[c].owner] \in Late
      BY <2>2, <3>1, <3>2 DEF Left
    <3>3. CASE AllDone(cmds[c].owner)
      BY <2>2, <3>1, <3>3 DEF AllDone, Owned
    <3> QED
      BY <1>2, <3>1, <3>2, <3>3, PcMoves DEF PcMove
  <2> QED
    BY <1>1, <1>2, <2>1, <2>2, ZenonT(40) DEF CmdEffect
<1>3. ASSUME cmds'[c].known = "refused", cmds'[c].group = "leader"
      PROVE  cmds'[c].manner = "stuck"
  <2>1. CASE cmds[c].known = "refused"
    BY <1>1, <1>3, <2>1 DEF CmdEffect, Left
  <2>2. CASE Rejected(c)
    <3>1. cmds'[c] = [Signalled(cmds[c], "kill") EXCEPT !.known = "refused"] /\ Signalled(cmds[c], "kill") \in CmdType
      BY <1>1, <2>2, SignalEffect DEF Rejected, Refused
    <3>2. cmds'[c].group = Signalled(cmds[c], "kill").group /\ cmds'[c].manner = Signalled(cmds[c], "kill").manner
      BY <3>1 DEF CmdType
    <3> QED
      BY <1>1, <1>3, <3>2, SignalEffect
  <2> QED
    BY <1>1, <1>3, <2>1, <2>2 DEF CmdEffect
<1> QED
  BY <1>2, <1>3

-----------------------------------------------------------------------------
(* Daemons launched one at a time.                                           *)

\* A daemon that starts while another one has the socket has not got past the
\* gate, or is about to end it.
Meets(d, b) ==
  \/ pc[d] = "gate" /\ pc[b] = "serving" /\ b \notin sigs
  \/ pc[d] \in {"probe", "term"} /\ pc[b] = "serving" /\ b \notin sigs /\ victim[d] = b
  \/ pc[d] = "wait" /\ victim[d] = b

\* At most one daemon starts and at most one has the socket.
Alone ==
  \A d, e \in Daemons : d # e =>
    /\ pc[d] \in Starting => pc[e] \notin Starting
    /\ d \in Bound => e \notin Bound
    /\ pc[d] \in Starting /\ e \in Bound => Meets(d, e)

\* The socket path and the pid file are those of the daemon that has the socket.
Holds ==
  \A d \in Daemons :
    /\ pc[d] \in {"built", "swept", "bind"} => sock = None
    /\ pc[d] \in {"pidOpen", "pidWrite", "serving"} => sock = d
    /\ pc[d] = "pidWrite" => pidFile.by = pidFd[d] /\ pidFile.by # None
    /\ pc[d] = "serving" => pidFile.pid = d
    /\ d \in replace => pc[d] # "failed"

Placed == Alone /\ Holds

\* A starting daemon that has passed the gate and killed nobody is alone.
LEMMA StarterAlone ==
  ASSUME Sound, Alone, NEW d \in Daemons,
         pc[d] \in {"unlink", "built", "swept", "bind", "pidOpen", "pidWrite"}
  PROVE  \A e \in Daemons : e # d => pc[e] \notin Starting /\ e \notin Bound
BY DEF Alone, Meets, Starting

\* A daemon with the socket is the only one.
LEMMA BoundAlone ==
  ASSUME Sound, Alone, NEW d \in Daemons, d \in Bound
  PROVE  \A e \in Daemons : e # d =>
           /\ pc[e] \notin {"built", "swept", "bind", "pidOpen", "pidWrite", "serving"}
           /\ e \notin Bound
BY DEF Alone, Meets, Starting, Bound

\* One daemon moves and there is no other one that starts or has the socket.
LEMMA MovesAlone ==
  ASSUME Sound, NEW d \in Daemons, NEW p \in Phases, pc' = [pc EXCEPT ![d] = p],
         \A e \in Daemons : e # d => pc[e] \notin Starting /\ e \notin Bound
  PROVE  Alone'
<1>1. pc \in [Daemons -> Phases]
  BY DEF Sound, TypeOK
<1> QED
  BY <1>1 DEF Alone, Bound

\* What a daemon holds when nothing of it changes and one daemon moves.
LEMMA MovesHolds ==
  ASSUME Sound, Holds, NEW d \in Daemons, NEW p \in Phases, pc' = [pc EXCEPT ![d] = p],
         UNCHANGED <<sock, pidFile, pidFd, replace>>,
         /\ p \in {"built", "swept", "bind"} => sock = None
         /\ p \in {"pidOpen", "pidWrite", "serving"} => sock = d
         /\ p = "pidWrite" => pidFile.by = pidFd[d] /\ pidFile.by # None
         /\ p = "serving" => pidFile.pid = d
         /\ d \in replace => p # "failed"
  PROVE  Holds'
<1>1. pc \in [Daemons -> Phases]
  BY DEF Sound, TypeOK
<1> QED
  BY <1>1 DEF Holds

\* The steps of a starting daemon (server.go, NewServer and Run).
LEMMA StartupPlaced ==
  ASSUME Sound, Placed, NEW d \in Daemons, Startup(d)
  PROVE  Placed'
<1>0. /\ pc \in [Daemons -> Phases] /\ victim \in [Daemons -> Daemons \cup {None}] /\ Alone /\ Holds
      /\ sock \in Daemons \cup {None}
      /\ pidFile \in [by : Daemons \cup {None}, pid : Daemons \cup {None, "empty"}]
      /\ (pidFile.pid = None <=> pidFile.by = None)
      /\ pidFd \in [Daemons -> Daemons \cup {None}]
  BY DEF Sound, TypeOK, Placed
<1>1. CASE StatSocket(d)
  <2>1. pc[d] = "gate" /\ d \notin replace /\ UNCHANGED <<sock, pidFile, pidFd, replace, victim>>
        /\ pc' = [pc EXCEPT ![d] = IF sock = None THEN "built" ELSE "failed"] /\ sigs' \subseteq sigs
    BY <1>1 DEF StatSocket, Goto, files
  <2>2. Holds'
    BY <1>0, <2>1, MovesHolds, Zenon DEF Phases, Starting, Dead
  <2>3. CASE sock = None
    <3>1. \A e \in Daemons : e # d => pc[e] \notin Starting /\ e \notin Bound
      BY <1>0, <2>1, <2>3, Constants DEF Alone, Meets, Holds, Starting
    <3> QED
      BY <2>1, <2>2, <2>3, <3>1, MovesAlone, ZenonT(40) DEF Placed, Phases, Starting
  <2>4. CASE sock # None
    BY <1>0, <2>1, <2>2, <2>4 DEF Placed, Alone, Meets, Bound, Starting, Closing
  <2> QED
    BY <2>3, <2>4
<1>2. CASE ReadPid(d)
  <2>1. pc[d] = "gate" /\ d \in replace /\ UNCHANGED <<sock, pidFd, replace, sigs>>
    BY <1>2 DEF ReadPid
  <2>2. CASE pidFile.pid \in Daemons
    <3>1. pc' = [pc EXCEPT ![d] = "probe"] /\ pidFile' = pidFile /\ victim' = [victim EXCEPT ![d] = pidFile.pid]
      BY <1>2, <2>2 DEF ReadPid, Goto
    <3>2. Holds'
      BY <1>0, <2>1, <3>1, MovesHolds, Zenon DEF Phases, Starting
    <3>3. \A e \in Daemons : e # d => pc[e] \notin Starting /\ (e \in Bound => Meets(d, e) /\ pidFile.pid = e)
      BY <1>0, <2>1 DEF Alone, Holds, Meets, Starting
    <3>4. Alone'
      BY <1>0, <2>1, <3>1, <3>3 DEF Alone, Meets, Bound, Starting, Closing
    <3> QED
      BY <3>2, <3>4 DEF Placed
  <2>3. CASE pidFile.pid \notin Daemons
    <3>1. pc' = [pc EXCEPT ![d] = "unlink"] /\ pidFile' = NoPidFile
      BY <1>2, <2>3 DEF ReadPid, Goto
    <3>2. \A e \in Daemons : e # d => pc[e] \notin Starting /\ e \notin Bound
      BY <1>0, <2>1, <2>3 DEF Alone, Meets, Holds, Starting
    <3>3. Alone'
      BY <3>1, <3>2, MovesAlone, Zenon DEF Phases, Starting
    <3>4. Holds'
      BY <1>0, <2>1, <3>1, <3>2 DEF Holds, Bound, Starting
    <3> QED
      BY <3>3, <3>4 DEF Placed
  <2> QED
    BY <2>2, <2>3
<1>3. CASE FindGone(d)
  <2>1. /\ pc[d] \in {"probe", "term", "wait"} /\ ~Alive(victim[d]) /\ UNCHANGED <<sock, pidFd, replace, sigs>>
        /\ pc' = [pc EXCEPT ![d] = "unlink"] /\ pidFile' = NoPidFile
    BY <1>3 DEF FindGone, VictimGone, Goto, Gone
  <2>2. \A e \in Daemons : e # d => pc[e] \notin Starting /\ e \notin Bound
    BY <1>0, <2>1 DEF Alone, Meets, Starting, Bound, Alive
  <2>3. Alone'
    BY <2>1, <2>2, MovesAlone, Zenon DEF Phases, Starting
  <2>4. Holds'
    BY <1>0, <2>1, <2>2 DEF Holds, Bound, Starting
  <2> QED
    BY <2>3, <2>4 DEF Placed
<1>4. CASE Probe(d)
  <2>1. pc[d] = "probe" /\ pc' = [pc EXCEPT ![d] = "term"] /\ UNCHANGED <<sock, pidFile, pidFd, replace, victim, sigs>>
    BY <1>4 DEF Probe, Goto, files
  <2>2. Holds'
    BY <1>0, <2>1, MovesHolds, Zenon DEF Phases, Starting
  <2>3. Alone'
    BY <1>0, <2>1 DEF Alone, Meets, Bound, Starting, Closing
  <2> QED
    BY <2>2, <2>3 DEF Placed
<1>5. CASE Terminate(d)
  <2>1. pc[d] = "term" /\ pc' = [pc EXCEPT ![d] = "wait"] /\ UNCHANGED <<sock, pidFile, pidFd, replace, victim>>
    BY <1>5 DEF Terminate, Goto, files
  <2>2. Holds'
    BY <1>0, <2>1, MovesHolds, Zenon DEF Phases, Starting
  <2>3. Alone'
    BY <1>0, <2>1 DEF Alone, Meets, Bound, Starting, Closing
  <2> QED
    BY <2>2, <2>3 DEF Placed
<1>6. CASE KillVictim(d)
  <2>1. UNCHANGED <<sock, pidFd, replace>> /\ pidFile' = NoPidFile
    BY <1>6 DEF KillVictim
  <2>2. \A e \in Daemons : e # d => pc[e] \notin Starting /\ (e \in Bound => e = victim[d])
    BY <1>0, <1>6, VictimServed DEF Alone, Meets, Starting
  <2>3. \A e \in Daemons : e # d => pc'[e] \notin Starting /\ e \notin Bound'
    BY <1>0, <1>6, <2>2, VictimServed DEF Bound, Starting, Closing
  <2>4. Alone' 
    BY <1>6, <2>3, VictimServed DEF Alone, Bound, Closing
  <2>5. Holds'
    BY <1>0, <1>6, <2>1, <2>3, VictimServed DEF Holds, Bound, Starting
  <2> QED
    BY <2>4, <2>5 DEF Placed
<1>7. CASE Unlink(d)
  <2>1. /\ pc[d] = "unlink" /\ pc' = [pc EXCEPT ![d] = "built"] /\ sock' = None
        /\ UNCHANGED <<pidFile, pidFd, replace>>
    BY <1>7 DEF Unlink, Goto, Unlinked
  <2>2. \A e \in Daemons : e # d => pc[e] \notin Starting /\ e \notin Bound
    BY <1>0, <2>1, StarterAlone
  <2>3. Alone'
    BY <2>1, <2>2, MovesAlone, Zenon DEF Phases, Starting
  <2>4. Holds'
    BY <1>0, <2>1, <2>2 DEF Holds, Bound, Starting
  <2> QED
    BY <2>3, <2>4 DEF Placed
<1>8. CASE ReconcileStale(d) \/ Overwrite(d)
  <2>1. PICK p \in {"bind", "swept"} :
          pc[d] \in {"built", "swept"} /\ pc' = [pc EXCEPT ![d] = p] /\ UNCHANGED <<sock, pidFile, pidFd, replace>>
    BY <1>8 DEF ReconcileStale, Overwrite, Goto, files
  <2>2. Holds'
    BY <1>0, <2>1, MovesHolds DEF Phases, Starting, Holds
  <2>3. Alone'
    BY <1>0, <2>1, StarterAlone, MovesAlone, Zenon DEF Phases, Starting
  <2> QED
    BY <2>2, <2>3 DEF Placed
<1>9. CASE Bind(d)
  <2>1. pc[d] = "bind" /\ sock = None /\ sock' = d /\ pc' = [pc EXCEPT ![d] = "pidOpen"] /\ UNCHANGED <<pidFile, pidFd, replace>>
    BY <1>0, <1>9 DEF Bind, Goto, Holds
  <2>2. \A e \in Daemons : e # d => pc[e] \notin Starting /\ e \notin Bound
    BY <1>0, <2>1, StarterAlone
  <2>3. Alone'
    BY <2>1, <2>2, MovesAlone, Zenon DEF Phases, Starting
  <2>4. Holds'
    BY <1>0, <2>1, <2>2 DEF Holds, Bound, Starting
  <2> QED
    BY <2>3, <2>4 DEF Placed
<1>10. CASE OpenPid(d)
  <2>1. /\ pc[d] = "pidOpen" /\ pc' = [pc EXCEPT ![d] = "pidWrite"] /\ UNCHANGED <<sock, replace>>
        /\ pidFd' = [pidFd EXCEPT ![d] = pidFile'.by] /\ pidFile'.by # None
    <3>1. pidFile' = [by |-> IF pidFile.by = None THEN d ELSE pidFile.by, pid |-> "empty"]
      BY <1>10 DEF OpenPid
    <3>2. pidFile'.by # None
      BY <3>1, Constants
    <3> QED
      BY <1>10, <3>2 DEF OpenPid, Goto
  <2>2. \A e \in Daemons : e # d => pc[e] \notin Starting /\ e \notin Bound
    BY <1>0, <2>1, StarterAlone
  <2>3. Alone'
    BY <2>1, <2>2, MovesAlone, Zenon DEF Phases, Starting
  <2>4. Holds'
    BY <1>0, <2>1, <2>2 DEF Holds, Bound, Starting
  <2> QED
    BY <2>3, <2>4 DEF Placed
<1>11. CASE WritePid(d)
  <2>1. pc[d] = "pidWrite" /\ pc' = [pc EXCEPT ![d] = "serving"] /\ UNCHANGED <<sock, replace>>
    BY <1>11 DEF WritePid, Goto
  <2>2. pidFile.by = pidFd[d] /\ pidFile # NoPidFile /\ sock = d
    BY <1>0, <2>1 DEF Holds, NoPidFile
  <2>3. pidFile'.pid = d
    BY <1>0, <1>11, <2>2 DEF WritePid
  <2>4. \A e \in Daemons : e # d => pc[e] \notin Starting /\ e \notin Bound
    BY <1>0, <2>1, StarterAlone
  <2>5. Alone'
    BY <2>1, <2>4, MovesAlone, ZenonT(40) DEF Phases
  <2>6. Holds'
    BY <1>0, <2>1, <2>2, <2>3, <2>4 DEF Holds, Bound, Starting
  <2> QED
    BY <2>5, <2>6 DEF Placed
<1> QED
  BY <1>1, <1>2, <1>3, <1>4, <1>5, <1>6, <1>7, <1>8, <1>9, <1>10, <1>11 DEF Startup

\* The steps of a daemon that shuts down (server.go, Close).
LEMMA ShutdownPlaced ==
  ASSUME Sound, Placed, NEW d \in Daemons, Shutdown(d)
  PROVE  Placed'
<1>0. pc \in [Daemons -> Phases] /\ victim \in [Daemons -> Daemons \cup {None}] /\ Alone /\ Holds
  BY SMTT(20) DEF Sound, TypeOK, Placed
<1>1. ASSUME pc' = pc, UNCHANGED <<sock, pidFile, pidFd, replace, victim, sigs>> PROVE Placed'
  BY <1>0, <1>1 DEF Placed, Alone, Holds, Meets, Bound
<1>2. ASSUME NEW p \in Closing, pc[d] \in {"serving"} \cup Closing, pc[d] = "serving" => d \in sigs,
             pc' = [pc EXCEPT ![d] = p], sigs' = sigs, victim' = victim
      PROVE  Alone'
  BY <1>0, <1>2 DEF Alone, Meets, Bound, Starting, Closing
<1>3. CASE CloseAll(d)
  <2>1. /\ pc[d] = "serving" /\ d \in sigs /\ pc' = [pc EXCEPT ![d] = "killing"]
        /\ UNCHANGED <<sock, pidFile, pidFd, replace, victim, sigs>>
    BY <1>3 DEF CloseAll, Goto, files
  <2>2. Holds'
    BY <1>0, <2>1, MovesHolds, Zenon DEF Phases, Closing
  <2> QED
    BY <1>2, <2>1, <2>2 DEF Placed, Closing
<1>4. CASE KillRest(d)
  BY <1>1, <1>4 DEF KillRest, files
<1>5. CASE CloseFinish(d)
  <2>1. /\ pc[d] = "killing" /\ pc' = [pc EXCEPT ![d] = "stop"]
        /\ UNCHANGED <<sock, pidFile, pidFd, replace, victim, sigs>>
    BY <1>5 DEF CloseFinish, Goto, files
  <2>2. Holds'
    BY <1>0, <2>1, MovesHolds, Zenon DEF Phases, Closing
  <2> QED
    BY <1>2, <2>1, <2>2 DEF Placed, Closing
<1>6. CASE StopServing(d)
  <2>1. /\ pc[d] = "stop" /\ pc' = [pc EXCEPT ![d] = "unpid"] /\ sock' = None
        /\ UNCHANGED <<pidFile, pidFd, replace, victim, sigs>>
    BY <1>6 DEF StopServing, Goto
  <2>2. \A e \in Daemons : e # d => pc[e] \notin {"built", "swept", "bind", "pidOpen", "pidWrite", "serving"}
    BY <1>0, <2>1, BoundAlone DEF Bound, Closing
  <2>3. Holds'
    BY <1>0, <2>1, <2>2 DEF Holds
  <2> QED
    BY <1>2, <2>1, <2>3 DEF Placed, Closing
<1>7. CASE RemovePid(d)
  <2>1. /\ pc[d] = "unpid" /\ pc' = [pc EXCEPT ![d] = "unsock"]
        /\ UNCHANGED <<sock, pidFd, replace, victim, sigs>>
    BY <1>7 DEF RemovePid, Goto
  <2>2. \A e \in Daemons : e # d => pc[e] \notin {"built", "swept", "bind", "pidOpen", "pidWrite", "serving"}
    BY <1>0, <2>1, BoundAlone DEF Bound, Closing
  <2>3. Holds'
    BY <1>0, <2>1, <2>2 DEF Holds
  <2> QED
    BY <1>2, <2>1, <2>3 DEF Placed, Closing
<1>8. CASE RemoveSocket(d)
  <2>1. /\ pc[d] = "unsock" /\ pc' = [pc EXCEPT ![d] = "closed"] /\ sock' = None
        /\ UNCHANGED <<pidFile, pidFd, replace, victim>> /\ sigs' \subseteq sigs
    BY <1>8 DEF RemoveSocket, Goto, Ends
  <2>2. \A e \in Daemons : e # d => pc[e] \notin {"built", "swept", "bind", "pidOpen", "pidWrite", "serving"}
    BY <1>0, <2>1, BoundAlone DEF Bound, Closing
  <2>3. Holds'
    BY <1>0, <2>1, <2>2 DEF Holds
  <2>4. Alone'
    BY <1>0, <2>1 DEF Alone, Meets, Bound, Starting, Closing
  <2> QED
    BY <2>3, <2>4 DEF Placed
<1> QED
  BY <1>3, <1>4, <1>5, <1>6, <1>7, <1>8, SMTT(20) DEF Shutdown

\* Every step keeps the order, when launches and stops come one at a time.
LEMMA PlacedKept ==
  ASSUME Sound, Placed, mode = "orderly", [Next]_vars
  PROVE  Placed'
<1>0. pc \in [Daemons -> Phases] /\ victim \in [Daemons -> Daemons \cup {None}] /\ Alone /\ Holds
  BY SMTT(20) DEF Sound, TypeOK, Placed
<1>1. ASSUME pc' = pc, UNCHANGED <<sock, pidFile, pidFd, replace, victim, sigs>> PROVE Placed'
  BY <1>0, <1>1 DEF Placed, Alone, Holds, Meets, Bound
<1>2. ASSUME NEW d \in Daemons, NEW r \in BOOLEAN, Launch(d, r) PROVE Placed'
  <2>1. /\ pc[d] = "unborn" /\ sigs = {} /\ \A e \in Daemons : pc[e] \notin Starting \cup Closing
        /\ pc' = [pc EXCEPT ![d] = "gate"] /\ replace' \subseteq replace \cup {d}
        /\ UNCHANGED <<sock, pidFile, pidFd, victim, sigs>>
    BY <1>2 DEF Launch, Goto, Quiet, files
  <2>2. Alone'
    BY <1>0, <2>1, SMTT(20) DEF Alone, Meets, Bound, Starting, Closing
  <2>3. Holds'
    BY <1>0, <2>1, SMTT(20) DEF Holds
  <2> QED
    BY <2>2, <2>3 DEF Placed
<1>3. ASSUME NEW d \in Daemons, Stop(d) PROVE Placed'
  <2>1. /\ \A e \in Daemons : pc[e] \notin Starting
        /\ UNCHANGED <<pc, sock, pidFile, pidFd, victim, replace>>
    BY <1>3, Zenon DEF Stop, Quiet, files
  <2> QED
    BY <1>0, <2>1 DEF Placed, Alone, Holds, Bound
<1>4. ASSUME NEW d \in Daemons, Crash(d) PROVE Placed'
  <2>1. /\ pc' = [pc EXCEPT ![d] = "crashed"] /\ sigs' \subseteq sigs
        /\ UNCHANGED <<sock, pidFile, pidFd, victim, replace>>
    BY <1>4 DEF Crash, Goto, Ends, files
  <2>2. Holds'
    BY <1>0, <2>1, MovesHolds, Zenon DEF Phases, Dead
  <2>3. Alone'
    BY <1>0, <2>1 DEF Alone, Meets, Bound, Starting, Closing
  <2> QED
    BY <2>2, <2>3 DEF Placed
<1>5. ASSUME NEW d \in Daemons, NEW c \in Cmds, EscalateStaleKill(d, c) \/ \E m \in Manners : Spawn(d, c, m) PROVE Placed'
  BY <1>1, <1>5, Zenon DEF EscalateStaleKill, Spawn, files
<1>6. ASSUME NEW c \in Cmds, Register(c) \/ WaitAndReap(c) \/ LeaderExits(c) \/ Recycle(c) PROVE Placed'
  BY <1>1, <1>6 DEF Register, WaitAndReap, LeaderExits, Recycle, files
<1>7. ASSUME UNCHANGED vars PROVE Placed'
  BY <1>1, <1>7 DEF vars
<1> QED
  BY <1>2, <1>3, <1>4, <1>5, <1>6, <1>7, StartupPlaced, ShutdownPlaced DEF Next, Steps, World

-----------------------------------------------------------------------------
(* The record of the running commands.                                       *)

\* Who writes commands.json and what: the daemon's own running commands.
Written(d) ==
  /\ pc[d] \in {"swept", "serving"} \cup Closing
  /\ file' = Running(d, cmds')
  /\ \A e \in Daemons : pc'[e] \in Dead => pc[e] \in Dead

\* A command that a living daemon holds is on record.
OnRecord ==
  \A c \in Cmds : cmds[c].known = "held" /\ Alive(cmds[c].owner) => file # None /\ c \in file

\* A command that was on record when its daemon died and that nobody swept.
Lost(c) == cmds[c].known = "held" /\ ~Alive(cmds[c].owner) /\ Up(c) /\ cmds[c].swept = None

\* Such a command stays on record, and there is none left when the next daemon
\* has swept.
Recorded ==
  /\ OnRecord
  /\ \A c \in Cmds : Lost(c) => file # None /\ c \in file
  /\ (\E d \in Daemons : pc[d] \in After) => \A c \in Cmds : ~Lost(c)

\* The file stays as it is or is written by a daemon.
LEMMA FileMoves ==
  ASSUME Sound, [Next]_vars
  PROVE  file' = file \/ \E d \in Daemons : Written(d)
<1>0. pc \in [Daemons -> Phases] /\ cmds \in [Cmds -> CmdType] /\ Born
  BY DEF Sound, TypeOK
<1>1. ASSUME NEW d \in Daemons, Overwrite(d) PROVE Written(d)
  BY <1>0, <1>1 DEF Overwrite, Goto, Written, Dead, Running
<1>2. ASSUME NEW d \in Daemons, CloseFinish(d) PROVE Written(d)
  BY <1>0, <1>2 DEF CloseFinish, Goto, Written, Dead, Closing, Running
<1>3. ASSUME NEW c \in Cmds, Register(c) \/ WaitAndReap(c), file' # file PROVE Written(cmds[c].owner) /\ cmds[c].owner \in Daemons
  <2>0. Unborn.known = "no"
    BY DEF Unborn
  <2>1. cmds[c].known \in {"spawned", "held"} /\ Alive(cmds[c].owner) /\ pc' = pc /\ file' = Running(cmds[c].owner, cmds')
    BY <1>3 DEF Register, WaitAndReap
  <2>2. cmds[c].owner \in Daemons /\ pc[cmds[c].owner] \in Past
    BY <1>0, <2>0, <2>1 DEF Born
  <2>3. pc[cmds[c].owner] \in {"serving"} \cup Closing
    BY <2>1, <2>2 DEF Past, Alive, Starting, Closing, Dead
  <2> QED
    BY <2>1, <2>2, <2>3 DEF Written
<1>4. ASSUME NEW d \in Daemons,
             \/ StatSocket(d) \/ ReadPid(d) \/ FindGone(d) \/ Probe(d) \/ Terminate(d) \/ KillVictim(d) \/ Unlink(d)
             \/ ReconcileStale(d) \/ Bind(d) \/ OpenPid(d) \/ WritePid(d)
             \/ CloseAll(d) \/ KillRest(d) \/ StopServing(d) \/ RemovePid(d) \/ RemoveSocket(d)
             \/ (\E r \in BOOLEAN : Launch(d, r)) \/ Stop(d) \/ Crash(d)
             \/ (\E c \in Cmds : EscalateStaleKill(d, c) \/ \E m \in Manners : Spawn(d, c, m))
      PROVE  file' = file
  BY <1>4, Zenon DEF StatSocket, ReadPid, FindGone, VictimGone, Probe, Terminate, KillVictim, Unlink, ReconcileStale, Bind,
              OpenPid, WritePid, CloseAll, KillRest, StopServing, RemovePid, RemoveSocket, Launch, Stop, Crash,
              EscalateStaleKill, Spawn
<1>5. ASSUME NEW c \in Cmds, LeaderExits(c) \/ Recycle(c) PROVE file' = file
  BY <1>5 DEF LeaderExits, Recycle
<1>6. UNCHANGED vars => file' = file
  BY DEF vars
<1> QED
  BY <1>1, <1>2, <1>3, <1>4, <1>5, <1>6, SMTT(20) DEF Next, Steps, World, Startup, Shutdown

\* A daemon that has swept is alone with the socket or before it.
LEMMA AfterAlone ==
  ASSUME Sound, Placed, NEW d \in Daemons, pc[d] \in After, NEW o \in Daemons, pc[o] \in Past, Alive(o)
  PROVE  o = d
<1>1. o \in Bound
  BY DEF Bound, Past, Alive, Starting, Closing, Dead
<1>2. CASE d \in Bound
  BY <1>1, <1>2, BoundAlone DEF Placed
<1>3. CASE d \notin Bound
  BY <1>1, <1>3, StarterAlone DEF Placed, Bound, After
<1> QED
  BY <1>2, <1>3

\* A command that is lost after a step was lost before it, or its daemon died in
\* the step while it held the command.
LEMMA LostBefore ==
  ASSUME Sound, [Next]_vars, NEW c \in Cmds, Lost(c)'
  PROVE  /\ cmds[c].known = "held" /\ Up(c) /\ cmds[c].swept = None
         /\ cmds[c].owner \in Daemons /\ pc[cmds[c].owner] \in Past
         /\ pc'[cmds[c].owner] \in Dead
         /\ Lost(c) \/ Alive(cmds[c].owner)
<1>1. /\ CmdEffect(c) /\ Unborn.known = "no"
      /\ (cmds[c] = Unborn \/ (cmds[c].owner \in Daemons /\ pc[cmds[c].owner] \in Past))
  BY CmdEffects, ZenonT(40) DEF Sound, Born, Unborn
<1>2. cmds'[c].known = "held" /\ ~Alive(cmds[c].owner)' /\ Up(c)' /\ cmds'[c].swept = None
  BY DEF Lost
<1>3. ~Enrolled(c)
  BY <1>2, ZenonT(40) DEF Enrolled, Changed, Alive
<1>4. cmds[c].known = "held" /\ cmds[c] # Unborn
  BY <1>1, <1>2, <1>3, ZenonT(40) DEF CmdEffect
<1>5. Up(c) /\ cmds[c].swept = None /\ cmds'[c].owner = cmds[c].owner
  BY <1>1, <1>2, <1>4, ZenonT(40) DEF CmdEffect
<1>6. pc'[cmds[c].owner] \in Past
  BY <1>1, <1>4, PcMoves DEF PcMove
<1>7. pc'[cmds[c].owner] \in Dead
  BY <1>2, <1>5, <1>6 DEF Alive, Past
<1> QED
  BY <1>1, <1>4, <1>5, <1>7, ZenonT(40) DEF Lost

\* The record is kept (command_registry.go, writeStateLocked and ReconcileStale).
LEMMA RecordedKept ==
  ASSUME Sound, Placed, Recorded, mode = "orderly", [Next]_vars
  PROVE  Recorded'
<1>0. Sound' /\ Placed' /\ pc \in [Daemons -> Phases]
  BY SoundKept, PlacedKept, Zenon DEF Sound, TypeOK
<1>1. ASSUME NEW c \in Cmds, cmds'[c].known = "held", Alive(cmds[c].owner)'
      PROVE  file' # None /\ c \in file'
  <2>1. /\ CmdEffect(c) /\ Unborn.known = "no"
        /\ (cmds[c] = Unborn \/ (cmds[c].owner \in Daemons /\ pc[cmds[c].owner] \in Past))
    BY CmdEffects, ZenonT(40) DEF Sound, Born, Unborn
  <2>2. cmds[c] # Unborn
    BY <1>1, <2>1, ZenonT(40) DEF CmdEffect, Enrolled
  <2>3. cmds'[c].owner = cmds[c].owner /\ cmds[c].owner \in Daemons /\ pc[cmds[c].owner] \in Past /\ Alive(cmds[c].owner)'
    BY <1>1, <2>1, <2>2, ZenonT(40) DEF CmdEffect
  <2>4. Alive(cmds[c].owner)
    <3>1. pc'[cmds[c].owner] \in Starting \cup {"serving"} \cup Closing
      BY <1>1, <2>3 DEF Alive
    <3>2. pc[cmds[c].owner] \notin Dead
      BY <2>3, <3>1, PcMoves DEF PcMove, Starting, Closing, Dead
    <3> QED
      BY <2>3, <3>2 DEF Past, Alive
  <2>5. ASSUME NEW d \in Daemons, Written(d) PROVE c \in file' /\ file' # None
    <3>1. pc[d] \in After /\ file' = Running(d, cmds')
      BY <2>5 DEF Written, After
    <3>2. cmds[c].owner = d
      BY <2>3, <2>4, <3>1, AfterAlone
    <3>3. c \in file'
      BY <1>1, <2>3, <3>1, <3>2 DEF Running
    <3>4. None \notin SUBSET Cmds
      BY Constants
    <3>5. file' \in SUBSET Cmds
      BY <3>1 DEF Running
    <3> QED
      BY <3>3, <3>4, <3>5
  <2>6. CASE file' = file
    <3>1. CASE cmds[c].known = "held"
      BY <2>4, <2>6, <3>1, ZenonT(40) DEF Recorded, OnRecord
    <3>2. CASE Enrolled(c)
      <4>1. Written(cmds[c].owner)
        <5>1. pc[cmds[c].owner] \in {"serving"} \cup Closing
          BY <2>3, <2>4 DEF Past, Alive, Starting, Closing, Dead
        <5> QED
          BY <3>2, <5>1 DEF Enrolled, Written
      <4> QED
        BY <2>3, <2>5, <4>1, ZenonT(40)
    <3> QED
      BY <1>1, <2>1, <3>1, <3>2, ZenonT(40) DEF CmdEffect
  <2> QED
    BY <2>5, <2>6, FileMoves
<1>2. ASSUME NEW c \in Cmds, Lost(c)'
      PROVE  file' # None /\ c \in file'
  <2>1. CASE file' = file
    BY <1>2, <2>1, LostBefore, ZenonT(40) DEF Recorded, OnRecord
  <2>2. ASSUME NEW d \in Daemons, Written(d) PROVE FALSE
    <3>1. pc[d] \in After /\ (pc'[cmds[c].owner] \in Dead => pc[cmds[c].owner] \in Dead)
      BY <1>2, <2>2, LostBefore, SMTT(20) DEF Written, After
    <3>2. ~Alive(cmds[c].owner)
      BY <1>2, <3>1, LostBefore DEF Alive, Starting, Closing, Dead
    <3> QED
      BY <1>2, <3>1, <3>2, LostBefore, SMTT(20) DEF Recorded
  <2> QED
    BY <2>1, <2>2, FileMoves
<1>3. ASSUME NEW d \in Daemons, pc'[d] \in After, NEW c \in Cmds, Lost(c)'
      PROVE  FALSE
  <2>1. CASE pc[d] \in After
    <3>1. ~Lost(c) /\ Alive(cmds[c].owner)
      BY <1>3, <2>1, LostBefore, SMTT(20) DEF Recorded
    <3>2. cmds[c].owner = d
      BY <1>3, <2>1, <3>1, LostBefore, AfterAlone
    <3> QED
      BY <1>3, <3>2, LostBefore DEF After, Closing, Dead
  <2>2. CASE ReconcileStale(d)
    <3>1. pc'[cmds[c].owner] \in Dead => pc[cmds[c].owner] \in Dead
      <4>1. pc' = [pc EXCEPT ![d] = IF file = None THEN "bind" ELSE "swept"]
        BY <2>2, SMTT(20) DEF ReconcileStale, Goto
      <4> QED
        BY <1>0, <1>3, <4>1, LostBefore DEF Dead
    <3>2. ~Alive(cmds[c].owner)
      BY <1>3, <3>1, LostBefore DEF Alive, Starting, Closing, Dead
    <3>3. file # None /\ c \in file /\ Up(c)
      BY <1>3, <3>2, LostBefore DEF Recorded
    <3>4. cmds'[c] = [Signalled(cmds[c], "term") EXCEPT !.swept = d]
      BY <2>2, <3>3 DEF ReconcileStale, Signallable, LooksGraftSpawned, Up
    <3>5. Signalled(cmds[c], "term") \in CmdType
      BY SignalEffect DEF Sound, TypeOK
    <3>6. cmds'[c].swept = d
      BY <3>4, <3>5 DEF CmdType
    <3> QED
      BY <1>3, <3>6, Constants, SMTT(20) DEF Lost
  <2> QED
    BY <1>3, <2>1, <2>2, PcMoves DEF PcMove
<1>4. OnRecord'
  BY <1>1 DEF OnRecord
<1> QED
  BY <1>2, <1>3, <1>4, ZenonT(40) DEF Recorded

-----------------------------------------------------------------------------
(* The theorems.                                                             *)

IncarnationsInv ==
  /\ Sound /\ Ours /\ Left /\ Pending
  /\ mode = "orderly" => Placed /\ Recorded

\* Nothing has been launched at first.
LEMMA InitInv ==
  ASSUME Init
  PROVE  IncarnationsInv
<1>1. TypeOK
  BY Constants DEF Init, TypeOK, Alive, Phases, CmdType, Unborn, NoPidFile, Starting, Closing, Dead
<1>2. /\ \A c \in Cmds : cmds[c] = Unborn
      /\ \A d \in Daemons : pc[d] = "unborn" /\ victim[d] = None
      /\ pidFile.pid = None /\ replace = {} /\ esc = {}
  BY SMTT(20) DEF Init, NoPidFile
<1>3. Sound
  BY <1>1, <1>2, Constants DEF Sound, Born, Named, Escalates
<1>4. Unborn.group = "unborn" /\ Unborn.known = "no" /\ Unborn.swept = None
  BY DEF Unborn
<1>5. Ours /\ Left /\ Pending
  BY <1>2, <1>4 DEF Ours, Left, Pending
<1>6. Placed
  BY <1>2 DEF Placed, Alone, Holds, Bound, Starting, Closing
<1>7. Recorded
  BY <1>2, <1>4 DEF Recorded, OnRecord, Lost
<1> QED
  BY <1>3, <1>5, <1>6, <1>7 DEF IncarnationsInv

\* The invariant of the daemons of one host holds whatever they do and wherever
\* they crash (server.go, command_registry.go).
THEOREM IncarnationsInvariant == Spec => []IncarnationsInv
<1>1. Init => IncarnationsInv
  BY InitInv
<1>2. IncarnationsInv /\ [Next]_vars => IncarnationsInv'
  <2> SUFFICES ASSUME IncarnationsInv, [Next]_vars PROVE IncarnationsInv'
    OBVIOUS
  <2>1. Sound' /\ Ours' /\ Left' /\ Pending'
    BY SoundKept, OursKept, LeftKept, PendingKept DEF IncarnationsInv
  <2>2. mode' = mode
    BY ZenonT(40) DEF Next, Steps, World, Startup, Shutdown, StatSocket, ReadPid, FindGone, VictimGone, Probe, Terminate,
           KillVictim, Unlink, ReconcileStale, Overwrite, Bind, OpenPid, WritePid, CloseAll, KillRest, CloseFinish,
           StopServing, RemovePid, RemoveSocket, Launch, Stop, Crash, EscalateStaleKill, Spawn, Register, WaitAndReap,
           LeaderExits, Recycle, vars
  <2>3. mode = "orderly" => Placed' /\ Recorded'
    BY PlacedKept, RecordedKept DEF IncarnationsInv
  <2> QED
    BY <2>1, <2>2, <2>3 DEF IncarnationsInv
<1> QED
  BY <1>1, <1>2, PTL DEF Spec

\* No process that is not graft's gets a signal, in whatever order daemons start,
\* crash and clean up and however process ids are reused (command_registry.go,
\* ReconcileStale and escalateStaleKill).
THEOREM SignalsOnlyOurs == Spec => []OnlyOursSignalled
<1>1. IncarnationsInv => OnlyOursSignalled
  BY DEF IncarnationsInv, Ours, OnlyOursSignalled
<1> QED
  BY <1>1, IncarnationsInvariant, PTL

\* With launches one at a time there is one daemon, the socket path and the pid
\* file are its own, and a launch with --replace succeeds, whatever crashed
\* (server.go, NewServer and Run).
THEOREM OneDaemonServes == Spec => []OneServes
<1>1. ASSUME IncarnationsInv PROVE OneServes
  <2>1. TypeOK /\ Reachable /\ ReplaceWins
    BY <1>1 DEF IncarnationsInv, Sound, TypeOK, Placed, Holds, Reachable, ReplaceWins
  <2>2. OneDaemon
    BY <1>1 DEF IncarnationsInv, Placed, Alone, Bound, OneDaemon
  <2> QED
    BY <2>1, <2>2 DEF OneServes
<1> QED
  BY <1>1, IncarnationsInvariant, PTL

\* A daemon that shuts down leaves no command behind, one that was on record when
\* its daemon crashed stays there until it is signalled, and it is killed by the
\* daemon that serves next (command_registry.go, CloseAll, writeStateLocked and
\* escalateStaleKill).
THEOREM NoCommandOutlives == Spec => []NoneOutlives
<1>1. ASSUME IncarnationsInv PROVE NoneOutlives
  <2>0. /\ cmds \in [Cmds -> CmdType] /\ Born /\ Left /\ Pending
        /\ \A c \in Cmds : cmds[c].known = "exited" => cmds[c].group # "leader"
        /\ Unborn.owner = None
    BY <1>1, ZenonT(40) DEF IncarnationsInv, Sound, TypeOK, Unborn
  <2>1. ShutdownLeavesNone
    <3> SUFFICES ASSUME NEW c \in Cmds, Up(c), cmds[c].owner # None, pc[cmds[c].owner] = "closed"
                 PROVE  cmds[c].manner = "stuck" \/ cmds[c].group = "members" \/ cmds[c].known = "spawned"
      BY Zenon DEF ShutdownLeavesNone
    <3>1. cmds[c].known \in {"spawned", "held", "exited", "refused"}
      BY <2>0 DEF Born, CmdType
    <3> QED
      BY <2>0, <3>1, ZenonT(40) DEF Left, Late, Up
  <2>2. NoneForgotten
    BY <1>1 DEF IncarnationsInv, Recorded, Lost, NoneForgotten
  <2>3. ASSUME mode = "orderly", NEW d \in Daemons, NEW c \in Cmds,
               pc[d] = "serving", cmds[c].known = "held", ~Alive(cmds[c].owner), Up(c)
        PROVE  \/ cmds[c].manner = "stuck"
               \/ <<cmds[c].swept, c>> \in esc
               \/ cmds[c].swept \in {e \in Daemons : ~Alive(e)}
    <3>1. ~Lost(c)
      BY <1>1, <2>3 DEF IncarnationsInv, Recorded, After
    <3>2. cmds[c].swept \in Daemons
      BY <2>0, <2>3, <3>1 DEF Lost, CmdType
    <3> QED
      BY <2>0, <2>3, <3>2, Constants DEF Pending
  <2> QED
    BY <2>1, <2>2, <2>3, ZenonT(40) DEF NoneOutlives, StaleAreGone
<1> QED
  BY <1>1, IncarnationsInvariant, PTL
===============================================================================
