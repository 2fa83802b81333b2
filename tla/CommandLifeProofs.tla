--------------------------- MODULE CommandLifeProofs ---------------------------
(***************************************************************************)
(* Proofs that the invariants of CommandLife hold for any number of         *)
(* clients and attachments and any combination of kill causes.              *)
(***************************************************************************)
EXTENDS CommandLife, TLAPS

\* A handle nobody got from attach() yet was never canceled.
FreshHandles == \A h \in Handles : handle[h].state = "free" => ~handle[h].canceled

\* A process is waited for only after it exited, and a killer that is done
\* left no process behind.
DeadOnceReaped ==
  /\ reap # "wait" => ~alive
  /\ \A k \in Causes : killer[k] = "done" => ~alive
  /\ closing = "waiting" => "close" \in Causes

\* The conjunction that is inductive.
LifeInv ==
  /\ TypeOK
  /\ SoleHolder
  /\ PendingKillAbandoned
  /\ ForgottenOnlyExited
  /\ FreshHandles
  /\ DeadOnceReaped
  /\ NoOrphans

-----------------------------------------------------------------------------
\* Init establishes the invariant: the start stream's handle holds the command.
LEMMA LifeInit == Init => LifeInv
<1> SUFFICES ASSUME Init PROVE LifeInv
  OBVIOUS
<1> USE LifeAssumption DEF Init, Free, Away
<1>1. TypeOK
  BY DEF TypeOK, HandleType, ClientType
<1>2. SoleHolder /\ FreshHandles
  BY DEF SoleHolder, FreshHandles
<1>3. PendingKillAbandoned /\ ForgottenOnlyExited /\ DeadOnceReaped /\ NoOrphans
  BY DEF PendingKillAbandoned, ForgottenOnlyExited, DeadOnceReaped, NoOrphans
<1> QED
  BY <1>1, <1>2, <1>3 DEF LifeInv

\* Canceling the current handle keeps the type of the handles.
LEMMA CancelType ==
  ASSUME handle \in [Handles -> HandleType]
  PROVE  CancelCurrent \in [Handles -> HandleType]
BY DEF CancelCurrent, HandleType

\* Every step keeps every variable in its type.
LEMMA LifeType == TypeOK /\ [Next]_vars => TypeOK'
<1> SUFFICES ASSUME TypeOK, [Next]_vars PROVE TypeOK'
  OBVIOUS
<1> USE LifeAssumption DEF TypeOK
<1>1. ASSUME NEW c \in Clients, NEW h \in Handles, Attach(c, h) PROVE TypeOK'
  <2>1. CancelCurrent \in [Handles -> HandleType]
    BY CancelType
  <2>2. handle' \in [Handles -> HandleType]
    BY <1>1, <2>1 DEF Attach, HandleType
  <2>3. client' \in [Clients -> ClientType]
    BY <1>1 DEF Attach, ClientType
  <2> QED
    BY <1>1, <2>2, <2>3 DEF Attach, TimerStopped
<1>2. ASSUME NEW h \in Handles, ServeInterrupted(h) PROVE TypeOK'
  <2>1. handle' \in [Handles -> HandleType]
    BY <1>2 DEF ServeInterrupted, HandleType
  <2> QED
    BY <1>2, <2>1 DEF ServeInterrupted, ClientGone, Arms
<1>3. ASSUME NEW h \in Handles, ServeExit(h) PROVE TypeOK'
  <2>1. handle' \in [Handles -> HandleType]
    BY <1>3 DEF ServeExit, HandleType
  <2>2. client' \in [Clients -> ClientType]
    <3>1. \A c \in Clients : [client[c] EXCEPT !.pc = "ended"] \in ClientType
      BY DEF ClientType
    <3>2. CASE UNCHANGED client
      BY <3>2
    <3>3. CASE client' = [c \in Clients |-> IF client[c].pc = "attached" /\ client[c].at = h
                                            THEN [client[c] EXCEPT !.pc = "ended"] ELSE client[c]]
      BY <3>1, <3>3
    <3> QED
      BY <1>3, <3>2, <3>3 DEF ServeExit
  <2> QED
    BY <1>3, <2>1, <2>2 DEF ServeExit, ClientGone, Arms
<1>4. ASSUME NEW h \in Handles, Break(h) PROVE TypeOK'
  <2>1. handle' \in [Handles -> HandleType]
    BY <1>4 DEF Break, HandleType
  <2> QED
    BY <1>4, <2>1 DEF Break
<1>5. ASSUME NEW c \in Clients, ClientError(c) \/ ClientNotFound(c) PROVE TypeOK'
  <2>1. client' \in [Clients -> ClientType]
    BY <1>5 DEF ClientError, ClientNotFound, ClientType
  <2> QED
    BY <1>5, <2>1 DEF ClientError, ClientNotFound
<1>6. ASSUME NEW c \in Clients, Leave(c) PROVE TypeOK'
  <2>1. client' \in [Clients -> ClientType]
    BY <1>6 DEF Leave, KillRequested, ClientType
  <2>2. handle' \in [Handles -> HandleType]
    <3>1. \A h \in Handles : [handle[h] EXCEPT !.link = FALSE] \in HandleType
      BY DEF HandleType
    <3>2. \A h \in Handles : handle'[h] \in {handle[h], [handle[h] EXCEPT !.link = FALSE]}
      BY <1>6 DEF Leave, KillRequested
    <3>3. handle' = [h \in Handles |-> handle'[h]]
      BY <1>6 DEF Leave, KillRequested
    <3> QED
      BY <3>1, <3>2, <3>3
  <2> QED
    BY <1>6, <2>1, <2>2 DEF Leave, KillRequested
<1>7. CASE UserKill
  BY <1>7 DEF UserKill, KillRequested
<1>8. CASE TimerFires
  BY <1>8 DEF TimerFires
<1>9. ASSUME NEW k \in Causes, KillCommand(k) \/ KillCheck(k) \/ KillTerm(k) \/ KillEscalate(k)
      PROVE  TypeOK'
  <2>1. killer' \in [Causes -> {"idle", "request", "check", "term", "grace", "done"}]
    BY <1>9 DEF KillCommand, KillCheck, KillTerm, KillEscalate
  <2>2. alive' \in BOOLEAN /\ listed' \in BOOLEAN
    BY <1>9 DEF KillCommand, KillCheck, KillTerm, KillEscalate
  <2>4. UNCHANGED <<policy, reap, current, timer, handle, client, closing>>
    BY <1>9 DEF KillCommand, KillCheck, KillTerm, KillEscalate
  <2> QED
    BY <2>1, <2>2, <2>4
<1>10. CASE ProcExit \/ ReapWait \/ ReapRecord \/ ReapForget \/ ReapExited
  BY <1>10 DEF ProcExit, ReapWait, ReapRecord, ReapForget, ReapExited
<1>11. CASE DetachAndKeep
  <2>1. CancelCurrent \in [Handles -> HandleType]
    BY CancelType
  <2> QED
    BY <1>11, <2>1 DEF DetachAndKeep
<1>12. CASE CloseAll \/ CloseAllDone
  BY <1>12 DEF CloseAll, CloseAllDone
<1>13. CASE UNCHANGED vars
  BY <1>13 DEF vars
<1> QED
  BY <1>1, <1>2, <1>3, <1>4, <1>5, <1>6, <1>7, <1>8, <1>9, <1>10, <1>11, <1>12, <1>13
  DEF Next, Daemon

-----------------------------------------------------------------------------
\* At most one handler holds the command: what attach, ClientGone and
\* DetachAndKeep do to the handles.  No other step touches what the two
\* predicates read, except that streams break.
LEMMA LifeHolder ==
  TypeOK /\ SoleHolder /\ FreshHandles /\ [Next]_vars => (SoleHolder /\ FreshHandles)'
<1> SUFFICES ASSUME TypeOK, SoleHolder, FreshHandles, [Next]_vars
             PROVE  (SoleHolder /\ FreshHandles)'
  OBVIOUS
<1> DEFINE Same(f) == \A h \in Handles : f[h].state = handle[h].state /\ f[h].canceled = handle[h].canceled
<1>0. handle \in [Handles -> HandleType]
  BY DEF TypeOK
<1>1. ASSUME NEW c \in Clients, NEW h \in Handles, Attach(c, h)
      PROVE  (SoleHolder /\ FreshHandles)'
  <2>1. handle[h].state = "free" /\ ~handle[h].canceled /\ h # current /\ current' = h
    BY <1>1 DEF Attach, SoleHolder, FreshHandles
  <2>2. handle' = [CancelCurrent EXCEPT ![h].state = "serving"]
    BY <1>1 DEF Attach
  <2>3. handle'[h] = [handle[h] EXCEPT !.state = "serving"]
    BY <2>1, <2>2 DEF CancelCurrent
  <2>4. handle'[h].state = "serving" /\ ~handle'[h].canceled
    BY <1>0, <2>1, <2>3 DEF HandleType
  <2>5. ASSUME NEW g \in Handles, g # h
        PROVE  /\ g = current => handle'[g] = [handle[g] EXCEPT !.canceled = TRUE]
               /\ g # current => handle'[g] = handle[g]
    BY <2>2, <2>5 DEF CancelCurrent
  <2>6. ASSUME NEW g \in Handles, g # h
        PROVE  /\ ~(handle'[g].state = "serving" /\ ~handle'[g].canceled)
               /\ handle'[g].state = "free" => ~handle'[g].canceled
    <3>1. CASE g = current
      BY <1>0, <2>5, <2>6, <3>1 DEF SoleHolder, HandleType
    <3>2. CASE g # current
      BY <2>5, <2>6, <3>2 DEF SoleHolder, FreshHandles
    <3> QED
      BY <3>1, <3>2
  <2> QED
    BY <2>1, <2>4, <2>6 DEF SoleHolder, FreshHandles
<1>2. ASSUME NEW h \in Handles, ServeInterrupted(h) \/ ServeExit(h)
      PROVE  (SoleHolder /\ FreshHandles)'
  <2>1. /\ handle' = [handle EXCEPT ![h].state = "ended"]
        /\ current' = IF current = h THEN None ELSE current
    BY <1>2 DEF ServeInterrupted, ServeExit, ClientGone
  <2>2. handle'[h].state = "ended"
    BY <1>0, <2>1 DEF HandleType
  <2>3. \A g \in Handles \ {h} : handle'[g] = handle[g]
    BY <1>0, <2>1
  <2> QED
    BY <2>1, <2>2, <2>3, LifeAssumption DEF SoleHolder, FreshHandles
<1>3. ASSUME Same(handle'), current' = current
      PROVE  (SoleHolder /\ FreshHandles)'
  BY <1>3 DEF SoleHolder, FreshHandles
<1>4. ASSUME NEW h \in Handles, Break(h) PROVE (SoleHolder /\ FreshHandles)'
  <2>1. Same(handle') /\ current' = current
    BY <1>0, <1>4 DEF Break, HandleType
  <2> QED
    BY <1>3, <2>1
<1>5. ASSUME NEW c \in Clients, Leave(c) PROVE (SoleHolder /\ FreshHandles)'
  <2>1. Same(handle') /\ current' = current
    BY <1>0, <1>5 DEF Leave, KillRequested, HandleType
  <2> QED
    BY <1>3, <2>1
<1>6. CASE DetachAndKeep
  <2>1. handle' = CancelCurrent /\ current' = None
    BY <1>6 DEF DetachAndKeep
  <2>2. ASSUME NEW g \in Handles
        PROVE  /\ ~(handle'[g].state = "serving" /\ ~handle'[g].canceled)
               /\ handle'[g].state = "free" => ~handle'[g].canceled
    <3>1. CASE g = current
      <4>1. handle'[g] = [handle[g] EXCEPT !.canceled = TRUE]
        BY <2>1, <3>1 DEF CancelCurrent
      <4> QED
        BY <1>0, <3>1, <4>1 DEF SoleHolder, HandleType
    <3>2. CASE g # current
      <4>1. handle'[g] = handle[g]
        BY <2>1, <3>2 DEF CancelCurrent
      <4> QED
        BY <3>2, <4>1 DEF SoleHolder, FreshHandles
    <3> QED
      BY <3>1, <3>2
  <2> QED
    BY <2>1, <2>2, LifeAssumption DEF SoleHolder, FreshHandles
<1>7. ASSUME UNCHANGED <<handle, current>> PROVE (SoleHolder /\ FreshHandles)'
  BY <1>7 DEF SoleHolder, FreshHandles
<1>8. CASE \E c \in Clients : ClientError(c) \/ ClientNotFound(c)
  BY <1>7, <1>8 DEF ClientError, ClientNotFound
<1>9. CASE \E k \in Causes : KillCommand(k) \/ KillCheck(k) \/ KillTerm(k) \/ KillEscalate(k)
  BY <1>7, <1>9 DEF KillCommand, KillCheck, KillTerm, KillEscalate
<1>10. CASE UserKill \/ TimerFires \/ CloseAll \/ CloseAllDone
  BY <1>7, <1>10 DEF UserKill, KillRequested, TimerFires, CloseAll, CloseAllDone
<1>11. CASE ProcExit \/ ReapWait \/ ReapRecord \/ ReapForget \/ ReapExited
  BY <1>7, <1>11 DEF ProcExit, ReapWait, ReapRecord, ReapForget, ReapExited
<1>12. CASE UNCHANGED vars
  BY <1>7, <1>12 DEF vars
<1> QED
  BY <1>1, <1>2, <1>4, <1>5, <1>6, <1>8, <1>9, <1>10, <1>11, <1>12 DEF Next, Daemon

-----------------------------------------------------------------------------
\* The delayed kill, the registry entry and the process: every step keeps the
\* rest of the invariant.
LEMMA LifeKill ==
  LifeInv /\ [Next]_vars =>
    (PendingKillAbandoned /\ ForgottenOnlyExited /\ DeadOnceReaped /\ NoOrphans)'
<1> DEFINE Goal == PendingKillAbandoned /\ ForgottenOnlyExited /\ DeadOnceReaped /\ NoOrphans
<1> SUFFICES ASSUME LifeInv, [Next]_vars PROVE Goal'
  OBVIOUS
<1>0. /\ timer \in BOOLEAN /\ listed \in BOOLEAN /\ alive \in BOOLEAN
      /\ killer \in [Causes -> {"idle", "request", "check", "term", "grace", "done"}]
  BY DEF LifeInv, TypeOK
<1>01. Goal
  BY DEF LifeInv
<1> USE DEF PendingKillAbandoned, ForgottenOnlyExited, DeadOnceReaped, NoOrphans, Exited
<1>1. ASSUME NEW c \in Clients, NEW h \in Handles, Attach(c, h) PROVE Goal'
  BY <1>01, <1>1 DEF Attach, TimerStopped
<1>2. ASSUME NEW h \in Handles, ServeInterrupted(h) PROVE Goal'
  BY <1>01, <1>2, <1>0, LifeAssumption DEF ServeInterrupted, ClientGone, Arms
<1>3. ASSUME NEW h \in Handles, ServeExit(h) PROVE Goal'
  BY <1>01, <1>3, <1>0, LifeAssumption DEF ServeExit, ClientGone, Arms
<1>4. CASE \E h \in Handles : Break(h)
  BY <1>01, <1>4 DEF Break
<1>5. CASE \E c \in Clients : ClientError(c) \/ ClientNotFound(c)
  BY <1>01, <1>5 DEF ClientError, ClientNotFound
<1>6. ASSUME NEW c \in Clients, Leave(c) PROVE Goal'
  <2>1. \A k \in Causes : killer'[k] = "done" => killer[k] = "done"
    BY <1>0, <1>6 DEF Leave, KillRequested
  <2> QED
    BY <1>01, <1>6, <2>1 DEF Leave, KillRequested
<1>7. CASE UserKill
  <2>1. \A k \in Causes : killer'[k] = "done" => killer[k] = "done"
    BY <1>0, <1>7 DEF UserKill, KillRequested
  <2> QED
    BY <1>01, <1>7, <2>1 DEF UserKill, KillRequested
<1>8. CASE TimerFires
  <2>1. \A k \in Causes : killer'[k] = "done" => killer[k] = "done"
    BY <1>0, <1>8 DEF TimerFires
  <2> QED
    BY <1>01, <1>8, <2>1 DEF TimerFires
<1>9. ASSUME NEW k \in Causes, KillCommand(k) PROVE Goal'
  <2>1. ~listed \/ Exited => ~alive
    BY <1>01
  <2>2. \A j \in Causes : killer'[j] = "done" => killer[j] = "done" \/ ~listed \/ Exited
    BY <1>0, <1>9 DEF KillCommand
  <2> QED
    BY <1>01, <1>9, <2>1, <2>2 DEF KillCommand
<1>10. ASSUME NEW k \in Causes, KillCheck(k) PROVE Goal'
  <2>1. \A j \in Causes : killer'[j] = "done" => killer[j] = "done" \/ Exited
    BY <1>0, <1>10 DEF KillCheck
  <2> QED
    BY <1>01, <1>10, <2>1 DEF KillCheck
<1>11. ASSUME NEW k \in Causes, KillTerm(k) PROVE Goal'
  <2>1. \A j \in Causes : killer'[j] = "done" => killer[j] = "done"
    BY <1>0, <1>11 DEF KillTerm
  <2> QED
    BY <1>01, <1>11, <2>1 DEF KillTerm
<1>12. ASSUME NEW k \in Causes, KillEscalate(k) PROVE Goal'
  BY <1>01, <1>12 DEF KillEscalate
<1>13. CASE ProcExit \/ ReapWait \/ ReapRecord \/ ReapForget \/ ReapExited
  BY <1>01, <1>13 DEF ProcExit, ReapWait, ReapRecord, ReapForget, ReapExited, Reapable
<1>14. CASE DetachAndKeep
  BY <1>01, <1>14 DEF DetachAndKeep
<1>15. CASE CloseAll
  <2>1. \A j \in Causes : killer'[j] = "done" => killer[j] = "done"
    BY <1>0, <1>15 DEF CloseAll
  <2> QED
    BY <1>01, <1>15, <2>1 DEF CloseAll
<1>16. CASE CloseAllDone
  BY <1>01, <1>16 DEF CloseAllDone, CloseFinished
<1>17. CASE UNCHANGED vars
  BY <1>01, <1>17 DEF vars
<1> QED
  BY <1>1, <1>2, <1>3, <1>4, <1>5, <1>6, <1>7, <1>8, <1>9, <1>10, <1>11, <1>12, <1>13,
     <1>14, <1>15, <1>16, <1>17
  DEF Next, Daemon

-----------------------------------------------------------------------------
\* The conjunction holds in every reachable state.
THEOREM LifeInvariant == Spec => []LifeInv
<1>1. LifeInv /\ [Next]_vars => LifeInv'
  BY LifeType, LifeHolder, LifeKill DEF LifeInv
<1> QED
  BY <1>1, LifeInit, PTL DEF Spec

\* Type correctness, for every set of clients, handles and kill causes.
THEOREM LifeTypeCorrect == Spec => []TypeOK
<1>1. LifeInv => TypeOK
  BY DEF LifeInv
<1> QED
  BY <1>1, LifeInvariant, PTL

\* At most one handler holds the command, and mc.current names it.
THEOREM LifeSoleHolder == Spec => []SoleHolder
<1>1. LifeInv => SoleHolder
  BY DEF LifeInv
<1> QED
  BY <1>1, LifeInvariant, PTL

\* A delayed kill is pending only for a running, abandoned kill-policy command.
THEOREM LifePendingKill == Spec => []PendingKillAbandoned
<1>1. LifeInv => PendingKillAbandoned
  BY DEF LifeInv
<1> QED
  BY <1>1, LifeInvariant, PTL

\* A command leaves the registry only once its exit is recorded.
THEOREM LifeForgotten == Spec => []ForgottenOnlyExited
<1>1. LifeInv => ForgottenOnlyExited
  BY DEF LifeInv
<1> QED
  BY <1>1, LifeInvariant, PTL

\* When CloseAll returned, the process is gone.
THEOREM LifeNoOrphans == Spec => []NoOrphans
<1>1. LifeInv => NoOrphans
  BY DEF LifeInv
<1> QED
  BY <1>1, LifeInvariant, PTL

\* One handler at most holds the command, and a delayed kill is pending only
\* for a running kill-policy command that none holds.
THEOREM LifeHeldOrAbandoned == Spec => []HeldOrAbandoned
<1>1. LifeInv => HeldOrAbandoned
  BY DEF LifeInv, HeldOrAbandoned
<1> QED
  BY <1>1, LifeInvariant, PTL

\* No running command leaves the registry, and none survives CloseAll.
THEOREM LifeNoneLost == Spec => []NoneLost
<1>1. LifeInv => NoneLost
  BY DEF LifeInv, NoneLost
<1> QED
  BY <1>1, LifeInvariant, PTL
===============================================================================
