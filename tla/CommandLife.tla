------------------------------ MODULE CommandLife ------------------------------
(***************************************************************************)
(* The life of one managed command (pkg/command_registry.go): clients that  *)
(* attach, steal, lose their stream, come back or leave for good; the       *)
(* delayed kill of abandoned kill-policy commands; explicit kill and detach *)
(* requests; the reaper; daemon shutdown.  Every attach() gets a handle; a  *)
(* handler (serveManagedCommand) serves it until the command exits, its     *)
(* stream dies or the handle is canceled.  Output is CommandStream's part.  *)
(***************************************************************************)
EXTENDS Naturals, FiniteSets

CONSTANTS
  Clients,    \* RemoteRunningCommands in local daemons
  Starter,    \* the client whose stream started the command
  Handles,    \* commandAttachments
  First,      \* the handle of the start stream
  None,       \* no handle
  Causes      \* why killGroupWithGrace runs: "timer" (the client did not come back),
              \* "request" (a client left on purpose, or graft kill), "close" (shutdown)

ASSUME LifeAssumption ==
  /\ Starter \in Clients
  /\ First \in Handles
  /\ None \notin Handles
  /\ Causes \subseteq {"timer", "request", "close"}

VARIABLES
  policy,     \* mc.persistence
  alive,      \* the process has not exited
  reap,       \* waitAndReap
  listed,     \* the command is in the registry
  current,    \* mc.current
  timer,      \* mc.pendingKill will fire
  handle,     \* the handles and the handlers that serve them
  client,     \* the clients
  killer,     \* the progress of each killGroupWithGrace
  closing     \* CloseAll

vars == <<policy, alive, reap, listed, current, timer, handle, client, killer, closing>>

Exited == reap \in {"forget", "done"}

Free == [state |-> "free", canceled |-> FALSE, link |-> TRUE]
Away == [pc |-> "away", at |-> None, hook |-> FALSE]

Init ==
  /\ policy \in {"kill", "keep"}
  /\ alive = TRUE
  /\ reap = "wait"
  /\ listed = TRUE
  /\ current = First
  /\ timer = FALSE
  /\ handle = [h \in Handles |-> IF h = First THEN [Free EXCEPT !.state = "serving"] ELSE Free]
  /\ client = [c \in Clients |->
                 IF c = Starter THEN [pc |-> "attached", at |-> First, hook |-> policy = "kill"] ELSE Away]
  /\ killer = [k \in Causes |-> "idle"]
  /\ closing = "open"

-----------------------------------------------------------------------------
(* Handlers.                                                                 *)

\* Mutant: the current holder is not canceled.
CancelNobody == handle

\* close(mc.current.canceled), if anybody is attached.
CancelCurrent ==
  [h \in Handles |-> IF h = current THEN [handle[h] EXCEPT !.canceled = TRUE] ELSE handle[h]]

\* mc.pendingKill.Stop().
TimerStopped == FALSE

\* attach(): steal the command and call off a pending kill.  The hook for a
\* deliberate exit is set up once, from the policy the daemon reported then.
Attach(c, h) ==
  /\ client[c].pc \in {"away", "resuming"}
  /\ handle[h].state = "free"
  /\ listed
  /\ timer' = TimerStopped
  /\ handle' = [CancelCurrent EXCEPT ![h].state = "serving"]
  /\ current' = h
  /\ client' = [client EXCEPT ![c] =
                  [pc |-> "attached", at |-> h,
                   hook |-> IF @.pc = "away" THEN policy = "kill" ELSE @.hook]]
  /\ UNCHANGED <<policy, alive, reap, listed, killer, closing>>

\* Mutant: the policy test is inverted.
ArmsKept(h) == current = h /\ ~Exited /\ policy = "keep"

\* ClientGone starts the delayed kill.
Arms(h) == current = h /\ ~Exited /\ policy = "kill"

\* ClientGone(handle), deferred by every handler.
ClientGone(h) ==
  /\ current' = IF current = h THEN None ELSE current
  /\ timer' = (timer \/ Arms(h))

\* The handler saw its stream die or its handle canceled.
ServeInterrupted(h) ==
  /\ handle[h].state = "serving"
  /\ handle[h].canceled \/ ~handle[h].link
  /\ handle' = [handle EXCEPT ![h].state = "ended"]
  /\ ClientGone(h)
  /\ UNCHANGED <<policy, alive, reap, listed, client, killer, closing>>

\* The command exited: the status is sent and the command removed, or it stays
\* listed because the send failed.
ServeExit(h) ==
  /\ handle[h].state = "serving"
  /\ Exited
  /\ handle' = [handle EXCEPT ![h].state = "ended"]
  /\ \/ /\ handle[h].link
        /\ client' = [c \in Clients |-> IF client[c].pc = "attached" /\ client[c].at = h
                                        THEN [client[c] EXCEPT !.pc = "ended"] ELSE client[c]]
        /\ listed' = FALSE
     \/ /\ ~handle[h].link
        /\ listed' \in {listed, FALSE}
        /\ UNCHANGED client
  /\ ClientGone(h)
  /\ UNCHANGED <<policy, alive, reap, killer, closing>>

-----------------------------------------------------------------------------
(* Clients.                                                                  *)

Break(h) ==
  /\ handle[h].state = "serving"
  /\ handle[h].link
  /\ handle' = [handle EXCEPT ![h].link = FALSE]
  /\ UNCHANGED <<policy, alive, reap, listed, current, timer, client, killer, closing>>

\* Recv failed: tryResume, unless the stream was taken over (Aborted).
ClientError(c) ==
  LET h == handle[client[c].at]
  IN  /\ client[c].pc = "attached"
      /\ ~h.link \/ h.state = "ended"
      /\ client' = [client EXCEPT ![c].pc = IF h.link /\ h.canceled THEN "ended" ELSE "resuming"]
      /\ UNCHANGED <<policy, alive, reap, listed, current, timer, handle, killer, closing>>

\* A re-attach is answered NotFound.
ClientNotFound(c) ==
  /\ client[c].pc = "resuming"
  /\ ~listed
  /\ client' = [client EXCEPT ![c].pc = "ended"]
  /\ UNCHANGED <<policy, alive, reap, listed, current, timer, handle, killer, closing>>

\* A KillCommand request is on its way.
KillRequested ==
  /\ "request" \in Causes
  /\ killer["request"] = "idle"
  /\ killer' = [killer EXCEPT !["request"] = "request"]

\* The consumer leaves on purpose: its stream is canceled and the hook of a
\* kill-policy command sends KillCommand, which may not get through.
Leave(c) ==
  /\ client[c].pc \in {"attached", "resuming"}
  /\ client' = [client EXCEPT ![c].pc = "left"]
  /\ handle' = [handle EXCEPT ![client[c].at].link = FALSE]
  /\ \/ UNCHANGED killer
     \/ client[c].hook /\ KillRequested
  /\ UNCHANGED <<policy, alive, reap, listed, current, timer, closing>>

-----------------------------------------------------------------------------
(* Kill, detach, reaping and shutdown.                                       *)

UserKill ==
  /\ KillRequested
  /\ UNCHANGED <<policy, alive, reap, listed, current, timer, handle, client, closing>>

\* KillCommand with escalation at the remote daemon.
KillCommand(k) ==
  /\ killer[k] = "request"
  /\ killer' = [killer EXCEPT ![k] = IF listed /\ ~Exited THEN "check" ELSE "done"]
  /\ listed' = (listed /\ ~Exited)
  /\ UNCHANGED <<policy, alive, reap, current, timer, handle, client, closing>>

\* time.AfterFunc(detachKillDelay): Stop comes too late from here on.
TimerFires ==
  /\ timer
  /\ "timer" \in Causes
  /\ killer["timer"] \in {"idle", "done"}
  /\ timer' = FALSE
  /\ killer' = [killer EXCEPT !["timer"] = "check"]
  /\ UNCHANGED <<policy, alive, reap, listed, current, handle, client, closing>>

\* killGroupWithGrace: nothing is signaled once the exit is recorded ...
KillCheck(k) ==
  /\ killer[k] = "check"
  /\ killer' = [killer EXCEPT ![k] = IF Exited THEN "done" ELSE "term"]
  /\ UNCHANGED <<policy, alive, reap, listed, current, timer, handle, client, closing>>

\* ... otherwise SIGTERM is sent, which the process may survive, ...
KillTerm(k) ==
  /\ killer[k] = "term"
  /\ killer' = [killer EXCEPT ![k] = "grace"]
  /\ UNCHANGED <<policy, alive, reap, listed, current, timer, handle, client, closing>>

\* ... and SIGKILL after the grace period unless the command is done.
KillEscalate(k) ==
  /\ killer[k] = "grace"
  /\ killer' = [killer EXCEPT ![k] = "done"]
  /\ alive' = FALSE
  /\ UNCHANGED <<policy, reap, listed, current, timer, handle, client, closing>>

\* The process exits by itself or because of SIGTERM.
ProcExit ==
  /\ alive
  /\ alive' = FALSE
  /\ UNCHANGED <<policy, reap, listed, current, timer, handle, client, killer, closing>>

\* waitAndReap: the process is waited for, its output is drained, ...
ReapWait ==
  /\ reap = "wait"
  /\ ~alive
  /\ reap' = "drain"
  /\ UNCHANGED <<policy, alive, listed, current, timer, handle, client, killer, closing>>

\* ... the exit is recorded and a pending kill called off, ...
ReapRecord ==
  /\ reap = "drain"
  /\ timer' = FALSE
  /\ reap' = IF policy = "kill" /\ current = None THEN "forget" ELSE "done"
  /\ UNCHANGED <<policy, alive, listed, current, handle, client, killer, closing>>

\* ... and a kill-policy command without a client is forgotten.
ReapForget ==
  /\ reap = "forget"
  /\ reap' = "done"
  /\ listed' = FALSE
  /\ UNCHANGED <<policy, alive, current, timer, handle, client, killer, closing>>

\* What ReapExited may forget.
Reapable == Exited /\ current = None

\* commandReapLoop found the retained output over budget.
ReapExited ==
  /\ listed
  /\ Reapable
  /\ listed' = FALSE
  /\ UNCHANGED <<policy, alive, reap, current, timer, handle, client, killer, closing>>

\* DetachCommand.
DetachAndKeep ==
  /\ listed
  /\ timer' = FALSE
  /\ policy' = "keep"
  /\ handle' = CancelCurrent
  /\ current' = None
  /\ UNCHANGED <<alive, reap, listed, client, killer, closing>>

\* Mutant: shutdown does not wait for its killers.
CloseNow == TRUE

\* A command still running keeps CloseAll waiting.
CloseFinished == killer["close"] = "done"

\* CloseAll kills what is listed and not done ...
CloseAll ==
  /\ "close" \in Causes
  /\ closing = "open"
  /\ closing' = IF listed /\ ~Exited THEN "waiting" ELSE "closed"
  /\ killer' = IF listed /\ ~Exited THEN [killer EXCEPT !["close"] = "check"] ELSE killer
  /\ UNCHANGED <<policy, alive, reap, listed, current, timer, handle, client>>

\* ... and returns once it is done, or after a timeout.
CloseAllDone ==
  /\ closing = "waiting"
  /\ CloseFinished
  /\ closing' = "closed"
  /\ UNCHANGED <<policy, alive, reap, listed, current, timer, handle, client, killer>>

-----------------------------------------------------------------------------
Daemon ==
  \/ \E h \in Handles : ServeInterrupted(h) \/ ServeExit(h)
  \/ TimerFires
  \/ \E k \in Causes : KillCommand(k) \/ KillCheck(k) \/ KillTerm(k) \/ KillEscalate(k)
  \/ ReapWait \/ ReapRecord \/ ReapForget
  \/ CloseAllDone

Next ==
  \/ Daemon
  \/ \E c \in Clients :
       \/ \E h \in Handles : Attach(c, h)
       \/ ClientError(c) \/ ClientNotFound(c) \/ Leave(c)
  \/ \E h \in Handles : Break(h)
  \/ UserKill
  \/ ProcExit
  \/ ReapExited
  \/ DetachAndKeep
  \/ CloseAll

Spec == Init /\ [][Next]_vars

\* The daemon's goroutines are scheduled and its timers fire; nothing is
\* assumed of clients, users and the process.
FairSpec ==
  /\ Spec
  /\ \A h \in Handles : WF_vars(ServeInterrupted(h)) /\ WF_vars(ServeExit(h))
  /\ \A k \in Causes : /\ WF_vars(KillCommand(k)) /\ WF_vars(KillCheck(k))
                       /\ WF_vars(KillTerm(k)) /\ WF_vars(KillEscalate(k))
  /\ WF_vars(TimerFires)
  /\ WF_vars(ReapWait) /\ WF_vars(ReapRecord) /\ WF_vars(ReapForget)
  /\ WF_vars(CloseAllDone)

-----------------------------------------------------------------------------
HandleType == [state : {"free", "serving", "ended"}, canceled : BOOLEAN, link : BOOLEAN]
ClientType == [pc : {"away", "attached", "resuming", "left", "ended"},
               at : Handles \cup {None}, hook : BOOLEAN]

\* Every variable has its type.
TypeOK ==
  /\ policy \in {"kill", "keep"}
  /\ alive \in BOOLEAN
  /\ reap \in {"wait", "drain", "forget", "done"}
  /\ listed \in BOOLEAN
  /\ current \in Handles \cup {None}
  /\ timer \in BOOLEAN
  /\ handle \in [Handles -> HandleType]
  /\ client \in [Clients -> ClientType]
  /\ killer \in [Causes -> {"idle", "request", "check", "term", "grace", "done"}]
  /\ closing \in {"open", "waiting", "closed"}

\* A handler that was not told otherwise holds the command: whoever attached,
\* was stolen from, broke or was detached, at most one handler is neither
\* ended nor canceled, and it is the one mc.current names (attach,
\* ClientGone, DetachAndKeep).
SoleHolder ==
  \A h \in Handles :
    (handle[h].state = "serving" /\ ~handle[h].canceled) <=> current = h

\* A delayed kill is only ever pending for a running kill-policy command that
\* nobody is attached to (attach, DetachAndKeep and waitAndReap call it off).
PendingKillAbandoned ==
  timer => policy = "kill" /\ current = None /\ ~Exited

\* A command leaves the registry only once its exit is recorded, whoever
\* removes it (exit delivery, ReapExited, KillCommand, waitAndReap).
ForgottenOnlyExited == ~listed => Exited

\* Whoever attaches, is stolen from, breaks or detaches: one handler at most
\* holds the command, and a delayed kill is pending only while none does
\* (attach, ClientGone, DetachAndKeep, waitAndReap).
HeldOrAbandoned == SoleHolder /\ PendingKillAbandoned

\* When CloseAll returns the process is gone: "surviving commands would only be
\* orphans" (Server.Close).
NoOrphans == closing = "closed" => ~alive

\* No running command is lost: none leaves the registry before its exit is
\* recorded, and none survives CloseAll (ReapExited, KillCommand, CloseAll).
NoneLost == ForgottenOnlyExited /\ NoOrphans

\* A kill-policy command nobody comes back to is eventually gone, even if it
\* ignores SIGTERM (ClientGone, killGroupWithGrace).
AbandonedDies ==
  (policy = "kill" /\ current = None /\ alive) ~> (~alive \/ current # None \/ policy = "keep")
===============================================================================
