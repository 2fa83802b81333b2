------------------------------- MODULE SyncCycle -------------------------------
(***************************************************************************)
(* One file synchronization session at work: the controller's cycle (poll,  *)
(* scan, reconcile, stage, transition, save), the two endpoints with the    *)
(* watchers that drive their accelerated scans, the users who edit both      *)
(* trees at any moment, a connection to beta that breaks and a daemon that   *)
(* crashes.                                                                  *)
(*                                                                          *)
(* File metadata (size, times, inode) is what tells the code that a file is  *)
(* no longer the one it scanned.  Here every change of a path makes its       *)
(* metadata stale: userStale and ownStale are the paths whose metadata       *)
(* changed since the endpoint's cache was filled, by a user and by the        *)
(* session itself, and seenStale those that changed since the scan that was   *)
(* last returned to the controller.                                          *)
(***************************************************************************)
EXTENDS Reconcile, Transition, Naturals

CONSTANTS
  Starts,      \* the sessions to consider: mode, watchers, ancestor, trees, and
               \* how many edits, flushes and faults may happen to them
  Edits,       \* what users may do: a side, a path and the node put there
  QueueSize    \* events that the Linux watcher holds before it drops some

Sides == {"alpha", "beta"}
Other(s) == IF s = "alpha" THEN "beta" ELSE "alpha"

VARIABLES
  mode, watch,                 \* configuration of the session
  disk,                        \* the two trees
  ep,                          \* the two endpoints
  staged,                      \* the files in their staging directories
  ancestor, archive,           \* the ancestor in memory and on disk
  pc,                          \* where the controller is
  scanned, again,              \* sides scanned in this cycle; a scan failed
  plan, todo, results, active, \* the changes, and the transitions under way
  missing, forced,             \* staged files were missing, now and last time
  broken,                      \* beta's connection broke during its transition
  orphan,                      \* a transition whose connection broke
  flush, owed,                 \* a flush request, and the edits it must cover
  had,                         \* what has ever been on each disk
  edits, flushes, faults       \* bounds: how many more there may be

vars == <<mode, watch, disk, ep, staged, ancestor, archive, pc, scanned, again, plan,
          todo, results, active, missing, forced, broken, orphan, flush, owed, had,
          edits, flushes, faults>>

cycleVars == <<scanned, again, plan, todo, results, active, missing, broken>>
config == <<mode, watch>>
bounds == <<edits, flushes, faults>>

Recursive == {"recursive", "notify"}
Watchers == Recursive \cup {"poll"}

\* An endpoint as NewEndpoint makes it: nothing scanned, the watch to be
\* established.
Fresh == [snapshot |-> NilTree, accelerate |-> FALSE, recheck |-> {}, events |-> {},
          signal |-> FALSE, armed |-> TRUE, previous |-> NilTree,
          userStale |-> {}, ownStale |-> {}, returned |-> NilTree, seenStale |-> {}]

NoPlan == [ancestor |-> {}, alpha |-> {}, beta |-> {}]
NoOrphan == [left |-> {}, stale |-> {}]
Quiet == [s \in Sides |-> {}]

Init ==
  /\ \E i \in Starts :
       /\ mode = i.mode
       /\ watch = i.watch
       /\ disk = i.disk
       /\ archive = i.archive
       /\ edits = i.edits /\ flushes = i.flushes /\ faults = i.faults
       /\ had = [s \in Sides |-> {<<p, i.disk[s][p]>> : p \in Paths}
                                   \cup {<<p, i.archive[p]>> : p \in Paths}]
  /\ ep = [s \in Sides |-> Fresh]
  /\ staged = Quiet
  /\ ancestor = NilTree
  /\ pc = "down"
  /\ scanned = {} /\ again = FALSE
  /\ plan = NoPlan /\ todo = Quiet /\ results = Quiet /\ active = {}
  /\ missing = FALSE /\ forced = FALSE /\ broken = FALSE
  /\ orphan = NoOrphan
  /\ flush = "none" /\ owed = {}

-----------------------------------------------------------------------------
(* What every change of a tree does besides: metadata, and watch events.    *)

ChangedPaths(old, new) == {p \in Paths : old[p] # new[p]}

\* The Linux watcher hands events on through a channel of capacity one, and
\* the library that fills it drops what does not fit.
Queued(s, new) ==
  IF watch[s] = "poll" \/ ep[s].armed THEN {{}}
  ELSE LET all == ep[s].events \cup new
       IN IF watch[s] = "notify" /\ Cardinality(all) > QueueSize
          THEN {e \in SUBSET all : ep[s].events \subseteq e /\ Cardinality(e) = QueueSize}
          ELSE {all}

EverOn(s, tree) == had[s] \cup {<<p, tree[p]>> : p \in Paths}

-----------------------------------------------------------------------------
(* Users.                                                                    *)

\* A user puts a node at a path, with nothing below it: writing, creating or
\* removing a file or a directory, or moving one away.
Edit(s, p, node) ==
  /\ edits > 0
  /\ ParentExists(disk[s], p)
  /\ disk[s][p] # node
  /\ LET tree == [q \in Paths |-> IF q = p THEN node
                                  ELSE IF q \in Under(p) THEN Nil ELSE disk[s][q]]
         paths == ChangedPaths(disk[s], tree)
     IN /\ disk' = [disk EXCEPT ![s] = tree]
        /\ \E events \in Queued(s, paths) :
             ep' = [ep EXCEPT ![s].events = events,
                              ![s].userStale = @ \cup paths,
                              ![s].ownStale = @ \ paths,
                              ![s].seenStale = @ \cup paths]
        /\ orphan' = IF s = "beta" /\ orphan.left # {}
                     THEN [orphan EXCEPT !.stale = @ \cup paths] ELSE orphan
        /\ had' = [had EXCEPT ![s] = EverOn(s, tree)]
  /\ edits' = edits - 1
  /\ UNCHANGED <<config, staged, ancestor, archive, pc, cycleVars, forced, flush, owed, flushes, faults>>

\* controller.flush: a request that the cycle picks up while it polls.
RequestFlush ==
  /\ flushes > 0 /\ flush \notin {"asked", "taken"}
  /\ pc \notin {"down", "halted"}
  /\ flushes' = flushes - 1
  /\ flush' = "asked"
  /\ owed' = {<<s, p>> \in Sides \X Paths : p \in ep[s].userStale}
  /\ UNCHANGED <<config, disk, ep, staged, ancestor, archive, pc, cycleVars, forced,
                 orphan, had, edits, faults>>

-----------------------------------------------------------------------------
(* Watching.                                                                 *)

Connected == pc \notin {"down", "halted"}

\* The endpoint after a scan of everything.
FullScan(e, tree) ==
  [e EXCEPT !.snapshot = tree, !.userStale = {}, !.ownStale = {}]

\* watchPoll: the first scan only sets what later ones are compared with.
PollScan(s) ==
  /\ Connected
  /\ watch[s] = "poll"
  /\ ep' = [ep EXCEPT ![s] =
       [FullScan(@, disk[s]) EXCEPT
          !.accelerate = TRUE,
          !.armed = FALSE,
          !.previous = disk[s],
          !.signal = @ \/ (~ep[s].armed /\ ep[s].previous # disk[s])]]
  /\ UNCHANGED <<config, disk, staged, ancestor, archive, pc, cycleVars, forced, orphan,
                 flush, owed, had, bounds>>

\* Mutant: a new watch does not signal.
EstablishedSilently(e, tree) ==
  [FullScan(e, tree) EXCEPT !.accelerate = TRUE, !.recheck = {}, !.armed = FALSE]

\* watchRecursive: a newly established watch starts with a baseline scan, and
\* signals whatever that finds.
Established(e, tree) ==
  [FullScan(e, tree) EXCEPT
     !.accelerate = TRUE, !.recheck = {}, !.armed = FALSE, !.signal = TRUE]

BaselineScan(s) ==
  /\ Connected
  /\ watch[s] \in Recursive
  /\ ep[s].armed
  /\ ep' = [ep EXCEPT ![s] = Established(@, disk[s])]
  /\ UNCHANGED <<config, disk, staged, ancestor, archive, pc, cycleVars, forced, orphan,
                 flush, owed, had, bounds>>

\* Either scan fails because the tree changes underneath it.
WatcherScanFails(s) ==
  /\ Connected
  /\ faults > 0
  /\ watch[s] = "poll" \/ ep[s].armed
  /\ ep' = [ep EXCEPT ![s] = [@ EXCEPT !.accelerate = FALSE,
                                       !.armed = watch[s] # "poll",
                                       !.signal = TRUE]]
  /\ faults' = faults - 1
  /\ UNCHANGED <<config, disk, staged, ancestor, archive, pc, cycleVars, forced, orphan,
                 flush, owed, had, edits, flushes>>

WatchEvent(s) ==
  /\ Connected
  /\ \E p \in ep[s].events :
       ep' = [ep EXCEPT ![s] = [@ EXCEPT
                !.events = @ \ {p},
                !.recheck = IF ep[s].accelerate THEN @ \cup {p} ELSE @,
                !.signal = TRUE]]
  /\ UNCHANGED <<config, disk, staged, ancestor, archive, pc, cycleVars, forced, orphan,
                 flush, owed, had, bounds>>

\* The watcher reports an error, an overflow for instance, and is replaced.
\* The Linux one never does: nothing is ever sent on its errorsCh.
WatchError(s) ==
  /\ Connected
  /\ faults > 0
  /\ watch[s] = "recursive"
  /\ ~ep[s].armed
  /\ ep' = [ep EXCEPT ![s] = [@ EXCEPT !.accelerate = FALSE, !.recheck = {}, !.events = {},
                                       !.armed = TRUE, !.signal = TRUE]]
  /\ faults' = faults - 1
  /\ UNCHANGED <<config, disk, staged, ancestor, archive, pc, cycleVars, forced, orphan,
                 flush, owed, had, edits, flushes>>

-----------------------------------------------------------------------------
(* The controller: connecting, polling and scanning.                         *)

\* A round of the run loop that reaches both endpoints, and the start of
\* synchronize: the archive is loaded, and the first cycle does not poll.
Connect ==
  /\ pc = "down"
  /\ ep' = [s \in Sides |-> Fresh]
  /\ ancestor' = archive
  /\ pc' = "scan"
  /\ forced' = FALSE
  /\ UNCHANGED <<config, disk, staged, archive, cycleVars, orphan, flush, owed, had,
                 bounds>>

\* Polling ends with the signals of the endpoints, or with a flush request;
\* the poll that is then cancelled may consume its signal or leave it.
Poll ==
  /\ pc = "poll"
  /\ \E S \in SUBSET {s \in Sides : ep[s].signal} :
       /\ ep' = [s \in Sides |-> IF s \in S THEN [ep[s] EXCEPT !.signal = FALSE] ELSE ep[s]]
       /\ \/ S # {} /\ flush' = flush
          \/ flush = "asked" /\ flush' = "taken"
  /\ pc' = "scan"
  /\ UNCHANGED <<config, disk, staged, ancestor, archive, cycleVars, forced, orphan, owed,
                 had, bounds>>

\* core.Scan with a baseline: directories that are not dirty and were not
\* empty are taken from it, all else is read again.
Reused(tree, baseline, recheck, q) ==
  /\ q # Root
  /\ tree[q] = Dir /\ baseline[q] = Dir
  /\ \A r \in recheck : q \notin Onto(r)
  /\ \E r \in Under(q) \ {q} : baseline[r] # Nil

\* The paths whose entries an accelerated scan takes from the baseline.
FromBaseline(tree, baseline, recheck) ==
  IF baseline[Root] = Nil \/ ~SameKind(tree[Root], baseline[Root]) THEN {}
  ELSE IF recheck = {} THEN Paths
  ELSE {p \in Paths : \E q \in Onto(p) : Reused(tree, baseline, recheck, q)}

Rescan(e, tree) ==
  LET kept == FromBaseline(tree, e.snapshot, e.recheck)
  IN [e EXCEPT !.snapshot = [p \in Paths |-> IF p \in kept THEN e.snapshot[p] ELSE tree[p]],
               !.userStale = @ \cap kept,
               !.ownStale = @ \cap kept,
               !.recheck = {}]

\* Mutant: a flush does not ask for a full scan.
AcceleratedFlush(s) == ~ep[s].accelerate

ScansFully(s) == flush = "taken" \/ ~ep[s].accelerate

\* endpoint.Scan.
Scan(s) ==
  /\ pc = "scan"
  /\ s \notin scanned
  /\ LET e == IF ScansFully(s) THEN FullScan(ep[s], disk[s])
              ELSE IF watch[s] = "poll" THEN ep[s]
              ELSE Rescan(ep[s], disk[s])
     IN /\ ep' = [ep EXCEPT ![s] = [e EXCEPT !.returned = e.snapshot,
                                            !.seenStale = e.userStale \cup e.ownStale]]
        /\ owed' = {o \in owed : o[1] = s /\ flush = "taken" => o[2] \in e.userStale}
  /\ scanned' = scanned \cup {s}
  /\ UNCHANGED <<config, disk, staged, ancestor, archive, pc, again, plan, todo, results,
                 active, missing, forced, broken, orphan, flush, had, bounds>>

\* The scan fails and suggests another attempt.
ScanFails(s) ==
  /\ pc = "scan"
  /\ s \notin scanned
  /\ faults > 0
  /\ scanned' = scanned \cup {s}
  /\ again' = TRUE
  /\ faults' = faults - 1
  /\ UNCHANGED <<config, disk, ep, staged, ancestor, archive, pc, plan, todo, results,
                 active, missing, forced, broken, orphan, flush, owed, had, edits, flushes>>

ScanAgain ==
  /\ pc = "scan"
  /\ scanned = Sides
  /\ again
  /\ scanned' = {}
  /\ again' = FALSE
  /\ UNCHANGED <<config, disk, ep, staged, ancestor, archive, pc, plan, todo, results,
                 active, missing, forced, broken, orphan, flush, owed, had, bounds>>

-----------------------------------------------------------------------------
(* The controller: deciding.                                                 *)

Children(t) == {q \in Paths : ChildOf(q, Root) /\ t[q] # Nil}

OneEndpointEmptiedRoot(anc, alpha, beta) ==
  /\ anc[Root] = Dir /\ alpha[Root] = Dir /\ beta[Root] = Dir
  /\ Cardinality(Children(anc)) >= 2
  /\ (Children(alpha) = {}) # (Children(beta) = {})

ContainsRootDeletion(changes) == \E c \in changes : IsRootDeletion(c)
ContainsRootTypeChange(changes) == \E c \in changes : IsRootTypeChange(c)

\* What every early return of synchronize does to the cycle and to a flush
\* that waits for it; both endpoints are shut down.
Stop(next) ==
  /\ pc' = next
  /\ scanned' = {} /\ again' = FALSE
  /\ plan' = NoPlan /\ todo' = Quiet /\ results' = Quiet /\ active' = {}
  /\ missing' = FALSE /\ broken' = FALSE /\ forced' = FALSE
  /\ ep' = [s \in Sides |-> Fresh]
  /\ ancestor' = NilTree
  /\ flush' = IF flush \in {"asked", "taken"} THEN "failed" ELSE flush
  /\ owed' = {}

Decision == Reconciled(mode, ancestor, ep["alpha"].returned, ep["beta"].returned)

HaltsForSafety(r) ==
  \/ OneEndpointEmptiedRoot(ancestor, ep["alpha"].returned, ep["beta"].returned)
  \/ ContainsRootDeletion(r.alpha \cup r.beta)
  \/ ContainsRootTypeChange(r.alpha \cup r.beta)

Halt ==
  /\ pc = "scan" /\ scanned = Sides /\ ~again
  /\ HaltsForSafety(Decision)
  /\ Stop("halted")
  /\ UNCHANGED <<config, disk, staged, archive, orphan, had, bounds>>

\* The files that the changes to a side need staged there.
Needed(changes) == UNION {Dependencies(c) : c \in changes}

\* Staging on alpha, then on beta, then both transitions, each only when there
\* is something to do.
Proceed(r, unstaged) ==
  LET next == CASE "alpha" \in unstaged /\ Needed(r.alpha) # {} -> "stageAlpha"
                [] ~("alpha" \in unstaged /\ Needed(r.alpha) # {})
                   /\ "beta" \in unstaged /\ Needed(r.beta) # {} -> "stageBeta"
                [] OTHER -> "transition"
  IN /\ pc' = next
     /\ active' = IF next = "transition" THEN {s \in Sides : r[s] # {}} ELSE {}

Decide ==
  /\ pc = "scan" /\ scanned = Sides /\ ~again
  /\ LET r == Decision
     IN /\ ~HaltsForSafety(r)
        /\ plan' = [ancestor |-> r.ancestor, alpha |-> r.alpha, beta |-> r.beta]
        /\ todo' = [s \in Sides |-> r[s]]
        /\ Proceed(r, Sides)
  /\ scanned' = {}
  /\ ep' = [s \in Sides |-> [ep[s] EXCEPT !.returned = NilTree]]
  /\ UNCHANGED <<config, disk, staged, ancestor, archive, again, results, missing, forced,
                 broken, orphan, flush, owed, had, bounds>>

-----------------------------------------------------------------------------
(* The controller: staging and transitions.                                  *)

\* A file that is not staged yet is copied from a file of the same tree that
\* the cache says has the same digest, if it still does, and is otherwise
\* received from the other side.  What arrives is what is there now: a file
\* that changed since the scan is staged under another digest.
StageFile(s, d, lookup) ==
  IF d \in staged[s] THEN {}
  ELSE IF ep[s].snapshot[lookup[d[2]]] = d[2] /\ disk[s][lookup[d[2]]] = d[2] THEN {d}
  ELSE IF disk[Other(s)][d[1]] \in Leaves THEN {<<d[1], disk[Other(s)][d[1]]>>}
  ELSE {}

\* GenerateReverseLookupMap: one path for every digest in the cache.
Lookups(s) ==
  {f \in [Leaves -> Paths] :
     \A l \in Leaves : (\E p \in Paths : ep[s].snapshot[p] = l) => ep[s].snapshot[f[l]] = l}

Stage(s, at, unstaged) ==
  /\ pc = at
  /\ \E lookup \in Lookups(s) :
       staged' = [staged EXCEPT ![s] =
                    @ \cup UNION {StageFile(s, d, lookup) : d \in Needed(plan[s])}]
  /\ Proceed(plan, unstaged)
  /\ UNCHANGED <<config, disk, ep, ancestor, archive, scanned, again, plan, todo, results,
                 missing, forced, broken, orphan, flush, owed, had, bounds>>

StageAlpha == Stage("alpha", "stageAlpha", {"beta"})
StageBeta == Stage("beta", "stageBeta", {})

\* What one change does to the tree of s, whoever applies it.
Applied(s, out) ==
  /\ disk' = [disk EXCEPT ![s] = out.disk]
  /\ had' = [had EXCEPT ![s] = EverOn(s, out.disk)]
  /\ \E events \in Queued(s, ChangedPaths(disk[s], out.disk)) :
       ep' = [ep EXCEPT ![s].events = events,
                        ![s].ownStale = @ \cup ChangedPaths(disk[s], out.disk),
                        ![s].userStale = @ \ ChangedPaths(disk[s], out.disk)]

\* core.Transition handles one change.
TransitionStep(s) ==
  /\ pc = "transition"
  /\ s \in active
  /\ \E c \in todo[s] :
       LET out == Transitioned(disk[s], ep[s].seenStale, staged[s], c)
       IN /\ Applied(s, out)
          /\ todo' = [todo EXCEPT ![s] = @ \ {c}]
          /\ results' = [results EXCEPT ![s] = @ \cup {Changed(c.path, c.old, out.result)}]
          /\ missing' = (missing \/ out.missing)
  /\ UNCHANGED <<config, staged, ancestor, archive, pc, scanned, again, plan, active, forced,
                 broken, orphan, flush, owed, bounds>>

\* Mutant: a transition that changed nothing signals too.
SignalledAnyway(s, changed) ==
  [ep[s] EXCEPT
     !.accelerate = IF changed /\ watch[s] = "poll" THEN FALSE ELSE @,
     !.recheck = IF changed /\ ep[s].accelerate /\ watch[s] \in Recursive
                 THEN @ \cup {c.path : c \in plan[s]} ELSE @,
     !.signal = @ \/ watch[s] = "poll",
     !.seenStale = {}]

\* endpoint.Transition, once core.Transition is done: the next scan must not
\* return a snapshot from before it, and a poll-based watcher may not notice
\* that anything changed.
AfterTransition(s, changed) ==
  [ep[s] EXCEPT
     !.accelerate = IF changed /\ watch[s] = "poll" THEN FALSE ELSE @,
     !.recheck = IF changed /\ ep[s].accelerate /\ watch[s] \in Recursive
                 THEN @ \cup {c.path : c \in plan[s]} ELSE @,
     !.signal = @ \/ (changed /\ watch[s] = "poll"),
     !.seenStale = {}]

TransitionDone(s) ==
  /\ pc = "transition"
  /\ s \in active
  /\ todo[s] = {}
  /\ ep' = [ep EXCEPT ![s] = AfterTransition(s, \E r \in results[s] : r.new # r.old)]
  /\ staged' = [staged EXCEPT ![s] = {}]
  /\ active' = active \ {s}
  /\ UNCHANGED <<config, disk, ancestor, archive, pc, scanned, again, plan, todo, results,
                 missing, forced, broken, orphan, flush, owed, had, bounds>>

\* The ancestor takes over what reconciliation recorded and what transitions
\* report, is saved, and only then do the errors of transitions count.
Save ==
  /\ pc = "transition"
  /\ active = {}
  /\ LET new == Apply(ancestor, plan.ancestor \cup results["alpha"] \cup results["beta"])
     IN /\ archive' = IF EnsureValid(new) THEN new ELSE archive
        /\ IF broken \/ ~EnsureValid(new)
           THEN Stop("down")
           ELSE /\ ancestor' = new
                /\ forced' = (missing /\ ~forced)
                /\ pc' = IF missing /\ ~forced THEN "scan" ELSE "poll"
                /\ flush' = IF flush = "taken" THEN "done" ELSE flush
                /\ ep' = [s \in Sides |-> [ep[s] EXCEPT !.seenStale = {}]]
                /\ scanned' = {} /\ again' = FALSE
                /\ plan' = NoPlan /\ todo' = Quiet /\ results' = Quiet /\ active' = {}
                /\ missing' = FALSE /\ broken' = FALSE
                /\ UNCHANGED owed
  /\ UNCHANGED <<config, disk, staged, orphan, had, bounds>>

-----------------------------------------------------------------------------
(* Faults.                                                                   *)

\* A transition that beta works on when the controller loses it: the server
\* notices at some point, cancels what is left and wipes the staging directory.
Orphaned == [left |-> todo["beta"], stale |-> ep["beta"].seenStale]

\* The connection to beta breaks.  During transitions the cycle still saves
\* what alpha reports; everywhere else synchronize returns at once.
BetaLost ==
  /\ Connected
  /\ faults > 0
  /\ faults' = faults - 1
  /\ IF pc = "transition"
     THEN /\ "beta" \in active
          /\ orphan.left = {}
          /\ orphan' = Orphaned
          /\ broken' = TRUE
          /\ active' = active \ {"beta"}
          /\ todo' = [todo EXCEPT !["beta"] = {}]
          /\ results' = [results EXCEPT !["beta"] = {}]
          /\ ep' = [ep EXCEPT !["beta"] = Fresh]
          /\ UNCHANGED <<ancestor, pc, scanned, again, plan, missing, forced, flush, owed>>
     ELSE Stop("down") /\ UNCHANGED orphan
  /\ UNCHANGED <<config, disk, staged, archive, had, edits, flushes>>

\* The daemon that runs the controller and alpha goes away and is restarted,
\* or the user resumes a halted session.
Restart ==
  /\ pc # "down"
  /\ faults > 0
  /\ faults' = faults - 1
  /\ IF pc = "transition" /\ "beta" \in active
     THEN orphan.left = {} /\ orphan' = Orphaned
     ELSE UNCHANGED orphan
  /\ Stop("down")
  /\ UNCHANGED <<config, disk, staged, archive, had, edits, flushes>>

OrphanStep ==
  /\ \E c \in orphan.left :
       LET out == Transitioned(disk["beta"], orphan.stale, staged["beta"], c)
           paths == ChangedPaths(disk["beta"], out.disk)
       IN /\ disk' = [disk EXCEPT !["beta"] = out.disk]
          /\ had' = [had EXCEPT !["beta"] = EverOn("beta", out.disk)]
          /\ orphan' = [orphan EXCEPT !.left = @ \ {c}]
          /\ \E events \in Queued("beta", paths) :
               ep' = [ep EXCEPT !["beta"].events = events,
                                !["beta"].userStale = @ \cup paths,
                                !["beta"].ownStale = @ \ paths,
                                !["beta"].seenStale = @ \cup paths]
          /\ staged' = IF orphan'.left = {} THEN [staged EXCEPT !["beta"] = {}] ELSE staged
  /\ UNCHANGED <<config, ancestor, archive, pc, cycleVars, forced, flush, owed, bounds>>

OrphanCancelled ==
  /\ orphan.left # {}
  /\ orphan' = NoOrphan
  /\ staged' = [staged EXCEPT !["beta"] = {}]
  /\ UNCHANGED <<config, disk, ep, ancestor, archive, pc, cycleVars, forced, flush, owed, had,
                 bounds>>

-----------------------------------------------------------------------------
Users == (\E e \in Edits : Edit(e[1], e[2], e[3])) \/ RequestFlush

Watching(s) == PollScan(s) \/ BaselineScan(s) \/ WatchEvent(s)

Working ==
  \/ Connect \/ Poll \/ ScanAgain \/ Halt \/ Decide \/ StageAlpha \/ StageBeta \/ Save
  \/ \E s \in Sides : Scan(s) \/ TransitionStep(s) \/ TransitionDone(s)

Orphans == OrphanStep \/ OrphanCancelled

Faults ==
  \/ BetaLost \/ Restart
  \/ \E s \in Sides : WatcherScanFails(s) \/ WatchError(s) \/ ScanFails(s)

Next ==
  \/ Users \/ Working \/ Orphans \/ Faults
  \/ \E s \in Sides : Watching(s)

Spec == Init /\ [][Next]_vars

-----------------------------------------------------------------------------
(* Properties.                                                               *)

\* Whose content a mode protects: alpha always, beta unless alpha's content
\* always wins there.
Protected(s) == s = "alpha" \/ mode \in {TwoWaySafe, OneWaySafe}

EndpointRecords ==
  [snapshot : Trees, accelerate : BOOLEAN, recheck : SUBSET Paths, events : SUBSET Paths,
   signal : BOOLEAN, armed : BOOLEAN, previous : Trees, userStale : SUBSET Paths,
   ownStale : SUBSET Paths, returned : Trees, seenStale : SUBSET Paths]

\* The state is well typed: trees stay trees whatever users and transitions do
\* to them in the meantime.
TypeOK ==
  /\ mode \in Modes /\ watch \in [Sides -> Watchers]
  /\ \A s \in Sides : disk[s] \in Trees /\ ep[s] \in EndpointRecords
  /\ \A s \in Sides : staged[s] \subseteq Paths \X Leaves
  /\ ancestor \in Trees /\ archive \in Trees
  /\ pc \in {"down", "halted", "poll", "scan", "stageAlpha", "stageBeta", "transition"}
  /\ scanned \subseteq Sides /\ active \subseteq Sides
  /\ flush \in {"none", "asked", "taken", "done", "failed"}

\* The archive never claims more than happened: all it holds is valid content
\* that really was on both disks, through partial transitions, lost
\* connections and crashes between a transition and the save.  Where beta is
\* not protected a refused transition leaves beta's own content there, which
\* alpha need never have had.
ArchiveHonest ==
  /\ EnsureValid(archive)
  /\ \A p \in Paths : archive[p] # Nil =>
       /\ <<p, archive[p]>> \in had["beta"]
       /\ Protected("beta") => <<p, archive[p]>> \in had["alpha"]

\* What reconciliation and transitions report can always be applied to the
\* ancestor: the check in synchronize that "ensures that our reconciliation
\* logic doesn't have any flaws" never fires.
AncestorSaved ==
  pc = "transition" /\ active = {} =>
    LET changes == plan.ancestor \cup results["alpha"] \cup results["beta"]
    IN CanApply(ancestor, changes) /\ EnsureValid(Apply(ancestor, changes))

\* The archive at every moment: well typed, never ahead of what happened, and
\* never the place where a cycle stops for good.
ArchiveSound == TypeOK /\ ArchiveHonest /\ AncestorSaved

\* A flush that is answered has seen every edit made before it was asked for,
\* whatever events the watchers lost.
FlushSeesAll == flush = "done" => owed = {}

UserStep == edits' # edits

\* Synchronization never destroys what a user made and the other side never
\* had, in spite of stale snapshots, edits between scan and transition, and
\* transitions that outlive their connection.  It never touches what it does
\* not synchronize, deletes or replaces a synchronization root by something of
\* another kind, or changes alpha in a one-way mode.
NothingLost ==
  [][ UserStep \/
      \A s \in Sides : \A p \in Paths :
        disk'[s][p] # disk[s][p] =>
          /\ disk[s][p] \notin Unsynchronizable
          /\ disk[s][p] \in Leaves /\ Protected(s) => <<p, disk[s][p]>> \in had[Other(s)]
          /\ p = Root /\ disk[s][p] # Nil => SameKind(disk[s][p], disk'[s][p])
          /\ s = "alpha" => mode \notin {OneWaySafe, OneWayReplica} ]_vars

\* There is nothing left that a cycle would do to the trees as they are now.
InSync ==
  LET r == Reconciled(mode, ancestor, disk["alpha"], disk["beta"])
  IN r.alpha = {} /\ r.beta = {} /\ r.ancestor = {}

\* Nothing is under way: the controller waits and nothing will wake it.
Idle ==
  /\ pc = "poll"
  /\ flush # "asked"
  /\ orphan.left = {}
  /\ \A s \in Sides : ~ep[s].signal /\ ep[s].events = {} /\ ~ep[s].armed

\* No wake-up is lost: a session at rest has synchronized everything, refused
\* and partial transitions and failed scans included.  This is what watchers
\* promise that report every change or else an error; polling and the Linux
\* watcher do not.
RestsInSync == Idle /\ (\A s \in Sides : watch[s] = "recursive") => InSync

\* No cycle drives the next for ever: not by the signals its own transitions
\* cause, nor by changes that can never be applied.
ComesToRest == <>[][FALSE]_vars

=============================================================================
