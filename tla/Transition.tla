------------------------------- MODULE Transition -------------------------------
(***************************************************************************)
(* What one planned change does to a directory tree on disk, and what it    *)
(* reports back.  The tree may have changed since it was scanned: every file *)
(* is compared with the metadata of the scan just before it is touched, and  *)
(* whatever the plan did not expect stays where it is.                       *)
(*                                                                          *)
(* disk is the tree, stale the paths whose metadata no longer match the      *)
(* cache of the last returned scan, staged the staged files as pairs of a    *)
(* path and its content, c the change.  One change is one step: the windows  *)
(* the code marks RACE, between a check and the operation it guards, are not *)
(* modelled.                                                                 *)
(***************************************************************************)
EXTENDS Entry

\* walkToParentAndComputeLeafName reaches the parent of p.
ParentExists(disk, p) == \A q \in Up[p] : disk[q] = Dir

\* Mutant: any file will do.
AnyFile(disk, stale, old, p) == old[p] \in Leaves /\ disk[p] \in Leaves

\* The file at p is the one the scan saw, with the digest the plan expects.
EnsureExpectedFile(disk, stale, old, p) ==
  /\ old[p] \in Leaves
  /\ disk[p] = old[p]
  /\ p \notin stale

ChildOf(q, p) == p \in Up[q] /\ Up[q] \subseteq Onto(p)

\* removeDirectory takes p away: below it there is nothing but expected files
\* and expected directories.
Cleared(disk, stale, old, p) ==
  \A q \in Under(p) :
    \/ disk[q] = Nil
    \/ EnsureExpectedFile(disk, stale, old, q)
    \/ disk[q] = Dir /\ old[q] = Dir

Removed(disk, stale, old, p) ==
  \/ EnsureExpectedFile(disk, stale, old, p)
  \/ disk[p] = Dir /\ old[p] = Dir /\ Cleared(disk, stale, old, p)

\* The entry that remove returns: what was expected and is not gone.  The
\* contents of a directory are forgotten when nothing expected had to stay.
KeepsContents(disk, stale, old, p) ==
  \/ disk[p] # Dir
  \/ \E q \in Paths : /\ ChildOf(q, p)
                      /\ disk[q] # Nil
                      /\ old[q] # Nil
                      /\ ~Removed(disk, stale, old, q)

Remaining(disk, stale, old, p) ==
  [q \in Paths |->
     IF /\ q \in Under(p)
        /\ ~Removed(disk, stale, old, q)
        /\ \A r \in Up[q] \cap Under(p) : KeepsContents(disk, stale, old, r)
     THEN old[q] ELSE Nil]

AfterRemoval(disk, stale, old, p) ==
  [q \in Paths |-> IF q \in Under(p) /\ Removed(disk, stale, old, q) THEN Nil ELSE disk[q]]

\* create makes every directory and those files that were staged.
Created(staged, new, p) ==
  [q \in Paths |->
     IF q \in Under(p) /\ (new[q] = Dir \/ <<q, new[q]>> \in staged) THEN new[q] ELSE Nil]

Dependencies(c) == {<<q, c.new[q]>> : q \in {r \in Under(c.path) : c.new[r] \in Leaves}}

Outcome(disk, result, missing) == [disk |-> disk, result |-> result, missing |-> missing]

\* Mutant: a refused swap is reported as done.
SwapReported(disk, stale, staged, c) ==
  IF /\ ParentExists(disk, c.path)
     /\ EnsureExpectedFile(disk, stale, c.old, c.path)
     /\ <<c.path, c.new[c.path]>> \in staged
  THEN Outcome([disk EXCEPT ![c.path] = c.new[c.path]], c.new, FALSE)
  ELSE Outcome(disk, c.new, FALSE)

SwapFile(disk, stale, staged, c) ==
  IF ParentExists(disk, c.path) /\ EnsureExpectedFile(disk, stale, c.old, c.path)
  THEN IF <<c.path, c.new[c.path]>> \in staged
       THEN Outcome([disk EXCEPT ![c.path] = c.new[c.path]], c.new, FALSE)
       ELSE Outcome(disk, c.old, TRUE)
  ELSE Outcome(disk, c.old, FALSE)

Create(disk, staged, c) ==
  IF c.new[c.path] # Nil /\ ParentExists(disk, c.path) /\ disk[c.path] = Nil
  THEN LET created == Created(staged, c.new, c.path)
       IN Outcome([q \in Paths |-> IF q \in Under(c.path) THEN created[q] ELSE disk[q]],
                  created, ~(Dependencies(c) \subseteq staged))
  ELSE \* a file is looked for among the staged ones before its place is
       Outcome(disk, NilTree, /\ ParentExists(disk, c.path)
                              /\ c.new[c.path] \in Leaves
                              /\ ~(Dependencies(c) \subseteq staged))

RemoveAndCreate(disk, stale, staged, c) ==
  IF c.old[c.path] = Nil
  THEN Create(disk, staged, c)
  ELSE IF ~ParentExists(disk, c.path) \/ disk[c.path] = Nil
  THEN Outcome(disk, c.old, FALSE)
  ELSE IF Removed(disk, stale, c.old, c.path)
  THEN Create(AfterRemoval(disk, stale, c.old, c.path), staged, c)
  ELSE Outcome(AfterRemoval(disk, stale, c.old, c.path),
               Remaining(disk, stale, c.old, c.path), FALSE)

Transitioned(disk, stale, staged, c) ==
  IF c.old[c.path] \in Leaves /\ c.new[c.path] \in Leaves
  THEN SwapFile(disk, stale, staged, c)
  ELSE RemoveAndCreate(disk, stale, staged, c)

=============================================================================
