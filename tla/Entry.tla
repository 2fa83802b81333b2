--------------------------------- MODULE Entry ---------------------------------
(***************************************************************************)
(* The trees that file synchronization works on, and what it does to them:  *)
(* shallow comparison, the synchronizable part, diff and Apply.             *)
(*                                                                          *)
(* An entry hierarchy is a function from every path to the node there, Nil  *)
(* where there is none, so that the code's recursion over Contents becomes a *)
(* quantification over paths.  Up[p] is the set of the strict parents of p.  *)
(* A leaf stands for everything Equal compares of a file or a symbolic link. *)
(***************************************************************************)
EXTENDS FiniteSets

CONSTANTS
  Paths,    \* the paths below a synchronization root
  Root,     \* the root itself, the code's empty path
  Up,       \* the strict parents of every path
  Leaves    \* synchronizable scalar content: files and symbolic links

Nil == "nil"
Dir == "directory"
Untracked == "untracked"
Problematic == "problematic"

Onto(p) == Up[p] \cup {p}

\* Paths are finite sequences of names: parents form a chain below the root.
ASSUME PathsAssumption ==
  /\ Root \in Paths
  /\ Up \in [Paths -> SUBSET Paths]
  /\ \A p \in Paths : p \notin Up[p] /\ Root \in Onto(p)
  /\ \A p \in Paths : \A q \in Up[p] : Up[q] \subseteq Up[p]
  /\ \A p \in Paths : \A q, r \in Onto(p) : q \in Onto(r) \/ r \in Onto(q)

\* Every set of parents of a path has a highest and a lowest member.
ASSUME ChainsAssumption ==
  \A p \in Paths : \A S \in SUBSET Onto(p) : S # {} =>
    /\ \E q \in S : \A r \in S : q \in Onto(r)
    /\ \E q \in S : \A r \in S : r \in Onto(q)

ASSUME LeavesAssumption ==
  \A l \in Leaves : l # Nil /\ l # Dir /\ l # Untracked /\ l # Problematic

Synchronizable == Leaves \cup {Dir}
Unsynchronizable == {Untracked, Problematic}
Nodes == Synchronizable \cup Unsynchronizable

Under(p) == {q \in Paths : p \in Onto(q)}

\* Only a directory has contents.
WellFormed(t) == \A p \in Paths : t[p] # Nil => \A q \in Up[p] : t[q] = Dir
Trees == {t \in [Paths -> Nodes \cup {Nil}] : WellFormed(t)}

\* What EnsureValid(true) asks of an ancestor.
EnsureValid(t) == t \in Trees /\ \A p \in Paths : t[p] \notin Unsynchronizable

NilTree == [p \in Paths |-> Nil]

\* The entry at p, with its contents.
Sub(t, p) == [q \in Paths |-> IF q \in Under(p) THEN t[q] ELSE Nil]

\* The entry at p, without its contents.
Slim(t, p) == [q \in Paths |-> IF q = p THEN t[q] ELSE Nil]

SynchronizablePart(t) == [p \in Paths |-> IF t[p] \in Unsynchronizable THEN Nil ELSE t[p]]

\* The paths at which diff(p, base, target) replaces the base by the target.
Diff(p, base, target) ==
  {q \in Under(p) : base[q] # target[q] /\ \A r \in Up[q] \cap Under(p) : base[r] = target[r]}

NonDeletion(changed, target) == {q \in changed : target[q] # Nil}

Changed(p, old, new) == [path |-> p, old |-> old, new |-> new]

\* Changes are recorded parents first, so a later one below an earlier one
\* replaces what the earlier one put there: the lowest change at or above a
\* path decides what is there afterwards.
Deciding(changes, p) ==
  CHOOSE c \in changes :
    /\ c.path \in Onto(p)
    /\ \A d \in changes : d.path \in Onto(p) => d.path \in Onto(c.path)

Apply(base, changes) ==
  [p \in Paths |->
     IF \E c \in changes : c.path \in Onto(p) THEN Deciding(changes, p).new[p] ELSE base[p]]

\* Apply fails when the parent of a changed path does not exist.
CanApply(base, changes) ==
  \A c \in changes : \A q \in Up[c.path] : Apply(base, changes)[q] # Nil

IsRootDeletion(c) == c.path = Root /\ c.old[Root] # Nil /\ c.new[Root] = Nil

\* Two nodes of the same kind: leaves are all files here.
SameKind(a, b) == a = b \/ (a \in Leaves /\ b \in Leaves)

IsRootTypeChange(c) ==
  /\ c.path = Root
  /\ c.old[Root] # Nil
  /\ c.new[Root] # Nil
  /\ ~SameKind(c.old[Root], c.new[Root])

=============================================================================
