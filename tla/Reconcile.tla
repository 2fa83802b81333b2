------------------------------- MODULE Reconcile -------------------------------
(***************************************************************************)
(* The three-way merge that decides what a synchronization cycle does: from *)
(* the ancestor (the content both sides last agreed on) and the snapshots of *)
(* both sides, the changes to each of the three and the conflicts.          *)
(***************************************************************************)
EXTENDS Entry

TwoWaySafe == "two-way-safe"
TwoWayResolved == "two-way-resolved"
OneWaySafe == "one-way-safe"
OneWayReplica == "one-way-replica"
Modes == {TwoWaySafe, TwoWayResolved, OneWaySafe, OneWayReplica}

NilOrUntracked(node) == node \in {Nil, Untracked}

\* reconcile descends through p: both sides hold the same, tracked, content.
Agreed(alpha, beta, p) ==
  /\ alpha[p] = beta[p]
  /\ ~NilOrUntracked(alpha[p])
  /\ alpha[p] # Problematic

Reached(alpha, beta, p) == \A q \in Up[p] : Agreed(alpha, beta, q)

\* The ancestor entry that the recursion carries to p: nothing, once a parent
\* of the ancestor has differed from the sides.
Seen(ancestor, alpha, p) ==
  IF \A q \in Up[p] : ancestor[q] = alpha[q] THEN Sub(ancestor, p) ELSE NilTree

NotProblematic(alpha, beta, p) == alpha[p] # Problematic /\ beta[p] # Problematic

BothAbsent(alpha, beta, p) ==
  /\ Reached(alpha, beta, p)
  /\ NotProblematic(alpha, beta, p)
  /\ NilOrUntracked(alpha[p])
  /\ NilOrUntracked(beta[p])

Disagreed(alpha, beta, p) ==
  /\ Reached(alpha, beta, p)
  /\ NotProblematic(alpha, beta, p)
  /\ ~(NilOrUntracked(alpha[p]) /\ NilOrUntracked(beta[p]))
  /\ alpha[p] # beta[p]

Disagreements(alpha, beta) == {p \in Paths : Disagreed(alpha, beta, p)}

\* Content at p that synchronization can neither remove nor overwrite.
Blockers(t, p) == Diff(p, SynchronizablePart(t), t)

\* Which side's content is to prevail at a disagreement, before looking at
\* unsynchronizable content; "neither" is a conflict.
Prevails(ancestor, alpha, beta, p) ==
  LET dA == Diff(p, ancestor, SynchronizablePart(alpha))
      dB == Diff(p, ancestor, SynchronizablePart(beta))
      nA == NonDeletion(dA, SynchronizablePart(alpha))
      nB == NonDeletion(dB, SynchronizablePart(beta))
  IN CASE dB = {} -> "alpha"
       [] dB # {} /\ dA = {} -> "beta"
       [] dB # {} /\ dA # {} /\ nA = {} /\ nB = {} ->
            IF SynchronizablePart(alpha)[p] = Nil THEN "alpha" ELSE "beta"
       [] dA # {} /\ dB # {} /\ nA # {} /\ nB = {} -> "alpha"
       [] dA # {} /\ dB # {} /\ nA = {} /\ nB # {} -> "beta"
       [] nA # {} /\ nB # {} -> "neither"

\* What one disagreement leads to.
Nothing == [ancestor |-> {}, alpha |-> {}, beta |-> {}, conflicts |-> {}]

ConflictAt(p, alphaChanges, betaChanges) ==
  [Nothing EXCEPT !.conflicts = {[root |-> p, alpha |-> alphaChanges, beta |-> betaChanges]}]

ToBeta(p, alpha, beta) ==
  [Nothing EXCEPT !.beta =
     {Changed(p, Sub(SynchronizablePart(beta), p), Sub(SynchronizablePart(alpha), p))}]

ToAlpha(p, alpha, beta) ==
  [Nothing EXCEPT !.alpha =
     {Changed(p, Sub(SynchronizablePart(alpha), p), Sub(SynchronizablePart(beta), p))}]

HandleDisagreementBidirectional(mode, seen, alpha, beta, p) ==
  LET dA == Diff(p, seen, SynchronizablePart(alpha))
      dB == Diff(p, seen, SynchronizablePart(beta))
      nA == NonDeletion(dA, SynchronizablePart(alpha))
      nB == NonDeletion(dB, SynchronizablePart(beta))
      side == Prevails(seen, alpha, beta, p)
      \* one side's changes as a conflict reports them
      shownA == IF dB # {} /\ (nA # {} \/ nB # {}) THEN nA ELSE dA
      shownB == IF dA # {} /\ (nA # {} \/ nB # {}) THEN nB ELSE dB
  IN CASE side = "neither" /\ mode = TwoWaySafe -> ConflictAt(p, nA, nB)
       [] side = "alpha" \/ (side = "neither" /\ mode # TwoWaySafe) ->
            IF Blockers(beta, p) = {}
            THEN ToBeta(p, alpha, beta)
            ELSE ConflictAt(p, shownA, Blockers(beta, p))
       [] side = "beta" ->
            IF Blockers(alpha, p) = {}
            THEN ToAlpha(p, alpha, beta)
            ELSE ConflictAt(p, Blockers(alpha, p), shownB)

HandleDisagreementOneWaySafe(seen, alpha, beta, p) ==
  LET nB == NonDeletion(Diff(p, seen, SynchronizablePart(beta)), SynchronizablePart(beta))
      untrackBetaContent == NilOrUntracked(alpha[p]) /\ (seen[p] # Dir \/ beta[p] # Dir)
  IN IF nB = {}
     THEN IF Blockers(beta, p) = {}
          THEN ToBeta(p, alpha, beta)
          ELSE ConflictAt(p, {p}, Blockers(beta, p))
     ELSE IF untrackBetaContent
          THEN [Nothing EXCEPT !.ancestor =
                  IF seen[p] # Nil THEN {Changed(p, NilTree, NilTree)} ELSE {}]
          ELSE ConflictAt(p, {p}, nB)

HandleDisagreementOneWayReplica(alpha, beta, p) ==
  IF Blockers(beta, p) = {}
  THEN ToBeta(p, alpha, beta)
  ELSE ConflictAt(p, {p}, Blockers(beta, p))

HandleDisagreement(mode, ancestor, alpha, beta, p) ==
  LET seen == Seen(ancestor, alpha, p)
  IN CASE mode \in {TwoWaySafe, TwoWayResolved} ->
            HandleDisagreementBidirectional(mode, seen, alpha, beta, p)
       [] mode = OneWaySafe -> HandleDisagreementOneWaySafe(seen, alpha, beta, p)
       [] mode = OneWayReplica -> HandleDisagreementOneWayReplica(alpha, beta, p)

\* What reconcile itself records of the ancestor: content both sides agree on
\* and the ancestor lacks, and content the ancestor has and neither side does.
AncestorChanges(ancestor, alpha, beta) ==
  {Changed(p, NilTree, Slim(alpha, p)) :
     p \in {q \in Paths : /\ Reached(alpha, beta, q)
                          /\ Agreed(alpha, beta, q)
                          /\ Seen(ancestor, alpha, q)[q] # alpha[q]}}
  \cup
  {Changed(p, NilTree, NilTree) :
     p \in {q \in Paths : BothAbsent(alpha, beta, q) /\ Seen(ancestor, alpha, q)[q] # Nil}}

Reconciled(mode, ancestor, alpha, beta) ==
  LET handled(p) == HandleDisagreement(mode, ancestor, alpha, beta, p)
      at == Disagreements(alpha, beta)
  IN [ancestor |-> AncestorChanges(ancestor, alpha, beta)
                     \cup UNION {handled(p).ancestor : p \in at},
      alpha |-> UNION {handled(p).alpha : p \in at},
      beta |-> UNION {handled(p).beta : p \in at},
      conflicts |-> UNION {handled(p).conflicts : p \in at}]

=============================================================================
