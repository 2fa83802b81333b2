----------------------------- MODULE MCStaging -----------------------------
(***************************************************************************)
(* Instances of Staging.  One set of scenarios moves one file, every base  *)
(* to every target of a bounded size, with nothing interfering.  The other *)
(* one has two files, both directions, edits, broken streams and cancels.  *)
(***************************************************************************)
EXTENDS Staging

MCPaths == << "a", "b" >>

\* All byte sequences of at most n bytes.
Bytes(n) == UNION {[1 .. k -> {0, 1}] : k \in 0 .. n}

Budget(cycles, edits, breaks, cancels, reconnects) ==
  [cycles |-> cycles, edits |-> edits, breaks |-> breaks, cancels |-> cancels,
   reconnects |-> reconnects]

Files(a, b) == [p \in {"a", "b"} |-> IF p = "a" THEN a ELSE b]

\* The delta of every target from every base: without, with one and with two
\* full blocks, with and without a short last block.
Quiet ==
  {[push |-> TRUE, source |-> Files(t, Absent), root |-> Files(b, Absent),
    budget |-> Budget(1, 0, 0, 0, 0)] : t \in Bytes(5), b \in Bytes(5)}

MCContents == {<< >>, << 1, 0, 1 >>}

\* Two files, one with a base and one without, or with its content at hand.
Busy ==
  {[push |-> d, source |-> Files(<< 0, 1, 1 >>, << 1 >>),
    root |-> Files(<< 0, 1 >>, b), budget |-> u] :
     d \in BOOLEAN, b \in {Absent, << 0, 1, 1 >>},
     u \in {Budget(2, 1, 1, 0, 1), Budget(2, 1, 0, 1, 0),
            Budget(2, 2, 0, 0, 0)}}

MCScenarios == Quiet \cup Busy
=============================================================================
