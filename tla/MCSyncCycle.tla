------------------------------ MODULE MCSyncCycle ------------------------------
(***************************************************************************)
(* Small sessions: the root holds a directory a with a file x, and a file b. *)
(***************************************************************************)
EXTENDS SyncCycle

On(a, b) == [s \in Sides |-> IF s = "alpha" THEN a ELSE b]

Session(m, w, arch, trees, e, fl, fa) ==
  [mode |-> m, watch |-> w, archive |-> arch, disk |-> trees,
   edits |-> e, flushes |-> fl, faults |-> fa]

-----------------------------------------------------------------------------
ShallowPaths == {"root", "a", "x", "b"}
ShallowUp == [p \in ShallowPaths |-> CASE p = "root" -> {}
                                       [] p \in {"a", "b"} -> {"root"}
                                       [] p = "x" -> {"root", "a"}]

Tree(a, x, b) == [p \in ShallowPaths |-> CASE p = "root" -> "directory" [] p = "a" -> a
                                           [] p = "x" -> x [] p = "b" -> b]
Full == Tree("directory", "f1", "f1")

\* A session that was in sync.
Running(m, w, e, fl, fa) == Session(m, w, Full, On(Full, Full), e, fl, fa)

ShallowStarts ==
  {Running(TwoWaySafe, On("recursive", "recursive"), 2, 0, 0),
   Running(TwoWaySafe, On("poll", "recursive"), 1, 0, 1),
   Running(TwoWayResolved, On("recursive", "recursive"), 1, 0, 1),
   Running(TwoWayResolved, On("notify", "poll"), 1, 1, 0),
   Running(OneWayReplica, On("recursive", "notify"), 1, 1, 0),
   Running(OneWaySafe, On("recursive", "recursive"), 1, 0, 1),
   \* new sessions: different trees, and nothing on alpha
   Session(TwoWaySafe, On("poll", "recursive"), NilTree,
           On(Full, Tree("nil", "nil", "f2")), 1, 0, 0),
   Session(TwoWayResolved, On("recursive", "poll"), NilTree,
           On(Full, Tree("directory", "f2", "f1")), 1, 0, 0),
   Session(OneWaySafe, On("recursive", "poll"), NilTree, On(NilTree, Full), 1, 0, 1)}

ShallowEdits ==
  {<<"alpha", "x", "f2">>, <<"beta", "x", "f2">>, <<"beta", "x", "untracked">>,
   <<"alpha", "a", "nil">>, <<"beta", "a", "nil">>, <<"beta", "b", "f2">>,
   <<"alpha", "root", "nil">>}

=============================================================================
