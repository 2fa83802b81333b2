---------------------------- MODULE StagingStore ----------------------------
(***************************************************************************)
(* The content-addressed store that staged files wait in.  A store is the  *)
(* memory of one endpoint (is it initialised, which prefix directories     *)
(* does it believe exist) over a directory that outlives the endpoint and  *)
(* that another endpoint of the same session may still be using.  A staged *)
(* file is a pair of its path and its content: the digest is injective, so *)
(* the content a file is stored under is its digest.                       *)
(***************************************************************************)
EXTENDS Integers, Sequences

NoStore == [initialized |-> FALSE, prefixes |-> {}]

NoDisk == [exists |-> FALSE, prefixes |-> {}, files |-> {}]

\* The first byte of a digest: the prefix directory its files are put in.
Prefix(content) == Len(content) % 2

\* Mutant: the table of prefix directories survives the storage root.
InitializeKeepingPrefixes(s) ==
  IF s.store.initialized
  THEN s
  ELSE [s EXCEPT !.store = [initialized |-> TRUE,
                            prefixes |-> s.store.prefixes \cup s.disk.prefixes],
                 !.disk.exists = TRUE]

\* s is a pair of a store and its directory.
Initialize(s) ==
  IF s.store.initialized
  THEN s
  ELSE [s EXCEPT !.store = [initialized |-> TRUE,
                            prefixes |-> s.disk.prefixes],
                 !.disk.exists = TRUE]

\* May a temporary file be created?
Allocates(s) == s.store.initialized /\ s.disk.exists

\* The file is put under the digest of what was written: path, data.  The
\* temporary file may be gone, with the root it was created in.
Commit(s, path, data, temporary) ==
  LET prefix == Prefix(data)
      known == prefix \in s.store.prefixes
      made == ~known /\ s.disk.exists /\ prefix \notin s.disk.prefixes
      s1 == IF made
            THEN [s EXCEPT !.store.prefixes = @ \cup {prefix},
                           !.disk.prefixes = @ \cup {prefix}]
            ELSE s
  IN IF (known \/ made) /\ temporary /\ prefix \in s1.disk.prefixes
     THEN [s1 EXCEPT !.disk.files = @ \cup {[path |-> path, name |-> data,
                                             data |-> data]}]
     ELSE s1

\* Mutant: a staged file is found by its path alone.
StagedByPath(s, path, digest) ==
  {f \in s.disk.files : f.path = path}

\* The files staged for a path under a digest: none or one.
Staged(s, path, digest) ==
  {f \in s.disk.files : f.path = path /\ f.name = digest}

StoreContains(s, path, digest) ==
  /\ Prefix(digest) \in s.store.prefixes
  /\ Staged(s, path, digest) # {}

\* The endpoint is done with staging: the directory goes.
Finalize(s) == [store |-> [s.store EXCEPT !.initialized = FALSE],
                disk |-> NoDisk]

=============================================================================
