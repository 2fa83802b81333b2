------------------------ MODULE ConnectionManagerProofs ------------------------
(***************************************************************************)
(* Every step of ConnectionManager keeps the structure of its state: what a  *)
(* call knows at each point of initialize, where a daemon is and who works   *)
(* on it, for any number of restores, requests, names, destinations and      *)
(* removals.  With it the counts of references cover the claims on every     *)
(* daemon, and the theorems of the connection manager follow.                *)
(***************************************************************************)
EXTENDS ConnectionManager, FiniteSetTheorems, TLAPS

Begun == {"create", "init", "transport", "ensure", "follow", "update", "merged", "failed"}
Backed == {"init", "transport", "ensure", "follow", "merged", "failed"}
Early == {"idle", "get", "make", "create"}

\* Before a call has a daemon it has made none, and before it has a connection
\* none is listed or backed.
Fresh(c) == call[c].pc \in {"idle", "get", "make"} => call[c].dm = None /\ dm[c].key = None /\ dm[c].by = None
Unlisted(c) == call[c].pc \in Early => backing[c] = None /\ ~Listed(c)

\* Then the daemon is the one that its connection has, until the call follows a
\* superseded one; the daemons it knows exist.
Holding(c) ==
  /\ call[c].pc \in Begun => call[c].dm # None
  /\ call[c].pc \in Backed => backing[c] = call[c].dm
Existing(c) ==
  /\ call[c].dm # None => dm[call[c].dm].key # None
  /\ backing[c] # None => dm[backing[c]].key # None

\* A call follows from a superseded daemon to the one that superseded it, which
\* is under a resolved key.
Following(c) ==
  /\ At(c, "follow") => dm[call[c].dm].by # None
  /\ At(c, "update") => backing[c] # None /\ dm[backing[c]].by = call[c].dm
  /\ At(c, "merged") => dm[call[c].dm].by = None /\ Resolve[dm[call[c].dm].key] = dm[call[c].dm].key

\* A restore fails, and a call ends with a connection, only with the result of
\* the daemon's Initialize.
Settled(c) ==
  /\ At(c, "failed") /\ c \in Restores => dm[call[c].dm].init = "failed"
  /\ At(c, "done") /\ Listed(c) => backing[c] # None /\ dm[backing[c]].init \in {"ok", "failed"}

\* A call that may run the transport finds the daemon under its own destination.
OwnKey(c) ==
  /\ call[c].pc \in {"create", "init"} /\ dm[call[c].dm].init = "none" => dm[call[c].dm].key = call[c].dest
  /\ At(c, "transport") => dm[call[c].dm].key = call[c].dest

\* What a call knows at each point of initialize.
CallSound(c) ==
  Fresh(c) /\ Unlisted(c) /\ Holding(c) /\ Existing(c) /\ Following(c) /\ Settled(c) /\ OwnKey(c)

\* A superseded daemon says so to the calls that wait for it, and the one that
\* superseded it is under a resolved key and so is never superseded itself.
Final(d) == dm[d].by = None /\ dm[d].key # None /\ Resolve[dm[d].key] = dm[d].key
SupersedeSound ==
  \A d \in Calls : /\ dm[d].by # None <=> dm[d].init = "superseded"
                   /\ dm[d].by # None => Final(dm[d].by)

\* One call at a time runs a daemon's Initialize.
Working(c) == call[c].pc \in {"transport", "ensure"}
OneWorker ==
  /\ \A c \in Calls : Working(c) => call[c].dm # None /\ dm[call[c].dm].init = "running"
  /\ \A b, c \in Calls : Working(b) /\ Working(c) /\ call[b].dm = call[c].dm => b = c

\* A removal knows a connection that was in the table, and no request runs
\* beside it.
RemoveSound ==
  remover.pc = "delete" =>
    /\ remover.conn \in Calls /\ remover.name = call[remover.conn].name
    /\ backing[remover.conn] # None
    /\ call[remover.conn].pc \notin Early
    /\ \A c \in Requests : At(c, "idle") \/ At(c, "done")

Structure == /\ TypeOK /\ MapSound /\ InitOwned
             /\ \A c \in Calls : CallSound(c)
             /\ SupersedeSound /\ OneWorker /\ RemoveSound

\* A connection is in the table under its own name.
NamesSound == \A n \in Names : connections[n] # None => call[connections[n]].name = n

-----------------------------------------------------------------------------
(* What a step leaves alone.                                                 *)

\* The other calls, and what c was called with.
OnlyCall(c) ==
  /\ \A b \in Calls : b # c => call'[b] = call[b]
  /\ call'[c].name = call[c].name /\ call'[c].dest = call[c].dest

\* The other connections, but that c may take or free a name; and the removal.
Others(c) ==
  /\ OnlyCall(c) /\ UNCHANGED remover
  /\ \A b \in Calls : b # c => backing'[b] = backing[b]
  /\ \A n \in Names : connections'[n] \in {connections[n], c, None}

\* Reference counts aside, the daemons but d, or all of them.
Same(e) == dm'[e].key = dm[e].key /\ dm'[e].by = dm[e].by /\ dm'[e].init = dm[e].init
OnlyDaemon(d) == \A e \in Calls : e # d => Same(e)
SameDaemons == \A e \in Calls : Same(e)

\* What the calls rely on while others change a daemon.
Advances(e) ==
  /\ dm[e].key # None => dm'[e].key # None
  /\ dm[e].by # None => dm'[e].by = dm[e].by
  /\ dm[e].init \in {"ok", "failed"} => dm'[e].init = dm[e].init
  /\ Final(e) => dm'[e].by = None /\ dm'[e].key = dm[e].key
  /\ dm'[e].init = "none" /\ dm[e].key # None => dm[e].init = "none" /\ dm'[e].key = dm[e].key

\* What one part of the state says of another names a daemon.
References ==
  /\ \A k \in Keys : daemons[k] \in Calls \cup {None}
  /\ \A c \in Calls : call[c].dm \in Calls \cup {None} /\ backing[c] \in Calls \cup {None} /\ dm[c].by \in Calls \cup {None}

\* The constants as the steps below use them.
LEMMA Constants == /\ None \notin Calls /\ None \notin Keys
                   /\ \A k \in Keys : Resolve[k] \in Keys /\ Resolve[Resolve[k]] = Resolve[k]
                   /\ \A c \in Calls : c \in Requests <=> c \notin Restores
BY ManagerAssumption, Zenon DEF Calls

\* Types in the form the steps below use.
LEMMA Typing ==
  ASSUME Structure
  PROVE  /\ References
         /\ \A c \in Calls : /\ call[c].name \in Names /\ call[c].dest \in Keys
                             /\ call[c].pc \in Begun => call[c].dm \in Calls /\ dm[call[c].dm].key \in Keys
         /\ remover.pc = "delete" => /\ remover.conn \in Calls /\ remover.name \in Names
                                     /\ backing[remover.conn] \in Calls /\ dm[backing[remover.conn]].key \in Keys
<1>0. \A c \in Calls : Holding(c) /\ Existing(c)
  BY Zenon DEF Structure, CallSound
<1>1. /\ \A c \in Calls : /\ call[c].dm \in Calls \cup {None} /\ call[c].name \in Names /\ call[c].dest \in Keys
                          /\ backing[c] \in Calls \cup {None}
                          /\ dm[c].by \in Calls \cup {None} /\ dm[c].key \in Keys \cup {None}
      /\ \A k \in Keys : daemons[k] \in Calls \cup {None}
  BY Zenon DEF Structure, TypeOK, CallType, DaemonType
<1>2. \A c \in Calls : call[c].pc \in Begun => call[c].dm \in Calls /\ dm[call[c].dm].key \in Keys
  BY <1>0, <1>1, Zenon DEF Holding, Existing
<1>3. remover.pc = "delete" => /\ remover.conn \in Calls /\ remover.name \in Names
                               /\ backing[remover.conn] \in Calls /\ dm[backing[remover.conn]].key \in Keys
  BY <1>0, <1>1, Zenon DEF Structure, RemoveSound, Existing
<1> QED
  BY <1>1, <1>2, <1>3, Zenon DEF References

\* Changing a field of a daemon to a value of its type keeps the daemons' type.
LEMMA DaemonTyping ==
  ASSUME TypeOK, NEW d \in Calls
  PROVE  /\ \A i \in Int : [dm EXCEPT ![d].refs = i] \in [Calls -> DaemonType]
         /\ \A r \in {"none", "running", "ok", "failed", "superseded"} : [dm EXCEPT ![d].init = r] \in [Calls -> DaemonType]
         /\ \A k \in Keys : [dm EXCEPT ![d].key = k] \in [Calls -> DaemonType]
         /\ dm[d].refs + 1 \in Int /\ dm[d].refs - 1 \in Int
BY DEF TypeOK, DaemonType

\* Moving a call to its next point of initialize keeps the calls' type, and its
\* daemon, name and destination.
LEMMA GotoTyping ==
  ASSUME TypeOK, NEW c \in Calls,
         NEW p \in {"get", "make", "init", "transport", "ensure", "follow", "merged", "failed", "done"}, Goto(c, p)
  PROVE  call' \in [Calls -> CallType] /\ OnlyCall(c) /\ call'[c].pc = p /\ call'[c].dm = call[c].dm
<1>1. call' \in [Calls -> CallType]
  BY DEF TypeOK, CallType, Goto
<1> QED
  BY <1>1, Zenon DEF TypeOK, CallType, Goto, OnlyCall

\* So does a step that also gives the call its daemon.
LEMMA CallTyping ==
  ASSUME TypeOK, NEW c \in Calls, NEW d \in Calls, NEW p \in {"create", "update"},
         call' = [call EXCEPT ![c].dm = d, ![c].pc = p]
  PROVE  call' \in [Calls -> CallType] /\ OnlyCall(c) /\ call'[c].pc = p /\ call'[c].dm = d
<1> DEFINE next == [call[c] EXCEPT !.dm = d, !.pc = p]
<1>1. call[c] \in CallType /\ d \in Calls \cup {None}
  BY Zenon DEF TypeOK
<1>2. next \in CallType /\ next.name = call[c].name /\ next.dest = call[c].dest /\ next.dm = d /\ next.pc = p
  BY <1>1, Zenon DEF CallType
<1>3. call' = [call EXCEPT ![c] = next]
  BY Zenon DEF TypeOK
<1> HIDE DEF next
<1>4. call' \in [Calls -> CallType]
  BY <1>2, <1>3, ZenonT(40) DEF TypeOK
<1>5. call'[c] = next /\ \A b \in Calls : b # c => call'[b] = call[b]
  BY <1>3, Zenon DEF TypeOK
<1> QED
  BY <1>2, <1>4, <1>5, Zenon DEF OnlyCall

\* A daemon that getOrCreateDaemon adds has the daemons' type.
LEMMA NewDaemonTyping ==
  ASSUME TypeOK, NEW c \in Calls, NEW k \in Keys
  PROVE  [dm EXCEPT ![c].key = k, ![c].refs = 1] \in [Calls -> DaemonType]
<1> DEFINE next == [dm[c] EXCEPT !.key = k, !.refs = 1]
<1>1. dm[c] \in DaemonType /\ k \in Keys \cup {None} /\ 1 \in Int
  BY DEF TypeOK
<1>2. next \in DaemonType
  BY <1>1, Zenon DEF DaemonType
<1>3. [dm EXCEPT ![c].key = k, ![c].refs = 1] = [dm EXCEPT ![c] = next]
  BY Zenon DEF TypeOK
<1> QED
  BY <1>2, <1>3, Zenon DEF TypeOK

\* So has one that reassignDaemon marks as superseded.
LEMMA SupersededTyping ==
  ASSUME TypeOK, NEW c \in Calls, NEW d \in Calls
  PROVE  [dm EXCEPT ![c].by = d, ![c].init = "superseded"] \in [Calls -> DaemonType]
<1> DEFINE next == [dm[c] EXCEPT !.by = d, !.init = "superseded"]
<1>1. dm[c] \in DaemonType
  BY Zenon DEF TypeOK
<1>2. next \in DaemonType
  BY <1>1, Zenon DEF DaemonType
<1>3. [dm EXCEPT ![c].by = d, ![c].init = "superseded"] = [dm EXCEPT ![c] = next]
  BY Zenon DEF TypeOK
<1> QED
  BY <1>2, <1>3, Zenon DEF TypeOK

\* Taking a reference, or releasing one, changes no daemon but in its count.
LEMMA CountTyping ==
  ASSUME TypeOK, NEW d \in Calls, NEW i \in Int, dm' = [dm EXCEPT ![d].refs = i]
  PROVE  SameDaemons
BY Zenon DEF TypeOK, DaemonType, SameDaemons, Same

\* A call that a step leaves alone stays sound when daemons change as it expects.
LEMMA KeptSound ==
  ASSUME Structure, \A e \in Calls : Advances(e),
         NEW b \in Calls, call'[b] = call[b], backing'[b] = backing[b], Listed(b)' => Listed(b),
         call[b].pc \in {"idle", "get", "make"} => dm'[b].key = dm[b].key /\ dm'[b].by = dm[b].by,
         At(b, "transport") => dm'[call[b].dm].key = dm[call[b].dm].key
  PROVE  CallSound(b)'
<1>1. /\ call'[b] = call[b] /\ backing'[b] = backing[b] /\ (Listed(b)' => Listed(b))
      /\ call[b].dm \in Calls \cup {None} /\ backing[b] \in Calls \cup {None}
  BY Typing, Zenon DEF References
<1>2. CallSound(b)
  BY Zenon DEF Structure
<1>3. Fresh(b)' /\ Unlisted(b)'
  BY <1>1, <1>2, Zenon DEF CallSound, Fresh, Unlisted
<1>4. Holding(b)'
  BY <1>1, <1>2, Zenon DEF CallSound, Holding
<1>5. Existing(b)'
  BY <1>1, <1>2, Zenon DEF CallSound, Existing, Advances
<1>6. Following(b)'
  <2>1. At(b, "follow") \/ At(b, "merged") => call[b].dm \in Calls
    BY Typing, Zenon DEF Begun, At
  <2>2. At(b, "merged") => Final(call[b].dm)
    BY <1>2, <2>1, Constants, Zenon DEF CallSound, Following, Existing, Final
  <2>3. At(b, "update") => call[b].dm # None
    BY <1>2, Zenon DEF CallSound, Holding, Begun, At
  <2> QED
    BY <1>1, <1>2, <2>1, <2>2, <2>3, Zenon DEF CallSound, Following, Advances, At, Final
<1>7. Settled(b)'
  <2>1. At(b, "failed") => call[b].dm \in Calls
    BY Typing, Zenon DEF Begun, At
  <2> QED
    BY <1>1, <1>2, <2>1 DEF CallSound, Settled, Advances, At
<1>8. OwnKey(b)'
  <2>1. call[b].pc \in {"create", "init"} => call[b].dm \in Calls /\ dm[call[b].dm].key # None
    BY Typing, Constants, Zenon DEF Begun
  <2> QED
    BY <1>1, <1>2, <2>1, Zenon DEF CallSound, OwnKey, Advances, At
<1> QED
  BY <1>3, <1>4, <1>5, <1>6, <1>7, <1>8, Zenon DEF CallSound

\* So do the other calls when c takes a step.
LEMMA OthersSound ==
  ASSUME Structure, NEW c \in Calls, Others(c), \A e \in Calls : Advances(e),
         NEW b \in Calls, b # c,
         call[b].pc \in {"idle", "get", "make"} => dm'[b].key = dm[b].key /\ dm'[b].by = dm[b].by,
         At(b, "transport") => dm'[call[b].dm].key = dm[call[b].dm].key
  PROVE  CallSound(b)'
<1>1. call'[b] = call[b] /\ backing'[b] = backing[b] /\ (Listed(b)' => Listed(b))
  BY Typing, Constants DEF Others, OnlyCall, Listed
<1> QED
  BY <1>1, KeptSound, Zenon

\* The daemons do what the calls expect when nothing but counts changes.
LEMMA SameAdvances ==
  ASSUME NEW e, Same(e) PROVE Advances(e)
BY Zenon DEF Same, Advances, Final

\* A removal is not disturbed by a step of c while c is its connection or makes
\* no request.
LEMMA RemoveFrame ==
  ASSUME Structure, NEW c \in Calls, Others(c), c \in Requests => remover.pc # "delete",
         call[c].pc \notin Early => call'[c].pc \notin Early /\ (backing[c] # None => backing'[c] # None)
  PROVE  RemoveSound'
<1> SUFFICES ASSUME remover.pc = "delete" PROVE RemoveSound'
  BY Zenon DEF RemoveSound, Others
<1>1. /\ remover.conn \in Calls /\ remover.name = call[remover.conn].name
      /\ backing[remover.conn] # None /\ call[remover.conn].pc \notin Early
      /\ \A b \in Requests : b # c /\ b \in Calls /\ (At(b, "idle") \/ At(b, "done"))
  BY Zenon DEF Structure, RemoveSound, Calls
<1>2. /\ remover' = remover /\ call'[c].name = call[c].name
      /\ \A b \in Calls : b # c => call'[b] = call[b] /\ backing'[b] = backing[b]
  BY Zenon DEF Others, OnlyCall
<1> QED
  BY <1>1, <1>2, Zenon DEF RemoveSound, At

\* A request that runs is alone.
LEMMA RequestAlone ==
  ASSUME Structure, NEW c \in Calls, c \in Requests, call[c].pc \notin {"idle", "done"}
  PROVE  remover.pc # "delete"
BY Zenon DEF Structure, RemoveSound, At

\* A step of c that changes no daemon but in its count, and is no part of its
\* Initialize, keeps the structure if it keeps what c knows.
LEMMA QuietSound ==
  ASSUME Structure, NEW c \in Calls, Others(c), SameDaemons, TypeOK', CallSound(c)',
         \A k \in Keys : daemons'[k] \in {daemons[k], None},
         ~Working(c), ~Working(c)', c \in Requests => remover.pc # "delete",
         call[c].pc \notin Early => call'[c].pc \notin Early /\ (backing[c] # None => backing'[c] # None)
  PROVE  Structure'
<1>r. References /\ None \notin Calls
  BY Typing, Constants, Zenon
<1>f. /\ \A e \in Calls : Same(e)
      /\ \A b \in Calls : b # c => call'[b] = call[b]
  BY Zenon DEF SameDaemons, Others, OnlyCall
<1>1. MapSound'
  BY <1>r, <1>f DEF Structure, MapSound, References, Same
<1>2. InitOwned'
  <2> SUFFICES ASSUME NEW d \in Calls, dm'[d].init = "running"
               PROVE  \E b \in Calls : call'[b].dm = d /\ call'[b].pc \in {"transport", "ensure"}
    BY Zenon DEF InitOwned
  <2>1. PICK b \in Calls : call[b].dm = d /\ call[b].pc \in {"transport", "ensure"}
    BY <1>f DEF Structure, InitOwned, Same
  <2> QED
    BY <1>f, <2>1, Zenon DEF Working
<1>3. ASSUME NEW b \in Calls PROVE CallSound(b)'
  <2>1. At(b, "transport") => call[b].dm \in Calls
    BY Typing, Zenon DEF Begun, At
  <2> QED
    BY <1>f, <2>1, SameAdvances, OthersSound, Zenon DEF Same
<1>4. SupersedeSound'
  BY <1>r, <1>f DEF Structure, SupersedeSound, References, Same, Final
<1>5. OneWorker'
  <2>1. \A b \in Calls : Working(b)' => b # c /\ Working(b) /\ call'[b] = call[b]
    BY <1>f, Zenon DEF Working
  <2>2. \A b \in Calls : Working(b) => call[b].dm \in Calls /\ dm[call[b].dm].init = "running"
    BY <1>r, Zenon DEF Structure, OneWorker, References
  <2> QED
    BY <1>f, <2>1, <2>2 DEF Structure, OneWorker, Same
<1>6. RemoveSound'
  BY RemoveFrame, Zenon
<1> QED
  BY <1>1, <1>2, <1>3, <1>4, <1>5, <1>6, Zenon DEF Structure

-----------------------------------------------------------------------------
(* The steps of initialize keep the structure.                               *)

\* A call that looks its name up holds nothing yet.
LEMMA LookupSound == ASSUME Structure, NEW c \in Calls, Lookup(c) PROVE Structure'
<1>1. CallSound(c) /\ TypeOK
  BY Zenon DEF Structure
<1>2. PICK p \in {"get", "done"} : Goto(c, p)
  BY Zenon DEF Lookup
<1>3. call' \in [Calls -> CallType] /\ OnlyCall(c) /\ call'[c].pc = p /\ call'[c].dm = call[c].dm /\ call[c].pc = "idle"
  BY <1>1, <1>2, GotoTyping, Zenon DEF Lookup, At
<1>4. UNCHANGED <<connections, daemons, dm, backing, remover, removes, doomed, open>>
  BY Zenon DEF Lookup
<1>5. TypeOK'
  BY <1>1, <1>3, <1>4, Zenon DEF TypeOK
<1>6. Others(c) /\ SameDaemons
  BY <1>3, <1>4, Zenon DEF Others, SameDaemons, Same
<1>7. CallSound(c)'
  <2>1. call[c].dm = None /\ dm[c].key = None /\ dm[c].by = None /\ backing[c] = None /\ ~Listed(c)
    BY <1>1, <1>3, Zenon DEF CallSound, Fresh, Unlisted, Early
  <2>2. call'[c].dm = None /\ dm'[c].key = None /\ dm'[c].by = None /\ backing'[c] = None /\ ~Listed(c)'
    BY <1>3, <1>4, <2>1, Zenon DEF Listed, OnlyCall
  <2> QED
    BY <1>3, <2>2, Zenon DEF CallSound, Fresh, Unlisted, Holding, Existing, Following, Settled, OwnKey, Begun, Backed, At
<1>8. c \in Requests => remover.pc # "delete"
  BY Zenon DEF Lookup, ServerBusy
<1> QED
  BY <1>3, <1>4, <1>5, <1>6, <1>7, <1>8, QuietSound, Zenon DEF Working, Early

\* A call that finds a daemon under its destination takes it.
LEMMA TakeRefSound ==
  ASSUME Structure, NEW c \in Calls, NEW d \in Calls, TakeRef(c, d), d = daemons[call[c].dest],
         call[c].pc \in {"get", "make"}, UNCHANGED <<connections, daemons, backing, remover, removes, doomed, open>>
  PROVE  Structure'
<1>1. CallSound(c) /\ TypeOK /\ call[c].dest \in Keys
  BY Typing, Zenon DEF Structure
<1>2. call' \in [Calls -> CallType] /\ OnlyCall(c) /\ call'[c].pc = "create" /\ call'[c].dm = d
  BY <1>1, CallTyping, Zenon DEF TakeRef
<1>3. dm' \in [Calls -> DaemonType] /\ SameDaemons
  BY <1>1, DaemonTyping, CountTyping, Zenon DEF TakeRef
<1>4. TypeOK'
  BY <1>1, <1>2, <1>3, Zenon DEF TypeOK
<1>5. Others(c)
  BY <1>2, Zenon DEF Others
<1>6. CallSound(c)'
  <2>1. backing[c] = None /\ ~Listed(c)
    BY <1>1, Zenon DEF CallSound, Unlisted, Early
  <2>2. backing'[c] = None /\ ~Listed(c)' /\ call'[c].dest = call[c].dest
    BY <1>2, <2>1, Zenon DEF Listed, OnlyCall
  <2>3. dm'[d].key = call[c].dest
    BY <1>1, <1>3, Constants, Zenon DEF Structure, MapSound, SameDaemons, Same
  <2> QED
    BY <1>1, <1>2, <2>2, <2>3, Constants
      , Zenon DEF CallSound, Fresh, Unlisted, Holding, Existing, Following, Settled, OwnKey, Begun, Backed, Early, At
<1>7. c \in Requests => remover.pc # "delete"
  BY RequestAlone, Zenon
<1> QED
  BY <1>2, <1>3, <1>4, <1>5, <1>6, <1>7, QuietSound, Zenon DEF Working, Early

\* A call that goes on to make a daemon, or that cannot, holds nothing.
LEMMA NoDaemonSound ==
  ASSUME Structure, NEW c \in Calls, NEW p \in {"make", "done"}, Goto(c, p), call[c].pc \in {"get", "make"},
         UNCHANGED <<connections, daemons, dm, backing, remover, removes, doomed, open>>
  PROVE  Structure'
<1>1. CallSound(c) /\ TypeOK
  BY Zenon DEF Structure
<1>2. call' \in [Calls -> CallType] /\ OnlyCall(c) /\ call'[c].pc = p /\ call'[c].dm = call[c].dm
  BY <1>1, GotoTyping, Zenon
<1>3. TypeOK'
  BY <1>1, <1>2, Zenon DEF TypeOK
<1>4. Others(c) /\ SameDaemons
  BY <1>2, Zenon DEF Others, SameDaemons, Same
<1>5. CallSound(c)'
  <2>1. call[c].dm = None /\ dm[c].key = None /\ dm[c].by = None /\ backing[c] = None /\ ~Listed(c)
    BY <1>1, Zenon DEF CallSound, Fresh, Unlisted, Early
  <2>2. call'[c].dm = None /\ dm'[c].key = None /\ dm'[c].by = None /\ backing'[c] = None /\ ~Listed(c)'
    BY <1>2, <2>1 DEF Listed, OnlyCall
  <2> QED
    BY <1>2, <2>2, Zenon DEF CallSound, Fresh, Unlisted, Holding, Existing, Following, Settled, OwnKey, Begun, Backed, At
<1>6. c \in Requests => remover.pc # "delete"
  BY RequestAlone, Zenon
<1> QED
  BY <1>2, <1>3, <1>4, <1>5, <1>6, QuietSound, Zenon DEF Working, Early

\* A daemon found under the destination has that key.
LEMMA GetDaemonSound == ASSUME Structure, NEW c \in Calls, GetDaemon(c) PROVE Structure'
<1>1. CASE daemons[call[c].dest] = None
  BY <1>1, NoDaemonSound, Zenon DEF GetDaemon, At
<1>2. CASE daemons[call[c].dest] # None
  <2>1. PICK d \in Calls : d = daemons[call[c].dest]
    BY <1>2, Typing, Zenon DEF References
  <2> QED
    BY <1>2, <2>1, TakeRefSound, Zenon DEF GetDaemon, At
<1> QED
  BY <1>1, <1>2, Zenon

\* A daemon is added under the destination, where there is none.
AddsDaemon(c, k) ==
  /\ At(c, "make") /\ k = call[c].dest /\ daemons[k] = None
  /\ daemons' = [daemons EXCEPT ![k] = c]
  /\ dm' = [dm EXCEPT ![c].key = k, ![c].refs = 1]
  /\ call' = [call EXCEPT ![c].dm = c, ![c].pc = "create"]
  /\ UNCHANGED <<connections, backing, remover, removes, doomed, open>>

\* The new daemon is nobody's yet.
LEMMA NewDaemonSound == ASSUME Structure, NEW c \in Calls, NEW k \in Keys, AddsDaemon(c, k) PROVE Structure'
<1>1. CallSound(c) /\ TypeOK /\ References /\ call[c].pc = "make" /\ k = call[c].dest
  BY Typing, Zenon DEF Structure, AddsDaemon, At
<1>u. UNCHANGED <<connections, backing, remover, removes, doomed, open>>
  BY Zenon DEF AddsDaemon
<1>s. MapSound /\ InitOwned /\ SupersedeSound /\ OneWorker
  BY Zenon DEF Structure
<1>2. call' \in [Calls -> CallType] /\ OnlyCall(c) /\ call'[c].pc = "create" /\ call'[c].dm = c
  BY <1>1, CallTyping, Zenon DEF AddsDaemon
<1>3. dm' \in [Calls -> DaemonType]
  BY <1>1, NewDaemonTyping, Zenon DEF AddsDaemon
<1>4. OnlyDaemon(c) /\ dm'[c].key = k /\ dm'[c].by = dm[c].by /\ dm'[c].init = dm[c].init
  BY <1>1 DEF AddsDaemon, TypeOK, DaemonType, OnlyDaemon, Same
<1>5. daemons' \in [Keys -> Calls \cup {None}] /\ \A x \in Keys : daemons'[x] = IF x = k THEN c ELSE daemons[x]
  BY <1>1, Zenon DEF AddsDaemon, TypeOK
<1>6. TypeOK'
  BY <1>1, <1>u, <1>2, <1>3, <1>5, Zenon DEF TypeOK
<1>7. Others(c)
  BY <1>u, <1>2, Zenon DEF Others
<1>8. call[c].dm = None /\ dm[c].key = None /\ dm[c].by = None /\ backing[c] = None /\ ~Listed(c)
  BY <1>1, Zenon DEF CallSound, Fresh, Unlisted, Early
<1>9. MapSound'
  <2> SUFFICES ASSUME NEW x \in Keys, daemons'[x] # None
               PROVE  dm'[daemons'[x]].key = x /\ dm'[daemons'[x]].by = None
    BY Zenon DEF MapSound
  <2>1. x # k => daemons'[x] = daemons[x] /\ daemons[x] \in Calls /\ dm[daemons[x]].key = x /\ dm[daemons[x]].by = None
    BY <1>1, <1>5, <1>s, Zenon DEF MapSound, References
  <2> QED
    BY <1>4, <1>5, <1>8, <2>1, Constants DEF OnlyDaemon, Same
<1>10. InitOwned'
  <2> SUFFICES ASSUME NEW d \in Calls, dm'[d].init = "running"
               PROVE  \E b \in Calls : call'[b].dm = d /\ call'[b].pc \in {"transport", "ensure"}
    BY Zenon DEF InitOwned
  <2>1. PICK b \in Calls : call[b].dm = d /\ call[b].pc \in {"transport", "ensure"}
    BY <1>4, <1>s DEF InitOwned, OnlyDaemon, Same
  <2> QED
    BY <1>1, <1>2, <2>1, Zenon DEF OnlyCall
<1>11. \A b \in Calls : CallSound(b)'
  <2>1. CallSound(c)'
    <3>1. backing'[c] = None /\ ~Listed(c)' /\ call'[c].dest = k
      BY <1>1, <1>u, <1>2, <1>8, Zenon DEF Listed, OnlyCall
    <3> QED
      BY <1>2, <1>4, <3>1, Constants
        , Zenon DEF CallSound, Fresh, Unlisted, Holding, Existing, Following, Settled, OwnKey, Begun, Backed, Early, At
  <2>2. \A e \in Calls : Advances(e)
    BY <1>4, <1>8, SameAdvances, Constants, Zenon DEF OnlyDaemon, Advances, Final
  <2>3. ASSUME NEW b \in Calls, b # c PROVE CallSound(b)'
    <3>1. At(b, "transport") => call[b].dm \in Calls /\ dm[call[b].dm].key # None
      BY Typing, Constants, Zenon DEF Begun, At
    <3> QED
      BY <1>4, <1>7, <1>8, <2>2, <2>3, <3>1, OthersSound, Zenon DEF OnlyDaemon, Same
  <2> QED
    BY <2>1, <2>3, Zenon
<1>12. SupersedeSound'
  <2> SUFFICES ASSUME NEW d \in Calls
               PROVE  (dm'[d].by # None <=> dm'[d].init = "superseded") /\ (dm'[d].by # None => Final(dm[d].by)')
    BY Zenon DEF SupersedeSound
  <2>1. dm'[d].by = dm[d].by /\ dm'[d].init = dm[d].init
    BY <1>4, Zenon DEF OnlyDaemon, Same
  <2>2. dm[d].by # None => dm[d].by \in Calls /\ Final(dm[d].by) /\ dm[d].by # c
    BY <1>1, <1>8, <1>s, Zenon DEF SupersedeSound, Final, References
  <2>3. dm[d].by # None => Final(dm[d].by)'
    BY <1>4, <2>1, <2>2, Zenon DEF OnlyDaemon, Same, Final
  <2> QED
    BY <1>s, <2>1, <2>3, Zenon DEF SupersedeSound
<1>13. OneWorker'
  <2>1. \A b \in Calls : Working(b)' => b # c /\ Working(b) /\ call'[b] = call[b]
    BY <1>2, Zenon DEF Working, OnlyCall
  <2>2. \A b \in Calls : Working(b) => call[b].dm \in Calls /\ dm[call[b].dm].init = "running"
    BY <1>1, <1>s, Zenon DEF OneWorker, References
  <2>3. \A d \in Calls : dm'[d].init = dm[d].init
    BY <1>4, Zenon DEF OnlyDaemon, Same
  <2> QED
    BY <1>s, <2>1, <2>2, <2>3, Constants DEF OneWorker
<1>14. RemoveSound'
  BY <1>1, <1>7, RequestAlone, RemoveFrame, Zenon DEF Early
<1> QED
  BY <1>6, <1>9, <1>10, <1>11, <1>12, <1>13, <1>14, Zenon DEF Structure

\* The second look at the map finds a daemon, or adds one.
LEMMA CreateDaemonSound == ASSUME Structure, NEW c \in Calls, CreateDaemon(c) PROVE Structure'
<1>1. call[c].dest \in Keys /\ (daemons[call[c].dest] # None => daemons[call[c].dest] \in Calls)
  BY Typing, Zenon DEF References
<1>2. CASE Goto(c, "done") /\ UNCHANGED <<daemons, dm>>
  BY <1>2, NoDaemonSound, Zenon DEF CreateDaemon, At
<1>3. CASE daemons[call[c].dest] # None /\ TakeRef(c, daemons[call[c].dest]) /\ UNCHANGED daemons
  <2>1. PICK d \in Calls : d = daemons[call[c].dest]
    BY <1>1, <1>3, Zenon
  <2> QED
    BY <1>3, <2>1, TakeRefSound, Zenon DEF CreateDaemon, At
<1>4. CASE /\ daemons[call[c].dest] = None
           /\ daemons' = [daemons EXCEPT ![call[c].dest] = c]
           /\ dm' = [dm EXCEPT ![c].key = call[c].dest, ![c].refs = 1]
           /\ call' = [call EXCEPT ![c].dm = c, ![c].pc = "create"]
  <2>1. PICK k \in Keys : k = call[c].dest
    BY <1>1, Zenon
  <2> QED
    BY <1>4, <2>1, NewDaemonSound, Zenon DEF CreateDaemon, AddsDaemon
<1> QED
  BY <1>2, <1>3, <1>4, Zenon DEF CreateDaemon

\* The connection takes its name over from any that has it.
LEMMA CreateConnectionSound == ASSUME Structure, NEW c \in Calls, CreateConnection(c) PROVE Structure'
<1>1. CallSound(c) /\ TypeOK /\ call[c].pc = "create" /\ call[c].name \in Names /\ call[c].dm \in Calls
  BY Typing, Zenon DEF Structure, CreateConnection, At, Begun
<1>2. PICK p \in {"init", "done"} : Goto(c, p)
  BY Zenon DEF CreateConnection
<1>3. call' \in [Calls -> CallType] /\ OnlyCall(c) /\ call'[c].pc = p /\ call'[c].dm = call[c].dm
  BY <1>1, <1>2, GotoTyping, Zenon
<1>4. UNCHANGED <<daemons, dm, remover, removes, doomed, open>>
  BY Zenon DEF CreateConnection
<1>5. \/ p = "done" /\ UNCHANGED <<connections, backing>>
      \/ p = "init" /\ connections' = [connections EXCEPT ![call[c].name] = c] /\ backing' = [backing EXCEPT ![c] = call[c].dm]
  BY <1>1, <1>2, <1>3, GotoTyping, Zenon DEF CreateConnection
<1>6. connections' \in [Names -> Calls \cup {None}] /\ backing' \in [Calls -> Calls \cup {None}]
  BY <1>1, <1>5 DEF TypeOK
<1>7. TypeOK'
  BY <1>1, <1>3, <1>4, <1>6, Zenon DEF TypeOK
<1>8. /\ \A b \in Calls : b # c => backing'[b] = backing[b]
      /\ \A n \in Names : connections'[n] \in {connections[n], c, None}
      /\ p = "init" => backing'[c] = call[c].dm
  BY <1>1, <1>5, Zenon DEF TypeOK
<1>9. Others(c) /\ SameDaemons
  BY <1>3, <1>4, <1>8, Zenon DEF Others, SameDaemons, Same
<1>10. CallSound(c)'
  <2>1. backing[c] = None /\ ~Listed(c)
    BY <1>1, Zenon DEF CallSound, Unlisted, Early
  <2>2. dm[call[c].dm].key # None /\ (dm[call[c].dm].init = "none" => dm[call[c].dm].key = call[c].dest)
    BY <1>1, Constants, Zenon DEF CallSound, Existing, OwnKey
  <2>3. dm' = dm /\ call'[c].dm = call[c].dm /\ call'[c].dest = call[c].dest /\ call'[c].name = call[c].name
    BY <1>3, <1>4, Zenon DEF OnlyCall
  <2>4. CASE p = "done"
    <3>1. backing'[c] = None /\ ~Listed(c)'
      BY <1>5, <2>1, <2>3, <2>4, Zenon DEF Listed
    <3> QED
      BY <1>3, <2>2, <2>3, <2>4, <3>1 DEF CallSound, Fresh, Unlisted, Holding, Existing, Following, Settled, OwnKey, Begun, Backed, Early, At
  <2>5. CASE p = "init"
    BY <1>1, <1>3, <1>8, <2>2, <2>3, <2>5, Constants, Zenon DEF CallSound, Fresh, Unlisted, Holding, Existing, Following, Settled, OwnKey, Begun, Backed, Early, At
  <2> QED
    BY <2>4, <2>5, Zenon
<1>11. c \in Requests => remover.pc # "delete"
  BY <1>1, RequestAlone, Zenon
<1> QED
  BY <1>1, <1>3, <1>4, <1>7, <1>9, <1>10, <1>11, QuietSound, Zenon DEF Working, Early

\* A caller that waited learns the result, which does not change again.
LEMMA InitializeWaitSound == ASSUME Structure, NEW c \in Calls, InitializeWait(c) PROVE Structure'
<1>1. CallSound(c) /\ TypeOK /\ call[c].pc \in {"init", "merged"} /\ call[c].dm \in Calls
  BY Typing, Zenon DEF Structure, InitializeWait, Begun
<1>2. PICK p \in {"done", "follow", "failed"} :
        /\ Goto(c, p)
        /\ \/ dm[call[c].dm].init = "ok" /\ p = "done"
           \/ dm[call[c].dm].init = "superseded" /\ call[c].pc = "init" /\ p = "follow"
           \/ dm[call[c].dm].init = "superseded" /\ call[c].pc = "merged" /\ p = "failed"
           \/ dm[call[c].dm].init = "failed" /\ p = "failed"
           \/ c \in Requests /\ p = "failed"
  BY <1>1, Zenon DEF InitializeWait, InitDone, At
<1>3. call' \in [Calls -> CallType] /\ OnlyCall(c) /\ call'[c].pc = p /\ call'[c].dm = call[c].dm
  BY <1>1, <1>2, GotoTyping, Zenon
<1>4. UNCHANGED <<connections, daemons, dm, backing, remover, removes, doomed, open>>
  BY Zenon DEF InitializeWait
<1>5. TypeOK'
  BY <1>1, <1>3, <1>4, Zenon DEF TypeOK
<1>6. Others(c) /\ SameDaemons
  BY <1>3, <1>4, Zenon DEF Others, SameDaemons, Same
<1>7. CallSound(c)'
  <2>1. backing[c] = call[c].dm /\ call[c].dm # None /\ dm[call[c].dm].key # None
    BY <1>1, Constants, Zenon DEF CallSound, Holding, Existing, Backed
  <2>2. dm[call[c].dm].by # None <=> dm[call[c].dm].init = "superseded"
    BY <1>1, Zenon DEF Structure, SupersedeSound
  <2>3. call[c].pc = "merged" => dm[call[c].dm].by = None
    BY <1>1, Zenon DEF CallSound, Following, At
  <2>4. dm' = dm /\ backing' = backing /\ call'[c].dm = call[c].dm
    BY <1>3, <1>4, Zenon
  <2>5. c \in Restores => c \notin Requests
    BY Constants, Zenon
  <2> QED
    BY <1>2, <1>3, <2>1, <2>2, <2>3, <2>4, <2>5, Zenon DEF CallSound, Fresh, Unlisted, Holding, Existing, Following, Settled, OwnKey, Begun, Backed, Early, At
<1>8. c \in Requests => remover.pc # "delete"
  BY <1>1, RequestAlone, Zenon
<1> QED
  BY <1>1, <1>3, <1>4, <1>5, <1>6, <1>7, <1>8, QuietSound, Zenon DEF Working, Early

\* The call goes over to the daemon that superseded its own.
LEMMA FollowSupersedeSound == ASSUME Structure, NEW c \in Calls, FollowSupersede(c) PROVE Structure'
<1>1. CallSound(c) /\ TypeOK /\ call[c].pc = "follow"
  BY Zenon DEF Structure, FollowSupersede, At
<1>p. PICK from \in Calls : from = call[c].dm /\ dm[from].by # None /\ backing[c] = from /\ dm[from].key # None
  BY <1>1, Typing, Constants, Zenon DEF Begun, CallSound, Following, Holding, Backed, At
<1>q. PICK to \in Calls : to = dm[from].by
  BY <1>p, Typing, Zenon DEF References
<1>t. from # to /\ Final(to)
  BY <1>p, <1>q, Zenon DEF Structure, SupersedeSound, Final
<1>2. call' \in [Calls -> CallType] /\ OnlyCall(c) /\ call'[c].pc = "update" /\ call'[c].dm = to
  BY <1>1, <1>p, <1>q, CallTyping, Zenon DEF FollowSupersede
<1>3. dm' \in [Calls -> DaemonType] /\ SameDaemons
  <2>1. dm' = [dm EXCEPT ![from].refs = dm[from].refs - 1, ![to].refs = dm[to].refs + 1]
    BY <1>1, <1>p, <1>q, <1>t, Zenon DEF FollowSupersede, Moved, TypeOK, DaemonType
  <2> DEFINE f == [dm[from] EXCEPT !.refs = dm[from].refs - 1]
             t == [dm[to] EXCEPT !.refs = dm[to].refs + 1]
  <2>2. dm[from] \in DaemonType /\ dm[to] \in DaemonType /\ dm[from].refs - 1 \in Int /\ dm[to].refs + 1 \in Int
    BY <1>1 DEF TypeOK, DaemonType
  <2>3. /\ f \in DaemonType /\ f.key = dm[from].key /\ f.by = dm[from].by /\ f.init = dm[from].init
        /\ t \in DaemonType /\ t.key = dm[to].key /\ t.by = dm[to].by /\ t.init = dm[to].init
    BY <2>2, Zenon DEF DaemonType
  <2>4. dm' = [e \in Calls |-> IF e = from THEN f ELSE IF e = to THEN t ELSE dm[e]]
    BY <1>1, <1>t, <2>1, Zenon DEF TypeOK
  <2> HIDE DEF f, t
  <2> QED
    BY <1>1, <2>3, <2>4, Zenon DEF TypeOK, SameDaemons, Same
<1>4. UNCHANGED <<connections, daemons, backing, remover, removes, doomed, open>>
  BY Zenon DEF FollowSupersede
<1>5. TypeOK'
  BY <1>1, <1>2, <1>3, <1>4, Zenon DEF TypeOK
<1>6. Others(c)
  BY <1>2, <1>4, Zenon DEF Others
<1>7. CallSound(c)'
  <2>1. /\ dm'[from].by = to /\ dm'[from].key # None /\ dm'[to].key # None /\ backing'[c] = from
        /\ from # None /\ to # None
    BY <1>p, <1>q, <1>t, <1>3, <1>4, Constants, Zenon DEF SameDaemons, Same, Final
  <2> QED
    BY <1>2, <2>1, Zenon DEF CallSound, Fresh, Unlisted, Holding, Existing, Following, Settled, OwnKey, Begun, Backed, Early, At
<1>8. c \in Requests => remover.pc # "delete"
  BY <1>1, RequestAlone, Zenon
<1> QED
  BY <1>1, <1>2, <1>3, <1>4, <1>5, <1>6, <1>7, <1>8, QuietSound, Zenon DEF Working, Early

\* The connection gets the daemon that superseded its own.
LEMMA UpdateDaemonSound == ASSUME Structure, NEW c \in Calls, UpdateDaemon(c) PROVE Structure'
<1>1. CallSound(c) /\ TypeOK /\ call[c].pc = "update" /\ call[c].dm \in Calls /\ References
  BY Typing, Zenon DEF Structure, UpdateDaemon, At, Begun
<1>2. call' \in [Calls -> CallType] /\ OnlyCall(c) /\ call'[c].pc = "merged" /\ call'[c].dm = call[c].dm
  BY <1>1, GotoTyping, Zenon DEF UpdateDaemon
<1>3. UNCHANGED <<connections, daemons, dm, remover, removes, doomed, open>>
  BY Zenon DEF UpdateDaemon
<1>4. /\ backing' \in [Calls -> Calls \cup {None}] /\ backing'[c] = call[c].dm
      /\ \A b \in Calls : b # c => backing'[b] = backing[b]
  BY <1>1, Zenon DEF UpdateDaemon, TypeOK
<1>5. TypeOK'
  BY <1>1, <1>2, <1>3, <1>4, Zenon DEF TypeOK
<1>6. Others(c) /\ SameDaemons
  BY <1>2, <1>3, <1>4, Zenon DEF Others, SameDaemons, Same
<1>7. CallSound(c)'
  <2>1. backing[c] \in Calls /\ dm[backing[c]].by = call[c].dm
    BY <1>1, Zenon DEF CallSound, Following, At, References
  <2>2. Final(call[c].dm)
    BY <1>1, <2>1, Constants, Zenon DEF Structure, SupersedeSound
  <2>3. dm' = dm /\ call[c].dm # None
    BY <1>1, <1>3, Constants, Zenon
  <2> QED
    BY <1>2, <1>4, <2>2, <2>3, Zenon DEF CallSound, Fresh, Unlisted, Holding, Existing, Following, Settled, OwnKey, Begun, Backed, Early, At, Final
<1>8. c \in Requests => remover.pc # "delete"
  BY <1>1, RequestAlone, Zenon
<1> QED
  BY <1>1, <1>2, <1>3, <1>4, <1>5, <1>6, <1>7, <1>8, Constants, QuietSound, Zenon DEF Working, Early

\* A failed request takes its connection back.
LEMMA FailedSound == ASSUME Structure, NEW c \in Calls, Failed(c) PROVE Structure'
<1>1. CallSound(c) /\ TypeOK /\ call[c].pc = "failed" /\ call[c].dm \in Calls /\ call[c].name \in Names
      /\ dm[call[c].dm].key \in Keys
  BY Typing, Zenon DEF Structure, Failed, At, Begun
<1>2. call' \in [Calls -> CallType] /\ OnlyCall(c) /\ call'[c].pc = "done" /\ call'[c].dm = call[c].dm
  BY <1>1, GotoTyping, Zenon DEF Failed
<1>3. UNCHANGED <<backing, remover, removes, open>>
  BY Zenon DEF Failed
<1>4. /\ dm' \in [Calls -> DaemonType] /\ SameDaemons
      /\ connections' \in [Names -> Calls \cup {None}]
      /\ \A n \in Names : connections'[n] \in {connections[n], None}
      /\ c \in Requests => connections'[call[c].name] = None
      /\ daemons' \in [Keys -> Calls \cup {None}] /\ \A k \in Keys : daemons'[k] \in {daemons[k], None}
      /\ doomed' \subseteq Calls
  <2>1. CASE c \in Requests
    <3>1. dm' \in [Calls -> DaemonType] /\ SameDaemons
      <4>1. PICK d \in Calls : d = call[c].dm
        BY <1>1, Zenon
      <4>2. dm' = [dm EXCEPT ![d].refs = dm[d].refs - 1] /\ dm[d].refs - 1 \in Int
        BY <1>1, <2>1, <4>1, DaemonTyping, Zenon DEF Failed, Release
      <4> QED
        BY <1>1, <4>2, DaemonTyping, CountTyping, Zenon
    <3>2. /\ daemons' \in [Keys -> Calls \cup {None}] /\ \A k \in Keys : daemons'[k] \in {daemons[k], None}
          /\ doomed' \subseteq Calls
      BY <1>1, <2>1, Zenon DEF Failed, Release, TypeOK
    <3> QED
      BY <1>1, <2>1, <3>1, <3>2, Zenon DEF Failed, TypeOK
  <2>2. CASE c \notin Requests
    BY <1>1, <2>2, Zenon DEF Failed, TypeOK, SameDaemons, Same
  <2> QED
    BY <2>1, <2>2, Zenon
<1>5. TypeOK'
  BY <1>1, <1>2, <1>3, <1>4, Zenon DEF TypeOK
<1>6. Others(c)
  BY <1>2, <1>3, <1>4, Zenon DEF Others
<1>7. CallSound(c)'
  <2>1. backing[c] = call[c].dm /\ dm[call[c].dm].key # None /\ (c \in Restores => dm[call[c].dm].init = "failed")
    BY <1>1, Constants, Zenon DEF CallSound, Holding, Existing, Settled, Backed, At
  <2>2. /\ dm'[call[c].dm].key # None /\ (c \in Restores => dm'[call[c].dm].init = "failed")
        /\ backing'[c] = call[c].dm /\ (c \notin Restores => ~Listed(c)') /\ call[c].dm # None
    BY <1>1, <1>2, <1>3, <1>4, <2>1, Constants DEF SameDaemons, Same, Listed, OnlyCall
  <2> QED
    BY <1>2, <2>2, Zenon DEF CallSound, Fresh, Unlisted, Holding, Existing, Following, Settled, OwnKey, Begun, Backed, Early, At
<1>8. c \in Requests => remover.pc # "delete"
  BY <1>1, RequestAlone, Zenon
<1> QED
  BY <1>1, <1>2, <1>3, <1>4, <1>5, <1>6, <1>7, <1>8, QuietSound, Zenon DEF Working, Early

\* The call that runs a daemon's Initialize, or begins to, changes how far it is.
Progress(c, d) ==
  /\ d = call[c].dm /\ call[c].pc \in {"init", "merged", "transport", "ensure"}
  /\ OnlyCall(c) /\ call'[c].dm = d /\ call'[c].pc \in {"transport", "ensure", "failed", "done"}
  /\ UNCHANGED <<connections, daemons, backing, remover, removes, doomed, open>>
  /\ OnlyDaemon(d) /\ dm'[d].key = dm[d].key /\ dm'[d].by = dm[d].by
  /\ dm[d].init \in {"none", "running"} /\ dm'[d].init \in {"running", "ok", "failed"}
  /\ dm[d].init = "running" <=> Working(c)
  /\ dm'[d].init = "running" <=> Working(c)'

\* Such a step keeps the structure if it keeps what c knows.
LEMMA ProgressSound ==
  ASSUME Structure, NEW c \in Calls, NEW d \in Calls, Progress(c, d), TypeOK', CallSound(c)'
  PROVE  Structure'
<1>1. References /\ None \notin Calls
  BY Typing, Constants, Zenon
<1>s. MapSound /\ InitOwned /\ SupersedeSound /\ OneWorker
  BY Zenon DEF Structure
<1>2. /\ \A e \in Calls : dm'[e].key = dm[e].key /\ dm'[e].by = dm[e].by
      /\ \A e \in Calls : e # d => dm'[e].init = dm[e].init
      /\ UNCHANGED <<connections, daemons, backing, remover>>
      /\ \A b \in Calls : b # c => call'[b] = call[b]
  BY Zenon DEF Progress, OnlyDaemon, Same, OnlyCall
<1>3. /\ dm[d].init \in {"none", "running"} /\ dm'[d].init \in {"running", "ok", "failed"}
      /\ dm[d].init = "running" <=> Working(c)
      /\ dm'[d].init = "running" <=> Working(c)'
      /\ call[c].dm = d /\ call'[c].dm = d
  BY Zenon DEF Progress
<1>4. MapSound'
  BY <1>1, <1>2, <1>s, Zenon DEF MapSound, References
<1>5. InitOwned'
  <2> SUFFICES ASSUME NEW e \in Calls, dm'[e].init = "running"
               PROVE  \E b \in Calls : call'[b].dm = e /\ call'[b].pc \in {"transport", "ensure"}
    BY Zenon DEF InitOwned
  <2>1. CASE e = d
    BY <1>3, <2>1, Zenon DEF Working
  <2>2. CASE e # d
    <3>1. PICK b \in Calls : call[b].dm = e /\ call[b].pc \in {"transport", "ensure"}
      BY <1>2, <1>s, <2>2 DEF InitOwned
    <3> QED
      BY <1>2, <1>3, <2>2, <3>1, Zenon
  <2> QED
    BY <2>1, <2>2, Zenon
<1>6. ASSUME NEW b \in Calls, b # c PROVE CallSound(b)'
  <2>1. Others(c)
    BY <1>2, Zenon DEF Progress, Others
  <2>2. \A e \in Calls : Advances(e)
    BY <1>2, <1>3, Zenon DEF Advances, Final
  <2>3. At(b, "transport") => call[b].dm \in Calls
    BY Typing, Zenon DEF Begun, At
  <2> QED
    BY <1>2, <1>6, <2>1, <2>2, <2>3, OthersSound, Zenon
<1>7. SupersedeSound'
  <2> SUFFICES ASSUME NEW e \in Calls
               PROVE  (dm'[e].by # None <=> dm'[e].init = "superseded") /\ (dm'[e].by # None => Final(dm[e].by)')
    BY Zenon DEF SupersedeSound
  <2>1. (dm[e].by # None <=> dm[e].init = "superseded") /\ (dm[e].by # None => Final(dm[e].by) /\ dm[e].by \in Calls)
    BY <1>1, <1>s, Zenon DEF SupersedeSound, References
  <2> QED
    BY <1>2, <1>3, <2>1 DEF Final
<1>8. OneWorker'
  <2>1. \A b \in Calls : b # c /\ Working(b)' => Working(b) /\ call'[b] = call[b] /\ call[b].dm # d
    BY <1>2, <1>3, <1>s, Zenon DEF Working, OneWorker
  <2>2. \A b \in Calls : Working(b) => call[b].dm \in Calls /\ dm[call[b].dm].init = "running"
    BY <1>1, <1>s, Zenon DEF OneWorker, References
  <2>3. \A b \in Calls : Working(b)' => call'[b].dm # None /\ dm'[call'[b].dm].init = "running"
    BY <1>1, <1>2, <1>3, <2>1, <2>2, SMTT(20)
  <2>4. \A a, b \in Calls : Working(a)' /\ Working(b)' /\ call'[a].dm = call'[b].dm => a = b
    BY <1>3, <1>s, <2>1, Zenon DEF OneWorker
  <2> QED
    BY <2>3, <2>4, Zenon DEF OneWorker
<1>9. RemoveSound'
  <2>1. Others(c) /\ call[c].pc \notin {"idle", "done"} /\ call'[c].pc \notin Early /\ backing' = backing
    BY <1>2, Zenon DEF Progress, Others, Early
  <2> QED
    BY <2>1, RequestAlone, RemoveFrame, Zenon
<1> QED
  BY <1>4, <1>5, <1>6, <1>7, <1>8, <1>9, Zenon DEF Structure

\* The steps of Initialize that say how far it is.
LEMMA ProgressTyping ==
  ASSUME Structure, NEW c \in Calls, NEW d \in Calls, d = call[c].dm,
         NEW r \in {"running", "ok", "failed"}, dm' = [dm EXCEPT ![d].init = r] \/ (r = dm[d].init /\ dm' = dm),
         NEW p \in {"transport", "ensure", "failed", "done"}, Goto(c, p),
         call[c].pc \in {"init", "merged", "transport", "ensure"}, dm[d].init \in {"none", "running"},
         dm[d].init = "running" <=> Working(c), r = "running" <=> p \in {"transport", "ensure"},
         UNCHANGED <<connections, daemons, backing, remover, removes, doomed, open>>
  PROVE  /\ Progress(c, d) /\ TypeOK' /\ dm'[d].init = r /\ call'[c].pc = p
         /\ backing'[c] = d /\ dm'[d].key # None /\ d # None
<1>1. TypeOK /\ CallSound(c)
  BY Zenon DEF Structure
<1>2. call' \in [Calls -> CallType] /\ OnlyCall(c) /\ call'[c].pc = p /\ call'[c].dm = call[c].dm
  BY <1>1, GotoTyping, Zenon
<1>3. dm' \in [Calls -> DaemonType]
  <2>1. CASE dm' = [dm EXCEPT ![d].init = r]
    BY <1>1, <2>1, DaemonTyping, Zenon
  <2>2. CASE dm' = dm
    BY <1>1, <2>2, Zenon DEF TypeOK
  <2> QED
    BY <2>1, <2>2, Zenon
<1>4. OnlyDaemon(d) /\ dm'[d].key = dm[d].key /\ dm'[d].by = dm[d].by /\ dm'[d].init = r
  BY <1>1 DEF TypeOK, DaemonType, OnlyDaemon, Same
<1>5. TypeOK'
  BY <1>1, <1>2, <1>3, Zenon DEF TypeOK
<1>6. backing[c] = d /\ dm[d].key # None /\ d # None
  BY <1>1, Constants, Zenon DEF CallSound, Holding, Existing, Backed
<1> QED
  BY <1>2, <1>4, <1>5, <1>6, Zenon DEF Progress, Working

\* The first caller becomes the one that works on the daemon.
LEMMA InitializeFirstSound == ASSUME Structure, NEW c \in Calls, InitializeFirst(c) PROVE Structure'
<1>1. CallSound(c) /\ TypeOK /\ call[c].pc \in {"init", "merged"} /\ UNCHANGED <<connections, daemons, backing, remover, removes, doomed, open>>
  BY Zenon DEF Structure, InitializeFirst
<1>2. PICK d \in Calls : d = call[c].dm
  BY <1>1, Typing, Zenon DEF Begun
<1>3. PICK r \in {"failed", "running"}, p \in {"failed", "transport", "ensure"} :
        /\ dm' = [dm EXCEPT ![d].init = r] /\ Goto(c, p) /\ dm[d].init = "none"
        /\ r = "failed" <=> p = "failed"
        /\ p = "transport" => call[c].pc = "init"
  BY <1>1, <1>2, Zenon DEF InitializeFirst, Published, At
<1>4. /\ Progress(c, d) /\ TypeOK' /\ dm'[d].init = r /\ call'[c].pc = p
      /\ backing'[c] = d /\ dm'[d].key # None /\ d # None
  BY <1>1, <1>2, <1>3, ProgressTyping, ZenonT(40) DEF Working
<1>5. CallSound(c)'
  <2>1. p = "transport" => dm'[d].key = call'[c].dest
    BY <1>1, <1>2, <1>3, <1>4, Zenon DEF CallSound, OwnKey, Progress, OnlyCall
  <2>2. call'[c].dm = d
    BY <1>4, Zenon DEF Progress
  <2> QED
    BY <1>3, <1>4, <2>1, <2>2, Zenon DEF CallSound, Fresh, Unlisted, Holding, Existing, Following, Settled, OwnKey, Begun, Backed, Early, At
<1> QED
  BY <1>4, <1>5, ProgressSound, Zenon

\* The call that worked on the daemon publishes the result.
LEMMA EnsureSound == ASSUME Structure, NEW c \in Calls, Ensure(c) PROVE Structure'
<1>1. CallSound(c) /\ TypeOK /\ call[c].pc = "ensure" /\ UNCHANGED <<connections, daemons, backing, remover, removes, doomed, open>>
  BY Zenon DEF Structure, Ensure, At
<1>2. PICK d \in Calls : d = call[c].dm
  BY <1>1, Typing, Zenon DEF Begun
<1>3. dm[d].init = "running" /\ Working(c)
  BY <1>1, <1>2, Zenon DEF Structure, OneWorker, Working
<1>4. PICK r \in {"failed", "ok"}, p \in {"failed", "done"} :
        dm' = [dm EXCEPT ![d].init = r] /\ Goto(c, p) /\ (r = "failed" <=> p = "failed")
  BY <1>1, <1>2, Zenon DEF Ensure, Published
<1>5. /\ Progress(c, d) /\ TypeOK' /\ dm'[d].init = r /\ call'[c].pc = p
      /\ backing'[c] = d /\ dm'[d].key # None /\ d # None
  BY <1>1, <1>2, <1>3, <1>4, ProgressTyping, ZenonT(40)
<1>6. CallSound(c)'
  <2>1. call'[c].dm = d
    BY <1>5, Zenon DEF Progress
  <2> QED
    BY <1>4, <1>5, <2>1, Zenon DEF CallSound, Fresh, Unlisted, Holding, Existing, Following, Settled, OwnKey, Begun, Backed, Early, At
<1> QED
  BY <1>5, <1>6, ProgressSound, Zenon

\* The transport shows that the daemon of c is to be under another key k.
Diverts(c, d, k) ==
  /\ d \in Calls /\ d = call[c].dm /\ At(c, "transport") /\ k \in Keys
  /\ dm[d].key \in Keys /\ dm[d].key # k
  /\ OnlyCall(c) /\ call'[c].dm = d /\ UNCHANGED <<connections, backing, remover>> /\ OnlyDaemon(d)

\* Its key was not a resolved one, and c alone works on it.
Unresolved(c, d, k) ==
  /\ Resolve[k] = k /\ Resolve[dm[d].key] # dm[d].key /\ ~Final(d)
  /\ dm[d].init = "running" /\ dm[d].by = None /\ backing[c] = d
  /\ \A b \in Calls : Working(b) /\ b # c => call[b].dm # d
  /\ \A b \in Calls : call[b].pc \in {"idle", "get", "make"} => b # d

\* Only the call that made the daemon resolves its key, which then was not a
\* resolved one: no call has moved to the daemon, and no daemon points to it.
LEMMA DivertsUnresolved ==
  ASSUME Structure, NEW c \in Calls, NEW d, NEW k, Diverts(c, d, k), k = ResolvedKey(c)
  PROVE  Unresolved(c, d, k)
<1>1. CallSound(c) /\ SupersedeSound /\ OneWorker /\ \A b \in Calls : Fresh(b)
  BY Zenon DEF Structure, CallSound
<1>2. d \in Calls /\ d = call[c].dm /\ At(c, "transport") /\ dm[d].key \in Keys /\ dm[d].key # k
  BY Zenon DEF Diverts
<1>3. dm[d].key = call[c].dest /\ backing[c] = d
  BY <1>1, <1>2, Zenon DEF CallSound, OwnKey, Holding, Backed, At
<1>4. Resolve[k] = k /\ Resolve[dm[d].key] # dm[d].key
  BY <1>2, <1>3, Constants, Zenon DEF ResolvedKey
<1>5. dm[d].init = "running" /\ Working(c)
  BY <1>1, <1>2, Zenon DEF OneWorker, Working, At
<1>6. dm[d].by = None
  BY <1>1, <1>2, <1>5, Zenon DEF SupersedeSound
<1>7. \A b \in Calls : Working(b) /\ b # c => call[b].dm # d
  BY <1>1, <1>2, <1>5, Zenon DEF OneWorker
<1>8. \A b \in Calls : call[b].pc \in {"idle", "get", "make"} => b # d
  BY <1>1, <1>2, Constants, Zenon DEF Fresh
<1> QED
  BY <1>3, <1>4, <1>5, <1>6, <1>7, <1>8, Zenon DEF Final, Unresolved

\* Where such a daemon goes, the calls but c are not disturbed.
LEMMA DivertedSound ==
  ASSUME Structure, NEW c \in Calls, NEW d, NEW k, Diverts(c, d, k), k = ResolvedKey(c),
         TypeOK', MapSound', CallSound(c)', SupersedeSound', dm'[d].key # None,
         \/ dm'[d].init = "superseded" /\ ~Working(c)'
         \/ dm'[d].init = "running" /\ Working(c)',
         call'[c].pc \notin Early
  PROVE  Structure'
<1>0. Unresolved(c, d, k)
  BY DivertsUnresolved, Zenon
<1>1. /\ Resolve[k] = k /\ Resolve[dm[d].key] # dm[d].key /\ ~Final(d)
      /\ dm[d].init = "running" /\ dm[d].by = None
      /\ \A b \in Calls : Working(b) /\ b # c => call[b].dm # d
      /\ \A b \in Calls : call[b].pc \in {"idle", "get", "make"} => b # d
  BY <1>0, Zenon DEF Unresolved
<1>2. /\ d \in Calls /\ call[c].dm = d /\ call'[c].dm = d /\ call[c].pc = "transport"
      /\ \A b \in Calls : b # c => call'[b] = call[b]
      /\ \A e \in Calls : e # d => Same(e)
  BY Zenon DEF Diverts, OnlyCall, OnlyDaemon, At
<1>3. Others(c)
  BY ZenonT(40) DEF Diverts, Others
<1>4. ASSUME NEW b \in Calls, b # c PROVE CallSound(b)'
  <2>1. \A e \in Calls : Advances(e)
    <3>1. Advances(d)
      BY <1>1, <1>2, Zenon DEF Advances
    <3> QED
      BY <1>2, <3>1, SameAdvances, Zenon
  <2>2. call[b].pc \in {"idle", "get", "make"} => dm'[b].key = dm[b].key /\ dm'[b].by = dm[b].by
    BY <1>1, <1>2, Zenon DEF Same
  <2>3. At(b, "transport") => dm'[call[b].dm].key = dm[call[b].dm].key
    <3>1. At(b, "transport") => call[b].dm \in Calls /\ call[b].dm # d
      BY <1>1, <1>4, Typing, Zenon DEF Begun, At, Working
    <3> QED
      BY <1>2, <3>1, Zenon DEF Same
  <2> QED
    BY <1>3, <1>4, <2>1, <2>2, <2>3, OthersSound, Zenon
<1>5. InitOwned'
  <2> SUFFICES ASSUME NEW e \in Calls, dm'[e].init = "running"
               PROVE  \E b \in Calls : call'[b].dm = e /\ call'[b].pc \in {"transport", "ensure"}
    BY Zenon DEF InitOwned
  <2>1. CASE e = d
    BY <1>2, <2>1, Zenon DEF Working
  <2>2. CASE e # d
    <3>1. PICK b \in Calls : call[b].dm = e /\ call[b].pc \in {"transport", "ensure"}
      BY <1>2, <2>2, SMTT(20) DEF Structure, InitOwned, Same
    <3> QED
      BY <1>2, <2>2, <3>1, Zenon
  <2> QED
    BY <2>1, <2>2, Zenon
<1>6. OneWorker'
  <2>0. OneWorker /\ References /\ None \notin Calls
    BY Typing, Constants, Zenon DEF Structure
  <2>1. \A b \in Calls : b # c /\ Working(b)' => /\ call'[b] = call[b] /\ Working(b)
                                                 /\ call[b].dm \in Calls /\ call[b].dm # d
    BY <1>1, <1>2, <2>0, Zenon DEF Working, OneWorker, References
  <2>2. \A b \in Calls : Working(b)' => call'[b].dm # None /\ dm'[call'[b].dm].init = "running"
    <3> SUFFICES ASSUME NEW b \in Calls, Working(b)' PROVE call'[b].dm # None /\ dm'[call'[b].dm].init = "running"
      BY Zenon
    <3>1. CASE b = c
      BY <1>2, <2>0, <3>1, Zenon
    <3>2. CASE b # c
      <4>1. PICK e \in Calls : call'[b].dm = e /\ e = call[b].dm /\ e # d
        BY <2>1, <3>2, Zenon
      <4>2. dm[e].init = "running"
        BY <2>0, <2>1, <3>2, <4>1 DEF OneWorker
      <4> QED
        BY <1>2, <2>0, <4>1, <4>2, Zenon DEF Same
    <3> QED
      BY <3>1, <3>2, Zenon
  <2>3. \A a, b \in Calls : Working(a)' /\ Working(b)' /\ call'[a].dm = call'[b].dm => a = b
    BY <1>2, <2>0, <2>1 DEF OneWorker
  <2> QED
    BY <2>2, <2>3, Zenon DEF OneWorker
<1>7. RemoveSound'
  <2>1. call[c].pc \notin {"idle", "done"} /\ backing' = backing
    BY <1>2, Zenon DEF Diverts
  <2> QED
    BY <1>3, <2>1, RequestAlone, RemoveFrame, Zenon
<1> QED
  BY <1>4, <1>5, <1>6, <1>7, Zenon DEF Structure

\* reassignDaemon's two ways with such a daemon.
Supersedes(d, k) ==
  /\ daemons[k] # None /\ daemons' = Superseded(dm[d].key)
  /\ dm' = [dm EXCEPT ![d].by = daemons[k], ![d].init = "superseded"]
Rekeys(d, k) ==
  /\ daemons[k] = None /\ daemons' = [daemons EXCEPT ![dm[d].key] = None, ![k] = d]
  /\ dm' = [dm EXCEPT ![d].key = k]

\* A daemon is superseded by the one under its resolved key.
LEMMA SupersededSound ==
  ASSUME Structure, NEW c \in Calls, NEW d, NEW k, Diverts(c, d, k), k = ResolvedKey(c), Supersedes(d, k),
         call' \in [Calls -> CallType], call'[c].pc = "follow", UNCHANGED <<removes, doomed, open>>
  PROVE  Structure'
<1>0. Unresolved(c, d, k)
  BY DivertsUnresolved, Zenon
<1>1. /\ Resolve[k] = k /\ ~Final(d) /\ dm[d].init = "running" /\ dm[d].by = None /\ backing[c] = d
  BY <1>0, Zenon DEF Unresolved
<1>s. TypeOK /\ MapSound /\ SupersedeSound /\ References /\ None \notin Calls /\ None \notin Keys
  BY Typing, Constants, Zenon DEF Structure
<1>2. /\ d \in Calls /\ k \in Keys /\ dm[d].key \in Keys /\ dm[d].key # k
      /\ call'[c].dm = d /\ UNCHANGED <<connections, backing, remover>>
  BY Zenon DEF Diverts
<1>3. PICK f \in Calls : f = daemons[k] /\ f # d /\ Final(f)
  BY <1>1, <1>2, <1>s DEF MapSound, Final, References, Supersedes
<1>4. dm' \in [Calls -> DaemonType]
  BY <1>2, <1>3, <1>s, SupersededTyping, ZenonT(40) DEF Supersedes
<1>5. dm'[d].key = dm[d].key /\ dm'[d].by = f /\ dm'[d].init = "superseded" /\ \A e \in Calls : e # d => dm'[e] = dm[e]
  BY <1>2, <1>3, <1>s DEF TypeOK, DaemonType, Supersedes
<1>6. /\ daemons' \in [Keys -> Calls \cup {None}]
      /\ \A x \in Keys : daemons'[x] = IF x = dm[d].key THEN None ELSE daemons[x]
  BY <1>2, <1>s, Zenon DEF TypeOK, Superseded, Supersedes
<1>7. TypeOK'
  BY <1>2, <1>4, <1>6, <1>s, Zenon DEF TypeOK
<1>8. MapSound'
  <2>1. \A x \in Keys : daemons'[x] # None => daemons'[x] = daemons[x] /\ daemons[x] \in Calls /\ daemons[x] # d
    BY <1>2, <1>6, <1>s DEF MapSound, References
  <2> QED
    <3> SUFFICES ASSUME NEW x \in Keys, daemons'[x] # None
                 PROVE  dm'[daemons'[x]].key = x /\ dm'[daemons'[x]].by = None
      BY Zenon DEF MapSound
    <3>1. PICK e \in Calls : e = daemons[x] /\ daemons'[x] = e /\ e # d
      BY <2>1, Zenon
    <3>2. dm[e].key = x /\ dm[e].by = None
      BY <1>s, <3>1, Zenon DEF MapSound
    <3>3. dm'[e] = dm[e]
      BY <1>5, <3>1, Zenon
    <3> QED
      BY <3>1, <3>2, <3>3, Zenon
<1>9. SupersedeSound'
  <2>1. \A e \in Calls : Final(e) => Final(e)'
    BY <1>1, <1>5, Zenon DEF Final
  <2> SUFFICES ASSUME NEW e \in Calls
               PROVE  (dm'[e].by # None <=> dm'[e].init = "superseded") /\ (dm'[e].by # None => Final(dm[e].by)')
    BY Zenon DEF SupersedeSound
  <2>2. (dm[e].by # None <=> dm[e].init = "superseded") /\ (dm[e].by # None => Final(dm[e].by) /\ dm[e].by \in Calls)
    BY <1>s, Zenon DEF SupersedeSound, References
  <2>3. Final(f)' /\ f # None
    BY <1>3, <1>s, <2>1, Zenon
  <2> QED
    BY <1>5, <2>1, <2>2, <2>3, ZenonT(40) DEF Final
<1>10. CallSound(c)'
  BY <1>1, <1>2, <1>3, <1>5, <1>s, ZenonT(40) DEF CallSound, Fresh, Unlisted, Holding, Existing, Following, Settled, OwnKey, Begun, Backed, Early, At
<1> QED
  BY <1>2, <1>5, <1>7, <1>8, <1>9, <1>10, <1>s, DivertedSound, Zenon DEF Working, Early

\* A daemon is re-keyed when there is none under its resolved key.
LEMMA RekeyedSound ==
  ASSUME Structure, NEW c \in Calls, NEW d, NEW k, Diverts(c, d, k), k = ResolvedKey(c), Rekeys(d, k),
         call' \in [Calls -> CallType], call'[c].pc = "ensure", UNCHANGED <<removes, doomed, open>>
  PROVE  Structure'
<1>0. Unresolved(c, d, k)
  BY DivertsUnresolved, Zenon
<1>1. /\ Resolve[k] = k /\ ~Final(d) /\ dm[d].init = "running" /\ dm[d].by = None /\ backing[c] = d
  BY <1>0, Zenon DEF Unresolved
<1>s. TypeOK /\ MapSound /\ SupersedeSound /\ References /\ None \notin Calls /\ None \notin Keys
  BY Typing, Constants, Zenon DEF Structure
<1>2. /\ d \in Calls /\ k \in Keys /\ dm[d].key \in Keys /\ dm[d].key # k
      /\ call'[c].dm = d /\ UNCHANGED <<connections, backing, remover>>
  BY Zenon DEF Diverts
<1>4. dm' \in [Calls -> DaemonType]
  BY <1>2, <1>s, DaemonTyping, Zenon DEF Rekeys
<1>5. dm'[d].key = k /\ dm'[d].by = None /\ dm'[d].init = "running" /\ \A e \in Calls : e # d => dm'[e] = dm[e]
  BY <1>1, <1>2, <1>s, Zenon DEF TypeOK, DaemonType, Rekeys
<1>6. /\ daemons' \in [Keys -> Calls \cup {None}]
      /\ \A x \in Keys : daemons'[x] = IF x = k THEN d ELSE IF x = dm[d].key THEN None ELSE daemons[x]
  BY <1>2, <1>s, Zenon DEF TypeOK, Rekeys
<1>7. TypeOK'
  BY <1>2, <1>4, <1>6, <1>s, Zenon DEF TypeOK
<1>8. MapSound'
  <2>1. \A x \in Keys : daemons'[x] # None /\ x # k => daemons'[x] = daemons[x] /\ daemons[x] \in Calls /\ daemons[x] # d
    BY <1>2, <1>6, <1>s DEF MapSound, References
  <2>2. daemons'[k] = d
    BY <1>2, <1>6, Zenon
  <2> QED
    <3> SUFFICES ASSUME NEW x \in Keys, daemons'[x] # None, x # k
                 PROVE  dm'[daemons'[x]].key = x /\ dm'[daemons'[x]].by = None
      BY <1>5, <2>2, Zenon DEF MapSound
    <3>1. PICK e \in Calls : e = daemons[x] /\ daemons'[x] = e /\ e # d
      BY <2>1, Zenon
    <3>2. dm[e].key = x /\ dm[e].by = None
      BY <1>s, <3>1, Zenon DEF MapSound
    <3>3. dm'[e] = dm[e]
      BY <1>5, <3>1, Zenon
    <3> QED
      BY <3>1, <3>2, <3>3, Zenon
<1>9. SupersedeSound'
  <2>1. \A e \in Calls : Final(e) => Final(e)'
    BY <1>1, <1>5, Zenon DEF Final
  <2> SUFFICES ASSUME NEW e \in Calls
               PROVE  (dm'[e].by # None <=> dm'[e].init = "superseded") /\ (dm'[e].by # None => Final(dm[e].by)')
    BY Zenon DEF SupersedeSound
  <2>2. (dm[e].by # None <=> dm[e].init = "superseded") /\ (dm[e].by # None => Final(dm[e].by) /\ dm[e].by \in Calls)
    BY <1>s, Zenon DEF SupersedeSound, References
  <2> QED
    BY <1>5, <2>1, <2>2, SMTT(20) DEF Final
<1>10. CallSound(c)'
  BY <1>1, <1>2, <1>5, <1>s, ZenonT(40) DEF CallSound, Fresh, Unlisted, Holding, Existing, Following, Settled, OwnKey, Begun, Backed, Early, At
<1> QED
  BY <1>2, <1>5, <1>7, <1>8, <1>9, <1>10, <1>s, DivertedSound, ZenonT(40) DEF Working, Early

\* The transport fails, or shows the key to be right, or the daemon is superseded
\* or re-keyed.
LEMMA TransportSound == ASSUME Structure, NEW c \in Calls, Transport(c) PROVE Structure'
<1>1. CallSound(c) /\ TypeOK /\ call[c].pc = "transport" /\ UNCHANGED <<connections, backing, remover, removes, doomed, open>>
  BY Zenon DEF Structure, Transport, At
<1>2. PICK d \in Calls : d = call[c].dm /\ dm[d].key \in Keys
  BY <1>1, Typing, Zenon DEF Begun
<1>3. PICK k \in Keys : k = ResolvedKey(c)
  BY Typing, Constants, Zenon DEF ResolvedKey
<1>4. dm[d].init = "running" /\ Working(c)
  BY <1>1, <1>2, Zenon DEF Structure, OneWorker, Working
<1>5. ASSUME NEW r \in {"failed", "running"}, NEW p \in {"failed", "ensure"}, Goto(c, p), r = "failed" <=> p = "failed",
             UNCHANGED daemons, dm' = [dm EXCEPT ![d].init = r] \/ (r = dm[d].init /\ dm' = dm)
      PROVE  Structure'
  <2>1. /\ Progress(c, d) /\ TypeOK' /\ dm'[d].init = r /\ call'[c].pc = p
        /\ backing'[c] = d /\ dm'[d].key # None /\ d # None
    BY <1>1, <1>2, <1>4, <1>5, ProgressTyping
  <2>2. CallSound(c)'
    <3>1. call'[c].dm = d
      BY <2>1, Zenon DEF Progress
    <3> QED
      BY <1>5, <2>1, <3>1, Zenon DEF CallSound, Fresh, Unlisted, Holding, Existing, Following, Settled, OwnKey, Begun, Backed, Early, At
  <2> QED
    BY <2>1, <2>2, ProgressSound, Zenon
<1>6. CASE dm' = Published(d, "failed") /\ Goto(c, "failed") /\ UNCHANGED daemons
  BY <1>5, <1>6, Zenon DEF Published
<1>7. CASE Goto(c, "ensure") /\ UNCHANGED <<daemons, dm>>
  BY <1>4, <1>5, <1>7, Zenon
<1>8. CASE /\ dm[d].key # k /\ daemons[k] # None /\ daemons' = Superseded(dm[d].key)
           /\ dm' = [dm EXCEPT ![d].by = daemons[k], ![d].init = "superseded"] /\ Goto(c, "follow")
  <2>1. call' \in [Calls -> CallType] /\ OnlyCall(c) /\ call'[c].pc = "follow" /\ call'[c].dm = call[c].dm
    BY <1>1, <1>8, GotoTyping, Zenon
  <2>2. OnlyDaemon(d)
    BY <1>1, <1>2, <1>8, Zenon DEF TypeOK, DaemonType, OnlyDaemon, Same
  <2>3. Diverts(c, d, k)
    BY <1>1, <1>2, <1>8, <2>1, <2>2, Zenon DEF Diverts, At
  <2> QED
    BY <1>1, <1>3, <1>8, <2>1, <2>3, SupersededSound, Zenon DEF Supersedes
<1>9. CASE /\ dm[d].key # k /\ daemons[k] = None /\ daemons' = [daemons EXCEPT ![dm[d].key] = None, ![k] = d]
           /\ dm' = [dm EXCEPT ![d].key = k] /\ Goto(c, "ensure")
  <2>1. call' \in [Calls -> CallType] /\ OnlyCall(c) /\ call'[c].pc = "ensure" /\ call'[c].dm = call[c].dm
    BY <1>1, <1>9, GotoTyping, Zenon
  <2>2. OnlyDaemon(d)
    BY <1>1, <1>2, <1>9, Zenon DEF TypeOK, DaemonType, OnlyDaemon, Same
  <2>3. Diverts(c, d, k)
    BY <1>1, <1>2, <1>9, <2>1, <2>2, Zenon DEF Diverts, At
  <2> QED
    BY <1>1, <1>3, <1>9, <2>1, <2>3, RekeyedSound, Zenon DEF Rekeys
<1> QED
  BY <1>2, <1>3, <1>6, <1>7, <1>8, <1>9, Zenon DEF Transport

\* A step of no call, which changes no daemon but in its count, keeps the
\* structure if it keeps what the removal knows.
LEMMA NoCallSound ==
  ASSUME Structure, TypeOK', SameDaemons, UNCHANGED <<call, backing>>, RemoveSound',
         \A k \in Keys : daemons'[k] \in {daemons[k], None},
         \A n \in Names : connections'[n] \in {connections[n], None}
  PROVE  Structure'
<1>1. References /\ None \notin Calls
  BY Typing, Constants, Zenon
<1>2. \A e \in Calls : Same(e)
  BY Zenon DEF SameDaemons
<1>s. MapSound /\ InitOwned /\ SupersedeSound /\ OneWorker
  BY Zenon DEF Structure
<1>3. MapSound'
  BY <1>1, <1>2, <1>s, SMTT(20) DEF MapSound, References, Same
<1>4. InitOwned'
  BY <1>2, <1>s, SMTT(20) DEF InitOwned, Same
<1>5. SupersedeSound'
  BY <1>1, <1>2, <1>s, SMTT(20) DEF SupersedeSound, References, Same, Final
<1>6. OneWorker'
  BY <1>1, <1>2, <1>s, Zenon DEF OneWorker, Working, References, Same
<1>7. ASSUME NEW b \in Calls PROVE CallSound(b)'
  <2>1. Listed(b)' => Listed(b)
    BY <1>1, Typing, Zenon DEF Listed
  <2>2. At(b, "transport") => call[b].dm \in Calls
    BY Typing, Zenon DEF Begun, At
  <2> QED
    BY <1>2, <2>1, <2>2, SameAdvances, KeptSound, Zenon DEF Same
<1> QED
  BY <1>3, <1>4, <1>5, <1>6, <1>7, Zenon DEF Structure

\* A connection that a removal finds in the table is one that a call has made.
LEMMA RemoveLookupSound == ASSUME Structure, NamesSound, NEW n \in Names, RemoveLookup(n) PROVE Structure'
<1>1. /\ UNCHANGED <<connections, daemons, dm, backing, call, doomed, open>>
      /\ remover' = [pc |-> "delete", name |-> n, conn |-> connections[n]]
      /\ removes' = removes + 1 /\ removes < MaxRemoves
      /\ \A b \in Requests : At(b, "idle") \/ At(b, "done")
  BY Zenon DEF RemoveLookup, ServerBusy
<1>2. TypeOK
  BY Zenon DEF Structure
<1>3. PICK c \in Calls : c = connections[n]
  BY <1>2, Zenon DEF RemoveLookup, TypeOK
<1>4. TypeOK'
  <2>1. removes' \in 0 .. MaxRemoves
    BY <1>1, <1>2, ManagerAssumption DEF TypeOK
  <2> QED
    BY <1>1, <1>2, <1>3, <2>1, Zenon DEF TypeOK
<1>5. CallSound(c) /\ call[c].name = n /\ Listed(c)
  BY <1>3, Constants, Zenon DEF Structure, NamesSound, Listed
<1>6. call[c].pc \notin Early
  BY <1>5, Zenon DEF CallSound, Unlisted
<1>7. backing[c] # None
  <2>1. call[c].pc \in Backed \cup {"update", "done"}
    BY <1>2, <1>6, Zenon DEF TypeOK, CallType, Backed, Early
  <2> QED
    BY <1>5, <2>1, Zenon DEF CallSound, Holding, Following, Settled, Backed, Begun, At
<1>8. RemoveSound'
  BY <1>1, <1>3, <1>5, <1>6, <1>7, Zenon DEF RemoveSound, At
<1> QED
  BY <1>1, <1>4, <1>8, NoCallSound, Zenon DEF SameDaemons, Same

\* What releaseDaemon leaves of the map and the daemons.
LEMMA ReleaseFrame ==
  ASSUME Structure, NEW d \in Calls, Release(d)
  PROVE  /\ dm' \in [Calls -> DaemonType] /\ SameDaemons
         /\ daemons' \in [Keys -> Calls \cup {None}] /\ doomed' \subseteq Calls
         /\ \A k \in Keys : daemons'[k] \in {daemons[k], None}
<1>1. TypeOK
  BY Zenon DEF Structure
<1>2. dm' = [dm EXCEPT ![d].refs = dm[d].refs - 1] /\ dm[d].refs - 1 \in Int
  BY <1>1, DaemonTyping, Zenon DEF Release
<1>3. dm' \in [Calls -> DaemonType] /\ SameDaemons
  BY <1>1, <1>2, DaemonTyping, CountTyping, Zenon
<1>4. daemons' \in [Keys -> Calls \cup {None}] /\ doomed' \subseteq Calls
  BY <1>1, Zenon DEF Release, TypeOK
<1>5. \A k \in Keys : daemons'[k] \in {daemons[k], None}
  BY <1>1, Zenon DEF Release, TypeOK
<1> QED
  BY <1>3, <1>4, <1>5, Zenon

\* A removal deletes the connection's name and gives its reference back.
LEMMA RemoveDeleteSound == ASSUME Structure, RemoveDelete PROVE Structure'
<1>1. PICK d \in Calls : d = backing[remover.conn]
  BY Typing, Zenon DEF RemoveDelete
<1>2. /\ dm' \in [Calls -> DaemonType] /\ SameDaemons
      /\ daemons' \in [Keys -> Calls \cup {None}] /\ doomed' \subseteq Calls
      /\ \A k \in Keys : daemons'[k] \in {daemons[k], None}
  BY <1>1, ReleaseFrame, Zenon DEF RemoveDelete
<1>3. /\ UNCHANGED <<backing, call, removes, open>>
      /\ remover' = [pc |-> "idle", name |-> None, conn |-> None]
      /\ connections' = [connections EXCEPT ![remover.name] = None]
  BY Zenon DEF RemoveDelete
<1>4. TypeOK
  BY Zenon DEF Structure
<1>5. connections' \in [Names -> Calls \cup {None}] /\ \A n \in Names : connections'[n] \in {connections[n], None}
  BY <1>3, <1>4, Zenon DEF TypeOK
<1>6. TypeOK'
  BY <1>2, <1>3, <1>4, <1>5, Zenon DEF TypeOK
<1>7. RemoveSound'
  BY <1>3, Zenon DEF RemoveSound
<1> QED
  BY <1>2, <1>3, <1>5, <1>6, <1>7, NoCallSound, Zenon

\* Close empties the map of daemons and leaves the rest.
LEMMA CloseSound == ASSUME Structure, Close PROVE Structure'
<1>1. UNCHANGED <<connections, dm, backing, call, remover, removes>> /\ daemons' = Emptied /\ open' = FALSE
  BY Zenon DEF Close
<1>2. TypeOK /\ RemoveSound
  BY Zenon DEF Structure
<1>3. doomed' \subseteq Calls
  BY <1>2 DEF Close, TypeOK
<1>4. TypeOK'
  BY <1>1, <1>2, <1>3, Zenon DEF Emptied, TypeOK
<1>5. RemoveSound'
  BY <1>1, <1>2, Zenon DEF RemoveSound, At
<1> QED
  BY <1>1, <1>4, <1>5, NoCallSound, Zenon DEF SameDaemons, Same, Emptied

\* Nor does a step that changes nothing disturb it.
LEMMA StutterSound == ASSUME Structure, UNCHANGED vars PROVE Structure'
<1>1. UNCHANGED <<connections, daemons, dm, backing, call, remover, removes, doomed, open>>
  BY Zenon DEF vars
<1>2. TypeOK' /\ RemoveSound'
  BY <1>1, Zenon DEF Structure, TypeOK, RemoveSound, At
<1> QED
  BY <1>1, <1>2, NoCallSound, Zenon DEF SameDaemons, Same

\* Every step keeps the structure.
LEMMA StructureKept == ASSUME Structure, NamesSound, [Next]_vars PROVE Structure'
<1>1. ASSUME NEW c \in Calls, Initialize(c) PROVE Structure'
  BY <1>1, LookupSound, GetDaemonSound, CreateDaemonSound, CreateConnectionSound, InitializeFirstSound,
     InitializeWaitSound, TransportSound, EnsureSound, FollowSupersedeSound, UpdateDaemonSound, FailedSound, Zenon DEF Initialize
<1>2. ASSUME NEW n \in Names, RemoveLookup(n) PROVE Structure'
  BY <1>2, RemoveLookupSound, Zenon
<1> QED
  BY <1>1, <1>2, RemoveDeleteSound, CloseSound, StutterSound, Zenon DEF Next, Rest

-----------------------------------------------------------------------------
(* How a step of initialize moves its call.                                  *)

\* The points of initialize that a call goes to with the daemon it has.
Points == {"get", "make", "init", "transport", "ensure", "follow", "merged", "failed", "done"}

\* Which the steps do, but those that give the call a daemon.
LEMMA CallMoves ==
  ASSUME Structure, NEW c \in Calls, Initialize(c)
  PROVE  \/ \E p \in Points : Goto(c, p)
         \/ \E e \in Calls, p \in {"create", "update"} : call' = [call EXCEPT ![c].dm = e, ![c].pc = p]
<1> DEFINE Goes == \E p \in Points : Goto(c, p)
           Gets == \E e \in Calls, p \in {"create", "update"} : call' = [call EXCEPT ![c].dm = e, ![c].pc = p]
<1>1. ASSUME NEW e \in Calls, TakeRef(c, e) PROVE Gets
  BY <1>1, Zenon DEF TakeRef
<1>2. daemons[call[c].dest] # None => daemons[call[c].dest] \in Calls
  BY Typing, Zenon DEF References
<1>3. GetDaemon(c) => Goes \/ Gets
  BY <1>1, <1>2, Zenon DEF GetDaemon, Points
<1>4. CreateDaemon(c) => Goes \/ Gets
  BY <1>1, <1>2, ZenonT(40) DEF CreateDaemon, Points
<1>5. Lookup(c) \/ CreateConnection(c) \/ UpdateDaemon(c) \/ Failed(c) => Goes
  BY Zenon DEF Lookup, CreateConnection, UpdateDaemon, Failed, Points
<1>6. InitializeFirst(c) \/ Transport(c) \/ Ensure(c) => Goes
  BY Zenon DEF InitializeFirst, Transport, Ensure, Points
<1>7. InitializeWait(c) => Goes
  BY Zenon DEF InitializeWait, Points
<1>8. FollowSupersede(c) => Gets
  <2> SUFFICES ASSUME FollowSupersede(c) PROVE Gets
    BY Zenon
  <2>1. call[c].dm \in Calls /\ dm[call[c].dm].by # None
    BY Typing, Zenon DEF FollowSupersede, Begun, Structure, CallSound, Following, At
  <2>2. dm[call[c].dm].by \in Calls
    BY <2>1, Typing, Zenon DEF References
  <2> QED
    BY <2>2, Zenon DEF FollowSupersede
<1> HIDE DEF Goes, Gets
<1>9. Goes \/ Gets
  BY <1>3, <1>4, <1>5, <1>6, <1>7, <1>8, Zenon DEF Initialize
<1> QED
  BY <1>9, Zenon DEF Goes, Gets

\* So a step of initialize changes one call, and not what it was called with.
LEMMA CallsMove == ASSUME Structure, NEW c \in Calls, Initialize(c) PROVE OnlyCall(c)
<1>1. TypeOK
  BY Zenon DEF Structure
<1>2. CASE \E p \in Points : Goto(c, p)
  BY <1>1, <1>2, GotoTyping, Zenon DEF Points
<1>3. CASE \E e \in Calls, p \in {"create", "update"} : call' = [call EXCEPT ![c].dm = e, ![c].pc = p]
  BY <1>1, <1>3, CallTyping, Zenon
<1> QED
  BY <1>2, <1>3, CallMoves, Zenon

\* The table changes only where a call lists or a failure or a removal deletes.
LEMMA NamesKept == ASSUME Structure, NamesSound, [Next]_vars PROVE NamesSound'
<1>k. TypeOK
  BY Zenon DEF Structure
<1>1. \A c \in Calls : call'[c].name = call[c].name
  <2>1. ASSUME NEW c \in Calls, Initialize(c) PROVE \A b \in Calls : call'[b].name = call[b].name
    BY <2>1, CallsMove, Zenon DEF OnlyCall
  <2> QED
    BY <2>1, Zenon DEF Next, RemoveLookup, RemoveDelete, Close, Rest, vars
<1> DEFINE Entered(n) == \/ connections'[n] \in {connections[n], None}
                         \/ connections'[n] \in Calls /\ call[connections'[n]].name = n
<1>2. \A n \in Names : Entered(n)
  <2>1. ASSUME NEW c \in Calls, Initialize(c) PROVE \A n \in Names : Entered(n)
    <3>1. CASE UNCHANGED connections
      BY <3>1, Zenon
    <3>2. CASE CreateConnection(c)
      BY <1>k, <3>2, Zenon DEF CreateConnection, TypeOK
    <3>3. CASE Failed(c)
      BY <1>k, <3>3, Zenon DEF Failed, TypeOK
    <3>4. \/ UNCHANGED connections \/ CreateConnection(c) \/ Failed(c)
      BY <2>1, ZenonT(40) DEF Initialize, Lookup, GetDaemon, CreateDaemon, InitializeFirst, InitializeWait,
           Transport, Ensure, FollowSupersede, UpdateDaemon
    <3> QED
      BY <3>1, <3>2, <3>3, <3>4, Zenon
  <2>2. CASE RemoveDelete
    BY <1>k, <2>2, Zenon DEF RemoveDelete, TypeOK
  <2>3. CASE UNCHANGED connections
    BY <2>3, Zenon
  <2> HIDE DEF Entered
  <2> QED
    BY <2>1, <2>2, <2>3, Zenon DEF Next, RemoveLookup, Close, Rest, vars
<1>3. \A n \in Names : connections[n] \in Calls \cup {None}
  BY <1>k, Zenon DEF TypeOK
<1> QED
  BY <1>1, <1>2, <1>3, Constants DEF NamesSound

-----------------------------------------------------------------------------
(* The counts of references: with the structure, they cover the claims on    *)
(* every daemon at every moment.                                             *)

\* What may still release a reference to a daemon: those who hold one, a request
\* that may fail, and the removal in progress.
Claims(c, d) ==
  \/ call[c].dm = d /\ call[c].pc \in {"create", "update"}
  \/ c \in Requests /\ call[c].dm = d /\ call[c].pc \in {"init", "transport", "ensure", "merged", "failed"}
  \/ backing[c] = d /\ ~At(c, "update") /\ (Listed(c) \/ (remover.pc = "delete" /\ remover.conn = c))
Claimants(d) == {c \in Calls : Claims(c, d)}

ClaimsCounted == \A d \in Calls : dm[d].by = None => dm[d].refs >= Cardinality(Claimants(d))

\* The conjunction that is inductive.
ManagerInv == Structure /\ NamesSound /\ ClaimsCounted

-----------------------------------------------------------------------------
(* The counts.                                                               *)

\* A count that covers a set covers what the set becomes when it loses members,
\* gains one while the count grows, or loses one while the count shrinks.
LEMMA CountBounds ==
  ASSUME NEW S, S \subseteq Calls, NEW T, T \subseteq Calls, NEW c \in Calls, NEW r \in Int, r >= Cardinality(S)
  PROVE  /\ T \subseteq S => r >= Cardinality(T)
         /\ T \subseteq S \cup {c} => r + 1 >= Cardinality(T)
         /\ c \in S /\ T \subseteq S \ {c} => r - 1 >= Cardinality(T)
         /\ T \subseteq {c} => 1 >= Cardinality(T)
<1>1. IsFiniteSet(S) /\ IsFiniteSet(T) /\ Cardinality(S) \in Nat /\ Cardinality(T) \in Nat
  BY ManagerAssumption, FS_Union, FS_Subset, FS_CardinalityType, Zenon DEF Calls
<1>2. T \subseteq S => r >= Cardinality(T)
  BY <1>1, FS_Subset
<1>3. T \subseteq S \cup {c} => r + 1 >= Cardinality(T)
  <2>1. IsFiniteSet(S \cup {c}) /\ Cardinality(S \cup {c}) <= Cardinality(S) + 1
    <3>1. IsFiniteSet(S \cup {c}) /\ Cardinality(S \cup {c}) = IF c \in S THEN Cardinality(S) ELSE Cardinality(S) + 1
      BY <1>1, FS_AddElement, Zenon
    <3> QED
      BY <1>1, <3>1
  <2>2. Cardinality(S \cup {c}) \in Nat
    BY <2>1, FS_CardinalityType, Zenon
  <2>3. T \subseteq S \cup {c} => Cardinality(T) <= Cardinality(S \cup {c})
    BY <2>1, FS_Subset, Zenon
  <2> QED
    BY <1>1, <2>1, <2>2, <2>3
<1>4. c \in S /\ T \subseteq S \ {c} => r - 1 >= Cardinality(T)
  <2> SUFFICES ASSUME c \in S, T \subseteq S \ {c} PROVE r - 1 >= Cardinality(T)
    BY Zenon
  <2>1. IsFiniteSet(S \ {c}) /\ Cardinality(S \ {c}) = Cardinality(S) - 1
    BY <1>1, FS_RemoveElement, Zenon
  <2>2. Cardinality(T) <= Cardinality(S \ {c})
    BY <2>1, FS_Subset, Zenon
  <2> QED
    BY <1>1, <2>1, <2>2
<1>5. T \subseteq {c} => 1 >= Cardinality(T)
  <2>1. IsFiniteSet({c}) /\ Cardinality({c}) = 1
    BY FS_Singleton, Zenon
  <2> QED
    BY <1>1, <2>1, FS_Subset, Zenon
<1> QED
  BY <1>2, <1>3, <1>4, <1>5, Zenon

\* What is left to show of a step for the counts: each count has changed with
\* the claims.
Counted(d) ==
  \/ dm'[d].by # None
  \/ dm[d].by = None /\ dm'[d].refs = dm[d].refs /\ Claimants(d)' \subseteq Claimants(d)
  \/ \E c \in Calls : /\ dm[d].by = None /\ dm'[d].refs = dm[d].refs + 1
                      /\ Claimants(d)' \subseteq Claimants(d) \cup {c}
  \/ \E c \in Calls : /\ dm[d].by = None /\ dm'[d].refs = dm[d].refs - 1
                      /\ c \in Claimants(d) /\ Claimants(d)' \subseteq Claimants(d) \ {c}
  \/ \E c \in Calls : dm'[d].refs = 1 /\ Claimants(d)' \subseteq {c}

\* If each count has changed with the claims they are still covered.
LEMMA CountsFollow ==
  ASSUME Structure, ClaimsCounted, \A d \in Calls : Counted(d)
  PROVE  ClaimsCounted'
<1> SUFFICES ASSUME NEW d \in Calls, dm'[d].by = None
             PROVE  dm'[d].refs >= Cardinality(Claimants(d)')
  BY Zenon DEF ClaimsCounted
<1> DEFINE S == Claimants(d)
           T == Claimants(d)'
<1>1. S \subseteq Calls /\ T \subseteq Calls /\ dm[d].refs \in Int
  BY Zenon DEF Claimants, Structure, TypeOK, DaemonType
<1>2. dm[d].by = None => dm[d].refs >= Cardinality(S)
  BY Zenon DEF ClaimsCounted
<1>3. Counted(d)
  BY Zenon
<1> SUFFICES dm'[d].refs >= Cardinality(T)
  BY Zenon
<1> HIDE DEF S, T
<1>4. CASE dm[d].by = None /\ dm'[d].refs = dm[d].refs /\ T \subseteq S
  BY <1>1, <1>2, <1>4, CountBounds, Zenon
<1>5. CASE \E c \in Calls : dm[d].by = None /\ dm'[d].refs = dm[d].refs + 1 /\ T \subseteq S \cup {c}
  BY <1>1, <1>2, <1>5, CountBounds
<1>6. CASE \E c \in Calls : dm[d].by = None /\ dm'[d].refs = dm[d].refs - 1 /\ c \in S /\ T \subseteq S \ {c}
  BY <1>1, <1>2, <1>6, CountBounds
<1>7. CASE \E c \in Calls : dm'[d].refs = 1 /\ T \subseteq {c}
  <2>1. PICK c \in Calls : dm'[d].refs = 1 /\ T \subseteq {c}
    BY <1>7, Zenon
  <2>2. {} \subseteq Calls /\ 0 \in Int /\ 0 >= Cardinality({})
    BY FS_EmptySet
  <2> QED
    BY <1>1, <2>1, <2>2, CountBounds, Zenon
<1> QED
  BY <1>3, <1>4, <1>5, <1>6, <1>7, Zenon DEF Counted, S, T

\* A step of c leaves no other call with a claim that it did not have.
LEMMA OthersClaims ==
  ASSUME Structure, NEW c \in Calls, Others(c)
  PROVE  \A b, d \in Calls : b # c /\ Claims(b, d)' => Claims(b, d)
<1>1. \A b \in Calls : call[b].name \in Names /\ b # None
  BY Typing, Constants, Zenon
<1> QED
  BY <1>1 DEF Claims, Others, OnlyCall, Listed, At

\* No count changes and no daemon comes back from being superseded.
SameCounts == \A d \in Calls : dm'[d].refs = dm[d].refs /\ (dm'[d].by = None => dm[d].by = None)

\* A step that counts nothing and makes no claim.
LEMMA QuietStep ==
  ASSUME Structure, NEW c \in Calls, Others(c), SameCounts, \A d \in Calls : Claims(c, d)' => Claims(c, d)
  PROVE  \A d \in Calls : Counted(d)
<1>1. ASSUME NEW d \in Calls PROVE Claimants(d)' \subseteq Claimants(d)
  BY OthersClaims, Zenon DEF Claimants
<1> QED
  BY <1>1, Zenon DEF Counted, SameCounts

\* Such is a call's going on with the daemon and the connection that it has.
LEMMA QuietMove ==
  ASSUME Structure, NEW c \in Calls, NEW p \in {"get", "make", "transport", "ensure", "follow", "failed", "done"}, Goto(c, p),
         UNCHANGED <<connections, backing, remover>>, SameCounts, call[c].pc # "update",
         p \in {"transport", "ensure", "failed"} => call[c].pc \in {"init", "merged", "transport", "ensure"}
  PROVE  \A d \in Calls : Counted(d)
<1>1. TypeOK
  BY Zenon DEF Structure
<1>2. OnlyCall(c) /\ call'[c].pc = p /\ call'[c].dm = call[c].dm
  BY <1>1, GotoTyping, Zenon
<1>3. Others(c) /\ call'[c].name = call[c].name
  BY <1>2, Zenon DEF Others, OnlyCall
<1>4. ASSUME NEW d \in Calls PROVE Claims(c, d)' => Claims(c, d)
  BY <1>2, <1>3, Zenon DEF Claims, Listed, At
<1> QED
  BY <1>3, <1>4, QuietStep, Zenon

\* A change of how far a daemon's Initialize is counts nothing.
LEMMA InitSameCounts ==
  ASSUME TypeOK, NEW d \in Calls, NEW r, dm' = [dm EXCEPT ![d].init = r]
  PROVE  SameCounts
BY Zenon DEF SameCounts, TypeOK, DaemonType

\* The steps of initialize that neither take nor release a reference, up to the
\* connection.
LEMMA CreateCounted ==
  ASSUME Structure, NEW c \in Calls, Lookup(c) \/ CreateConnection(c) \/ UpdateDaemon(c)
  PROVE  \A d \in Calls : Counted(d)
<1>k. TypeOK /\ call[c].name \in Names /\ CallSound(c)
  BY Typing, Zenon DEF Structure
<1>1. CASE Lookup(c)
  <2>1. SameCounts
    BY <1>1, Zenon DEF Lookup, SameCounts
  <2> QED
    BY <1>1, <2>1, QuietMove, Zenon DEF Lookup, At
<1>2. CASE CreateConnection(c)
  <2>1. SameCounts
    BY <1>2, Zenon DEF CreateConnection, SameCounts
  <2>2. CASE Goto(c, "done") /\ UNCHANGED <<connections, backing>>
    BY <1>2, <2>1, <2>2, QuietMove, Zenon DEF CreateConnection, At
  <2>3. CASE Goto(c, "init") /\ connections' = [connections EXCEPT ![call[c].name] = c] /\ backing' = [backing EXCEPT ![c] = call[c].dm]
    <3>1. OnlyCall(c) /\ call'[c].pc = "init" /\ call'[c].dm = call[c].dm
      BY <1>k, <2>3, GotoTyping, Zenon
    <3>2. Others(c)
      BY <1>k, <1>2, <2>3, <3>1, Zenon DEF CreateConnection, Others, TypeOK
    <3>3. backing'[c] = call[c].dm /\ call[c].pc = "create"
      BY <1>k, <1>2, <2>3, Zenon DEF CreateConnection, TypeOK, At
    <3>4. ASSUME NEW d \in Calls PROVE Claims(c, d)' => Claims(c, d)
      BY <3>1, <3>3, Zenon DEF Claims
    <3> QED
      BY <2>1, <3>2, <3>4, QuietStep, Zenon
  <2> QED
    BY <1>2, <2>2, <2>3, Zenon DEF CreateConnection
<1>3. CASE UpdateDaemon(c)
  <2>1. SameCounts
    BY <1>3, Zenon DEF UpdateDaemon, SameCounts
  <2>2. OnlyCall(c) /\ call'[c].pc = "merged" /\ call'[c].dm = call[c].dm
    BY <1>k, <1>3, GotoTyping, Zenon DEF UpdateDaemon
  <2>3. Others(c) /\ backing'[c] = call[c].dm /\ call[c].pc = "update"
    BY <1>k, <1>3, <2>2, Zenon DEF UpdateDaemon, Others, TypeOK, At
  <2>4. ASSUME NEW d \in Calls PROVE Claims(c, d)' => Claims(c, d)
    BY <2>2, <2>3, Zenon DEF Claims
  <2> QED
    BY <2>1, <2>3, <2>4, QuietStep, Zenon
<1> QED
  BY <1>1, <1>2, <1>3, Zenon

\* And those of the daemon's Initialize.
LEMMA InitializeCounted ==
  ASSUME Structure, NEW c \in Calls, InitializeFirst(c) \/ InitializeWait(c) \/ Transport(c) \/ Ensure(c)
  PROVE  \A d \in Calls : Counted(d)
<1>k. TypeOK
  BY Zenon DEF Structure
<1>p. call[c].pc \in {"init", "merged", "transport", "ensure"} /\ UNCHANGED <<connections, backing, remover>>
  BY Zenon DEF InitializeFirst, InitializeWait, Transport, Ensure, At
<1>d. PICK d \in Calls : d = call[c].dm
  BY <1>p, Typing, Zenon DEF Begun
<1>1. CASE InitializeFirst(c)
  <2>1. PICK r \in {"failed", "running"}, p \in {"failed", "transport", "ensure"} : dm' = [dm EXCEPT ![d].init = r] /\ Goto(c, p)
    BY <1>d, <1>1, Zenon DEF InitializeFirst, Published
  <2> QED
    BY <1>k, <1>p, <2>1, InitSameCounts, QuietMove, Zenon
<1>2. CASE InitializeWait(c)
  <2>1. SameCounts
    BY <1>2, Zenon DEF InitializeWait, SameCounts
  <2>2. PICK p \in {"failed", "follow", "done"} : Goto(c, p)
    BY <1>2, Zenon DEF InitializeWait
  <2> QED
    BY <1>p, <2>1, <2>2, QuietMove, Zenon
<1>3. CASE Ensure(c)
  <2>1. PICK r \in {"failed", "ok"}, p \in {"failed", "done"} : dm' = [dm EXCEPT ![d].init = r] /\ Goto(c, p)
    BY <1>d, <1>3, Zenon DEF Ensure, Published
  <2> QED
    BY <1>k, <1>p, <2>1, InitSameCounts, QuietMove, ZenonT(40)
<1>4. CASE Transport(c)
  <2>0. dm[d].by = None
    <3>1. dm[d].init = "running"
      BY <1>d, <1>4, Zenon DEF Transport, Structure, OneWorker, Working, At
    <3> QED
      BY <3>1, Zenon DEF Structure, SupersedeSound
  <2>1. PICK p \in {"failed", "follow", "ensure"} : Goto(c, p)
    BY <1>4, ZenonT(40) DEF Transport
  <2>2. SameCounts
    <3>1. CASE dm' = [dm EXCEPT ![d].init = "failed"]
      BY <1>k, <3>1, InitSameCounts, Zenon
    <3>2. CASE UNCHANGED dm
      BY <3>2, Zenon DEF SameCounts
    <3>3. CASE \E e : dm' = [dm EXCEPT ![d].by = e, ![d].init = "superseded"]
      BY <1>k, <2>0, <3>3 DEF SameCounts, TypeOK, DaemonType
    <3>4. CASE \E k : dm' = [dm EXCEPT ![d].key = k]
      BY <1>k, <3>4 DEF SameCounts, TypeOK, DaemonType
    <3> QED
      BY <1>d, <1>4, <3>1, <3>2, <3>3, <3>4, Zenon DEF Transport, Published
  <2> QED
    BY <1>p, <2>1, <2>2, QuietMove, Zenon
<1> QED
  BY <1>1, <1>2, <1>3, <1>4, Zenon

\* Only the count of d changes, by i.
CountsBy(d, i) == /\ dm'[d].refs = dm[d].refs + i /\ dm'[d].by = dm[d].by
                  /\ \A e \in Calls : e # d => dm'[e].refs = dm[e].refs /\ dm'[e].by = dm[e].by

\* A step of c that claims at most the daemon whose count it raises.
LEMMA TakingStep ==
  ASSUME Structure, NEW c \in Calls, Others(c), NEW d \in Calls, CountsBy(d, 1),
         \A e \in Calls : e # d /\ Claims(c, e)' => Claims(c, e)
  PROVE  \A e \in Calls : Counted(e)
<1>1. Claimants(d)' \subseteq Claimants(d) \cup {c}
  BY OthersClaims, Zenon DEF Claimants
<1>2. ASSUME NEW e \in Calls, e # d PROVE Claimants(e)' \subseteq Claimants(e)
  BY <1>2, OthersClaims, Zenon DEF Claimants
<1> QED
  BY <1>1, <1>2, Zenon DEF Counted, CountsBy

\* A call without a daemon has no claim but by one that it takes.
LEMMA FirstClaim ==
  ASSUME Structure, NEW c \in Calls, Others(c), call[c].pc \in {"get", "make"}, backing'[c] = backing[c],
         NEW d \in Calls, call'[c].dm = d, call'[c].pc = "create"
  PROVE  \A e \in Calls : e # d => ~Claims(c, e)'
<1>1. backing[c] = None
  BY Zenon DEF Structure, CallSound, Unlisted, Early
<1> QED
  BY <1>1, Constants, Zenon DEF Claims

\* A call takes a reference to a daemon that it finds in the map.
LEMMA TakeRefCounted ==
  ASSUME Structure, NEW c \in Calls, NEW d \in Calls, TakeRef(c, d),
         call[c].pc \in {"get", "make"}, UNCHANGED <<connections, backing, remover>>
  PROVE  \A e \in Calls : Counted(e)
<1>k. TypeOK
  BY Zenon DEF Structure
<1>1. OnlyCall(c) /\ call'[c].dm = d /\ call'[c].pc = "create"
  BY <1>k, CallTyping, Zenon DEF TakeRef
<1>2. Others(c)
  BY <1>1, Zenon DEF Others
<1>3. CountsBy(d, 1)
  BY <1>k, Zenon DEF TakeRef, CountsBy, TypeOK, DaemonType
<1>4. \A e \in Calls : e # d => ~Claims(c, e)'
  BY <1>1, <1>2, FirstClaim, Zenon
<1> QED
  BY <1>2, <1>3, <1>4, TakingStep, Zenon

\* A call that adds a daemon is the first to claim it.
LEMMA NewDaemonCounted ==
  ASSUME Structure, NEW c \in Calls, call[c].pc \in {"get", "make"}, UNCHANGED <<connections, backing, remover>>,
         dm' = [dm EXCEPT ![c].key = call[c].dest, ![c].refs = 1],
         call' = [call EXCEPT ![c].dm = c, ![c].pc = "create"]
  PROVE  \A d \in Calls : Counted(d)
<1>k. TypeOK
  BY Zenon DEF Structure
<1>1. OnlyCall(c) /\ call'[c].dm = c /\ call'[c].pc = "create"
  BY <1>k, CallTyping, Zenon
<1>2. Others(c)
  BY <1>1, Zenon DEF Others
<1>3. dm'[c].refs = 1 /\ \A d \in Calls : d # c => dm'[d] = dm[d]
  BY <1>k DEF TypeOK, DaemonType
<1>4. \A b \in Calls : ~Claims(b, c)
  <2>1. dm[c].key = None
    BY Zenon DEF Structure, CallSound, Fresh
  <2>2. \A b \in Calls : call[b].dm # c /\ backing[b] # c
    BY <2>1, Constants, Zenon DEF Structure, CallSound, Existing
  <2> QED
    BY <2>2, Zenon DEF Claims
<1>5. Claimants(c)' \subseteq {c}
  BY <1>2, <1>4, OthersClaims, Zenon DEF Claimants
<1>6. ASSUME NEW d \in Calls, d # c PROVE Claimants(d)' \subseteq Claimants(d)
  <2>1. ~Claims(c, d)'
    BY <1>1, <1>2, <1>6, FirstClaim, Zenon
  <2> QED
    BY <1>2, <2>1, OthersClaims, Zenon DEF Claimants
<1>7. ASSUME NEW d \in Calls, d # c PROVE Counted(d)
  BY <1>3, <1>6, <1>7, Zenon DEF Counted
<1>8. Counted(c)
  BY <1>3, <1>5, Zenon DEF Counted
<1> QED
  BY <1>7, <1>8, Zenon

\* getOrCreateDaemon counts the reference that it gives to the call.
LEMMA DaemonCounted ==
  ASSUME Structure, NEW c \in Calls, GetDaemon(c) \/ CreateDaemon(c)
  PROVE  \A d \in Calls : Counted(d)
<1>t. /\ daemons[call[c].dest] \in Calls \cup {None}
      /\ call[c].pc \in {"get", "make"} /\ UNCHANGED <<connections, backing, remover>>
  BY Typing, Zenon DEF References, GetDaemon, CreateDaemon, At
<1>1. CASE daemons[call[c].dest] # None /\ TakeRef(c, daemons[call[c].dest])
  BY <1>t, <1>1, TakeRefCounted, Zenon
<1>2. CASE UNCHANGED dm /\ \E p \in {"make", "done"} : Goto(c, p)
  <2>1. SameCounts
    BY <1>2, Zenon DEF SameCounts
  <2> QED
    BY <1>t, <1>2, <2>1, QuietMove, Zenon
<1>3. CASE /\ dm' = [dm EXCEPT ![c].key = call[c].dest, ![c].refs = 1]
           /\ call' = [call EXCEPT ![c].dm = c, ![c].pc = "create"]
  BY <1>t, <1>3, NewDaemonCounted, Zenon
<1> QED
  BY <1>1, <1>2, <1>3, Zenon DEF GetDaemon, CreateDaemon

\* followSupersede moves the reference: the count of the daemon left behind
\* says nothing any more.
LEMMA FollowCounted ==
  ASSUME Structure, NEW c \in Calls, FollowSupersede(c)
  PROVE  \A d \in Calls : Counted(d)
<1>k. TypeOK /\ At(c, "follow")
  BY Zenon DEF Structure, FollowSupersede
<1>p. PICK from \in Calls : from = call[c].dm /\ dm[from].by # None
  BY <1>k, Typing, Zenon DEF Begun, Structure, CallSound, Following, At
<1>q. PICK to \in Calls : to = dm[from].by
  BY <1>p, Typing, Zenon DEF References
<1>t. from # to /\ dm[to].by = None
  BY <1>p, <1>q, Zenon DEF Structure, SupersedeSound, Final
<1>1. /\ dm'[from].by # None /\ dm'[to].refs = dm[to].refs + 1
      /\ \A e \in Calls \ {from, to} : dm'[e] = dm[e]
  <2>1. dm' = [dm EXCEPT ![from].refs = dm[from].refs - 1, ![to].refs = dm[to].refs + 1]
    BY <1>k, <1>p, <1>q, <1>t, Zenon DEF FollowSupersede, Moved, TypeOK, DaemonType
  <2> QED
    BY <1>k, <1>p, <1>t, <2>1, SMTT(20) DEF TypeOK, DaemonType
<1>2. OnlyCall(c) /\ call'[c].dm = to /\ call'[c].pc = "update"
  BY <1>k, <1>p, <1>q, CallTyping, Zenon DEF FollowSupersede
<1>3. Others(c)
  BY <1>2, Zenon DEF FollowSupersede, Others
<1>4. ASSUME NEW e \in Calls, e # to PROVE ~Claims(c, e)'
  BY <1>2, <1>4, Zenon DEF Claims, At
<1>5. Claimants(to)' \subseteq Claimants(to) \cup {c}
  BY <1>3, OthersClaims, Zenon DEF Claimants
<1>6. ASSUME NEW e \in Calls, e # to PROVE Claimants(e)' \subseteq Claimants(e)
  BY <1>3, <1>4, <1>6, OthersClaims, Zenon DEF Claimants
<1>7. Counted(to) /\ Counted(from)
  BY <1>t, <1>1, <1>5, Zenon DEF Counted
<1>8. ASSUME NEW e \in Calls \ {from, to} PROVE Counted(e)
  BY <1>1, <1>6, <1>8, Zenon DEF Counted
<1> QED
  BY <1>7, <1>8, Zenon

\* What releaseDaemon does to the counts.
LEMMA ReleaseCounts == ASSUME TypeOK, NEW d \in Calls, Release(d) PROVE CountsBy(d, -1) /\ dm[d].refs + (-1) = dm[d].refs - 1
BY DEF Release, CountsBy, TypeOK, DaemonType

\* A claim that ends with the reference that is released.
LEMMA ReleasedCounted ==
  ASSUME TypeOK, NEW d \in Calls, CountsBy(d, -1), dm[d].refs + (-1) = dm[d].refs - 1,
         \A e \in Calls : Claimants(e)' \subseteq Claimants(e),
         \/ dm[d].by # None
         \/ \E c \in Calls : c \in Claimants(d) /\ c \notin Claimants(d)'
  PROVE  \A e \in Calls : Counted(e)
<1>1. Counted(d)
  BY Zenon DEF Counted, CountsBy
<1>2. ASSUME NEW e \in Calls, e # d PROVE Counted(e)
  BY <1>2, Zenon DEF Counted, CountsBy
<1> QED
  BY <1>1, <1>2, Zenon

\* A request that fails releases the reference that it took.
LEMMA FailedCounted ==
  ASSUME Structure, NEW c \in Calls, Failed(c)
  PROVE  \A d \in Calls : Counted(d)
<1>k. TypeOK /\ At(c, "failed") /\ Goto(c, "done") /\ UNCHANGED <<backing, remover>>
  BY Zenon DEF Structure, Failed
<1>d. PICK d \in Calls : d = call[c].dm
  BY <1>k, Typing, Zenon DEF Begun, At
<1>n. call[c].name \in Names /\ c # None
  BY Typing, Constants, Zenon
<1>1. CASE c \notin Requests
  <2>1. SameCounts /\ UNCHANGED connections
    BY <1>1, Zenon DEF Failed, SameCounts
  <2> QED
    BY <1>k, <2>1, QuietMove, Zenon DEF At
<1>2. CASE c \in Requests
  <2>1. connections' = [connections EXCEPT ![call[c].name] = None] /\ Release(d)
    BY <1>2, <1>d, Zenon DEF Failed
  <2>2. OnlyCall(c) /\ call'[c].pc = "done" /\ call'[c].dm = call[c].dm
    BY <1>k, GotoTyping, Zenon
  <2>3. /\ \A n \in Names : connections'[n] \in {connections[n], None}
        /\ connections'[call[c].name] = None
    BY <1>k, <1>n, <2>1, Zenon DEF TypeOK
  <2>4. Others(c)
    BY <1>k, <2>2, <2>3, Zenon DEF Others
  <2>5. remover.pc # "delete"
    BY <1>2, <1>k, RequestAlone, Zenon DEF At
  <2>6. \A e \in Calls : ~Claims(c, e)'
    BY <1>k, <1>n, <2>2, <2>3, <2>5, Zenon DEF Claims, Listed, OnlyCall
  <2>7. Claims(c, d)
    BY <1>k, <1>d, <1>2, Zenon DEF Claims, At
  <2>8. \A e \in Calls : Claimants(e)' \subseteq Claimants(e)
    BY <2>4, <2>6, OthersClaims, Zenon DEF Claimants
  <2>9. c \in Claimants(d) /\ c \notin Claimants(d)'
    BY <2>6, <2>7, Zenon DEF Claimants
  <2> QED
    BY <1>k, <2>1, <2>8, <2>9, ReleaseCounts, ReleasedCounted, Zenon
<1> QED
  BY <1>1, <1>2, Zenon

\* The connection that a removal has in hand keeps its claim.
LEMMA RemoveLookupCounted ==
  ASSUME Structure, NamesSound, NEW n \in Names, RemoveLookup(n)
  PROVE  \A d \in Calls : Counted(d)
<1>1. /\ UNCHANGED <<connections, dm, backing, call>>
      /\ remover'.pc = "delete" /\ remover'.conn = connections[n] /\ connections[n] # None
  BY Zenon DEF RemoveLookup
<1>2. ASSUME NEW b \in Calls, NEW d \in Calls PROVE Claims(b, d)' => Claims(b, d)
  <2>1. remover'.conn = b => Listed(b)
    BY <1>1, Zenon DEF Listed, NamesSound
  <2> QED
    BY <1>1, <2>1, Zenon DEF Claims, Listed, At
<1>3. ASSUME NEW d \in Calls PROVE Claimants(d)' \subseteq Claimants(d)
  BY <1>2, Zenon DEF Claimants
<1> QED
  BY <1>1, <1>3, Zenon DEF Counted

\* It loses it when the table and the count change together.
LEMMA RemoveDeleteCounted ==
  ASSUME Structure, RemoveDelete
  PROVE  \A d \in Calls : Counted(d)
<1>k. TypeOK /\ RemoveSound /\ remover.pc = "delete" /\ UNCHANGED <<backing, call>> /\ remover'.pc = "idle"
  BY Zenon DEF Structure, RemoveDelete
<1>c. PICK c \in Calls : c = remover.conn
  BY <1>k, Typing, Zenon
<1>d. PICK d \in Calls : d = backing[c]
  BY <1>k, <1>c, Typing, Zenon
<1>1. Release(d)
  BY <1>c, <1>d, Zenon DEF RemoveDelete
<1>2. /\ connections'[call[c].name] = None
      /\ \A n \in Names : connections'[n] \in {connections[n], None}
  <2>1. call[c].name = remover.name /\ call[c].name \in Names
    BY <1>k, <1>c, Typing, Zenon DEF RemoveSound
  <2> QED
    BY <1>k, <2>1, Zenon DEF RemoveDelete, TypeOK
<1>3. call[c].pc \notin Early /\ (c \in Requests => call[c].pc \in {"idle", "done"})
  BY <1>k, <1>c, Zenon DEF RemoveSound, At
<1>4. ASSUME NEW b \in Calls, NEW e \in Calls PROVE Claims(b, e)' => Claims(b, e)
  <2>1. call[b].name \in Names /\ b # None
    BY Typing, Constants, Zenon
  <2> QED
    BY <1>k, <1>2, <2>1, Zenon DEF Claims, Listed, At
<1>5. \A e \in Calls : Claimants(e)' \subseteq Claimants(e)
  BY <1>4, Zenon DEF Claimants
<1>6. CASE At(c, "update")
  <2>1. dm[d].by # None
    BY <1>d, <1>6, Typing, Constants DEF Begun, Structure, CallSound, Following, At
  <2> QED
    BY <1>k, <1>1, <1>5, <2>1, ReleaseCounts, ReleasedCounted, Zenon
<1>7. CASE ~At(c, "update")
  <2>1. ~Claims(c, d)'
    BY <1>k, <1>2, <1>3, <1>7, Constants, Zenon DEF Claims, Listed, At, Early
  <2>2. Claims(c, d)
    BY <1>k, <1>c, <1>d, <1>7, Zenon DEF Claims
  <2>3. c \in Claimants(d) /\ c \notin Claimants(d)'
    BY <2>1, <2>2, Zenon DEF Claimants
  <2> QED
    BY <1>k, <1>1, <1>5, <2>3, ReleaseCounts, ReleasedCounted, Zenon
<1> QED
  BY <1>6, <1>7, Zenon

\* Shutdown and a step that changes nothing leave claims and counts.
LEMMA CloseCounted ==
  ASSUME UNCHANGED <<connections, dm, backing, call, remover>>
  PROVE  \A d \in Calls : Counted(d)
<1>1. \A d \in Calls : Claimants(d)' = Claimants(d)
  BY Zenon DEF Claimants, Claims, Listed, At
<1> QED
  BY <1>1, Zenon DEF Counted

\* Every step changes the counts with the claims.
LEMMA CountsKept == ASSUME Structure, NamesSound, ClaimsCounted, [Next]_vars PROVE ClaimsCounted'
<1>1. ASSUME NEW c \in Calls, Initialize(c) PROVE \A d \in Calls : Counted(d)
  BY <1>1, CreateCounted, InitializeCounted, DaemonCounted, FollowCounted, FailedCounted, Zenon DEF Initialize
<1>2. \A d \in Calls : Counted(d)
  <2>1. CASE Close \/ Rest \/ UNCHANGED vars
    BY <2>1, CloseCounted, Zenon DEF Close, Rest, vars
  <2> QED
    BY <1>1, <2>1, RemoveLookupCounted, RemoveDeleteCounted, Zenon DEF Next
<1> QED
  BY <1>2, CountsFollow, Zenon

-----------------------------------------------------------------------------
\* Before any call nothing is listed and nothing is counted.
LEMMA ManagerInit == Init => ManagerInv
<1> SUFFICES ASSUME Init PROVE ManagerInv
  BY Zenon
<1>1. TypeOK
  <2>1. call \in [Calls -> CallType]
    <3>1. PICK i \in Intents : call = [c \in Calls |-> [pc |-> "idle", name |-> i[c].name, dest |-> i[c].dest, dm |-> None]]
      BY Zenon DEF Init
    <3>2. \A c \in Calls : i[c].name \in Names /\ i[c].dest \in Keys
      BY <3>1, ManagerAssumption, Zenon
    <3> QED
      BY <3>1, <3>2, Zenon DEF CallType
  <2>2. dm \in [Calls -> DaemonType]
    BY DEF Init, DaemonType
  <2> QED
    BY <2>1, <2>2, ManagerAssumption DEF Init, TypeOK
<1>2. /\ \A c \in Calls : call[c].pc = "idle" /\ call[c].dm = None /\ call[c].name \in Names /\ backing[c] = None
      /\ \A d \in Calls : dm[d].key = None /\ dm[d].refs = 0 /\ dm[d].by = None /\ dm[d].init = "none"
      /\ \A n \in Names : connections[n] = None
      /\ \A k \in Keys : daemons[k] = None
      /\ remover.pc = "idle"
  BY ManagerAssumption DEF Init
<1>3. MapSound /\ InitOwned /\ SupersedeSound /\ OneWorker /\ RemoveSound /\ NamesSound
  BY <1>2, Zenon DEF MapSound, InitOwned, SupersedeSound, OneWorker, Working, RemoveSound, NamesSound
<1>4. ASSUME NEW c \in Calls PROVE CallSound(c)
  BY <1>2, Constants, Zenon DEF CallSound, Fresh, Unlisted, Holding, Existing, Following, Settled, OwnKey, Begun, Backed, Early, At, Listed
<1>5. ClaimsCounted
  <2>1. \A d \in Calls : Claimants(d) = {}
    BY <1>2, Constants, Zenon DEF Claimants, Claims, Listed, At
  <2>2. Cardinality({}) = 0
    BY FS_EmptySet, Zenon
  <2>3. \A d \in Calls : dm[d].refs >= Cardinality(Claimants(d))
    <3> SUFFICES ASSUME NEW d \in Calls PROVE dm[d].refs >= Cardinality(Claimants(d))
      BY Zenon
    <3>1. dm[d].refs = 0 /\ Cardinality(Claimants(d)) = 0
      BY <1>2, <2>1, <2>2, Zenon
    <3> QED
      BY <3>1
  <2> QED
    BY <2>3, Zenon DEF ClaimsCounted
<1> QED
  BY <1>1, <1>3, <1>4, <1>5, Zenon DEF ManagerInv, Structure

\* The invariant holds at every moment, whatever calls, failures, superseding,
\* removals and shutdown interleave.
THEOREM ManagerInvariant == Spec => []ManagerInv
<1>1. ManagerInv /\ [Next]_vars => ManagerInv'
  BY StructureKept, NamesKept, CountsKept, Zenon DEF ManagerInv
<1> QED
  BY ManagerInit, <1>1, PTL DEF Spec

\* The count of a daemon in use never falls below the connections and calls that
\* use it (getOrCreateDaemon, followSupersede, releaseDaemon).
THEOREM ManagerRefsCover == Spec => []RefsCover
<1>1. ManagerInv => RefsCover
  <2> SUFFICES ASSUME ManagerInv, NEW d \in Calls, dm[d].by = None
               PROVE  dm[d].refs >= Cardinality({c \in Calls : Holds(c, d)})
    BY Zenon DEF RefsCover
  <2> DEFINE S == Claimants(d)
             T == {c \in Calls : Holds(c, d)}
  <2>1. T \subseteq S /\ S \subseteq Calls /\ T \subseteq Calls /\ d \in Calls
    BY Zenon DEF Claimants, Claims, Holds
  <2>2. dm[d].refs \in Int /\ dm[d].refs >= Cardinality(S)
    BY Zenon DEF ManagerInv, Structure, ClaimsCounted, TypeOK, DaemonType
  <2> SUFFICES dm[d].refs >= Cardinality(T)
    BY Zenon
  <2> HIDE DEF S, T
  <2> QED
    BY <2>1, <2>2, CountBounds, Zenon
<1> QED
  BY <1>1, ManagerInvariant, PTL

\* The table of daemons is sound at every moment: each daemon under its own key,
\* superseding followed in one hop, and no initialization that nobody performs.
THEOREM ManagerDaemonTable == Spec => []DaemonTable
<1>1. ManagerInv => DaemonTable
  <2> SUFFICES ASSUME ManagerInv PROVE SupersedeFollowed
    BY Zenon DEF ManagerInv, Structure, DaemonTable
  <2>1. ASSUME NEW c \in Calls, At(c, "done"), Listed(c) PROVE dm[backing[c]].by = None
    <3>1. backing[c] # None /\ dm[backing[c]].init \in {"ok", "failed"}
      BY <2>1, Zenon DEF ManagerInv, Structure, CallSound, Settled
    <3>2. backing[c] \in Calls
      BY <3>1, Typing, Zenon DEF ManagerInv, References
    <3> QED
      BY <3>1, <3>2, Zenon DEF ManagerInv, Structure, SupersedeSound
  <2> QED
    BY <2>1, Zenon DEF SupersedeFollowed
<1> QED
  BY <1>1, ManagerInvariant, PTL

\* A daemon that a removal or a failed request destroys backs no connection of
\* the table (releaseDaemon): its last reference was the one released.
THEOREM ManagerDestroyedUnused == Spec => DestroyedUnused
<1> DEFINE Unused(d) == \A c \in Calls : ~(Listed(c)' /\ backing'[c] = d)
<1>1. ASSUME ManagerInv, ManagerInv', Next, NEW d \in Calls, d \in doomed' \ doomed, open', dm[d].by = None
      PROVE  Unused(d)
  <2>k. TypeOK
    BY <1>1, Zenon DEF ManagerInv, Structure
  <2>1. dm'[d].by = None /\ dm'[d].refs <= 0
    <3>1. ASSUME NEW e \in Calls, Release(e), d \in doomed' \ doomed PROVE dm'[d].by = None /\ dm'[d].refs <= 0
      BY <1>1, <2>k, <3>1 DEF Release, TypeOK, DaemonType
    <3>2. \E e \in Calls : Release(e)
      <4>1. ASSUME RemoveDelete PROVE backing[remover.conn] \in Calls /\ Release(backing[remover.conn])
        BY <1>1, <4>1, Typing, Zenon DEF RemoveDelete, ManagerInv
      <4>2. ASSUME NEW c \in Calls, Failed(c), doomed' # doomed PROVE call[c].dm \in Calls /\ Release(call[c].dm)
        BY <1>1, <4>2, Typing, Zenon DEF Failed, Begun, ManagerInv, At
      <4>3. doomed' # doomed /\ ~Close
        BY <1>1, Zenon DEF Close
      <4>4. \A c \in Calls : Initialize(c) => Failed(c)
        BY <4>3, ZenonT(40) DEF Initialize, Lookup, GetDaemon, CreateDaemon, CreateConnection, InitializeFirst, InitializeWait,
             Transport, Ensure, FollowSupersede, UpdateDaemon
      <4> QED
        BY <1>1, <4>1, <4>2, <4>3, <4>4, Zenon DEF Next, RemoveLookup, Rest, vars
    <3> QED
      BY <1>1, <3>1, <3>2, Zenon
  <2>2. Claimants(d)' = {}
    <3>1. dm'[d].refs \in Int /\ dm'[d].refs >= Cardinality(Claimants(d)')
      BY <1>1, <2>1, Zenon DEF ManagerInv, Structure, ClaimsCounted, TypeOK, DaemonType
    <3>2. IsFiniteSet(Calls) /\ Claimants(d)' \subseteq Calls
      BY ManagerAssumption, FS_Union, ZenonT(40) DEF Claimants, Calls
    <3>3. IsFiniteSet(Claimants(d)')
      BY <3>2, FS_Subset, Zenon
    <3>4. Cardinality(Claimants(d)') \in Nat
      BY <3>3, FS_CardinalityType, Zenon
    <3>5. Cardinality(Claimants(d)') = 0
      BY <2>1, <3>1, <3>4
    <3> QED
      BY <3>3, <3>5, FS_EmptySet, Zenon
  <2>3. ASSUME NEW c \in Calls, Listed(c)', backing'[c] = d PROVE FALSE
    <3>1. At(c, "update")'
      BY <2>2, <2>3, Zenon DEF Claimants, Claims
    <3>2. CallSound(c)' /\ (call[c].dm \in Calls)'
      <4>1. CallSound(c)'
        BY <1>1, Zenon DEF ManagerInv, Structure
      <4> QED
        BY <1>1, <3>1, <4>1, Zenon DEF ManagerInv, Structure, CallSound, Holding, Begun, At, TypeOK, CallType
    <3> QED
      BY <2>1, <2>3, <3>1, <3>2, Constants, Zenon DEF CallSound, Following, At
  <2> QED
    BY <2>3, Zenon
<1>2. ManagerInv /\ ManagerInv' /\ [Next]_vars =>
        [\A d \in Calls : d \in doomed' \ doomed /\ open' /\ dm[d].by = None => Unused(d)]_vars
  BY <1>1, Zenon
<1> QED
  BY <1>2, ManagerInvariant, PTL DEF Spec, DestroyedUnused
===============================================================================
