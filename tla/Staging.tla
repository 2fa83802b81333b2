------------------------------ MODULE Staging ------------------------------
(***************************************************************************)
(* How the files of a synchronization cycle travel.  The controller drives *)
(* two endpoints, one local and one behind a control stream (endpointClient*)
(* and endpointServer).  A cycle scans, stages the files the destination   *)
(* lacks, moves them with rsync over the control stream, applies them with *)
(* a transition and polls for the next change.  In a push the destination  *)
(* is remote, in a pull it is local.  Users edit files on both sides all   *)
(* the while, the stream may break, and the session may be cancelled.      *)
(***************************************************************************)
EXTENDS Rsync, StagingStore

CONSTANTS Paths,       \* file paths, in the order transitions name them
          Absent,      \* no file at a path
          None,
          Window,      \* messages a direction of the stream buffers
          Contents,    \* what a user may put in a file
          Scenarios    \* the initial contents, the direction and the budgets

VARIABLES push,        \* TRUE: the destination is the remote endpoint
          source,      \* the source's files: a content or Absent per path
          root,        \* the destination's files
          cached,      \* the destination's cache: what its last scan saw
          want,        \* what the transitions need: paths with digests
          staging,     \* the destination's store and its directory
          tx,          \* the running Transmit, or None
          rx,          \* the running receiver, or None
          mon,         \* the staging progress of the monitoring receiver
          up, down,    \* the two directions of the control stream
          link,        \* is the control stream open?
          phase,       \* where the controller is in its cycle
          client,      \* the outstanding call of endpointClient
          server,      \* what endpointServer is doing
          missing,     \* did the last transition miss staged files?
          changed,     \* has the remote endpoint's poll signal fired?
          cancel,      \* "no", or what was cancelled: the "poll" or all ("halt")
          old,         \* what a server whose stream broke has left to do
          calm,        \* ghost: paths nothing disturbed since the scan
          budget       \* what may still happen

vars == << push, source, root, cached, want, staging, tx, rx, mon, up, down, link,
           phase, client, server, missing, changed, cancel, old, calm,
           budget >>

files == << source, root, cached >>
moving == << tx, rx, mon >>
wires == << up, down, link >>
rare == << push, missing, old, calm, budget >>

PathSet == Range(Paths)

NoClient == [op |-> None, sent |-> FALSE, got |-> None]

Serving == [pc |-> "serve", op |-> None, items |-> << >>, done |-> FALSE,
            answered |-> FALSE]

NoProgress == [files |-> 0, size |-> 0, start |-> TRUE]

Init ==
  \E c \in Scenarios :
    /\ push = c.push
    /\ source = c.source
    /\ root = c.root
    /\ cached = [p \in PathSet |-> Absent]
    /\ want = << >>
    /\ staging = [store |-> NoStore, disk |-> NoDisk]
    /\ tx = None /\ rx = None /\ mon = NoProgress
    /\ up = << >> /\ down = << >> /\ link = TRUE
    /\ phase = "scan"
    /\ client = NoClient
    /\ server = Serving
    /\ missing = FALSE /\ changed = FALSE /\ cancel = "no"
    /\ old = None
    /\ calm = {}
    /\ budget = c.budget

(***************************************************************************)
(* The receiver of staged files: rsync's receiver over the stager's sinks. *)
(* st is the receiver, the store and its directory.                        *)
(***************************************************************************)
NewReceiver(paths, signatures) ==
  [paths |-> paths, signatures |-> signatures, received |-> 0,
   burning |-> FALSE, open |-> FALSE, base |-> << >>, data |-> << >>,
   temporary |-> FALSE]

Closed(r) == [r EXCEPT !.open = FALSE, !.base = << >>, !.data = << >>,
                       !.temporary = FALSE]

CurrentPath(r) == r.paths[r.received + 1]
CurrentSignature(r) == r.signatures[r.received + 1]

\* Sink.Close: whatever was written is committed, complete or not.
CloseTarget(st) ==
  [s |-> Commit(st.s, CurrentPath(st.rx), st.rx.data, st.rx.temporary),
   rx |-> Closed(st.rx)]

\* The last message of a file.  A file with no operation is an empty file.
ReceiveDone(st) ==
  LET closed ==
        IF st.rx.open THEN CloseTarget(st)
        ELSE IF st.rx.burning \/ ~Allocates(st.s) THEN st
        ELSE [st EXCEPT !.s = Commit(@, CurrentPath(st.rx), << >>, TRUE)]
  IN [closed EXCEPT !.rx.received = @ + 1, !.rx.burning = FALSE]

\* What the base's open file holds: the content it was opened with, when the
\* file was replaced since, or the one that was written in place.
Readable(opened, current) == {opened} \cup ({current} \ {Absent})

\* The first operation of a file opens its base and its sink.
OpenBase(st) ==
  LET p == CurrentPath(st.rx)
      empty == CurrentSignature(st.rx).hashes = << >>
  IN IF st.rx.open THEN st
     ELSE IF (~empty /\ root[p] = Absent) \/ ~Allocates(st.s)
     THEN [st EXCEPT !.rx.burning = TRUE]
     ELSE [st EXCEPT !.rx.open = TRUE, !.rx.temporary = TRUE,
                     !.rx.base = IF empty THEN << >> ELSE root[p]]

\* An operation is applied; one that fails burns the rest of the file.
ReceiveOp(st, op, base) ==
  LET patch == Patch(base, CurrentSignature(st.rx), op)
      written == [st EXCEPT !.rx.data = @ \o patch.data]
  IN IF patch.ok
     THEN written
     ELSE [CloseTarget(written) EXCEPT !.rx.burning = TRUE]

\* The results receiving message m may have.
Receives(st, m) ==
  LET opened == OpenBase(st)
      current == IF CurrentSignature(st.rx).hashes = << >>
                 THEN Absent ELSE root[CurrentPath(st.rx)]
  IN IF m.k = "done" THEN {ReceiveDone(st)}
     ELSE IF st.rx.burning THEN {st}
     ELSE IF opened.rx.burning THEN {opened}
     ELSE {ReceiveOp(opened, m.op, b) :
             b \in Readable(opened.rx.base, current)}

\* The receiver is finalized: an open target is committed as it is.
FinalizeReceiver ==
  IF rx.open THEN CloseTarget([s |-> staging, rx |-> rx]).s ELSE staging

\* The staging progress g after message m of a file with signature sig.
Monitored(g, sig, m) ==
  LET size == IF g.start THEN 0 ELSE g.size
  IN IF m.k = "done"
     THEN [files |-> g.files + 1, size |-> size, start |-> TRUE]
     ELSE [files |-> g.files, size |-> size + OpSize(sig, m.op), start |-> FALSE]

(***************************************************************************)
(* Staging at the destination: files already staged are left out, files    *)
(* the destination has elsewhere are copied, the rest is asked for.        *)
(***************************************************************************)
StageFromRoot(st, w) ==
  LET copies == {q \in PathSet : cached[q] = w.digest}
      q == CHOOSE q \in copies : TRUE
  IN IF copies = {} \/ ~Allocates(st) THEN st
     ELSE IF root[q] = Absent THEN st
     ELSE Commit(st, w.path, root[q], TRUE)

StageOne(acc, w) ==
  LET copied == StageFromRoot(acc.s, w)
  IN IF StoreContains(acc.s, w.path, w.digest) THEN acc
     ELSE IF StoreContains(copied, w.path, w.digest)
     THEN [acc EXCEPT !.s = copied]
     ELSE [s |-> copied, need |-> Append(acc.need, w.path)]

\* Without any file in the cache every base is taken to be empty.
BaseSignature(p) ==
  IF root[p] = Absent \/ \A q \in PathSet : cached[q] = Absent
  THEN EmptySignature
  ELSE Signature(root[p])

Stage(items) ==
  LET r == FoldLeft(StageOne, [s |-> Initialize(staging), need |-> << >>], items)
  IN [s |-> r.s, need |-> r.need,
      signatures |-> [i \in DOMAIN r.need |-> BaseSignature(r.need[i])]]

\* The answer to a stage request names no path when all are needed.
StageAnswer(items, r) ==
  [k |-> "answer", of |-> "stage",
   paths |-> IF Len(r.need) = Len(items) THEN << >> ELSE r.need,
   signatures |-> r.signatures]

RequiredPaths(items, m) ==
  IF m.paths = << >> /\ m.signatures # << >>
  THEN [i \in DOMAIN items |-> items[i].path]
  ELSE m.paths

(***************************************************************************)
(* The transition at the destination: n of the items are applied, from the *)
(* files staged under their digests, where the destination still is what   *)
(* the scan saw.                                                           *)
(***************************************************************************)
Applied(items, seen, n) ==
  [p \in PathSet |->
     LET f == UNION {Staged(staging, items[i].path, items[i].digest) :
                       i \in {j \in 1 .. n : items[j].path = p}}
     IN IF f # {} /\ root[p] = seen[p] THEN (CHOOSE x \in f : TRUE).data
        ELSE root[p]]

MissingFiles(items, seen, n) ==
  \E i \in 1 .. n : /\ root[items[i].path] = seen[items[i].path]
                    /\ Staged(staging, items[i].path, items[i].digest) = {}

\* The files a transition needs: what the scans saw differ in.
TransitionDependencies(there, here) ==
  LET new(p) == there[p] # Absent /\ there[p] # here[p]
      todo == SelectSeq(Paths, new)
  IN [i \in DOMAIN todo |-> [path |-> todo[i], digest |-> there[todo[i]]]]

\* What follows a cycle: one more without polling, when files were missing.
AfterTransition(miss) ==
  /\ phase' = IF miss /\ ~missing THEN "scan" ELSE "poll"
  /\ missing' = (miss /\ ~missing)

(***************************************************************************)
(* endpointClient: poll, scan and transition.  A goroutine sends the       *)
(* completion once the call is cancelled or answered, another one waits    *)
(* for the answer; the call returns when both are done.                    *)
(***************************************************************************)
Request(op, items) == [k |-> "request", of |-> op, items |-> items]

Call(op) ==
  /\ phase = op /\ client.op = None /\ link
  /\ op \in {"poll", "scan", "transition"}
  /\ op = "transition" => push
  /\ op = "scan" => budget.cycles > 0
  /\ up' = Append(up, Request(op, IF op = "transition" THEN want ELSE << >>))
  /\ client' = [NoClient EXCEPT !.op = op]
  /\ budget' = IF op = "scan" THEN [budget EXCEPT !.cycles = @ - 1] ELSE budget
  /\ UNCHANGED << files, want, staging, moving, down, link, phase, server, push,
                  missing, changed, cancel, old, calm >>

Asynchronous == client.op \in {"poll", "scan", "transition"}

\* Is the context of the call cancelled?
Cancelled(op) == cancel = "halt" \/ (cancel = "poll" /\ op = "poll")

Complete ==
  /\ Asynchronous /\ ~client.sent /\ link
  /\ Cancelled(client.op) \/ client.got # None
  /\ up' = Append(up, [k |-> "complete", of |-> client.op])
  /\ client' = [client EXCEPT !.sent = TRUE]
  /\ UNCHANGED << files, want, staging, moving, down, link, phase, server,
                  changed, cancel, rare >>

Answer ==
  /\ Asynchronous /\ client.got = None /\ down # << >>
  /\ client' = [client EXCEPT !.got = Head(down)]
  /\ down' = Tail(down)
  /\ UNCHANGED << files, want, staging, moving, up, link, phase, server,
                  changed, cancel, rare >>

\* The end of a call to Poll.
PollReturn ==
  /\ client.op = "poll" /\ client.sent /\ client.got # None
  /\ client' = NoClient
  /\ phase' = IF cancel = "halt" THEN "closing" ELSE "scan"
  /\ cancel' = IF cancel = "poll" THEN "no" ELSE cancel
  /\ UNCHANGED << files, want, staging, moving, wires, server, changed, rare >>

\* The end of a call to Scan: the local endpoint has been scanned as well, and
\* reconciliation asks for what differs.
ScanReturn ==
  /\ client.op = "scan" /\ client.sent /\ client.got # None
  /\ client' = NoClient
  /\ IF client.got.error
     THEN phase' = "closing" /\ UNCHANGED << cached, want, calm >>
     ELSE LET seen == client.got.snapshot
              there == IF push THEN source ELSE seen
              here == IF push THEN seen ELSE root
          IN /\ cached' = IF push THEN cached ELSE root
             /\ want' = TransitionDependencies(there, here)
             /\ phase' = IF want' = << >> THEN "poll" ELSE "stage"
             /\ calm' = {p \in PathSet : /\ source[p] = there[p]
                                         /\ root[p] = here[p]
                                         /\ old = None}
  /\ UNCHANGED << source, root, staging, moving, wires, server, push, missing,
                  changed, cancel, old, budget >>

TransitionReturn ==
  /\ client.op = "transition" /\ client.sent /\ client.got # None
  /\ client' = NoClient
  /\ AfterTransition(client.got.missing)
  /\ UNCHANGED << files, want, staging, moving, wires, server, push, changed,
                  cancel, old, calm, budget >>

(***************************************************************************)
(* Staging, seen from the controller.                                      *)
(***************************************************************************)
Transmitter(paths, signatures) ==
  [paths |-> paths, signatures |-> signatures, i |-> 1, d |-> None,
   file |-> << >>]

\* Push: the remote endpoint is asked which files it needs.
CallStage ==
  /\ phase = "stage" /\ push /\ client.op = None /\ link
  /\ up' = Append(up, Request("stage", want))
  /\ client' = [NoClient EXCEPT !.op = "stage"]
  /\ UNCHANGED << files, want, staging, moving, down, link, phase, server,
                  changed, cancel, rare >>

\* The answer starts the local Transmit, or there is nothing to send.
StageReturn ==
  /\ client.op = "stage" /\ down # << >>
  /\ down' = Tail(down)
  /\ client' = NoClient
  /\ LET need == RequiredPaths(want, Head(down))
     IN IF need = << >>
        THEN phase' = "transition" /\ UNCHANGED << tx, mon >>
        ELSE /\ phase' = "transfer"
             /\ tx' = Transmitter(need, Head(down).signatures)
             /\ mon' = NoProgress
  /\ UNCHANGED << files, want, staging, rx, up, link, server, changed, cancel,
                  rare >>

\* Pull: the local endpoint stages and the remote one is told to supply.
StageLocally ==
  /\ phase = "stage" /\ ~push /\ client.op = None
  /\ \E r \in {Stage(want)} :
        /\ staging' = r.s
        /\ IF r.need = << >>
           THEN phase' = "transition" /\ UNCHANGED << rx, mon, up, client >>
           ELSE IF ~link
           THEN phase' = "closing" /\ UNCHANGED << rx, mon, up, client >>
           ELSE /\ up' = Append(up, Request("supply",
                                            Transmitter(r.need, r.signatures)))
                /\ client' = [NoClient EXCEPT !.op = "supply"]
                /\ phase' = "transfer"
                /\ rx' = NewReceiver(r.need, r.signatures)
                /\ mon' = NoProgress
  /\ UNCHANGED << files, want, tx, down, link, server, changed, cancel, rare >>

\* The local endpoint's transition, in a pull.
TransitionLocally ==
  /\ phase = "transition" /\ ~push
  /\ \E n \in (IF cancel = "halt" THEN 0 ELSE Len(want)) .. Len(want) :
       /\ root' = Applied(want, cached, n)
       /\ AfterTransition(MissingFiles(want, cached, n))
  /\ staging' = Finalize(staging)
  /\ UNCHANGED << source, cached, want, moving, wires, client, server, push,
                  changed, cancel, old, calm, budget >>

(***************************************************************************)
(* Transmit, at the client in a push and at the server in a pull.          *)
(***************************************************************************)
Out == IF push THEN up ELSE down

\* The messages go through the monitor, in a push, and onto the stream.
Send(ms) ==
  /\ link /\ Len(Out) < Window
  /\ IF push
     THEN /\ cancel # "halt"
          /\ up' = up \o ms
          /\ mon' = FoldLeft(LAMBDA g, m : Monitored(g, tx.signatures[tx.i], m),
                             mon, ms)
          /\ UNCHANGED down
     ELSE down' = down \o ms /\ UNCHANGED << up, mon >>

Done == [k |-> "done"]

\* What is sent for a file that cannot be opened.
OpenFailure(p) == << Done >>

\* One iteration of the engine on the open file's content f.
Deltify(sig, f, next) ==
  \E read \in {IF sig.hashes = << >> THEN ChunkStep(tx.d, f)
                                     ELSE DeltifyRead(tx.d, f)} :
  \E d \in {IF sig.hashes = << >> THEN read ELSE DeltifySend(read, sig)} :
    LET ops == [i \in DOMAIN d.out |-> [k |-> "op", op |-> d.out[i]]]
    IN /\ Send(IF d.eof THEN Append(ops, Done) ELSE ops)
       /\ tx' = IF d.eof THEN next ELSE [tx EXCEPT !.d = [d EXCEPT !.out = << >>]]

TransmitFile ==
  /\ tx # None
  /\ tx.i <= Len(tx.paths)
  /\ LET p == tx.paths[tx.i]
         next == [tx EXCEPT !.i = @ + 1, !.d = None, !.file = << >>]
     IN IF tx.d # None
        THEN \E f \in Readable(tx.file, source[p]) :
               Deltify(tx.signatures[tx.i], f, next)
        ELSE IF source[p] = Absent
        THEN Send(OpenFailure(p)) /\ tx' = next
        ELSE /\ tx' = [tx EXCEPT !.d = DeltifyStart, !.file = source[p]]
             /\ UNCHANGED << up, down, mon >>
  /\ UNCHANGED << files, want, staging, rx, link, phase, client, server, changed,
                  cancel, rare >>

\* All files are sent and the stream is flushed.
TransmitReturn ==
  /\ tx # None
  /\ tx.i > Len(tx.paths)
  /\ tx' = None
  /\ IF push
     THEN phase' = "transition" /\ UNCHANGED server
     ELSE server' = Serving /\ UNCHANGED phase
  /\ UNCHANGED << files, want, staging, rx, mon, wires, client, changed, cancel,
                  rare >>

(***************************************************************************)
(* DecodeToReceiver, at the server in a push and at the client in a pull.  *)
(***************************************************************************)
In == IF push THEN up ELSE down

ReceiveMessage ==
  /\ rx # None /\ rx.received < Len(rx.paths) /\ In # << >>
  /\ push \/ cancel # "halt"
  /\ \E st \in Receives([s |-> staging, rx |-> rx], Head(In)) :
       staging' = st.s /\ rx' = st.rx
  /\ IF push
     THEN up' = Tail(up) /\ UNCHANGED << down, mon >>
     ELSE /\ down' = Tail(down)
          /\ mon' = Monitored(mon, CurrentSignature(rx), Head(down))
          /\ UNCHANGED up
  /\ UNCHANGED << files, want, tx, link, phase, client, server, changed, cancel,
                  rare >>

ReceiveReturn ==
  /\ rx # None /\ rx.received = Len(rx.paths)
  /\ rx' = None
  /\ IF push
     THEN server' = Serving /\ UNCHANGED << phase, client >>
     ELSE phase' = "transition" /\ client' = NoClient /\ UNCHANGED server
  /\ UNCHANGED << files, want, staging, tx, mon, wires, changed, cancel, rare >>

(***************************************************************************)
(* endpointServer.                                                         *)
(***************************************************************************)
\* The next request: the stage and supply handlers start their transfers.
Serve ==
  /\ server.pc = "serve" /\ up # << >>
  /\ up' = Tail(up)
  /\ LET m == Head(up)
     IN CASE m.of \in {"poll", "scan", "transition"} ->
               /\ server' = [Serving EXCEPT !.pc = "working", !.op = m.of,
                                            !.items = m.items]
               /\ UNCHANGED << staging, tx, rx, down >>
          [] m.of = "stage" ->
               \E r \in {Stage(m.items)} :
                 /\ staging' = r.s
                 /\ down' = Append(down, StageAnswer(m.items, r))
                 /\ IF r.need = << >>
                    THEN UNCHANGED << server, rx >>
                    ELSE /\ server' = [server EXCEPT !.pc = "receiving"]
                         /\ rx' = NewReceiver(r.need, r.signatures)
                 /\ UNCHANGED tx
          [] m.of = "supply" ->
               /\ tx' = m.items
               /\ server' = [server EXCEPT !.pc = "supplying"]
               /\ UNCHANGED << staging, rx, down >>
  /\ UNCHANGED << files, want, mon, link, phase, client, changed, cancel, rare >>

\* The completion of a request, or the loss of the stream, cancels its work.
ServeCompletion ==
  /\ server.pc = "working" /\ ~server.done
  /\ \/ up # << >> /\ up' = Tail(up)
     \/ ~link /\ UNCHANGED up
  /\ server' = [server EXCEPT !.done = TRUE]
  /\ UNCHANGED << files, want, staging, moving, down, link, phase, client,
                  changed, cancel, rare >>

\* An answer that can no longer be sent is lost.
Respond(m) ==
  /\ server' = [server EXCEPT !.answered = TRUE]
  /\ down' = IF link THEN Append(down, m) ELSE down

Working(op) == server.pc = "working" /\ server.op = op /\ ~server.answered

\* The endpoint's poll ends with its signal or with its context.
ServePoll ==
  /\ Working("poll")
  /\ changed \/ server.done
  /\ changed' = FALSE
  /\ Respond([k |-> "answer", of |-> "poll"])
  /\ UNCHANGED << files, want, staging, moving, up, link, phase, client, cancel,
                  rare >>

ServeScan ==
  /\ Working("scan")
  /\ \E error \in {FALSE, server.done} :
       Respond([k |-> "answer", of |-> "scan", error |-> error,
                snapshot |-> IF push THEN root ELSE source])
  /\ cached' = IF push THEN root ELSE cached
  /\ UNCHANGED << source, root, want, staging, moving, up, link, phase, client,
                  changed, cancel, rare >>

ServeTransition ==
  /\ Working("transition")
  /\ \E n \in (IF server.done THEN 0 ELSE Len(server.items))
                .. Len(server.items) :
       /\ root' = Applied(server.items, cached, n)
       /\ Respond([k |-> "answer", of |-> "transition",
                   missing |-> MissingFiles(server.items, cached, n)])
  /\ changed' = (changed \/ root' # root)
  /\ staging' = Finalize(staging)
  /\ old' = IF old = None THEN None
            ELSE IF old.k = "receiver" THEN [old EXCEPT !.rx.temporary = FALSE]
            ELSE old
  /\ UNCHANGED << source, cached, want, moving, up, link, phase, client, cancel,
                  push, missing, calm, budget >>

\* Mutant: a request ends with its answer, its completion unread.
AnswerEnds(v) == v.answered

\* A request ends once it is answered and its completion was read.
RequestEnds(v) == v.answered /\ v.done

ServeReturn ==
  /\ server.pc = "working" /\ RequestEnds(server)
  /\ server' = IF link THEN Serving ELSE [Serving EXCEPT !.pc = "ended"]
  /\ UNCHANGED << files, want, staging, moving, wires, phase, client, changed,
                  cancel, rare >>

(***************************************************************************)
(* Failures.  A broken stream still yields what it had delivered, then     *)
(* every read and write fails.  A failed call ends the controller's run:   *)
(* it shuts its endpoints down and connects anew.                          *)
(***************************************************************************)
\* Does the controller need the stream for what comes next?
NeedsStream ==
  \/ client.op # None
  \/ phase \in {"poll", "scan"}
  \/ push /\ phase \in {"stage", "transfer", "transition"}

\* A receiver that is given up commits what it has and is gone.
GiveUpReceiver ==
  /\ staging' = IF rx = None THEN staging ELSE FinalizeReceiver
  /\ rx' = None

\* A call fails with the stream, or a transfer with its cancelled context.
CallFails ==
  /\ phase \notin {"closing", "closed"}
  /\ \/ ~link /\ NeedsStream
     \/ cancel = "halt" /\ phase = "transfer"
  /\ phase' = "closing"
  /\ client' = NoClient
  /\ IF push
     THEN tx' = None /\ UNCHANGED << staging, rx >>
     ELSE GiveUpReceiver /\ UNCHANGED tx
  /\ UNCHANGED << files, want, mon, wires, server, changed, cancel, rare >>

Shutdown ==
  /\ phase = "closing"
  /\ phase' = "closed"
  /\ link' = FALSE
  /\ UNCHANGED << files, want, staging, moving, up, down, client, server,
                  changed, cancel, rare >>

\* The server's read or write fails, and with it the handler.
ServerFails ==
  /\ ~link
  /\ server.pc \in {"serve", "receiving", "supplying"}
  /\ server' = [Serving EXCEPT !.pc = "ended"]
  /\ IF push
     THEN GiveUpReceiver /\ UNCHANGED tx
     ELSE tx' = None /\ UNCHANGED << staging, rx >>
  /\ UNCHANGED << files, want, mon, wires, phase, client, changed, cancel, rare >>

\* What the server of a broken stream still has to do on the destination.
Leftover ==
  IF push /\ server.pc = "receiving"
  THEN [k |-> "receiver", rx |-> rx, store |-> staging.store]
  ELSE IF server.op = "transition" /\ ~server.answered
  THEN [k |-> "transition", items |-> server.items, seen |-> cached]
  ELSE None

\* A new run of the controller, with new endpoints on both sides.  The staging
\* directory is the old one.
Reconnect ==
  /\ phase = "closed" /\ cancel # "halt"
  /\ budget.reconnects > 0
  /\ old = None
  /\ old' = Leftover
  /\ staging' = [staging EXCEPT !.store = NoStore]
  /\ tx' = None /\ rx' = None
  /\ up' = << >> /\ down' = << >> /\ link' = TRUE
  /\ phase' = "scan" /\ client' = NoClient /\ server' = Serving
  /\ missing' = FALSE /\ changed' = FALSE /\ cancel' = "no"
  /\ budget' = [budget EXCEPT !.reconnects = @ - 1]
  /\ UNCHANGED << files, want, mon, push, calm >>

\* The old server's receiver gives up, under what its store believes.
OldReceiver ==
  /\ old # None
  /\ old.k = "receiver"
  /\ LET st == [s |-> [staging EXCEPT !.store = old.store], rx |-> old.rx]
     IN staging' = IF old.rx.open
                   THEN [staging EXCEPT !.disk = CloseTarget(st).s.disk]
                   ELSE staging
  /\ old' = None
  /\ calm' = {}
  /\ UNCHANGED << files, want, moving, wires, phase, client, server, push,
                  missing, changed, cancel, budget >>

\* The old server's transition applies some of its items and removes the
\* staging directory, whoever is using it by now.
OldTransition ==
  /\ old # None
  /\ old.k = "transition"
  /\ \E n \in 0 .. Len(old.items) : root' = Applied(old.items, old.seen, n)
  /\ changed' = (changed \/ (push /\ root' # root))
  /\ staging' = [staging EXCEPT !.disk = NoDisk]
  /\ rx' = IF rx = None THEN None ELSE [rx EXCEPT !.temporary = FALSE]
  /\ old' = None
  /\ calm' = {}
  /\ UNCHANGED << source, cached, want, tx, mon, wires, phase, client, server,
                  push, missing, cancel, budget >>

(***************************************************************************)
(* The world.                                                              *)
(***************************************************************************)
Spend(what) ==
  /\ budget[what] > 0
  /\ budget' = [budget EXCEPT ![what] = @ - 1]

\* A user changes a file; the remote endpoint's watcher notices its side.
EditSource(p, c) ==
  /\ source[p] # c
  /\ Spend("edits")
  /\ source' = [source EXCEPT ![p] = c]
  /\ calm' = calm \ {p}
  /\ changed' = (changed \/ ~push)
  /\ UNCHANGED << root, cached, want, staging, moving, wires, phase, client,
                  server, push, missing, cancel, old >>

EditRoot(p, c) ==
  /\ root[p] # c
  /\ Spend("edits")
  /\ root' = [root EXCEPT ![p] = c]
  /\ calm' = calm \ {p}
  /\ changed' = (changed \/ push)
  /\ UNCHANGED << source, cached, want, staging, moving, wires, phase, client,
                  server, push, missing, cancel, old >>

Break ==
  /\ link
  /\ Spend("breaks")
  /\ link' = FALSE
  /\ UNCHANGED << files, want, staging, moving, up, down, phase, client, server,
                  push, missing, changed, cancel, old, calm >>

\* A local change or a flush ends the poll; a pause ends everything.
Cancel(what) ==
  /\ phase # "closed" /\ cancel = "no"
  /\ what = "poll" => client.op = "poll"
  /\ Spend("cancels")
  /\ cancel' = what
  /\ UNCHANGED << files, want, staging, moving, wires, phase, client, server,
                  push, missing, changed, old, calm >>

World ==
  \/ \E p \in PathSet, c \in Contents \cup {Absent} : EditSource(p, c)
  \/ \E p \in PathSet, c \in Contents \cup {Absent} : EditRoot(p, c)
  \/ Break
  \/ \E what \in {"poll", "halt"} : Cancel(what)

Program ==
  \/ \E op \in {"poll", "scan", "transition"} : Call(op)
  \/ Complete \/ Answer \/ PollReturn \/ ScanReturn \/ TransitionReturn
  \/ CallStage \/ StageReturn \/ StageLocally \/ TransitionLocally
  \/ ServeCompletion \/ ServePoll \/ ServeScan \/ ServeTransition
  \/ ServeReturn
  \/ CallFails \/ Shutdown \/ ServerFails
  \/ Reconnect \/ OldReceiver \/ OldTransition
  \/ TransmitReturn \/ ReceiveReturn \/ ReceiveMessage \/ TransmitFile \/ Serve

Next == World \/ Program

Spec == Init /\ [][Next]_vars

(***************************************************************************)
(* Properties.                                                             *)
(***************************************************************************)
TypeOK ==
  /\ \A p \in PathSet : {source[p], root[p], cached[p]} \subseteq
                          Seq(Nat) \cup {Absent}
  /\ phase \in {"scan", "stage", "transfer", "transition", "poll", "closing",
                "closed"}
  /\ server.pc \in {"serve", "working", "receiving", "supplying", "ended"}
  /\ client.op \in {None, "poll", "scan", "transition", "stage", "supply"}
  /\ cancel \in {"no", "poll", "halt"}
  /\ {link, changed, missing, push} \subseteq BOOLEAN
  /\ calm \subseteq PathSet

\* Whoever reads the control stream finds the message it expects: the answer
\* or the completion of one call is never taken for that of another, and no
\* transmission for a request, although completions cross answers and a
\* transfer is followed by the next request without an acknowledgement
\* (client.go:151, server.go:156).
ReadersAgree ==
  /\ up # << >> =>
       CASE server.pc = "serve" -> Head(up).k = "request"
         [] server.pc = "working" /\ ~server.done ->
              Head(up).k = "complete" /\ Head(up).of = server.op
         [] server.pc = "receiving" /\ rx.received < Len(rx.paths) ->
              Head(up).k \in {"op", "done"}
         [] OTHER -> TRUE
  /\ down # << >> =>
       CASE client.op = "supply" -> rx.received < Len(rx.paths)
                                      => Head(down).k \in {"op", "done"}
         [] client.op # None /\ client.got = None ->
              Head(down).k = "answer" /\ Head(down).of = client.op
         [] OTHER -> TRUE

\* Nothing waits for ever.  When the program can do nothing more, it polls
\* both endpoints and neither has changed, or it is closed on both sides, or
\* the bound on cycles is reached.
NothingHangs ==
  \/ ENABLED Program
  \/ client.op = "poll" /\ ~changed /\ cancel = "no" /\ link
  \/ phase = "closed" /\ server.pc = "ended" /\ old = None
  \/ phase = "scan" /\ budget.cycles = 0 /\ client.op = None /\ link

\* The two ends of the control stream stay in step, and every call returns.
InStep == TypeOK /\ ReadersAgree /\ NothingHangs

\* Is the destination about to apply the transitions?
Transitioning ==
  \/ push /\ Working("transition")
  \/ ~push /\ phase = "transition"

\* A file whose source and base nobody touched since the scan is staged when
\* the transition starts: the delta that the sender computed from the base's
\* signature, applied by the receiver to the base, is the source file, and the
\* store finds it under the digest of the scan (engine.go:497, store.go:366).
Arrives ==
  Transitioning =>
    \A i \in DOMAIN want :
      want[i].path \in calm
        => Staged(staging, want[i].path, want[i].digest) # {}

\* The rolling hash is the hash of the block it has rolled to.
RollAgrees ==
  tx # None => LET buffer == IF tx.d = None THEN << >> ELSE tx.d.buffer
                   k == Len(buffer) - BlockSize
               IN buffer # << >> => /\ k >= 0
                                    /\ tx.d.weak = WeakHash(Trailing(tx.d, k))

\* The staging progress shown for a completed file is its size.
ProgressExact ==
  LET paths == IF push THEN (IF tx = None THEN << >> ELSE tx.paths)
               ELSE (IF rx = None THEN << >> ELSE rx.paths)
  IN mon.start /\ mon.files \in DOMAIN paths =>
       \A i \in DOMAIN want :
         want[i].path = paths[mon.files] /\ want[i].path \in calm
           => mon.size = Len(want[i].digest)

\* Quiet files arrive whole, at the cost the block matches allow and with the
\* progress that was shown for them.
DeltaExact == Arrives /\ RollAgrees /\ ProgressExact

\* All items some transition has been given.
Items == Range(want) \cup Range(server.items)
           \cup (IF old = None THEN {}
                 ELSE IF old.k = "transition" THEN Range(old.items) ELSE {})

\* A transition gives a file the content whose digest the scan reported, or
\* leaves it alone, whatever was edited, cut off, staged twice, committed half
\* or removed by an endpoint that lost its stream (store.go:366,
\* receive.go:125).
ContentExact ==
  [][\A p \in PathSet :
       root'[p] # root[p] /\ budget'.edits = budget.edits
         => \E w \in Items : w.path = p /\ w.digest = root'[p]]_vars

=============================================================================
