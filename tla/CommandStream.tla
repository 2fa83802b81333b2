----------------------------- MODULE CommandStream -----------------------------
(***************************************************************************)
(* One managed command streamed from the remote daemon to its consumer:     *)
(* the process and its pipes, the rings they are drained into               *)
(* (pkg/command_registry.go), the RunCommand handler that tails the rings   *)
(* and reads acks, signals and stdin EOF (pkg/server_grpc_command.go), the  *)
(* gRPC streams, which may break, and the resumable client in the local     *)
(* daemon (pkg/running_command_remote.go).                                  *)
(*                                                                          *)
(* A stream ("session") is a pair of FIFO queues.  Breaking it loses a      *)
(* suffix of each; a Send on a broken stream may fail or may seem to        *)
(* succeed, and a Send after CloseSend fails and aborts the stream (gRPC's  *)
(* SendMsg).  Blocking ring reads and writes are actions disabled while     *)
(* they would block (OutputRing shows no wakeup is lost), and a message a   *)
(* handler holds while its Send blocks counts as in flight.                 *)
(* Session 1 is the stream of the StartCommand handshake; the others come   *)
(* from re-attaching.  Other clients, deliberate detaches and the           *)
(* disconnect-kill timer are not part of this module.                       *)
(***************************************************************************)
EXTENDS RingBuffer, FiniteSetsExt

CONSTANTS
  Streams,      \* the command's output streams
  AckEvery,     \* commandAckEveryBytes
  MaxChunk,     \* size of the drain goroutine's read buffer
  PipeSize,     \* bytes a kernel pipe holds
  Window,       \* messages gRPC flow control lets a handler have in flight
  Policies,     \* which ring modes to consider: TRUE is kill (lossless)
  Loads,        \* what may happen to the command: the bytes it writes per stream, whether it exits
                \*   after its output or runs until stdin EOF, whether a descendant keeps its
                \*   pipes open, whether waiting for it fails, whether the consumer's input
                \*   may end, and bounds on transport breaks and signals
  MaxSessions   \* bound: handlers that exist at a time

ASSUME StreamAssumption ==
  /\ {AckEvery, MaxChunk, Window, MaxSessions} \subseteq Nat \ {0}
  /\ Policies \subseteq BOOLEAN
  /\ Loads \subseteq [len : [Streams -> Nat], until : {"output", "stdin"}, held : BOOLEAN,
                      fails : BOOLEAN, stdinEnds : BOOLEAN, breaks : Nat, signals : Nat]

VARIABLES
  proc,      \* the process: output length, bytes written, still running, ...
  taken,     \* bytes read from each pipe
  ring,      \* stdoutRing, stderrRing
  drain,     \* the drain goroutines
  reap,      \* waitAndReap
  listed,    \* the command is in the registry
  current,   \* mc.current: the session holding the attachment, or 0
  sess,      \* the streams
  load,      \* what the environment still has in store
  client     \* the RemoteRunningCommand

vars == <<proc, taken, ring, drain, reap, listed, current, sess, load, client>>

Sessions == 1 .. MaxSessions
Zero == [s \in Streams |-> 0]

Unused ==
  [state |-> "unused", link |-> TRUE, up |-> <<>>, down |-> <<>>, sendClosed |-> FALSE,
   offset |-> Zero, pump |-> [s \in Streams |-> "tail"], stop |-> FALSE,
   input |-> "recv"]

\* Mutant: an attachment that steals cancels itself.
ServingStolen(offset, down) ==
  [Unused EXCEPT !.state = IF down = <<>> THEN "serving" ELSE "ended", !.offset = offset]

Serving(offset, down) ==
  [Unused EXCEPT !.state = "serving", !.offset = offset, !.down = down]

Init ==
  /\ load \in Loads
  /\ proc \in [wrote : {Zero}, running : {TRUE}, stdin : {TRUE}, signals : {0}]
  /\ taken = Zero
  /\ \E lossless \in Policies : ring = [s \in Streams |-> NewOutputRing(lossless)]
  /\ drain = [s \in Streams |-> [pc |-> "read", rest |-> <<>>]]
  /\ reap = "wait"
  /\ listed = TRUE
  /\ current = 1
  /\ sess = [j \in Sessions |-> IF j = 1 THEN Serving(Zero, <<>>) ELSE Unused]
  /\ client = [pc |-> "recv", cur |-> 1, new |-> 1, offset |-> Zero,
               got |-> [s \in Streams |-> <<>>], acked |-> 0, stdinDone |-> FALSE,
               closing |-> FALSE, replay |-> FALSE, signals |-> 0, pending |-> 0,
               flush |-> 0, result |-> "none"]

Lossless == \A s \in Streams : ring[s].lossless

-----------------------------------------------------------------------------
(* The process, the drain goroutines and waitAndReap.                        *)

\* The program writes its output; a full pipe blocks it.
ProcWrite(s) ==
  /\ proc.running
  /\ proc.wrote[s] < load.len[s]
  /\ proc.wrote[s] - taken[s] < PipeSize
  /\ proc' = [proc EXCEPT !.wrote[s] = @ + 1]
  /\ UNCHANGED <<taken, ring, drain, reap, listed, current, sess, load, client>>

ProcExit ==
  /\ proc.running
  /\ proc.wrote = load.len
  /\ load.until = "output" \/ ~proc.stdin
  /\ proc' = [proc EXCEPT !.running = FALSE]
  /\ UNCHANGED <<taken, ring, drain, reap, listed, current, sess, load, client>>

DrainRead(s) ==
  /\ drain[s].pc = "read"
  /\ reap # "forced"
  /\ proc.wrote[s] > taken[s]
  /\ LET upto == MinOf(proc.wrote[s], taken[s] + MaxChunk)
     IN  /\ taken' = [taken EXCEPT ![s] = upto]
         /\ drain' = [drain EXCEPT ![s] = [pc |-> "write", rest |-> Bytes(taken[s], upto)]]
  /\ UNCHANGED <<proc, ring, reap, listed, current, sess, load, client>>

\* EOF once every holder of the pipe's write end is gone, or a read error once
\* ForceCloseOutputs closed the read end.  Descendants may hold the pipe open.
DrainEOF(s) ==
  /\ drain[s].pc = "read"
  /\ \/ reap = "forced"
     \/ ~proc.running /\ ~load.held /\ proc.wrote[s] = taken[s]
  /\ ring' = [ring EXCEPT ![s] = CloseRing(@)]
  /\ drain' = [drain EXCEPT ![s].pc = "done"]
  /\ UNCHANGED <<proc, taken, reap, listed, current, sess, load, client>>

\* One critical section of outputRing.Write; blocked while Space is not positive.
DrainWrite(s) ==
  /\ drain[s].pc = "write"
  /\ \/ /\ ring[s].closed
        /\ drain' = [drain EXCEPT ![s] = [pc |-> "done", rest |-> <<>>]]
        /\ UNCHANGED ring
     \/ /\ ~ring[s].closed
        /\ ~ring[s].lossless
        /\ ring' = [ring EXCEPT ![s] = WriteEvicting(@, drain[s].rest)]
        /\ drain' = [drain EXCEPT ![s] = [pc |-> "read", rest |-> <<>>]]
     \/ /\ ~ring[s].closed
        /\ ring[s].lossless
        /\ Space(ring[s]) > 0
        /\ ring' = [ring EXCEPT ![s] = WriteLossless(@, drain[s].rest)]
        /\ LET rest == DropFirst(drain[s].rest, Accepted(ring[s], drain[s].rest))
           IN  drain' = [drain EXCEPT ![s] =
                           [pc |-> IF rest = <<>> THEN "read" ELSE "write", rest |-> rest]]
  /\ UNCHANGED <<proc, taken, reap, listed, current, sess, load, client>>

Drained == \A s \in Streams : drain[s].pc = "done"

ReapWait ==
  /\ reap = "wait"
  /\ ~proc.running
  /\ reap' = "drain"
  /\ UNCHANGED <<proc, taken, ring, drain, listed, current, sess, load, client>>

\* drainGrace ran out: ForceCloseOutputs, then both rings are closed.
ReapForce ==
  /\ reap = "drain"
  /\ ~Drained
  /\ reap' = "forced"
  /\ ring' = [s \in Streams |-> CloseRing(ring[s])]
  /\ UNCHANGED <<proc, taken, drain, listed, current, sess, load, client>>

\* The exit is recorded and done is closed; a kill-policy command nobody is
\* attached to will be forgotten.
ReapRecord ==
  /\ reap \in {"drain", "forced"}
  /\ Drained
  /\ ring' = [s \in Streams |-> CloseRing(ring[s])]
  /\ reap' = IF Lossless /\ current = 0 THEN "forget" ELSE "done"
  /\ UNCHANGED <<proc, taken, drain, listed, current, sess, load, client>>

ReapForget ==
  /\ reap = "forget"
  /\ listed' = FALSE
  /\ reap' = "done"
  /\ UNCHANGED <<proc, taken, ring, drain, current, sess, load, client>>

Exited == reap \in {"forget", "done"}

-----------------------------------------------------------------------------
(* The RunCommand handler of session j in the remote daemon.                 *)

ClientGone(j) == IF current = j THEN 0 ELSE current

\* forwardManagedCommandInput: one received message.
SrvRecv(j) ==
  /\ sess[j].state = "serving"
  /\ sess[j].input = "recv"
  /\ sess[j].up # <<>>
  /\ LET m == Head(sess[j].up)
         rest == [sess[j] EXCEPT !.up = Tail(@)]
     IN  \/ /\ m.type = "eof"
            /\ proc' = IF Lossless THEN [proc EXCEPT !.stdin = FALSE] ELSE proc
            /\ sess' = [sess EXCEPT ![j] = [rest EXCEPT !.input = "ended"]]
            /\ UNCHANGED ring
         \/ /\ m.type # "eof"
            /\ current # j
            /\ sess' = [sess EXCEPT ![j] = [rest EXCEPT !.input = "ended"]]
            /\ UNCHANGED <<proc, ring>>
         \/ /\ m.type = "ack"
            /\ current = j
            /\ ring' = [s \in Streams |-> SetReleased(ring[s], m.offset[s])]
            /\ sess' = [sess EXCEPT ![j] = rest]
            /\ UNCHANGED proc
         \/ /\ m.type = "signal"
            /\ current = j
            /\ proc' = [proc EXCEPT !.signals = @ + 1]
            /\ sess' = [sess EXCEPT ![j] = rest]
            /\ UNCHANGED ring
  /\ UNCHANGED <<taken, drain, reap, listed, current, load, client>>

\* The handler notices that its stream died or that it was stolen from.
SrvStop(j) ==
  /\ sess[j].state = "serving"
  /\ ~sess[j].stop
  /\ ~sess[j].link \/ current # j
  /\ sess' = [sess EXCEPT ![j].stop = TRUE]
  /\ UNCHANGED <<proc, taken, ring, drain, reap, listed, current, load, client>>

\* One turn of a pump: read the ring, then send.  An evicted offset or a
\* failed send stops the whole handler.
PumpSend(j, s) ==
  LET offset == sess[j].offset[s]
      stopped == [sess EXCEPT ![j].stop = TRUE, ![j].pump[s] = "stopped"]
      advanced == [sess EXCEPT ![j].offset[s] = EndOffset(ring[s])]
      data == [type |-> "data", stream |-> s, bytes |-> DataAt(ring[s], offset)]
  IN  /\ sess[j].state = "serving"
      /\ sess[j].pump[s] = "tail"
      /\ HasData(ring[s], offset)
      /\ \/ /\ GotOffset(ring[s], offset) # offset
            /\ sess' = stopped
         \/ /\ GotOffset(ring[s], offset) = offset
            /\ ~sess[j].link
            /\ sess' \in {stopped, advanced}
         \/ /\ GotOffset(ring[s], offset) = offset
            /\ sess[j].link
            /\ Len(sess[j].down) < Window
            /\ sess' = [advanced EXCEPT ![j].down = Append(@, data)]
      /\ UNCHANGED <<proc, taken, ring, drain, reap, listed, current, load, client>>

\* ReadAt reports EOF, or the read was canceled by stop.
PumpEnd(j, s) ==
  /\ sess[j].state = "serving"
  /\ sess[j].pump[s] = "tail"
  /\ ~HasData(ring[s], sess[j].offset[s])
  /\ \/ ring[s].closed /\ sess' = [sess EXCEPT ![j].pump[s] = "eof"]
     \/ ~ring[s].closed /\ sess[j].stop /\ sess' = [sess EXCEPT ![j].pump[s] = "stopped"]
  /\ UNCHANGED <<proc, taken, ring, drain, reap, listed, current, load, client>>

PumpsEnded(j) == \A s \in Streams : sess[j].pump[s] # "tail"

\* Interrupted: the handler returns an error.
ServeInterrupted(j) ==
  /\ sess[j].state = "serving"
  /\ PumpsEnded(j)
  /\ sess[j].stop
  /\ sess' = [sess EXCEPT ![j].state = "ended", ![j].up = <<>>]
  /\ current' = ClientGone(j)
  /\ UNCHANGED <<proc, taken, ring, drain, reap, listed, load, client>>

\* Both rings reached EOF uninterrupted, and the exit is recorded.
Complete(j) == PumpsEnded(j) /\ ~sess[j].stop /\ Exited

\* Complete: the exit status is sent.  If the send failed the command stays
\* listed; if it seemed to succeed, or waiting had failed, it is removed next.
ServeExit(j) ==
  LET removing == [sess EXCEPT ![j].state = "removing"]
      ended == [sess EXCEPT ![j].state = "ended", ![j].up = <<>>]
  IN  /\ sess[j].state = "serving"
      /\ Complete(j)
      /\ \/ /\ load.fails
            /\ sess' = removing
            /\ UNCHANGED current
         \/ /\ ~load.fails
            /\ sess[j].link
            /\ Len(sess[j].down) < Window
            /\ sess' = [removing EXCEPT ![j].down = Append(@, [type |-> "exit"])]
            /\ UNCHANGED current
         \/ /\ ~load.fails
            /\ ~sess[j].link
            /\ sess' = removing
            /\ UNCHANGED current
         \/ /\ ~load.fails
            /\ ~sess[j].link
            /\ sess' = ended
            /\ current' = ClientGone(j)
      /\ UNCHANGED <<proc, taken, ring, drain, reap, listed, load, client>>

ServeRemove(j) ==
  /\ sess[j].state = "removing"
  /\ listed' = FALSE
  /\ sess' = [sess EXCEPT ![j].state = "ended", ![j].up = <<>>]
  /\ current' = ClientGone(j)
  /\ UNCHANGED <<proc, taken, ring, drain, reap, load, client>>

-----------------------------------------------------------------------------
(* The transport.                                                            *)

\* The stream of session j dies in state ss: only u requests and d replies of
\* what is in flight still arrive.
Lose(j, ss, u, d) ==
  [ss EXCEPT ![j].link = FALSE, ![j].up = TakeFirst(@, u), ![j].down = TakeFirst(@, d)]

Broken(j, ss) ==
  {Lose(j, ss, u, d) : u \in 0 .. Len(ss[j].up), d \in 0 .. Len(ss[j].down)}

Break(j) ==
  /\ load.breaks > 0
  /\ j \in {client.cur, client.new}
  /\ client.pc # "done"
  /\ sess[j].link
  /\ sess' \in Broken(j, sess)
  /\ load' = [load EXCEPT !.breaks = @ - 1]
  /\ UNCHANGED <<proc, taken, ring, drain, reap, listed, current, client>>

\* What a Send of m by the client on session j in state ss may do: [ok, sess].
SendOutcomes(j, m, ss) ==
  LET failed(after) == [ok |-> FALSE, sess |-> after]
      lost == [ok |-> TRUE, sess |-> ss]
      sent == [ok |-> TRUE, sess |-> [ss EXCEPT ![j].up = Append(@, m)]]
  IN  IF ss[j].sendClosed THEN {failed(after) : after \in Broken(j, ss)}
      ELSE IF ss[j].link /\ ss[j].state # "ended" THEN {sent}
      ELSE {failed(ss), lost}

\* CloseSend on session j.
SendClosed(j, ss) ==
  [ss EXCEPT ![j].sendClosed = TRUE,
             ![j].up = IF ss[j].sendClosed \/ ~ss[j].link \/ ss[j].state = "ended" THEN @
                       ELSE Append(@, [type |-> "eof"])]

-----------------------------------------------------------------------------
(* The RemoteRunningCommand in the local daemon.                             *)

Total(offset) == MapThenSumSet(LAMBDA s : offset[s], Streams)

\* Mutant: an ack waits for more than a ring holds.
AckDueLate(offset) == Total(offset) - client.acked > Capacity

\* maybeAck: enough was consumed since the last ack.
AckDue(offset) == Total(offset) - client.acked >= AckEvery

\* process(): a chunk is handed to the consumer, counted and perhaps acked.
ClientData ==
  LET j == client.cur
      m == Head(sess[j].down)
      s == m.stream
      offset == [client.offset EXCEPT ![s] = @ + Len(m.bytes)]
      got == [client EXCEPT !.offset = offset, !.got[s] = @ \o m.bytes]
      popped == [sess EXCEPT ![j].down = Tail(@)]
      ack == [type |-> "ack", offset |-> offset]
  IN  /\ client.pc = "recv"
      /\ sess[j].down # <<>>
      /\ m.type = "data"
      /\ \/ /\ ~AckDue(offset)
            /\ client' = got
            /\ sess' = popped
         \/ /\ AckDue(offset)
            /\ \E o \in SendOutcomes(j, ack, popped) :
                 /\ client' = IF o.ok THEN [got EXCEPT !.acked = Total(offset)] ELSE got
                 /\ sess' = o.sess
      /\ UNCHANGED <<proc, taken, ring, drain, reap, listed, current, load>>

ClientExit ==
  LET j == client.cur
  IN  /\ client.pc = "recv"
      /\ sess[j].down # <<>>
      /\ Head(sess[j].down).type = "exit"
      /\ client' = [client EXCEPT !.pc = "done", !.result = "exit"]
      /\ sess' = [sess EXCEPT ![j].down = Tail(@)]
      /\ UNCHANGED <<proc, taken, ring, drain, reap, listed, current, load>>

StreamFailed(j) == sess[j].down = <<>> /\ (~sess[j].link \/ sess[j].state = "ended")

\* Recv failed and tryResume starts re-attaching.
ClientError ==
  /\ client.pc = "recv"
  /\ StreamFailed(client.cur)
  /\ client' = [client EXCEPT !.pc = "reattach"]
  /\ UNCHANGED <<proc, taken, ring, drain, reap, listed, current, sess, load>>

\* A slot for a new handler.
Free(j) == sess[j].state = "unused" \/ (sess[j].state = "ended" /\ j # client.cur)

\* The offsets of an attach request confirm everything below them.
ConfirmOffsets == [s \in Streams |-> SetReleased(ring[s], client.offset[s])]

\* Mutant: replay everything retained.
ReplayRetained(s) == ring[s].start

\* Replay can only start at data the ring still retains.
ReplayOffset(s) == MaxOf(client.offset[s], ring[s].start)

\* A re-attach attempt reaches the daemon: attachManagedCommand.
Reattach(j) ==
  /\ client.pc = "reattach"
  /\ Free(j)
  /\ \A i \in 1 .. (j - 1) : ~Free(i)
  /\ IF listed
     THEN LET from == [s \in Streams |-> ReplayOffset(s)]
          IN  /\ current' = j
              /\ ring' = ConfirmOffsets
              /\ sess' = [sess EXCEPT ![j] =
                            Serving(from, <<[type |-> "attached", offset |-> from]>>)]
              /\ client' = [client EXCEPT !.pc = "attaching", !.new = j]
     ELSE /\ client' = [client EXCEPT !.pc = "done", !.result = "gone"]
          /\ UNCHANGED <<ring, current, sess>>
  /\ UNCHANGED <<proc, taken, drain, reap, listed, load>>

ResumeOffset(s, replay) == MaxOf(client.offset[s], replay)

\* Mutant: the queue is flushed but not emptied.
TakeQueueKept == [client EXCEPT !.flush = client.pending, !.replay = client.stdinDone]

\* setClient's critical section: the queued signals and the half-close to replay.
TakeQueue ==
  [client EXCEPT !.flush = client.pending, !.pending = 0, !.replay = client.stdinDone]

\* The Attached reply: offsets skip evicted output and setClient installs the
\* stream.
ClientAttached ==
  LET j == client.new
      m == Head(sess[j].down)
  IN  /\ client.pc = "attaching"
      /\ sess[j].down # <<>>
      /\ client' = [TakeQueue EXCEPT !.pc = "flush", !.cur = j,
                       !.offset = [s \in Streams |-> ResumeOffset(s, m.offset[s])]]
      /\ sess' = [sess EXCEPT ![j].down = Tail(@)]
      /\ UNCHANGED <<proc, taken, ring, drain, reap, listed, current, load>>

\* setClient after the swap: each queued signal is sent, or kept for the next
\* stream; then the half-close is replayed.
ClientFlush ==
  LET j == client.cur
  IN  /\ client.pc = "flush"
      /\ \/ /\ client.flush > 0
            /\ \E o \in SendOutcomes(j, [type |-> "signal"], sess) :
                 /\ sess' = o.sess
                 /\ client' = [client EXCEPT !.flush = @ - 1,
                                             !.pending = IF o.ok THEN @ ELSE @ + 1]
         \/ /\ client.flush = 0
            /\ client' = [client EXCEPT !.pc = "recv"]
            /\ sess' = IF client.replay THEN SendClosed(j, sess) ELSE sess
      /\ UNCHANGED <<proc, taken, ring, drain, reap, listed, current, load>>

ClientAttachFailed ==
  /\ client.pc = "attaching"
  /\ StreamFailed(client.new)
  /\ client' = [client EXCEPT !.pc = "reattach"]
  /\ UNCHANGED <<proc, taken, ring, drain, reap, listed, current, sess, load>>

\* pumpStdin: the consumer's input ended; the half-close is recorded first and
\* then sent on the stream that is current.
StdinEOF ==
  /\ load.stdinEnds
  /\ client.pc # "done"
  /\ ~client.stdinDone
  /\ client' = [client EXCEPT !.stdinDone = TRUE, !.closing = TRUE]
  /\ UNCHANGED <<proc, taken, ring, drain, reap, listed, current, sess, load>>

CloseSend ==
  /\ client.closing
  /\ client' = [client EXCEPT !.closing = FALSE]
  /\ sess' = SendClosed(client.cur, sess)
  /\ UNCHANGED <<proc, taken, ring, drain, reap, listed, current, load>>

\* sendOOB: a signal that cannot be sent is queued for the next re-attach.
Signal ==
  /\ client.pc # "done"
  /\ load.signals > 0
  /\ load' = [load EXCEPT !.signals = @ - 1]
  /\ \E o \in SendOutcomes(client.cur, [type |-> "signal"], sess) :
       /\ sess' = o.sess
       /\ client' = [client EXCEPT !.signals = @ + 1,
                                   !.pending = IF o.ok THEN @ ELSE @ + 1]
  /\ UNCHANGED <<proc, taken, ring, drain, reap, listed, current>>

-----------------------------------------------------------------------------
CommandNext ==
  \/ \E s \in Streams : ProcWrite(s) \/ DrainRead(s) \/ DrainEOF(s) \/ DrainWrite(s)
  \/ ProcExit
  \/ ReapWait \/ ReapForce \/ ReapRecord \/ ReapForget

HandlerNext ==
  \E j \in Sessions :
    \/ SrvRecv(j) \/ SrvStop(j) \/ ServeInterrupted(j) \/ ServeExit(j) \/ ServeRemove(j)
    \/ \E s \in Streams : PumpSend(j, s) \/ PumpEnd(j, s)

ClientNext ==
  \/ ClientData \/ ClientExit \/ ClientError
  \/ \E j \in Sessions : Reattach(j)
  \/ ClientAttached \/ ClientFlush \/ ClientAttachFailed
  \/ CloseSend

Environment ==
  \/ \E j \in Sessions : Break(j)
  \/ StdinEOF
  \/ Signal

\* Nothing but the daemons and the transport stands between the command and
\* its end: it exits after its output, or its input ended and it is told so.
Finishes == load.until = "output" \/ (Lossless /\ client.stdinDone)

Next == CommandNext \/ HandlerNext \/ ClientNext \/ Environment

Spec == Init /\ [][Next]_vars

-----------------------------------------------------------------------------
(* Properties.                                                               *)

IsOffset(f) == DOMAIN f = Streams /\ \A s \in Streams : f[s] \in 0 .. load.len[s]

\* Every variable has its type.
TypeOK ==
  /\ IsOffset(proc.wrote)
  /\ {proc.running, proc.stdin} \subseteq BOOLEAN
  /\ proc.signals \in Nat
  /\ IsOffset(taken)
  /\ reap \in {"wait", "drain", "forced", "forget", "done"}
  /\ listed \in BOOLEAN
  /\ current \in 0 .. MaxSessions
  /\ load.breaks \in Nat /\ load.signals \in Nat
  /\ \A s \in Streams : /\ drain[s].pc \in {"read", "write", "done"}
                        /\ ring[s].released \in 0 .. load.len[s]
  /\ \A j \in Sessions : /\ sess[j].state \in {"unused", "serving", "removing", "ended"}
                         /\ Len(sess[j].down) <= Window
                         /\ IsOffset(sess[j].offset)
  /\ client.pc \in {"recv", "reattach", "attaching", "flush", "done"}
  /\ IsOffset(client.offset)
  /\ client.result \in {"none", "exit", "gone"}

\* However often the stream breaks, the consumer receives the bytes of a stream
\* in order and at most once, its offset counts exactly what it received and
\* what it was told was evicted, and a lossless command has no such gaps
\* (process, tryResume and attachManagedCommand agree on offsets).
InOrderExactlyOnce ==
  \A s \in Streams :
    LET got == client.got[s]
    IN  /\ \A i, k \in DOMAIN got : i < k => got[i] < got[k]
        /\ \A i \in DOMAIN got : got[i] < client.offset[s]
        /\ Lossless => got = Bytes(0, client.offset[s])

\* Space is released to a lossless writer only for output the consumer has:
\* confirmations (maybeAck, the attach offsets) never overtake consumption.
ReleasedOnlyConsumed ==
  \A s \in Streams : ring[s].released <= client.offset[s]

\* The exit status is never handed to the consumer before all the output the
\* rings took (serveManagedCommand waits for both pumps' EOF).
ExitAfterOutput ==
  client.result = "exit" =>
    \A s \in Streams : ring[s].closed /\ client.offset[s] = EndOffset(ring[s])

\* What the consumer is given, together: all of every stream, in order and once,
\* nothing released too early, and the exit status last.
Delivery == TypeOK /\ InOrderExactlyOnce /\ ReleasedOnlyConsumed /\ ExitAfterOutput

\* A signal reaches the process at most once, over breaks, queueing (sendOOB)
\* and flushing (setClient).
SignalsAtMostOnce ==
  LET queued(j) == Len(SelectSeq(sess[j].up, LAMBDA m : m.type = "signal"))
  IN  proc.signals + client.pending + client.flush + MapThenSumSet(queued, Sessions)
        <= client.signals

Busy == ENABLED (CommandNext \/ HandlerNext \/ ClientNext)

\* Until the consumer's Wait has returned, the daemons or the client have
\* something left to do: lossless backpressure, acks and re-attaching never leave
\* everyone waiting, and the half-close of a kill-policy command reaches a
\* process that reads until EOF even if the stream broke around it (stdinDone is
\* replayed).
RestsWithResult == Finishes /\ client.pc # "done" => Busy

\* ... and while a signal that was queued during a transport gap is still queued,
\* they have too: the re-attach sends it.
QueuedSignalsLeave == client.pending # 0 /\ client.pc # "done" => Busy

\* A signal is sent at most once, and one that was queued does not stay behind
\* (sendOOB, setClient).
SignalsOnce == SignalsAtMostOnce /\ QueuedSignalsLeave

\* They do come to such a rest: re-attaching, replaying and acknowledging go on
\* for ever only if the transport breaks for ever.
ComesToRest == <>[][Environment]_vars
===============================================================================
