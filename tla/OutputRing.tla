------------------------------ MODULE OutputRing ------------------------------
(***************************************************************************)
(* The bounded replay buffer of a managed command (pkg/output_ring.go), the *)
(* goroutine that drains the command's pipe into it (drainIntoRing) and the *)
(* pumps that tail it towards attached clients (ReadAt, as called by        *)
(* tailManagedCommandOutput).                                               *)
(*                                                                          *)
(* Every action is one critical section of r.mu; a goroutine blocked on one *)
(* of the ring's channels (space, notify) is "parked", and closing the      *)
(* channel unparks it.                                                      *)
(***************************************************************************)
EXTENDS RingBuffer

CONSTANTS
  MaxChunk,   \* size of the drain goroutine's read buffer
  MaxBytes,   \* bound: bytes the command writes
  Pumps       \* the goroutines tailing the ring

ASSUME MaxChunkAssumption == MaxChunk \in Nat \ {0}
ASSUME MaxBytesAssumption == MaxBytes \in Nat

VARIABLES
  ring,       \* the outputRing
  produced,   \* bytes read from the command so far
  drain,      \* [pc, rest]: the drain goroutine and what it has still to write
  pump        \* [Pumps -> [pc, from, offset, got]]

vars == <<ring, produced, drain, pump>>

-----------------------------------------------------------------------------
Idle == [pc |-> "idle", from |-> 0, offset |-> 0, got |-> <<>>]

Init ==
  /\ ring \in {NewOutputRing(lossless) : lossless \in BOOLEAN}
  /\ produced = 0
  /\ drain = [pc |-> "read", rest |-> <<>>]
  /\ pump = [p \in Pumps |-> Idle]

\* close(r.notify): every parked pump re-examines the ring.
Notified ==
  [p \in Pumps |-> IF pump[p].pc = "parked" THEN [pump[p] EXCEPT !.pc = "tail"] ELSE pump[p]]

\* Mutant: the writer is never told that space was released.
SpaceFreedLost == drain

\* close(r.space): a parked writer re-examines the ring.
SpaceFreed == IF drain.pc = "parked" THEN [drain EXCEPT !.pc = "write"] ELSE drain

(* The drain goroutine. *)

DrainRead(n) ==
  /\ drain.pc = "read"
  /\ produced + n <= MaxBytes
  /\ produced' = produced + n
  /\ drain' = [pc |-> "write", rest |-> Bytes(produced, produced + n)]
  /\ UNCHANGED <<ring, pump>>

\* The pipe reached EOF: the deferred ring.Close runs.
DrainEOF ==
  /\ drain.pc = "read"
  /\ ring' = CloseRing(ring)
  /\ drain' = [drain EXCEPT !.pc = "done"]
  /\ pump' = Notified
  /\ UNCHANGED produced

\* Write on a ring that waitAndReap closed meanwhile: the rest is dropped.
WriteRefused ==
  /\ drain.pc = "write"
  /\ ring.closed
  /\ drain' = [drain EXCEPT !.pc = "done"]
  /\ UNCHANGED <<ring, produced, pump>>

WriteEvict ==
  /\ drain.pc = "write"
  /\ ~ring.closed
  /\ ~ring.lossless
  /\ ring' = WriteEvicting(ring, drain.rest)
  /\ drain' = [pc |-> "read", rest |-> <<>>]
  /\ pump' = Notified
  /\ UNCHANGED produced

WriteKeep ==
  /\ drain.pc = "write"
  /\ ~ring.closed
  /\ ring.lossless
  /\ Space(ring) > 0
  /\ ring' = WriteLossless(ring, drain.rest)
  /\ LET rest == DropFirst(drain.rest, Accepted(ring, drain.rest))
     IN  drain' = [pc |-> IF rest = <<>> THEN "read" ELSE "write", rest |-> rest]
  /\ pump' = Notified
  /\ UNCHANGED produced

WritePark ==
  /\ drain.pc = "write"
  /\ ~ring.closed
  /\ ring.lossless
  /\ Space(ring) <= 0
  /\ drain' = [drain EXCEPT !.pc = "parked"]
  /\ UNCHANGED <<ring, produced, pump>>

\* waitAndReap closes the ring from outside once the drain grace ran out.
Close ==
  /\ ~ring.closed
  /\ ring' = CloseRing(ring)
  /\ drain' = SpaceFreed
  /\ pump' = Notified
  /\ UNCHANGED produced

(* The pumps. *)

\* attachManagedCommand: the requested offset confirms what lies below it and
\* replay starts at the first byte still retained, which is looked up later.
Attach(p, offset) ==
  /\ pump[p].pc = "idle"
  /\ ring' = SetReleased(ring, offset)
  /\ drain' = IF offset > ring.released /\ ~ring.closed THEN SpaceFreed ELSE drain
  /\ pump' = [pump EXCEPT ![p] = [Idle EXCEPT !.pc = "attaching", !.offset = offset]]
  /\ UNCHANGED produced

AttachStart(p) ==
  /\ pump[p].pc = "attaching"
  /\ LET from == MaxOf(pump[p].offset, ring.start)
     IN  pump' = [pump EXCEPT ![p] = [pc |-> "tail", from |-> from, offset |-> from, got |-> <<>>]]
  /\ UNCHANGED <<ring, produced, drain>>

\* One turn of ReadAt that finds data.  A pump that asked for an evicted
\* offset ends its stream instead of sending misaligned bytes.
PumpData(p) ==
  /\ pump[p].pc = "tail"
  /\ HasData(ring, pump[p].offset)
  /\ pump' = IF GotOffset(ring, pump[p].offset) # pump[p].offset
             THEN [pump EXCEPT ![p].pc = "outrun"]
             ELSE [pump EXCEPT ![p].offset = EndOffset(ring),
                               ![p].got = @ \o DataAt(ring, pump[p].offset)]
  /\ UNCHANGED <<ring, produced, drain>>

PumpEOF(p) ==
  /\ pump[p].pc = "tail"
  /\ ~HasData(ring, pump[p].offset)
  /\ ring.closed
  /\ pump' = [pump EXCEPT ![p].pc = "eof"]
  /\ UNCHANGED <<ring, produced, drain>>

PumpPark(p) ==
  /\ pump[p].pc = "tail"
  /\ ~HasData(ring, pump[p].offset)
  /\ ~ring.closed
  /\ pump' = [pump EXCEPT ![p].pc = "parked"]
  /\ UNCHANGED <<ring, produced, drain>>

\* The attachment ended; a parked read returns errOutputRingReadCanceled.
PumpCancel(p) ==
  /\ pump[p].pc = "parked"
  /\ pump' = [pump EXCEPT ![p] = Idle]
  /\ UNCHANGED <<ring, produced, drain>>

\* AckOutput: a client confirms output it received.
Ack(p, offset) ==
  /\ pump[p].pc \in {"tail", "parked", "outrun", "eof"}
  /\ offset > ring.released
  /\ ring' = SetReleased(ring, offset)
  /\ drain' = IF ring.closed THEN drain ELSE SpaceFreed
  /\ UNCHANGED <<produced, pump>>

Next ==
  \/ \E n \in 1 .. MaxChunk : DrainRead(n)
  \/ DrainEOF
  \/ WriteRefused
  \/ WriteEvict
  \/ WriteKeep
  \/ WritePark
  \/ Close
  \/ \E p \in Pumps :
       \/ \E offset \in 0 .. EndOffset(ring) : Attach(p, offset)
       \/ AttachStart(p)
       \/ PumpData(p)
       \/ PumpEOF(p)
       \/ PumpPark(p)
       \/ PumpCancel(p)
       \/ \E offset \in pump[p].from .. pump[p].offset : Ack(p, offset)

Spec == Init /\ [][Next]_vars

-----------------------------------------------------------------------------
\* The state's type.  A lossless writer never exceeds the capacity and never
\* parks on an evicting ring.
TypeOK ==
  /\ ring \in [buf : Seq(Nat), start : Nat, lossless : BOOLEAN, released : Nat, closed : BOOLEAN]
  /\ Len(ring.buf) <= Capacity
  /\ produced \in Nat
  /\ drain \in [pc : {"read", "write", "parked", "done"}, rest : Seq(Nat)]
  /\ pump \in [Pumps -> [pc : {"idle", "attaching", "tail", "parked", "outrun", "eof"},
                         from : Nat, offset : Nat, got : Seq(Nat)]]

\* Offsets address the stream: the retained bytes are exactly the stream's
\* bytes from StartOffset on, what the drain goroutine still holds follows
\* them, and what a pump sent since it attached is the stream from its first
\* offset up to its current one, nothing missing, repeated or misplaced
\* (eviction arithmetic of writeEvicting, writeLossless and ReadAt).
Addressed ==
  /\ ring.buf = Bytes(ring.start, EndOffset(ring))
  /\ drain.rest = Bytes(EndOffset(ring), produced)
  /\ \A p \in Pumps : pump[p].pc \in {"tail", "parked", "outrun", "eof"} =>
       pump[p].got = Bytes(pump[p].from, pump[p].offset)

\* A lossless ring evicts nothing a consumer has not confirmed (writeLossless).
KeepsUnconfirmed == ring.lossless => ring.start <= ring.released

\* No wakeup is lost: a writer blocked in writeLossless really has no room and
\* a reader blocked in ReadAt really has nothing to read, because the channel
\* each waits on is captured inside the critical section that found that out.
NoLostWakeup ==
  /\ drain.pc = "parked" => ring.lossless /\ ~ring.closed /\ Space(ring) <= 0
  /\ \A p \in Pumps : pump[p].pc = "parked" =>
       ~ring.closed /\ ~HasData(ring, pump[p].offset)

\* A pump reports the end of the stream only once it sent everything the ring
\* ever accepted (ReadAt returns io.EOF only after the buffered data).
EOFComplete ==
  \A p \in Pumps : pump[p].pc = "eof" => ring.closed /\ pump[p].offset >= EndOffset(ring)

-----------------------------------------------------------------------------
\* The abstract promise: a window on an append-only log.
Log == INSTANCE OutputLog WITH
         log <- Bytes(0, ring.start) \o ring.buf,
         low <- ring.start,
         confirmed <- ring.released,
         sealed <- ring.closed,
         lossless <- ring.lossless,
         view <- [p \in Pumps |->
                    IF pump[p].pc \in {"idle", "attaching"} THEN [from |-> 0, got |-> <<>>, done |-> FALSE]
                    ELSE [from |-> pump[p].from, got |-> pump[p].got, done |-> pump[p].pc = "eof"]]

\* The ring, its drain goroutine and its readers implement the append-only log
\* of OutputLog: contiguous replay, bounded window, nothing unconfirmed lost.
ImplementsLog == Log!Spec
===============================================================================
