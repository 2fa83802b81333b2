--------------------------- MODULE OutputRingProofs ---------------------------
(***************************************************************************)
(* Proofs about OutputRing for every capacity, chunk size, stream length    *)
(* and set of pumps.                                                        *)
(***************************************************************************)
EXTENDS OutputRing, RingBufferProofs

USE DEF MinOf, MaxOf

-----------------------------------------------------------------------------
(* The inductive invariant.                                                  *)

DrainType == [pc : {"read", "write", "parked", "done"}, rest : Seq(Nat)]
PumpType ==
  [pc : {"idle", "attaching", "tail", "parked", "outrun", "eof"},
   from : Nat, offset : Nat, got : Seq(Nat)]

Attached == {"tail", "parked", "outrun", "eof"}

\* The drain goroutine holds the bytes between the ring's end and what was read.
DrainOK(r, d, n) ==
  /\ d \in DrainType
  /\ n \in Nat
  /\ EndOffset(r) <= n
  /\ d.rest = Bytes(EndOffset(r), n)
  /\ d.pc = "read" => EndOffset(r) = n
  /\ d.pc \in {"write", "parked"} => EndOffset(r) < n
  /\ d.pc = "parked" => r.lossless /\ ~r.closed /\ Space(r) <= 0

\* A pump holds the stream between its first offset and its current one.
PumpOK(r, q) ==
  /\ q \in PumpType
  /\ q.pc \in Attached => q.from <= q.offset /\ q.got = Bytes(q.from, q.offset)
  /\ q.pc = "parked" => ~r.closed /\ ~HasData(r, q.offset)
  /\ q.pc = "eof" => r.closed /\ q.offset >= EndOffset(r)

RingInv ==
  /\ RingOK(ring)
  /\ ring.start < EndOffset(ring) \/ EndOffset(ring) = 0
  /\ ring.lossless => ring.start <= ring.released
  /\ DrainOK(ring, drain, produced)
  /\ pump \in [Pumps -> PumpType]
  /\ \A p \in Pumps : PumpOK(ring, pump[p])

\* The inductive invariant gives every safety invariant of the module.
LEMMA RingInvImplies ==
  RingInv => TypeOK /\ Addressed /\ KeepsUnconfirmed /\ NoLostWakeup /\ EOFComplete
  <1> SUFFICES ASSUME RingInv PROVE TypeOK /\ Addressed /\ KeepsUnconfirmed /\ NoLostWakeup /\ EOFComplete
    OBVIOUS
  <1>1. TypeOK
    BY DEF RingInv, TypeOK, RingOK, RingType, DrainOK, DrainType, PumpType
  <1>2. Addressed
    BY DEF RingInv, Addressed, RingOK, DrainOK, PumpOK, Attached
  <1>3. KeepsUnconfirmed
    BY DEF RingInv, KeepsUnconfirmed
  <1>4. NoLostWakeup
    BY DEF RingInv, NoLostWakeup, DrainOK, PumpOK
  <1>5. EOFComplete
    BY DEF RingInv, EOFComplete, PumpOK
  <1>6. QED
    BY <1>1, <1>2, <1>3, <1>4, <1>5

\* Unparking the pumps never leaves one parked and changes nothing else; the
\* window may have moved as long as a closed ring's end stayed where it was.
LEMMA NotifiedCorrect ==
  ASSUME RingInv, NEW r, RingOK(r), ring.closed => r.closed /\ EndOffset(r) = EndOffset(ring)
  PROVE  Notified \in [Pumps -> PumpType] /\ \A p \in Pumps : PumpOK(r, Notified[p])
  <1> SUFFICES ASSUME NEW p \in Pumps PROVE Notified[p] \in PumpType /\ PumpOK(r, Notified[p])
    BY DEF Notified
  <1>1. pump[p] \in PumpType /\ PumpOK(ring, pump[p])
    BY DEF RingInv
  <1>2. CASE pump[p].pc = "parked"
    <2>1. Notified[p] = [pump[p] EXCEPT !.pc = "tail"]
      BY <1>2 DEF Notified
    <2>2. QED
      BY <1>1, <1>2, <2>1 DEF PumpOK, PumpType, Attached
  <1>3. CASE pump[p].pc # "parked"
    <2>1. Notified[p] = pump[p]
      BY <1>3 DEF Notified
    <2>2. QED
      BY <1>1, <1>3, <2>1 DEF PumpOK
  <1>4. QED
    BY <1>2, <1>3

\* Every pump stays well formed when only the confirmed offset changes.
LEMMA PumpsKept ==
  ASSUME RingInv, NEW r, RingOK(r), r.closed = ring.closed, r.start = ring.start,
         EndOffset(r) = EndOffset(ring), NEW p \in Pumps
  PROVE  PumpOK(r, pump[p])
  <1>1. HasData(r, pump[p].offset) = HasData(ring, pump[p].offset)
    BY DEF HasData, GotOffset
  <1>2. QED
    BY <1>1 DEF RingInv, PumpOK

\* The inductive invariant holds of a new ring (newOutputRing).
LEMMA InitRingInv == Init => RingInv
  <1> SUFFICES ASSUME Init PROVE RingInv
    OBVIOUS
  <1>1. PICK l \in BOOLEAN : ring = [buf |-> <<>>, start |-> 0, lossless |-> l,
                                     released |-> 0, closed |-> FALSE]
    BY DEF Init, NewOutputRing
  <1>2. ring \in RingType /\ EndOffset(ring) = 0 /\ Len(ring.buf) = 0 /\ ring.buf = <<>>
    BY <1>1 DEF RingType, EndOffset
  <1>3. Bytes(0, 0) = <<>>
    BY DEF Bytes
  <1>4. RingOK(ring)
    BY <1>1, <1>2, <1>3, CapacityAssumption DEF RingOK
  <1>5. DrainOK(ring, drain, produced)
    BY <1>1, <1>2, <1>3 DEF Init, DrainOK, DrainType
  <1>6. pump \in [Pumps -> PumpType] /\ \A p \in Pumps : PumpOK(ring, pump[p])
    BY DEF Init, Idle, PumpType, PumpOK, Attached
  <1>7. ring.start <= ring.released
    BY <1>1
  <1>8. QED
    BY <1>2, <1>4, <1>5, <1>6, <1>7 DEF RingInv

\* Reading a chunk from the pipe (drainIntoRing) preserves the inductive invariant.
LEMMA DrainReadInv ==
  ASSUME RingInv, NEW n \in 1 .. MaxChunk, DrainRead(n)
  PROVE  RingInv'
  <1>1. PICK e \in Nat : e = EndOffset(ring)
    BY RingOffsets DEF RingInv
  <1>2. produced = e /\ drain \in DrainType
    BY <1>1 DEF RingInv, DrainOK, DrainRead
  <1>3. n \in Nat /\ n > 0
    BY MaxChunkAssumption
  <1>4. e + n \in Nat /\ e < e + n
    BY <1>3
  <1>5. Bytes(e, e + n) \in Seq(Nat)
    BY <1>4, BytesType
  <1>6. drain' = [pc |-> "write", rest |-> Bytes(e, e + n)] /\ produced' = e + n /\ ring' = ring /\ pump' = pump
    BY <1>2 DEF DrainRead
  <1>7. drain' \in DrainType /\ drain'.pc = "write" /\ drain'.rest = Bytes(e, e + n)
    BY <1>5, <1>6 DEF DrainType
  <1>8. DrainOK(ring, drain', produced')
    BY <1>1, <1>4, <1>6, <1>7 DEF DrainOK
  <1>9. QED
    BY <1>6, <1>8 DEF RingInv

\* The drain goroutine closing the ring at EOF preserves the inductive invariant.
LEMMA DrainEOFInv ==
  ASSUME RingInv, DrainEOF
  PROVE  RingInv'
  <1>1. RingOK(ring) /\ ring' = CloseRing(ring)
    BY DEF RingInv, DrainEOF
  <1>2. /\ RingOK(ring') /\ ring'.closed /\ EndOffset(ring') = EndOffset(ring)
        /\ ring'.start = ring.start /\ ring'.lossless = ring.lossless
        /\ ring'.released = ring.released
    BY <1>1, CloseRingCorrect
  <1>3. pump' \in [Pumps -> PumpType] /\ \A p \in Pumps : PumpOK(ring', pump'[p])
    BY <1>2, NotifiedCorrect DEF DrainEOF
  <1>4. DrainOK(ring', drain', produced')
    BY <1>2 DEF RingInv, DrainEOF, DrainOK, DrainType
  <1>5. QED
    BY <1>2, <1>3, <1>4 DEF RingInv

\* waitAndReap closing the ring preserves the inductive invariant.
LEMMA CloseInv ==
  ASSUME RingInv, Close
  PROVE  RingInv'
  <1>1. RingOK(ring) /\ ring' = CloseRing(ring)
    BY DEF RingInv, Close
  <1>2. /\ RingOK(ring') /\ ring'.closed /\ EndOffset(ring') = EndOffset(ring)
        /\ ring'.start = ring.start /\ ring'.lossless = ring.lossless
        /\ ring'.released = ring.released
    BY <1>1, CloseRingCorrect
  <1>3. pump' \in [Pumps -> PumpType] /\ \A p \in Pumps : PumpOK(ring', pump'[p])
    BY <1>2, NotifiedCorrect DEF Close
  <1>4. DrainOK(ring', drain', produced')
    BY <1>2 DEF RingInv, Close, SpaceFreed, DrainOK, DrainType
  <1>5. QED
    BY <1>2, <1>3, <1>4 DEF RingInv

\* A lossy write (writeEvicting) preserves the inductive invariant.
LEMMA WriteEvictInv ==
  ASSUME RingInv, WriteEvict
  PROVE  RingInv'
  <1>1. PICK e \in Nat, f \in Nat : /\ e = EndOffset(ring) /\ f = produced /\ e < f
                                    /\ drain.rest = Bytes(e, f)
    BY RingOffsets DEF RingInv, WriteEvict, DrainOK
  <1>2. RingOK(ring) /\ ring' = WriteEvicting(ring, drain.rest)
    BY <1>1 DEF RingInv, WriteEvict
  <1>3. /\ RingOK(ring') /\ EndOffset(ring') = f /\ ring'.start < f /\ ring'.lossless = ring.lossless
        /\ ring'.closed = ring.closed
    BY <1>1, <1>2, WriteEvictingCorrect
  <1>4. pump' \in [Pumps -> PumpType] /\ \A p \in Pumps : PumpOK(ring', pump'[p])
    BY <1>3, NotifiedCorrect DEF WriteEvict
  <1>5. Bytes(f, f) = <<>>
    BY DEF Bytes
  <1>6. DrainOK(ring', drain', produced')
    <2>1. drain' \in DrainType /\ drain'.pc = "read" /\ drain'.rest = <<>> /\ produced' = f
      BY <1>1 DEF WriteEvict, DrainType
    <2>2. QED
      BY <1>3, <1>5, <2>1 DEF DrainOK
  <1>7. QED
    BY <1>3, <1>4, <1>6 DEF RingInv, WriteEvict

\* A lossless write that finds room (writeLossless) preserves the inductive invariant.
LEMMA WriteKeepInv ==
  ASSUME RingInv, WriteKeep
  PROVE  RingInv'
  <1>1. PICK e \in Nat, f \in Nat : /\ e = EndOffset(ring) /\ f = produced /\ e < f
                                    /\ drain.rest = Bytes(e, f)
    BY RingOffsets DEF RingInv, WriteKeep, DrainOK
  <1>2. /\ RingOK(ring) /\ ring' = WriteLossless(ring, drain.rest) /\ Space(ring) > 0
    BY DEF RingInv, WriteKeep
  <1>0. /\ ring.start \in Nat /\ ring.released \in Nat /\ ring.start <= ring.released
        /\ ~ring.closed
    BY RingOffsets DEF RingInv, WriteKeep
  <1>3. PICK a : a = Accepted(ring, drain.rest)
    OBVIOUS
  <1>4. /\ a \in 1 .. (f - e)
        /\ RingOK(ring') /\ EndOffset(ring') = e + a /\ ring'.lossless = ring.lossless
        /\ ring'.start < EndOffset(ring')
        /\ ring'.released = ring.released /\ ring'.closed = ring.closed
        /\ ring'.start <= ring.start \/ ring'.start <= ring.released
        /\ DropFirst(drain.rest, a) = Bytes(e + a, f)
    BY <1>1, <1>2, <1>3, WriteLosslessCorrect
  <1>5. pump' \in [Pumps -> PumpType] /\ \A p \in Pumps : PumpOK(ring', pump'[p])
    BY <1>0, <1>4, NotifiedCorrect DEF WriteKeep
  <1>6. PICK h \in Nat : h = e + a /\ h <= f
    BY <1>4
  <1>7. ring'.start \in Nat /\ ring'.start <= ring'.released
    <2>1. ring'.start \in Nat
      BY <1>4, RingOffsets
    <2>2. QED
      BY <2>1, <1>0, <1>4
  <1>8. DrainOK(ring', drain', produced')
    <2>1. Bytes(h, f) \in Seq(Nat) /\ Len(Bytes(h, f)) = f - h
      BY <1>6, BytesType, Zenon
    <2>2. h < f \/ Bytes(h, f) = <<>>
      BY <1>6, <2>1
    <2>3. Bytes(h, f) = <<>> => h = f
      BY <1>6, <2>1
    <2>4. drain' = [pc |-> IF Bytes(h, f) = <<>> THEN "read" ELSE "write", rest |-> Bytes(h, f)]
      BY <1>3, <1>4, <1>6 DEF WriteKeep
    <2>5. drain' \in DrainType /\ drain'.rest = Bytes(h, f) /\ produced' = f
          /\ drain'.pc = (IF Bytes(h, f) = <<>> THEN "read" ELSE "write")
      BY <1>1, <2>1, <2>4 DEF WriteKeep, DrainType
    <2>6. QED
      BY <1>4, <1>6, <2>2, <2>3, <2>5 DEF DrainOK
  <1>9. QED
    BY <1>4, <1>5, <1>7, <1>8 DEF RingInv

\* A write that is refused or has to wait preserves the inductive invariant.
LEMMA WriteStopsInv ==
  ASSUME RingInv, WriteRefused \/ WritePark
  PROVE  RingInv'
  <1>1. ring' = ring /\ pump' = pump /\ produced' = produced
    BY DEF WriteRefused, WritePark
  <1>2. DrainOK(ring, drain', produced)
    BY DEF RingInv, WriteRefused, WritePark, DrainOK, DrainType
  <1>3. QED
    BY <1>1, <1>2 DEF RingInv

\* What Attach and Ack do to the ring and the parked writer.
LEMMA ReleaseCorrect ==
  ASSUME RingInv, NEW o \in Nat, NEW r, r = SetReleased(ring, o),
         NEW d, d = drain \/ d = SpaceFreed,
         o > ring.released /\ ~ring.closed => d = SpaceFreed
  PROVE  /\ RingOK(r)
         /\ r.start < EndOffset(r) \/ EndOffset(r) = 0
         /\ r.lossless => r.start <= r.released
         /\ DrainOK(r, d, produced)
         /\ \A p \in Pumps : PumpOK(r, pump[p])
  <1>1. /\ RingOK(r) /\ EndOffset(r) = EndOffset(ring)
        /\ r.start = ring.start /\ r.lossless = ring.lossless /\ r.closed = ring.closed
        /\ r.released >= ring.released
        /\ o <= ring.released => r = ring
    BY SetReleasedCorrect DEF RingInv
  <1>2. ring.start \in Nat /\ ring.released \in Nat /\ r.released \in Nat
    BY <1>1, RingOffsets DEF RingInv
  <1>3. r.lossless => r.start <= r.released
    BY <1>1, <1>2 DEF RingInv
  <1>4. DrainOK(r, d, produced)
    <2>1. CASE o <= ring.released
      BY <1>1, <2>1 DEF RingInv, SpaceFreed, DrainOK, DrainType
    <2>2. CASE ring.closed
      <3>1. drain.pc # "parked"
        BY <2>2 DEF RingInv, DrainOK
      <3>2. d = drain
        BY <3>1 DEF SpaceFreed
      <3>3. QED
        BY <1>1, <3>1, <3>2 DEF RingInv, DrainOK
    <2>3. CASE o > ring.released /\ ~ring.closed
      <3>1. d \in DrainType /\ d.pc # "parked" /\ d.rest = drain.rest
            /\ (d.pc = drain.pc \/ (d.pc = "write" /\ drain.pc = "parked"))
        BY <2>3 DEF RingInv, SpaceFreed, DrainOK, DrainType
      <3>2. QED
        BY <1>1, <3>1 DEF RingInv, DrainOK
    <2>4. QED
      BY <1>2, <2>1, <2>2, <2>3
  <1>5. \A p \in Pumps : PumpOK(r, pump[p])
    BY <1>1, PumpsKept
  <1>6. r.start < EndOffset(r) \/ EndOffset(r) = 0
    BY <1>1 DEF RingInv
  <1>7. QED
    BY <1>1, <1>3, <1>4, <1>5, <1>6

\* A confirmation (AckOutput) preserves the inductive invariant.
LEMMA AckInv ==
  ASSUME RingInv, NEW p \in Pumps, NEW o \in pump[p].from .. pump[p].offset, Ack(p, o)
  PROVE  RingInv'
  <1>1. o \in Nat
    BY DEF RingInv, PumpOK, PumpType
  <1>2. /\ ring' = SetReleased(ring, o) /\ produced' = produced /\ pump' = pump
        /\ (drain' = drain \/ drain' = SpaceFreed)
        /\ (o > ring.released /\ ~ring.closed => drain' = SpaceFreed)
    BY DEF Ack
  <1>3. /\ RingOK(ring') /\ (ring'.lossless => ring'.start <= ring'.released)
        /\ (ring'.start < EndOffset(ring') \/ EndOffset(ring') = 0)
        /\ DrainOK(ring', drain', produced)
        /\ \A q \in Pumps : PumpOK(ring', pump[q])
    BY <1>1, <1>2, ReleaseCorrect
  <1>4. QED
    BY <1>2, <1>3 DEF RingInv

\* The confirmation carried by an attach request preserves the inductive invariant.
LEMMA AttachInv ==
  ASSUME RingInv, NEW p \in Pumps, NEW o \in 0 .. EndOffset(ring), Attach(p, o)
  PROVE  RingInv'
  <1>1. o \in Nat
    BY RingOffsets DEF RingInv
  <1>2. /\ ring' = SetReleased(ring, o) /\ produced' = produced
        /\ (drain' = drain \/ drain' = SpaceFreed)
        /\ (o > ring.released /\ ~ring.closed => drain' = SpaceFreed)
    BY DEF Attach
  <1>3. /\ RingOK(ring') /\ (ring'.lossless => ring'.start <= ring'.released)
        /\ (ring'.start < EndOffset(ring') \/ EndOffset(ring') = 0)
        /\ DrainOK(ring', drain', produced)
        /\ \A q \in Pumps : PumpOK(ring', pump[q])
    BY <1>1, <1>2, ReleaseCorrect
  <1>4. pump' \in [Pumps -> PumpType] /\ \A q \in Pumps : PumpOK(ring', pump'[q])
    <2>1. PICK v : v = [Idle EXCEPT !.pc = "attaching", !.offset = o]
      OBVIOUS
    <2>2. v \in PumpType /\ v.pc = "attaching"
      <3>1. v = [pc |-> "attaching", from |-> 0, offset |-> o, got |-> <<>>]
        BY <2>1, Zenon DEF Idle
      <3>2. QED
        BY <1>1, <3>1 DEF PumpType
    <2>3. PumpOK(ring', v)
      BY <2>2 DEF PumpOK, Attached
    <2>4. pump' = [pump EXCEPT ![p] = v]
      BY <2>1 DEF Attach
    <2>5. QED
      BY <1>3, <2>2, <2>3, <2>4 DEF RingInv
  <1>5. QED
    BY <1>2, <1>3, <1>4 DEF RingInv

\* Steps of one pump that leave the ring alone.
LEMMA PumpStepInv ==
  ASSUME RingInv, NEW p \in Pumps, NEW v \in PumpType, PumpOK(ring, v),
         pump' = [pump EXCEPT ![p] = v], UNCHANGED <<ring, produced, drain>>
  PROVE  RingInv'
  <1>1. pump' \in [Pumps -> PumpType] /\ \A q \in Pumps : PumpOK(ring, pump'[q])
    BY DEF RingInv
  <1>2. QED
    BY <1>1 DEF RingInv

\* Fixing the replay offset (attachManagedCommand) preserves the inductive invariant.
LEMMA AttachStartInv ==
  ASSUME RingInv, NEW p \in Pumps, AttachStart(p)
  PROVE  RingInv'
  <1>1. ring.start \in Nat /\ pump[p].offset \in Nat
    BY RingOffsets DEF RingInv, PumpType
  <1>2. PICK from \in Nat : from = MaxOf(pump[p].offset, ring.start)
    BY <1>1
  <1>3. PICK v : v = [pc |-> "tail", from |-> from, offset |-> from, got |-> <<>>]
    BY Zenon
  <1>4. Bytes(from, from) = <<>>
    BY DEF Bytes
  <1>5. v \in PumpType /\ PumpOK(ring, v)
    BY <1>3, <1>4 DEF PumpType, PumpOK, Attached
  <1>6. pump' = [pump EXCEPT ![p] = v] /\ UNCHANGED <<ring, produced, drain>>
    BY <1>2, <1>3 DEF AttachStart
  <1>7. QED
    BY <1>5, <1>6, PumpStepInv, Zenon

\* A read that finds data (ReadAt) preserves the inductive invariant.
LEMMA PumpDataInv ==
  ASSUME RingInv, NEW p \in Pumps, PumpData(p)
  PROVE  RingInv'
  <1>1. RingOK(ring) /\ pump \in [Pumps -> PumpType] /\ pump[p] \in PumpType /\ PumpOK(ring, pump[p])
        /\ pump[p].pc = "tail"
    BY DEF RingInv, PumpData
  <1>2. PICK s \in Nat, e \in Nat, o \in Nat, from \in Nat :
          s = ring.start /\ e = EndOffset(ring) /\ o = pump[p].offset /\ from = pump[p].from
    BY <1>1, RingOffsets DEF PumpType
  <1>3. from <= o /\ pump[p].got = Bytes(from, o)
    BY <1>1, <1>2 DEF PumpOK, Attached
  <1>4. CASE GotOffset(ring, pump[p].offset) # pump[p].offset
    <2>1. PICK v : v = [pump[p] EXCEPT !.pc = "outrun"]
      BY Zenon
    <2>2. v \in PumpType /\ v.pc = "outrun" /\ v.from = from /\ v.offset = o /\ v.got = pump[p].got
      BY <1>1, <1>2, <2>1, Zenon DEF PumpType
    <2>3. PumpOK(ring, v)
      BY <1>3, <2>2 DEF PumpOK, Attached
    <2>4. pump' = [pump EXCEPT ![p] = v] /\ UNCHANGED <<ring, produced, drain>>
      BY <1>4, <2>1 DEF PumpData
    <2>5. QED
      BY <2>2, <2>3, <2>4, PumpStepInv, Zenon
  <1>5. CASE GotOffset(ring, pump[p].offset) = pump[p].offset
    <2>1. s <= o /\ o < e
      BY <1>2, <1>5 DEF PumpData, HasData, GotOffset
    <2>2. DataAt(ring, pump[p].offset) = Bytes(o, e)
      <3>1. PICK k \in Nat : k = o - s
        BY <2>1
      <3>2. s + k = o /\ s + k <= e
        BY <2>1, <3>1
      <3>3. DropFirst(Bytes(s, e), k) = Bytes(o, e)
        BY <3>2, DropBytes
      <3>4. ring.buf = Bytes(s, e)
        BY <1>1, <1>2, RingOffsets
      <3>5. QED
        BY <1>2, <1>5, <3>1, <3>3, <3>4 DEF DataAt
    <2>3. Bytes(from, o) \o Bytes(o, e) = Bytes(from, e)
      <3>1. from <= o /\ o <= e
        BY <1>3, <2>1
      <3>2. QED
        BY <3>1, JoinBytes, Zenon
    <2>4. from <= e
      BY <1>3, <2>1
    <2>5. Bytes(from, e) \in Seq(Nat)
      BY <2>4, BytesType
    <2>6. PICK v : v = [pump[p] EXCEPT !.offset = e, !.got = Bytes(from, e)]
      OBVIOUS
    <2>7. v \in PumpType /\ v.pc = "tail" /\ v.from = from /\ v.offset = e /\ v.got = Bytes(from, e)
      BY <1>1, <1>2, <2>5, <2>6, Zenon DEF PumpType
    <2>8. PumpOK(ring, v)
      BY <2>4, <2>7 DEF PumpOK, Attached
    <2>9. pump' = [pump EXCEPT ![p] = v] /\ UNCHANGED <<ring, produced, drain>>
      <3>1. pump' = [pump EXCEPT ![p].offset = e,
                                 ![p].got = pump[p].got \o DataAt(ring, pump[p].offset)]
        BY <1>1, <1>2, <1>5 DEF PumpData
      <3>2. pump[p].got \o DataAt(ring, pump[p].offset) = Bytes(from, e)
        BY <1>3, <2>2, <2>3
      <3>3. QED
        BY <1>1, <2>6, <3>1, <3>2, Zenon DEF PumpData
    <2>10. QED
      BY <2>7, <2>8, <2>9, PumpStepInv, Zenon
  <1>6. QED
    BY <1>4, <1>5

\* A read that ends, waits or is canceled (ReadAt) preserves the inductive invariant.
LEMMA PumpStopsInv ==
  ASSUME RingInv, NEW p \in Pumps, PumpEOF(p) \/ PumpPark(p) \/ PumpCancel(p)
  PROVE  RingInv'
  <1>1. RingOK(ring) /\ pump \in [Pumps -> PumpType] /\ pump[p] \in PumpType /\ PumpOK(ring, pump[p])
    BY DEF RingInv
  <1>2. ring.start \in Nat /\ EndOffset(ring) \in Nat /\ pump[p].offset \in Nat
    BY <1>1, RingOffsets DEF PumpType
  <1>3. UNCHANGED <<ring, produced, drain>>
    BY DEF PumpEOF, PumpPark, PumpCancel
  <1>4. CASE PumpEOF(p)
    <2>1. PICK v : v = [pump[p] EXCEPT !.pc = "eof"]
      BY Zenon
    <2>2. pump[p].offset >= EndOffset(ring)
      <3>1. PICK s \in Nat, e \in Nat, o \in Nat :
              s = ring.start /\ e = EndOffset(ring) /\ o = pump[p].offset
        BY <1>2
      <3>2. ~(MaxOf(o, s) < e)
        BY <1>4, <3>1 DEF PumpEOF, HasData, GotOffset
      <3>3. s < e \/ e = 0
        BY <3>1 DEF RingInv
      <3>4. o >= e
        BY <3>2, <3>3
      <3>5. QED
        BY <3>1, <3>4
    <2>3. v \in PumpType /\ PumpOK(ring, v)
      BY <1>1, <1>4, <2>1, <2>2, Zenon DEF PumpEOF, PumpOK, PumpType, Attached
    <2>4. pump' = [pump EXCEPT ![p] = v]
      BY <1>4, <2>1 DEF PumpEOF
    <2>5. QED
      BY <1>3, <2>3, <2>4, PumpStepInv, Zenon
  <1>5. CASE PumpPark(p)
    <2>1. PICK v : v = [pump[p] EXCEPT !.pc = "parked"]
      BY Zenon
    <2>2. v \in PumpType /\ PumpOK(ring, v)
      BY <1>1, <1>5, <2>1, Zenon DEF PumpPark, PumpOK, PumpType, Attached
    <2>3. pump' = [pump EXCEPT ![p] = v]
      BY <1>5, <2>1 DEF PumpPark
    <2>4. QED
      BY <1>3, <2>2, <2>3, PumpStepInv, ZenonT(40)
  <1>6. CASE PumpCancel(p)
    <2>1. Idle \in PumpType /\ PumpOK(ring, Idle)
      BY DEF Idle, PumpOK, PumpType, Attached
    <2>2. pump' = [pump EXCEPT ![p] = Idle]
      BY <1>6 DEF PumpCancel
    <2>3. QED
      BY <1>3, <2>1, <2>2, PumpStepInv, Zenon
  <1>7. QED
    BY <1>4, <1>5, <1>6

-----------------------------------------------------------------------------
\* Every step of the ring, its drain goroutine and its pumps preserves the
\* inductive invariant.
LEMMA NextRingInv == RingInv /\ [Next]_vars => RingInv'
  <1> SUFFICES ASSUME RingInv, [Next]_vars PROVE RingInv'
    OBVIOUS
  <1>1. ASSUME NEW n \in 1 .. MaxChunk, DrainRead(n) PROVE RingInv'
    BY <1>1, DrainReadInv
  <1>2. CASE DrainEOF
    BY <1>2, DrainEOFInv
  <1>3. CASE WriteRefused \/ WritePark
    BY <1>3, WriteStopsInv
  <1>4. CASE WriteEvict
    BY <1>4, WriteEvictInv
  <1>5. CASE WriteKeep
    BY <1>5, WriteKeepInv
  <1>6. CASE Close
    BY <1>6, CloseInv
  <1>7. ASSUME NEW p \in Pumps, NEW o \in 0 .. EndOffset(ring), Attach(p, o) PROVE RingInv'
    BY <1>7, AttachInv
  <1>8. ASSUME NEW p \in Pumps, AttachStart(p) PROVE RingInv'
    BY <1>8, AttachStartInv
  <1>9. ASSUME NEW p \in Pumps, PumpData(p) PROVE RingInv'
    BY <1>9, PumpDataInv
  <1>10. ASSUME NEW p \in Pumps, PumpEOF(p) \/ PumpPark(p) \/ PumpCancel(p) PROVE RingInv'
    BY <1>10, PumpStopsInv
  <1>11. ASSUME NEW p \in Pumps, NEW o \in pump[p].from .. pump[p].offset, Ack(p, o) PROVE RingInv'
    BY <1>11, AckInv
  <1>12. CASE UNCHANGED vars
    BY <1>12 DEF vars, RingInv
  <1>13. QED
    BY <1>1, <1>2, <1>3, <1>4, <1>5, <1>6, <1>7, <1>8, <1>9, <1>10, <1>11, <1>12 DEF Next

\* The inductive invariant holds in every reachable state.
LEMMA RingInvariance == Spec => []RingInv
  BY InitRingInv, NextRingInv, PTL DEF Spec

\* The state of a ring keeps its type and its capacity bound, whatever the
\* capacity, the chunk size and the number of readers.
THEOREM RingTypeCorrect == Spec => []TypeOK
  BY RingInvariance, RingInvImplies, PTL

\* Offsets address the stream: retained bytes, bytes in flight and bytes
\* delivered are exactly the runs of the stream their offsets name.
THEOREM RingAddressed == Spec => []Addressed
  BY RingInvariance, RingInvImplies, PTL

\* A lossless ring never gives up a byte no consumer confirmed.
THEOREM RingKeepsUnconfirmed == Spec => []KeepsUnconfirmed
  BY RingInvariance, RingInvImplies, PTL

\* Neither the writer nor a reader ever sleeps through the event it waits for.
THEOREM RingNoLostWakeup == Spec => []NoLostWakeup
  BY RingInvariance, RingInvImplies, PTL

\* A reader is told the stream ended only after it was sent all of it.
THEOREM RingEOFComplete == Spec => []EOFComplete
  BY RingInvariance, RingInvImplies, PTL

-----------------------------------------------------------------------------
(* The ring implements the append-only log of OutputLog.                     *)

\* What a pump shows of itself: a reader of the log.
Shown(q) ==
  IF q.pc \in {"idle", "attaching"} THEN [from |-> 0, got |-> <<>>, done |-> FALSE]
  ELSE [from |-> q.from, got |-> q.got, done |-> q.pc = "eof"]

\* No pump is ahead of the ring.
Behind == \A p \in Pumps : pump[p].pc # "idle" => pump[p].offset <= EndOffset(ring)

\* A ring stands for the whole stream up to its end.
LEMMA LogIsStream ==
  ASSUME NEW r, RingOK(r)
  PROVE  Bytes(0, r.start) \o r.buf = Bytes(0, EndOffset(r))
  <1>1. r.start \in Nat /\ EndOffset(r) \in Nat /\ r.start <= EndOffset(r) /\ r.buf = Bytes(r.start, EndOffset(r))
    BY RingOffsets
  <1>2. Bytes(0, r.start) \o Bytes(r.start, EndOffset(r)) = Bytes(0, EndOffset(r))
    <2>1. PICK s \in Nat, e \in Nat : s = r.start /\ e = EndOffset(r) /\ 0 <= s /\ s <= e
      BY <1>1
    <2>2. Bytes(0, s) \o Bytes(s, e) = Bytes(0, e)
      BY <2>1, JoinBytes, Zenon
    <2>3. QED
      BY <2>1, <2>2
  <1>3. QED
    BY <1>1, <1>2, Zenon

\* The part of the stream between two offsets, as a piece of the log.
LEMMA PieceOfStream ==
  ASSUME NEW a \in Nat, NEW e \in Nat, a <= e
  PROVE  SubSeq(Bytes(0, e), a + 1, e) = Bytes(a, e) /\ SubSeq(Bytes(0, e), 1, a) = Bytes(0, a)
  <1>1. Len(Bytes(0, e)) = e
    BY BytesType
  <1>2. DropFirst(Bytes(0, e), a) = Bytes(0 + a, e) /\ TakeFirst(Bytes(0, e), a) = Bytes(0, 0 + a)
    BY DropBytes, TakeBytes
  <1>3. SubSeq(Bytes(0, e), a + 1, e) = Bytes(0 + a, e) /\ SubSeq(Bytes(0, e), 1, a) = Bytes(0, 0 + a)
    BY <1>1, <1>2, Zenon DEF DropFirst, TakeFirst
  <1>4. 0 + a = a
    OBVIOUS
  <1>5. QED
    BY <1>3, <1>4

\* The wakeups show nothing.
LEMMA NotifiedShown ==
  ASSUME RingInv, NEW p \in Pumps
  PROVE  Shown(Notified[p]) = Shown(pump[p]) /\ Notified[p].offset = pump[p].offset
         /\ (Notified[p].pc = "idle" <=> pump[p].pc = "idle")
  <1>1. pump[p] \in PumpType
    BY DEF RingInv
  <1>2. CASE pump[p].pc = "parked"
    <2>1. Notified[p] = [pump[p] EXCEPT !.pc = "tail"]
      BY <1>2 DEF Notified
    <2>2. QED
      BY <1>1, <1>2, <2>1 DEF Shown, PumpType
  <1>3. CASE pump[p].pc # "parked"
    BY <1>3 DEF Notified
  <1>4. QED
    BY <1>2, <1>3

\* The end of the ring never moves back, and it moves only while the ring is open.
LEMMA EndGrows ==
  ASSUME RingInv, [Next]_vars
  PROVE  EndOffset(ring') >= EndOffset(ring)
  <1>0. RingOK(ring) /\ EndOffset(ring) \in Nat /\ pump \in [Pumps -> PumpType]
    BY RingOffsets DEF RingInv
  <1>1. CASE ring' = ring
    BY <1>0, <1>1
  <1>2. CASE ring' = CloseRing(ring)
    BY <1>0, <1>2, CloseRingCorrect
  <1>3. ASSUME NEW o \in Nat, ring' = SetReleased(ring, o) PROVE EndOffset(ring') >= EndOffset(ring)
    BY <1>0, <1>3, SetReleasedCorrect
  <1>4. CASE WriteEvict
    <2>1. PICK e \in Nat, f \in Nat : /\ e = EndOffset(ring) /\ f = produced /\ e < f
                                      /\ drain.rest = Bytes(e, f)
      BY <1>4, RingOffsets DEF RingInv, WriteEvict, DrainOK
    <2>2. QED
      BY <1>0, <1>4, <2>1, WriteEvictingCorrect DEF WriteEvict
  <1>5. CASE WriteKeep
    <2>1. PICK e \in Nat, f \in Nat : /\ e = EndOffset(ring) /\ f = produced /\ e < f
                                      /\ drain.rest = Bytes(e, f)
      BY <1>5, RingOffsets DEF RingInv, WriteKeep, DrainOK
    <2>2. Accepted(ring, drain.rest) \in 1 .. (f - e) /\ EndOffset(ring') = e + Accepted(ring, drain.rest)
      BY <1>0, <1>5, <2>1, WriteLosslessCorrect DEF WriteKeep
    <2>3. QED
      BY <2>1, <2>2
  <1>6. ASSUME NEW p \in Pumps, \/ \E offset \in 0 .. EndOffset(ring) : Attach(p, offset)
                                \/ \E offset \in pump[p].from .. pump[p].offset : Ack(p, offset)
        PROVE  EndOffset(ring') >= EndOffset(ring)
    <2>1. pump[p].from \in Nat /\ pump[p].offset \in Nat
      BY <1>0 DEF PumpType
    <2>2. ASSUME NEW o \in 0 .. EndOffset(ring), Attach(p, o) PROVE EndOffset(ring') >= EndOffset(ring)
      <3>1. o \in Nat /\ ring' = SetReleased(ring, o)
        BY <1>0, <2>2 DEF Attach
      <3>2. QED
        BY <1>3, <3>1
    <2>3. ASSUME NEW o \in pump[p].from .. pump[p].offset, Ack(p, o) PROVE EndOffset(ring') >= EndOffset(ring)
      <3>1. o \in Nat /\ ring' = SetReleased(ring, o)
        BY <2>1, <2>3 DEF Ack
      <3>2. QED
        BY <1>3, <3>1
    <2>4. QED
      BY <1>6, <2>2, <2>3
  <1>7. QED
    BY <1>1, <1>2, <1>4, <1>5, <1>6, Zenon
       DEF Next, DrainRead, DrainEOF, WriteRefused, WritePark, Close, AttachStart, PumpData, PumpEOF, PumpPark, PumpCancel, vars

\* No pump gets ahead of the ring (ReadAt).
LEMMA BehindKept ==
  ASSUME RingInv, Behind, [Next]_vars
  PROVE  Behind'
  <1>0. /\ EndOffset(ring) \in Nat /\ EndOffset(ring') \in Nat /\ EndOffset(ring') >= EndOffset(ring)
        /\ pump \in [Pumps -> PumpType] /\ ring.start \in Nat /\ ring.start <= EndOffset(ring)
    <2>1. RingOK(ring) /\ RingOK(ring')
      BY NextRingInv DEF RingInv
    <2>2. EndOffset(ring) \in Nat /\ EndOffset(ring') \in Nat /\ ring.start \in Nat /\ ring.start <= EndOffset(ring)
      BY <2>1, RingOffsets
    <2>3. QED
      BY <2>2, EndGrows DEF RingInv
  <1>1. CASE pump' = pump
    BY <1>0, <1>1 DEF Behind, PumpType
  <1>2. CASE pump' = Notified
    <2>1. ASSUME NEW p \in Pumps, pump'[p].pc # "idle" PROVE pump'[p].offset <= EndOffset(ring')
      <3>1. pump'[p].offset = pump[p].offset /\ pump[p].pc # "idle"
        BY <1>2, <2>1, NotifiedShown
      <3>2. pump[p].offset \in Nat /\ pump[p].offset <= EndOffset(ring)
        BY <1>0, <3>1 DEF Behind, PumpType
      <3>3. QED
        BY <1>0, <3>1, <3>2
    <2>2. QED
      BY <2>1 DEF Behind
  <1>3. ASSUME NEW p \in Pumps, NEW v, v.pc # "idle" => v.offset \in Nat /\ v.offset <= EndOffset(ring),
               pump' = [pump EXCEPT ![p] = v]
        PROVE  Behind'
    <2>1. ASSUME NEW q \in Pumps, pump'[q].pc # "idle" PROVE pump'[q].offset <= EndOffset(ring')
      BY <1>0, <1>3, <2>1 DEF Behind, PumpType
    <2>2. QED
      BY <2>1 DEF Behind
  <1>4. ASSUME NEW p \in Pumps, NEW o \in 0 .. EndOffset(ring), Attach(p, o) PROVE Behind'
    <2>1. PICK v : v = [Idle EXCEPT !.pc = "attaching", !.offset = o]
      OBVIOUS
    <2>2. v.offset = o
      BY <2>1 DEF Idle
    <2>3. pump' = [pump EXCEPT ![p] = v] /\ o \in Nat /\ o <= EndOffset(ring)
      BY <1>0, <1>4, <2>1 DEF Attach
    <2>4. QED
      BY <1>3, <2>2, <2>3, Zenon
  <1>5. ASSUME NEW p \in Pumps, AttachStart(p) PROVE Behind'
    <2>0. pump[p].offset \in Nat /\ pump[p].offset <= EndOffset(ring)
      BY <1>0, <1>5 DEF PumpType, Behind, AttachStart
    <2>1. PICK from \in Nat : from = MaxOf(pump[p].offset, ring.start)
      BY <1>0, <2>0
    <2>2. from <= EndOffset(ring)
      BY <1>0, <2>0, <2>1
    <2>3. PICK v : v = [pc |-> "tail", from |-> from, offset |-> from, got |-> <<>>]
      BY Zenon
    <2>4. QED
      BY <1>3, <1>5, <2>1, <2>2, <2>3, Zenon DEF AttachStart
  <1>6. ASSUME NEW p \in Pumps, PumpData(p) \/ PumpEOF(p) \/ PumpPark(p) PROVE Behind'
    <2>1. pump[p] \in PumpType /\ pump[p].pc = "tail" /\ pump[p].offset <= EndOffset(ring)
      BY <1>0, <1>6, Zenon DEF Behind, PumpData, PumpEOF, PumpPark
    <2>2. PICK v : pump' = [pump EXCEPT ![p] = v] /\ (v.offset = pump[p].offset \/ v.offset = EndOffset(ring))
      <3>1. CASE PumpEOF(p) \/ PumpPark(p)
        BY <1>0, <2>1, <3>1 DEF PumpEOF, PumpPark, PumpType
      <3>2. CASE PumpData(p)
        <4>1. CASE GotOffset(ring, pump[p].offset) # pump[p].offset
          <5>1. pump' = [pump EXCEPT ![p] = [pump[p] EXCEPT !.pc = "outrun"]]
            BY <1>0, <3>2, <4>1 DEF PumpData
          <5>2. [pump[p] EXCEPT !.pc = "outrun"].offset = pump[p].offset
            BY <2>1 DEF PumpType
          <5>3. QED
            BY <5>1, <5>2, Zenon
        <4>2. CASE GotOffset(ring, pump[p].offset) = pump[p].offset
          <5>1. PICK g : g = pump[p].got \o DataAt(ring, pump[p].offset)
            BY Zenon
          <5>2. pump' = [pump EXCEPT ![p] = [pump[p] EXCEPT !.offset = EndOffset(ring), !.got = g]]
            BY <1>0, <3>2, <4>2, <5>1, Zenon DEF PumpData
          <5>3. [pump[p] EXCEPT !.offset = EndOffset(ring), !.got = g].offset = EndOffset(ring)
            BY <2>1 DEF PumpType
          <5>4. QED
            BY <5>2, <5>3, Zenon
        <4>3. QED
          BY <4>1, <4>2
      <3>3. QED
        BY <1>6, <3>1, <3>2
    <2>3. v.offset \in Nat /\ v.offset <= EndOffset(ring)
      BY <1>0, <2>1, <2>2 DEF PumpType
    <2>4. QED
      BY <1>3, <2>2, <2>3, Zenon
  <1>7. ASSUME NEW p \in Pumps, PumpCancel(p) PROVE Behind'
    BY <1>3, <1>7, Zenon DEF PumpCancel, Idle
  <1>8. QED
    BY <1>1, <1>2, <1>4, <1>5, <1>6, <1>7
       DEF Next, DrainRead, DrainEOF, WriteRefused, WriteEvict, WriteKeep, WritePark, Close, Ack, vars

\* The log and the window a ring stands for.
LEMMA LogState ==
  ASSUME NEW r, RingOK(r)
  PROVE  /\ Bytes(0, r.start) \o r.buf = Bytes(0, EndOffset(r))
         /\ Len(Bytes(0, EndOffset(r))) = EndOffset(r)
         /\ EndOffset(r) \in Nat /\ r.start \in Nat /\ r.released \in Nat /\ r.start <= EndOffset(r)
         /\ EndOffset(r) - r.start <= Capacity
  <1>1. /\ EndOffset(r) \in Nat /\ r.start \in Nat /\ r.released \in Nat /\ r.start <= EndOffset(r)
        /\ EndOffset(r) - r.start <= Capacity
    BY RingOffsets, CapacityAssumption
  <1>2. PICK e \in Nat : e = EndOffset(r)
    BY <1>1
  <1>3. Len(Bytes(0, e)) = e - 0
    BY BytesType
  <1>4. Len(Bytes(0, e)) = e
    BY <1>3
  <1>5. QED
    BY <1>1, <1>2, <1>4, LogIsStream, Zenon

\* A write extends the log (writeEvicting, writeLossless).
LEMMA WriteExtends ==
  ASSUME RingInv, RingInv', WriteEvict \/ WriteKeep
  PROVE  Log!Extend
  <1>1. PICK e \in Nat, f \in Nat : /\ e = EndOffset(ring) /\ f = produced /\ e < f
                                    /\ drain.rest = Bytes(e, f)
    BY RingOffsets DEF RingInv, WriteEvict, WriteKeep, DrainOK
  <1>2. RingOK(ring) /\ ~ring.closed /\ pump' = Notified
    BY DEF RingInv, WriteEvict, WriteKeep
  <1>3. PICK g \in Nat, a \in Nat, b \in Nat, c \in Nat :
           /\ g = EndOffset(ring') /\ a = ring.start /\ b = ring'.start /\ c = ring.released
           /\ e < g /\ a <= b /\ b <= g /\ g - b <= Capacity
           /\ ring.lossless => b = a \/ b <= c
    <2>0. /\ ring.start \in Nat /\ ring.released \in Nat
          /\ EndOffset(ring') \in Nat /\ ring'.start \in Nat /\ ring'.start <= EndOffset(ring')
          /\ EndOffset(ring') - ring'.start <= Capacity
      BY LogState, Zenon DEF RingInv
    <2>1. CASE WriteEvict
      <3>1. EndOffset(ring') = f /\ ring'.start >= ring.start /\ ~ring.lossless
        BY <1>1, <1>2, <2>1, WriteEvictingCorrect DEF WriteEvict
      <3>2. QED
        BY <1>1, <2>0, <3>1
    <2>2. CASE WriteKeep
      <3>1. /\ Accepted(ring, drain.rest) \in 1 .. (f - e) /\ EndOffset(ring') = e + Accepted(ring, drain.rest)
            /\ ring'.start >= ring.start /\ (ring'.start <= ring.start \/ ring'.start <= ring.released)
        BY <1>1, <1>2, <2>2, WriteLosslessCorrect DEF WriteKeep
      <3>2. e < EndOffset(ring')
        BY <3>1
      <3>3. QED
        BY <2>0, <3>1, <3>2
    <2>3. QED
      BY <2>1, <2>2
  <1>4. ring'.released = ring.released /\ ring'.closed = ring.closed /\ ring'.lossless = ring.lossless
    <2>1. CASE WriteEvict
      BY <1>1, <1>2, <2>1, WriteEvictingCorrect DEF WriteEvict
    <2>2. CASE WriteKeep
      <3>1. ring' = WriteLossless(ring, drain.rest) /\ Space(ring) > 0
        BY <2>2 DEF WriteKeep
      <3>2. QED
        BY <1>1, <1>2, <3>1, WriteLosslessCorrect
    <2>3. QED
      BY <2>1, <2>2
  <1>5. /\ Bytes(0, ring.start) \o ring.buf = Bytes(0, e) /\ (Bytes(0, ring.start) \o ring.buf)' = Bytes(0, g)
        /\ Len(Bytes(0, e)) = e /\ Len(Bytes(0, g)) = g
    BY <1>1, <1>3, LogState, Zenon DEF RingInv
  <1>6. SubSeq(Bytes(0, g), 1, e) = Bytes(0, e)
    BY <1>3, PieceOfStream
  <1>7. [p \in Pumps |-> Shown(pump[p])]' = [p \in Pumps |-> Shown(pump[p])]
    BY <1>2, NotifiedShown
  <1>8. UNCHANGED [p \in Pumps |->
                    IF pump[p].pc \in {"idle", "attaching"} THEN [from |-> 0, got |-> <<>>, done |-> FALSE]
                    ELSE [from |-> pump[p].from, got |-> pump[p].got, done |-> pump[p].pc = "eof"]]
    BY <1>7 DEF Shown
  <1>9. /\ Len((Bytes(0, ring.start) \o ring.buf)') > Len(Bytes(0, ring.start) \o ring.buf)
        /\ SubSeq((Bytes(0, ring.start) \o ring.buf)', 1, Len(Bytes(0, ring.start) \o ring.buf)) = Bytes(0, ring.start) \o ring.buf
        /\ ring'.start >= ring.start /\ ring'.start <= Len((Bytes(0, ring.start) \o ring.buf)')
        /\ Len((Bytes(0, ring.start) \o ring.buf)') - ring'.start <= Capacity
    BY <1>3, <1>5, <1>6, Zenon
  <1>10. QED
    BY <1>2, <1>3, <1>4, <1>8, <1>9, Zenon DEF Log!Extend

\* Closing the ring seals the log (outputRing.Close).
LEMMA CloseSeals ==
  ASSUME RingInv, DrainEOF \/ Close
  PROVE  Log!Seal
  <1>1. RingOK(ring) /\ ring' = CloseRing(ring) /\ pump' = Notified
    BY DEF RingInv, DrainEOF, Close
  <1>2. /\ ring'.closed = TRUE /\ ring'.start = ring.start /\ ring'.buf = ring.buf
        /\ ring'.lossless = ring.lossless /\ ring'.released = ring.released
    BY <1>1, RingOffsets DEF CloseRing, RingType
  <1>3. [p \in Pumps |-> Shown(pump[p])]' = [p \in Pumps |-> Shown(pump[p])]
    BY <1>1, NotifiedShown
  <1>4. QED
    BY <1>2, <1>3 DEF Log!Seal, Shown

\* A confirmation (AckOutput, or the offset an attach names) confirms a piece
\* of the log, or nothing new.
LEMMA ReleaseConfirms ==
  ASSUME RingInv, NEW o \in Nat, o <= EndOffset(ring), ring' = SetReleased(ring, o),
         [p \in Pumps |-> Shown(pump[p])]' = [p \in Pumps |-> Shown(pump[p])]
  PROVE  Log!Confirm \/ UNCHANGED Log!logVars
  <1>1. RingOK(ring) /\ ring \in RingType
    BY RingOffsets DEF RingInv
  <1>2. CASE o <= ring.released
    <2>1. ring' = ring
      BY <1>2 DEF SetReleased
    <2>2. QED
      BY <2>1, Zenon DEF Log!logVars, Shown
  <1>3. CASE ~(o <= ring.released)
    <2>1. /\ ring'.released = o /\ ring'.start = ring.start /\ ring'.buf = ring.buf
          /\ ring'.lossless = ring.lossless /\ ring'.closed = ring.closed
      BY <1>1, <1>3 DEF SetReleased, RingType
    <2>2. ring'.released > ring.released
      BY <1>1, <1>3, <2>1 DEF RingType
    <2>3. Len(Bytes(0, ring.start) \o ring.buf) = EndOffset(ring)
      BY <1>1, LogState, Zenon
    <2>4. QED
      BY <2>1, <2>2, <2>3, Zenon DEF Log!Confirm, Shown
  <1>4. QED
    BY <1>2, <1>3

\* An attach or an acknowledgement shows as a confirmation or not at all.
LEMMA AttachAckConfirms ==
  ASSUME RingInv, Behind, NEW p \in Pumps,
         \/ \E o \in 0 .. EndOffset(ring) : Attach(p, o)
         \/ \E o \in pump[p].from .. pump[p].offset : Ack(p, o)
  PROVE  Log!Confirm \/ UNCHANGED Log!logVars
  <1>0. EndOffset(ring) \in Nat /\ pump \in [Pumps -> PumpType] /\ pump[p] \in PumpType
    BY RingOffsets DEF RingInv
  <1>1. ASSUME NEW o \in 0 .. EndOffset(ring), Attach(p, o) PROVE Log!Confirm \/ UNCHANGED Log!logVars
    <2>0. ring' = SetReleased(ring, o)
      BY <1>1, Zenon DEF Attach
    <2>1. o \in Nat /\ o <= EndOffset(ring)
      BY <1>0
    <2>2. PICK v : v = [Idle EXCEPT !.pc = "attaching", !.offset = o]
      OBVIOUS
    <2>3. v.pc = "attaching" /\ pump[p].pc = "idle" /\ pump' = [pump EXCEPT ![p] = v]
      BY <1>1, <2>2, ZenonT(40) DEF Attach, Idle
    <2>4. Shown(v) = Shown(pump[p])
      BY <2>3 DEF Shown
    <2>5. [q \in Pumps |-> Shown(pump[q])]' = [q \in Pumps |-> Shown(pump[q])]
      BY <1>0, <2>3, <2>4
    <2>6. QED
      BY <2>0, <2>1, <2>5, ReleaseConfirms
  <1>2. ASSUME NEW o \in pump[p].from .. pump[p].offset, Ack(p, o) PROVE Log!Confirm \/ UNCHANGED Log!logVars
    <2>1. pump[p].from \in Nat /\ pump[p].offset \in Nat /\ pump[p].offset <= EndOffset(ring)
      BY <1>0, <1>2, Zenon DEF Behind, PumpType, Ack
    <2>2. o \in Nat /\ o <= EndOffset(ring) /\ ring' = SetReleased(ring, o) /\ pump' = pump
      BY <1>0, <1>2, <2>1 DEF Ack
    <2>3. QED
      BY <2>2, ReleaseConfirms
  <1>3. QED
    BY <1>1, <1>2

\* A reader of the log that begins at an offset.
LEMMA ReaderFrom ==
  ASSUME NEW f, NEW g, NEW x
  PROVE  [[from |-> f, got |-> g, done |-> FALSE] EXCEPT !.from = x] = [from |-> x, got |-> g, done |-> FALSE]
  <1>1. \A d : [[from |-> f, got |-> g, done |-> d] EXCEPT !.from = x] = [from |-> x, got |-> g, done |-> d]
    OBVIOUS
  <1>2. QED
    BY <1>1, Zenon

\* A reader of the log that received more.
LEMMA ReaderGot ==
  ASSUME NEW f, NEW g, NEW x
  PROVE  [[from |-> f, got |-> g, done |-> FALSE] EXCEPT !.got = x] = [from |-> f, got |-> x, done |-> FALSE]
  <1>1. \A d : [[from |-> f, got |-> g, done |-> d] EXCEPT !.got = x] = [from |-> f, got |-> x, done |-> d]
    OBVIOUS
  <1>2. QED
    BY <1>1, Zenon

\* A reader of the log that is told the end.
LEMMA ReaderDone ==
  ASSUME NEW f, NEW g
  PROVE  [[from |-> f, got |-> g, done |-> FALSE] EXCEPT !.done = TRUE] = [from |-> f, got |-> g, done |-> TRUE]
  <1>1. \A d, t : [[from |-> f, got |-> g, done |-> d] EXCEPT !.done = t] = [from |-> f, got |-> g, done |-> t]
    OBVIOUS
  <1>2. QED
    BY <1>1, Zenon

\* A step of one pump is a step of that reader: the other readers show what
\* they showed.
LEMMA OneReader ==
  ASSUME pump \in [Pumps -> PumpType], NEW p \in Pumps, NEW v, pump' = [pump EXCEPT ![p] = v]
  PROVE  [q \in Pumps |-> Shown(pump[q])]' = [[q \in Pumps |-> Shown(pump[q])] EXCEPT ![p] = Shown(v)]
  BY Zenon

\* A pump that starts tailing begins at a retained offset (attachManagedCommand).
LEMMA StartBegins ==
  ASSUME RingInv, Behind, NEW p \in Pumps, AttachStart(p)
  PROVE  Log!Begin(p)
  <1>1. RingOK(ring) /\ pump \in [Pumps -> PumpType] /\ pump[p] \in PumpType
    BY DEF RingInv
  <1>2. PICK s \in Nat, e \in Nat, o \in Nat :
          s = ring.start /\ e = EndOffset(ring) /\ o = pump[p].offset /\ s <= e /\ o <= e
    BY <1>1, LogState, Zenon DEF Behind, AttachStart, PumpType
  <1>3. PICK from \in s .. e : from = MaxOf(pump[p].offset, ring.start)
    BY <1>2
  <1>4. PICK v : v = [pc |-> "tail", from |-> from, offset |-> from, got |-> <<>>]
    BY Zenon
  <1>5. pump' = [pump EXCEPT ![p] = v] /\ ring' = ring
    BY <1>3, <1>4 DEF AttachStart
  <1>6. Shown(v) = [[from |-> 0, got |-> <<>>, done |-> FALSE] EXCEPT !.from = from]
    <2>1. v.pc = "tail" /\ v.from = from /\ v.got = <<>>
      BY <1>4
    <2>2. Shown(v) = [from |-> from, got |-> <<>>, done |-> FALSE]
      BY <2>1, Zenon DEF Shown
    <2>3. QED
      BY <2>2, ReaderFrom
  <1>7. [q \in Pumps |-> Shown(pump[q])]'
          = [[q \in Pumps |-> Shown(pump[q])] EXCEPT ![p] = [[from |-> 0, got |-> <<>>, done |-> FALSE] EXCEPT !.from = from]]
    BY <1>1, <1>5, <1>6, OneReader, Zenon
  <1>8. Len(Bytes(0, ring.start) \o ring.buf) = e
    BY <1>1, <1>2, LogState, Zenon
  <1>9. from \in ring.start .. Len(Bytes(0, ring.start) \o ring.buf)
    BY <1>2, <1>8, Zenon
  <1>10. QED
    BY <1>5, <1>7, <1>9, Zenon DEF Log!Begin, Log!NoView, Shown

\* What an attached pump shows, and where it stands in the log.
LEMMA ReaderPosition ==
  ASSUME RingInv, NEW p \in Pumps, pump[p].pc \in {"tail", "parked"}
  PROVE  /\ Shown(pump[p]) = [from |-> pump[p].from, got |-> pump[p].got, done |-> FALSE]
         /\ Log!Position([q \in Pumps |-> Shown(pump[q])][p]) = pump[p].offset
         /\ pump[p].from \in Nat /\ pump[p].offset \in Nat
  <1>1. pump[p] \in PumpType /\ PumpOK(ring, pump[p])
    BY DEF RingInv
  <1>2. PICK f \in Nat, o \in Nat : f = pump[p].from /\ o = pump[p].offset /\ f <= o /\ pump[p].got = Bytes(f, o)
    BY <1>1 DEF PumpType, PumpOK, Attached
  <1>3. Len(pump[p].got) = o - f
    <2>1. Len(Bytes(f, o)) = o - f
      BY <1>2, BytesType, Zenon
    <2>2. QED
      BY <1>2, <2>1
  <1>4. Shown(pump[p]) = [from |-> pump[p].from, got |-> pump[p].got, done |-> FALSE]
    BY Zenon DEF Shown
  <1>5. f + Len(pump[p].got) = o
    BY <1>3
  <1>6. QED
    BY <1>2, <1>4, <1>5 DEF Log!Position

\* A pump sends the retained bytes that follow what it sent, or ends its
\* stream without sending any (tailManagedCommandOutput, ReadAt).
LEMMA DataDelivers ==
  ASSUME RingInv, NEW p \in Pumps, PumpData(p)
  PROVE  Log!Deliver(p) \/ UNCHANGED Log!logVars
  <1>1. RingOK(ring) /\ pump \in [Pumps -> PumpType] /\ pump[p] \in PumpType /\ pump[p].pc = "tail" /\ ring' = ring
    BY DEF RingInv, PumpData
  <1>2. PICK s \in Nat, e \in Nat, o \in Nat : s = ring.start /\ e = EndOffset(ring) /\ o = pump[p].offset
    BY <1>1, RingOffsets DEF PumpType
  <1>3. CASE GotOffset(ring, pump[p].offset) # pump[p].offset
    <2>1. PICK v : v = [pump[p] EXCEPT !.pc = "outrun"]
      BY Zenon
    <2>2. pump' = [pump EXCEPT ![p] = v]
      BY <1>1, <1>3, <2>1 DEF PumpData
    <2>3. Shown(v) = Shown(pump[p])
      BY <1>1, <2>1 DEF Shown, PumpType
    <2>4. [q \in Pumps |-> Shown(pump[q])]' = [q \in Pumps |-> Shown(pump[q])]
      BY <1>1, <2>2, <2>3
    <2>5. QED
      BY <1>1, <2>4 DEF Log!logVars, Shown
  <1>4. CASE GotOffset(ring, pump[p].offset) = pump[p].offset
    <2>1. s <= o /\ o < e
      BY <1>2, <1>4 DEF PumpData, HasData, GotOffset
    <2>2. PICK g : g = pump[p].got \o DataAt(ring, pump[p].offset)
      BY Zenon
    <2>3. PICK v : v = [pump[p] EXCEPT !.offset = e, !.got = g]
      OBVIOUS
    <2>4. pump' = [pump EXCEPT ![p] = v]
      BY <1>1, <1>2, <1>4, <2>2, <2>3, Zenon DEF PumpData
    <2>5. Shown(v) = [from |-> pump[p].from, got |-> g, done |-> FALSE]
      BY <1>1, <2>3, Zenon DEF Shown, PumpType
    <2>6. DataAt(ring, pump[p].offset) = Bytes(o, e)
      <3>1. PICK k \in Nat : k = o - s
        BY <2>1
      <3>2. s + k = o /\ s + k <= e
        BY <2>1, <3>1
      <3>3. DropFirst(Bytes(s, e), k) = Bytes(o, e)
        BY <3>2, DropBytes
      <3>4. ring.buf = Bytes(s, e)
        BY <1>1, <1>2, RingOffsets
      <3>5. QED
        BY <1>2, <1>4, <3>1, <3>3, <3>4 DEF DataAt
    <2>7. SubSeq(Bytes(0, ring.start) \o ring.buf, o + 1, e) = Bytes(o, e) /\ Len(Bytes(0, ring.start) \o ring.buf) = e
      <3>1. Bytes(0, ring.start) \o ring.buf = Bytes(0, e) /\ Len(Bytes(0, e)) = e
        BY <1>1, <1>2, LogState, Zenon
      <3>2. SubSeq(Bytes(0, e), o + 1, e) = Bytes(o, e)
        BY <2>1, PieceOfStream
      <3>3. QED
        BY <3>1, <3>2, Zenon
    <2> DEFINE V == [q \in Pumps |-> Shown(pump[q])]
    <2>8. /\ Log!Position(V[p]) = o
          /\ V[p] = [from |-> pump[p].from, got |-> pump[p].got, done |-> FALSE]
      BY <1>1, <1>2, ReaderPosition
    <2>9. [V EXCEPT ![p].got = @ \o SubSeq(Bytes(0, ring.start) \o ring.buf, Log!Position(V[p]) + 1, e)]
            = [V EXCEPT ![p] = Shown(v)]
      <3>1. SubSeq(Bytes(0, ring.start) \o ring.buf, Log!Position(V[p]) + 1, e) = DataAt(ring, pump[p].offset)
        BY <2>6, <2>7, <2>8, Zenon
      <3>2. [V[p] EXCEPT !.got = @ \o DataAt(ring, pump[p].offset)] = Shown(v)
        <4> HIDE DEF V
        <4>1. PICK x, y : x = pump[p].got /\ y = pump[p].from
          OBVIOUS
        <4>2. V[p] = [from |-> y, got |-> x, done |-> FALSE] /\ g = x \o DataAt(ring, pump[p].offset)
          BY <2>2, <2>8, <4>1
        <4>3. [V[p] EXCEPT !.got = g] = [from |-> y, got |-> g, done |-> FALSE]
          <5>1. [[from |-> y, got |-> x, done |-> FALSE] EXCEPT !.got = g] = [from |-> y, got |-> g, done |-> FALSE]
            BY ReaderGot
          <5>2. V[p] = [from |-> y, got |-> x, done |-> FALSE]
            BY <4>2
          <5>3. QED
            BY <5>1, <5>2, Zenon
        <4>4. V[p].got = x
          BY <4>2
        <4>5. QED
          BY <2>5, <4>1, <4>2, <4>3, <4>4
      <3> HIDE DEF V
      <3>3. QED
        BY <3>1, <3>2, Zenon
    <2>10. V' = [V EXCEPT ![p].got = @ \o SubSeq(Bytes(0, ring.start) \o ring.buf, Log!Position(V[p]) + 1, e)]
      BY <1>1, <2>4, <2>9, OneReader, Zenon
    <2>11. /\ ring.start <= Log!Position(V[p])
           /\ e \in Log!Position(V[p]) + 1 .. Len(Bytes(0, ring.start) \o ring.buf)
      <3> HIDE DEF V
      <3>1. o \in o .. e /\ e \in o + 1 .. e
        BY <2>1
      <3>2. QED
        BY <1>2, <2>1, <2>7, <2>8, <3>1, Zenon
    <2>12. QED
      BY <1>1, <2>10, <2>11, Zenon DEF Log!Deliver, Shown
  <1>5. QED
    BY <1>3, <1>4

\* A pump reports the end of the stream when its reader has the whole sealed log.
LEMMA EOFFinishes ==
  ASSUME RingInv, Behind, NEW p \in Pumps, PumpEOF(p)
  PROVE  Log!Finish(p)
  <1>1. RingOK(ring) /\ pump \in [Pumps -> PumpType] /\ pump[p] \in PumpType /\ pump[p].pc = "tail"
        /\ ring' = ring /\ ring.closed
    BY DEF RingInv, PumpEOF
  <1>2. PICK s \in Nat, e \in Nat, o \in Nat : s = ring.start /\ e = EndOffset(ring) /\ o = pump[p].offset
    BY <1>1, RingOffsets DEF PumpType
  <1>3. o = e
    <2>1. o <= e /\ (s < e \/ e = 0) /\ ~(MaxOf(o, s) < e)
      BY <1>1, <1>2 DEF Behind, RingInv, PumpEOF, HasData, GotOffset
    <2>2. QED
      BY <2>1
  <1>4. PICK v : v = [pump[p] EXCEPT !.pc = "eof"]
    BY Zenon
  <1>5. pump' = [pump EXCEPT ![p] = v]
    BY <1>1, <1>4 DEF PumpEOF
  <1>6. Shown(v) = [from |-> pump[p].from, got |-> pump[p].got, done |-> TRUE]
    BY <1>1, <1>4, Zenon DEF Shown, PumpType
  <1> DEFINE V == [q \in Pumps |-> Shown(pump[q])]
  <1>7. /\ Log!Position(V[p]) = o
        /\ V[p] = [from |-> pump[p].from, got |-> pump[p].got, done |-> FALSE]
    BY <1>1, <1>2, ReaderPosition
  <1>8. V' = [V EXCEPT ![p].done = TRUE]
    <2>1. V' = [V EXCEPT ![p] = Shown(v)]
      BY <1>1, <1>5, OneReader, Zenon
    <2>2. [V[p] EXCEPT !.done = TRUE] = Shown(v)
      <3> HIDE DEF V
      <3>1. QED
        BY <1>6, <1>7, ReaderDone
    <2> HIDE DEF V
    <2>3. QED
      BY <2>1, <2>2, Zenon
  <1>9. Len(Bytes(0, ring.start) \o ring.buf) = e
    BY <1>1, <1>2, LogState, Zenon
  <1>10. Log!Position(V[p]) = Len(Bytes(0, ring.start) \o ring.buf)
    BY <1>3, <1>7, <1>9, Zenon
  <1>11. QED
    BY <1>1, <1>8, <1>10, Zenon DEF Log!Finish, Shown

\* A canceled read leaves the log (errOutputRingReadCanceled), and parking
\* shows nothing.
LEMMA CancelLeaves ==
  ASSUME RingInv, NEW p \in Pumps, PumpCancel(p) \/ PumpPark(p)
  PROVE  Log!Leave(p) \/ UNCHANGED Log!logVars
  <1>1. pump \in [Pumps -> PumpType] /\ pump[p] \in PumpType /\ ring' = ring
    BY DEF RingInv, PumpCancel, PumpPark
  <1>2. CASE PumpCancel(p)
    <2>1. pump' = [pump EXCEPT ![p] = Idle]
      BY <1>2 DEF PumpCancel
    <2>2. Shown(Idle) = [from |-> 0, got |-> <<>>, done |-> FALSE]
      BY DEF Shown, Idle
    <2>3. [q \in Pumps |-> Shown(pump[q])]'
            = [[q \in Pumps |-> Shown(pump[q])] EXCEPT ![p] = [from |-> 0, got |-> <<>>, done |-> FALSE]]
      BY <1>1, <2>1, <2>2, OneReader, Zenon
    <2>4. QED
      BY <1>1, <2>3 DEF Log!Leave, Log!NoView, Shown
  <1>3. CASE PumpPark(p)
    <2>1. PICK v : v = [pump[p] EXCEPT !.pc = "parked"]
      BY Zenon
    <2>2. pump' = [pump EXCEPT ![p] = v] /\ pump[p].pc = "tail"
      BY <1>1, <1>3, <2>1 DEF PumpPark
    <2>3. Shown(v) = Shown(pump[p])
      BY <1>1, <2>1, <2>2 DEF Shown, PumpType
    <2>4. [q \in Pumps |-> Shown(pump[q])]' = [q \in Pumps |-> Shown(pump[q])]
      BY <1>1, <2>2, <2>3
    <2>5. QED
      BY <1>1, <2>4 DEF Log!logVars, Shown
  <1>4. QED
    BY <1>2, <1>3

\* A new ring is an empty, open log without readers.
LEMMA InitIsLog == Init => Log!Init /\ Behind
  <1> SUFFICES ASSUME Init PROVE Log!Init /\ Behind
    OBVIOUS
  <1>1. RingInv
    BY InitRingInv
  <1>2. PICK l \in BOOLEAN : ring = [buf |-> <<>>, start |-> 0, lossless |-> l,
                                     released |-> 0, closed |-> FALSE]
    BY DEF Init, NewOutputRing
  <1>3. ring.start = 0 /\ ring.released = 0 /\ ring.closed = FALSE /\ ring.lossless \in BOOLEAN
        /\ EndOffset(ring) = 0
    BY <1>2 DEF EndOffset
  <1>4. Bytes(0, 0) = <<>>
    BY DEF Bytes
  <1>5. Bytes(0, ring.start) \o ring.buf = <<>>
    BY <1>1, <1>3, <1>4, LogState, Zenon DEF RingInv
  <1>6. pump = [p \in Pumps |-> Idle]
    BY DEF Init
  <1>7. QED
    BY <1>3, <1>5, <1>6 DEF Log!Init, Log!NoView, Idle, Behind

\* Every step of the ring, its drain goroutine and its pumps is a step of the
\* log or shows nothing of itself.
LEMMA StepIsLog ==
  ASSUME RingInv, RingInv', Behind, [Next]_vars
  PROVE  [Log!Next]_Log!logVars
  <1>1. CASE UNCHANGED <<ring, pump>>
    BY <1>1 DEF Log!logVars
  <1>2. CASE WriteEvict \/ WriteKeep
    BY <1>2, WriteExtends DEF Log!Next
  <1>3. CASE DrainEOF \/ Close
    BY <1>3, CloseSeals DEF Log!Next
  <1>4. ASSUME NEW p \in Pumps,
               \/ \E o \in 0 .. EndOffset(ring) : Attach(p, o)
               \/ \E o \in pump[p].from .. pump[p].offset : Ack(p, o)
        PROVE  [Log!Next]_Log!logVars
    BY <1>4, AttachAckConfirms DEF Log!Next
  <1>5. ASSUME NEW p \in Pumps, AttachStart(p) PROVE [Log!Next]_Log!logVars
    BY <1>5, StartBegins DEF Log!Next
  <1>6. ASSUME NEW p \in Pumps, PumpData(p) PROVE [Log!Next]_Log!logVars
    BY <1>6, DataDelivers DEF Log!Next
  <1>7. ASSUME NEW p \in Pumps, PumpEOF(p) PROVE [Log!Next]_Log!logVars
    BY <1>7, EOFFinishes DEF Log!Next
  <1>8. ASSUME NEW p \in Pumps, PumpCancel(p) \/ PumpPark(p) PROVE [Log!Next]_Log!logVars
    BY <1>8, CancelLeaves DEF Log!Next
  <1>9. CASE (\E n \in 1 .. MaxChunk : DrainRead(n)) \/ WriteRefused \/ WritePark \/ UNCHANGED vars
    BY <1>1, <1>9 DEF DrainRead, WriteRefused, WritePark, vars
  <1>10. QED
    BY <1>2, <1>3, <1>4, <1>5, <1>6, <1>7, <1>8, <1>9 DEF Next

\* The ring, its drain goroutine and its pumps implement the append-only log:
\* whatever the capacity, the chunk size and the number of readers, every
\* reader sees a contiguous piece of what the command wrote from a retained
\* offset on, is told the end only at the end, and a lossless ring gives up
\* only what was confirmed (outputRing, drainIntoRing, tailManagedCommandOutput).
THEOREM RingImplementsLog == Spec => ImplementsLog
  <1>1. RingInv /\ Behind /\ [Next]_vars => Behind'
    BY BehindKept
  <1>2. Spec => []Behind
    BY <1>1, InitIsLog, RingInvariance, PTL DEF Spec
  <1>3. RingInv /\ RingInv' /\ Behind /\ [Next]_vars => [Log!Next]_Log!logVars
    BY StepIsLog
  <1>4. QED
    BY <1>2, <1>3, InitIsLog, RingInvariance, PTL DEF Spec, ImplementsLog, Log!Spec
===============================================================================
