--------------------------- MODULE RingBufferProofs ---------------------------
(***************************************************************************)
(* What the operations of outputRing do to a ring that holds a window of    *)
(* the stream, for every capacity: facts for the proofs about the modules   *)
(* that use the ring.                                                       *)
(***************************************************************************)
EXTENDS RingBuffer, TLAPS

USE DEF MinOf, MaxOf

\* Sequences of the same length with the same elements are the same, whatever
\* the chunks of a ring's buffer are.
LEMMA SameSequence ==
  ASSUME NEW S, NEW p \in Seq(S), NEW q \in Seq(S), Len(p) = Len(q), \A i \in 1 .. Len(p) : p[i] = q[i]
  PROVE  p = q
  OBVIOUS

\* A sequence without elements is the empty one, as an empty buffer is.
LEMMA EmptySequence ==
  ASSUME NEW S, NEW q \in Seq(S), Len(q) = 0
  PROVE  q = <<>>
  OBVIOUS

\* What appending one chunk to another gives (append in outputRing's writes).
LEMMA JoinedSequence ==
  ASSUME NEW S, NEW p \in Seq(S), NEW q \in Seq(S)
  PROVE  /\ p \o q \in Seq(S)
         /\ Len(p \o q) = Len(p) + Len(q)
         /\ \A i \in 1 .. Len(p) + Len(q) : (p \o q)[i] = IF i <= Len(p) THEN p[i] ELSE q[i - Len(p)]
  OBVIOUS

\* A run of stream positions is a sequence of naturals of the obvious length.
LEMMA BytesType ==
  ASSUME NEW a \in Nat, NEW b \in Nat, a <= b
  PROVE  /\ Bytes(a, b) \in Seq(Nat)
         /\ Len(Bytes(a, b)) = b - a
         /\ \A i \in 1 .. (b - a) : Bytes(a, b)[i] = a + i - 1
  BY DEF Bytes

\* Dropping a prefix of a run of stream positions leaves the later run.
LEMMA DropBytes ==
  ASSUME NEW a \in Nat, NEW b \in Nat, NEW k \in Nat, a + k <= b
  PROVE  DropFirst(Bytes(a, b), k) = Bytes(a + k, b)
  <1>1. /\ Len(Bytes(a, b)) = b - a
        /\ \A i \in 1 .. (b - a) : Bytes(a, b)[i] = a + i - 1
        /\ Bytes(a, b) \in Seq(Nat)
    BY BytesType
  <1>2. DropFirst(Bytes(a, b), k) = [i \in 1 .. (b - a) - k |-> Bytes(a, b)[k + i]]
    BY <1>1 DEF DropFirst
  <1>3. QED
    BY <1>1, <1>2 DEF Bytes

\* Taking a prefix of a run of stream positions.
LEMMA TakeBytes ==
  ASSUME NEW a \in Nat, NEW b \in Nat, NEW k \in Nat, a + k <= b
  PROVE  TakeFirst(Bytes(a, b), k) = Bytes(a, a + k)
  <1>1. /\ Len(Bytes(a, b)) = b - a
        /\ \A i \in 1 .. (b - a) : Bytes(a, b)[i] = a + i - 1
        /\ Bytes(a, b) \in Seq(Nat)
    BY BytesType
  <1>2. TakeFirst(Bytes(a, b), k) = [i \in 1 .. k |-> Bytes(a, b)[i]]
    BY <1>1 DEF TakeFirst
  <1>3. \A i \in 1 .. k : Bytes(a, b)[i] = a + i - 1
    BY <1>1
  <1>4. (a + k) - a = k
    OBVIOUS
  <1>5. QED
    BY <1>2, <1>3, <1>4, Zenon DEF Bytes

\* Adjacent runs of stream positions join.
LEMMA JoinBytes ==
  ASSUME NEW a \in Nat, NEW b \in Nat, NEW c \in Nat, a <= b, b <= c
  PROVE  Bytes(a, b) \o Bytes(b, c) = Bytes(a, c)
  <1>1. /\ Len(Bytes(a, b)) = b - a /\ Len(Bytes(b, c)) = c - b
        /\ Bytes(a, b) \in Seq(Nat) /\ Bytes(b, c) \in Seq(Nat)
        /\ \A i \in 1 .. (b - a) : Bytes(a, b)[i] = a + i - 1
        /\ \A i \in 1 .. (c - b) : Bytes(b, c)[i] = b + i - 1
    BY BytesType, Zenon
  <1>2. Bytes(a, c) \in Seq(Nat) /\ Len(Bytes(a, c)) = c - a
        /\ \A i \in 1 .. (c - a) : Bytes(a, c)[i] = a + i - 1
    BY BytesType
  <1> DEFINE s == Bytes(a, b) \o Bytes(b, c)
  <1>3. /\ s \in Seq(Nat)
        /\ Len(s) = Len(Bytes(a, b)) + Len(Bytes(b, c))
        /\ \A i \in 1 .. Len(Bytes(a, b)) + Len(Bytes(b, c)) :
             s[i] = IF i <= Len(Bytes(a, b)) THEN Bytes(a, b)[i]
                    ELSE Bytes(b, c)[i - Len(Bytes(a, b))]
    BY <1>1, JoinedSequence, Zenon
  <1> HIDE DEF s
  <1>4. Len(s) = Len(Bytes(a, c))
    BY <1>1, <1>2, <1>3
  <1>5. ASSUME NEW i \in 1 .. Len(s) PROVE s[i] = Bytes(a, c)[i]
    <2>1. i \in 1 .. (c - a) /\ Bytes(a, c)[i] = a + i - 1
      BY <1>2, <1>4
    <2>2. CASE i <= b - a
      BY <2>1, <2>2, <1>1, <1>3
    <2>3. CASE i > b - a
      <3>1. i - (b - a) \in 1 .. (c - b)
        BY <2>1, <2>3
      <3>2. Bytes(b, c)[i - (b - a)] = b + (i - (b - a)) - 1
        BY <3>1, <1>1
      <3>3. s[i] = Bytes(b, c)[i - (b - a)]
        BY <2>1, <2>3, <1>1, <1>3
      <3>4. QED
        BY <2>1, <3>2, <3>3
    <2>4. QED
      BY <2>1, <2>2, <2>3
  <1>7. s = Bytes(a, c)
    BY <1>2, <1>3, <1>4, <1>5, SameSequence
  <1>8. QED
    BY <1>7 DEF s

-----------------------------------------------------------------------------
(* The two ways of writing to the ring.                                      *)

RingType ==
  [buf : Seq(Nat), start : Nat, lossless : BOOLEAN, released : Nat, closed : BOOLEAN]

\* A ring that holds exactly the stream's bytes from its start offset on.
RingOK(r) ==
  /\ r \in RingType
  /\ Len(r.buf) <= Capacity
  /\ r.buf = Bytes(r.start, EndOffset(r))

\* What RingOK says of a ring's offsets.
LEMMA RingOffsets ==
  ASSUME NEW r, RingOK(r)
  PROVE  /\ r \in RingType /\ r.start \in Nat /\ r.released \in Nat /\ Len(r.buf) \in Nat
         /\ EndOffset(r) \in Nat /\ EndOffset(r) = r.start + Len(r.buf)
         /\ Len(r.buf) <= Capacity /\ r.buf = Bytes(r.start, EndOffset(r))
  BY DEF RingOK, RingType, EndOffset

\* A ring that holds a run of the stream no longer than its capacity is well formed.
LEMMA WindowOK ==
  ASSUME NEW w \in RingType, NEW f \in Nat, w.start <= f, f - w.start <= Capacity,
         w.buf = Bytes(w.start, f)
  PROVE  RingOK(w) /\ EndOffset(w) = f
  <1>1. w.start \in Nat
    BY DEF RingType
  <1>2. Len(w.buf) = f - w.start
    BY <1>1, BytesType, Zenon
  <1>3. EndOffset(w) = f
    BY <1>1, <1>2 DEF EndOffset
  <1>4. QED
    BY <1>1, <1>2, <1>3 DEF RingOK

\* A lossy write appends the chunk to the stream and keeps the newest bytes.
LEMMA WriteEvictingCorrect ==
  ASSUME NEW r, RingOK(r), NEW e \in Nat, e = EndOffset(r), NEW f \in Nat, e < f,
         NEW p, p = Bytes(e, f), NEW w, w = WriteEvicting(r, p)
  PROVE  /\ RingOK(w)
         /\ EndOffset(w) = f
         /\ w.start < f
         /\ w.start >= r.start
         /\ w.lossless = r.lossless /\ w.released = r.released /\ w.closed = r.closed
  <1> PICK s \in Nat : s = r.start
    BY RingOffsets
  <1>1. PICK b \in Nat : b = Len(r.buf)
    BY RingOffsets
  <1>2. r.buf = Bytes(s, e)
    BY RingOffsets
  <1>0. r \in RingType
    BY RingOffsets
  <1>3. Capacity \in Nat /\ Capacity > 0 /\ b <= Capacity /\ e = s + b
    BY <1>1, CapacityAssumption, RingOffsets
  <1>4. p \in Seq(Nat) /\ Len(p) = f - e
    <2>1. e <= f
      OBVIOUS
    <2>2. QED
      BY <2>1, BytesType, Zenon
  <1>5. CASE f - e >= Capacity
    <2>1. PICK k \in Nat : k = (f - e) - Capacity
      BY <1>3, <1>5
    <2>2. PICK g \in Nat : g = e + k
      OBVIOUS
    <2>3. g < f /\ g <= f /\ f - g <= Capacity /\ g >= s /\ g = s + b + k
      BY <1>3, <2>1, <2>2
    <2>4. DropFirst(p, k) = Bytes(g, f)
      BY <2>2, <2>3, DropBytes
    <2>5. w = [r EXCEPT !.start = s + b + k, !.buf = DropFirst(p, k)]
      BY <1>1, <1>4, <1>5, <2>1 DEF WriteEvicting
    <2>6. w = [r EXCEPT !.start = g, !.buf = Bytes(g, f)]
      BY <2>3, <2>4, <2>5
    <2>7. /\ w \in RingType /\ w.start = g /\ w.buf = Bytes(g, f)
          /\ w.lossless = r.lossless /\ w.released = r.released /\ w.closed = r.closed
      <3>1. Bytes(g, f) \in Seq(Nat)
        BY <2>3, BytesType, Zenon
      <3>2. QED
        BY <1>0, <2>6, <3>1, Zenon DEF RingType
    <2>8. RingOK(w) /\ EndOffset(w) = f
      BY <2>3, <2>7, WindowOK
    <2>9. QED
      BY <2>3, <2>7, <2>8
  <1>6. CASE f - e < Capacity
    <2>1. PICK k \in Nat : k = IF b + (f - e) - Capacity >= 0 THEN b + (f - e) - Capacity ELSE 0
      BY <1>3
    <2>2. PICK g \in Nat : g = s + k
      OBVIOUS
    <2>3. s <= e /\ e <= f /\ g < f /\ g <= f /\ f - g <= Capacity /\ g >= s
      BY <1>3, <1>6, <2>1, <2>2
    <2>4. r.buf \o p = Bytes(s, f)
      <3>1. Bytes(s, e) \o Bytes(e, f) = Bytes(s, f)
        BY <2>3, JoinBytes, ZenonT(40)
      <3>2. QED
        BY <1>2, <3>1, Zenon
    <2>5. DropFirst(r.buf \o p, k) = Bytes(g, f)
      BY <2>2, <2>3, <2>4, DropBytes
    <2>6. w = [r EXCEPT !.start = s + k, !.buf = DropFirst(r.buf \o p, k)]
      <3>1. ~(Len(p) >= Capacity) /\ MaxOf(Len(r.buf) + Len(p) - Capacity, 0) = k
        <4>1. ~(f - e >= Capacity) /\ MaxOf(b + (f - e) - Capacity, 0) = k
          BY <1>3, <1>6, <2>1
        <4>2. QED
          BY <1>1, <1>4, <4>1, Zenon
      <3>2. QED
        BY <3>1, Zenon DEF WriteEvicting
    <2>7. w = [r EXCEPT !.start = g, !.buf = Bytes(g, f)]
      BY <2>2, <2>5, <2>6
    <2>8. /\ w \in RingType /\ w.start = g /\ w.buf = Bytes(g, f)
          /\ w.lossless = r.lossless /\ w.released = r.released /\ w.closed = r.closed
      <3>1. Bytes(g, f) \in Seq(Nat)
        BY <2>3, BytesType
      <3>2. QED
        BY <1>0, <2>7, <3>1, ZenonT(40) DEF RingType
    <2>9. RingOK(w) /\ EndOffset(w) = f
      BY <2>3, <2>8, WindowOK
    <2>10. QED
      BY <2>3, <2>8, <2>9
  <1>7. QED
    BY <1>3, <1>5, <1>6

\* A lossless write accepts a prefix of the rest, keeps the order and gives up
\* confirmed bytes only.
LEMMA WriteLosslessCorrect ==
  ASSUME NEW r, RingOK(r), Space(r) > 0,
         NEW e \in Nat, e = EndOffset(r), NEW f \in Nat, e < f,
         NEW rest, rest = Bytes(e, f), NEW w, w = WriteLossless(r, rest)
  PROVE  /\ Accepted(r, rest) \in 1 .. (f - e)
         /\ RingOK(w)
         /\ EndOffset(w) = e + Accepted(r, rest)
         /\ w.start < EndOffset(w)
         /\ w.start >= r.start
         /\ w.start <= r.start \/ w.start <= r.released
         /\ w.lossless = r.lossless /\ w.released = r.released /\ w.closed = r.closed
         /\ DropFirst(rest, Accepted(r, rest)) = Bytes(e + Accepted(r, rest), f)
  <1> PICK a : a = Accepted(r, rest)
    OBVIOUS
  <1> PICK s \in Nat, c \in Nat : s = r.start /\ c = r.released
    BY RingOffsets
  <1>1. PICK b \in Nat : b = Len(r.buf)
    BY RingOffsets
  <1>2. r.buf = Bytes(s, e)
    BY RingOffsets
  <1>0. r \in RingType
    BY RingOffsets
  <1>3. Capacity \in Nat /\ Capacity > 0 /\ b <= Capacity /\ e = s + b
    BY <1>1, CapacityAssumption, RingOffsets
  <1>4. rest \in Seq(Nat) /\ Len(rest) = f - e
    <2>1. e <= f
      OBVIOUS
    <2>2. QED
      BY <2>1, BytesType, Zenon
  <1>5. PICK v \in Nat : v = IF c > s THEN (IF c - s <= b THEN c - s ELSE b) ELSE 0
    <2>1. (IF c > s THEN (IF c - s <= b THEN c - s ELSE b) ELSE 0) \in Nat
      OBVIOUS
    <2>2. QED
      BY <2>1
  <1>6. Space(r) = (Capacity - b) + v
    <2>1. Evictable(r) = v
      BY <1>1, <1>5 DEF Evictable
    <2>2. QED
      BY <1>1, <2>1 DEF Space
  <1>7. PICK x \in Int : x = (Capacity - b) + v
    BY <1>3
  <1>8. a = IF x <= f - e THEN x ELSE f - e
    BY <1>4, <1>6, <1>7 DEF Accepted
  <1>9. PICK n \in Nat : n = a /\ n >= 1 /\ n <= f - e /\ n <= x
    <2>1. x > 0
      BY <1>6, <1>7
    <2>2. (IF x <= f - e THEN x ELSE f - e) \in Nat
      BY <2>1
    <2>3. PICK n \in Nat : n = IF x <= f - e THEN x ELSE f - e
      BY <2>2
    <2>4. n >= 1 /\ n <= f - e /\ n <= x
      BY <2>1, <2>3
    <2>5. QED
      BY <1>8, <2>3, <2>4
  <1>10. PICK k \in Nat : k = IF b + n - Capacity >= 0 THEN b + n - Capacity ELSE 0
    <2>1. (IF b + n - Capacity >= 0 THEN b + n - Capacity ELSE 0) \in Nat
      BY <1>3
    <2>2. QED
      BY <2>1
  <1>11. PICK g \in Nat, h \in Nat : g = s + k /\ h = e + n
    OBVIOUS
  <1>12. /\ g <= e /\ e <= h /\ h <= f /\ g < h /\ g <= h /\ h - g <= Capacity
         /\ g >= s /\ (g <= s \/ g <= c)
    <2>1. v <= b /\ (v = 0 \/ s + v <= c)
      BY <1>5
    <2>2. k <= v
      BY <1>3, <1>7, <1>9, <1>10
    <2>3. g >= s /\ g <= e /\ e < h /\ h <= f /\ h - g <= Capacity
      BY <1>3, <1>9, <1>10, <1>11, <2>1, <2>2
    <2>4. g <= s \/ g <= c
      BY <1>11, <2>1, <2>2
    <2>5. QED
      BY <2>3, <2>4
  <1>13. DropFirst(r.buf, k) = Bytes(g, e)
    BY <1>2, <1>11, <1>12, DropBytes
  <1>14. TakeFirst(rest, n) = Bytes(e, h)
    <2>1. e + n <= f
      BY <1>11, <1>12
    <2>2. TakeFirst(Bytes(e, f), n) = Bytes(e, e + n)
      BY <2>1, TakeBytes
    <2>3. QED
      BY <1>11, <2>2
  <1>15. DropFirst(rest, n) = Bytes(h, f)
    BY <1>11, <1>12, DropBytes
  <1>16. Bytes(g, e) \o Bytes(e, h) = Bytes(g, h)
    BY <1>12, JoinBytes, Zenon
  <1>17. w = [r EXCEPT !.start = s + k, !.buf = DropFirst(r.buf, k) \o TakeFirst(rest, n)]
    BY <1>1, <1>9, <1>10 DEF WriteLossless
  <1>18. w = [r EXCEPT !.start = g, !.buf = Bytes(g, h)]
    BY <1>11, <1>13, <1>14, <1>16, <1>17, Zenon
  <1>19. /\ w \in RingType /\ w.start = g /\ w.buf = Bytes(g, h)
         /\ w.lossless = r.lossless /\ w.released = r.released /\ w.closed = r.closed
    <2>1. Bytes(g, h) \in Seq(Nat)
      BY <1>12, BytesType
    <2>2. QED
      BY <1>0, <1>18, <2>1, Zenon DEF RingType
  <1>20. RingOK(w) /\ EndOffset(w) = h
    BY <1>12, <1>19, WindowOK
  <1>21. QED
    BY <1>9, <1>11, <1>12, <1>15, <1>19, <1>20

\* Closing a ring leaves its window and its confirmed offset alone.
LEMMA CloseRingCorrect ==
  ASSUME NEW r, RingOK(r), NEW w, w = CloseRing(r)
  PROVE  /\ RingOK(w) /\ w.closed /\ EndOffset(w) = EndOffset(r)
         /\ w.start = r.start /\ w.lossless = r.lossless /\ w.released = r.released
  <1>1. r \in RingType
    BY RingOffsets
  <1>2. /\ w \in RingType /\ w.closed = TRUE /\ w.buf = r.buf
        /\ w.start = r.start /\ w.lossless = r.lossless /\ w.released = r.released
    BY <1>1, Zenon DEF CloseRing, RingType
  <1>3. EndOffset(w) = EndOffset(r)
    BY <1>2 DEF EndOffset
  <1>4. QED
    BY <1>2, <1>3 DEF RingOK

\* Confirming output only ever raises the confirmed offset.
LEMMA SetReleasedCorrect ==
  ASSUME NEW r, RingOK(r), NEW o \in Nat, NEW w, w = SetReleased(r, o)
  PROVE  /\ RingOK(w) /\ EndOffset(w) = EndOffset(r)
         /\ w.start = r.start /\ w.lossless = r.lossless /\ w.closed = r.closed
         /\ w.released >= r.released
         /\ o <= r.released => w = r
  <1>1. r \in RingType /\ r.released \in Nat
    BY RingOffsets
  <1>2. /\ w \in RingType /\ w.closed = r.closed /\ w.buf = r.buf
        /\ w.start = r.start /\ w.lossless = r.lossless /\ w.released >= r.released
        /\ o <= r.released => w = r
    BY <1>1 DEF SetReleased, RingType
  <1>3. EndOffset(w) = EndOffset(r)
    BY <1>2 DEF EndOffset
  <1>4. QED
    BY <1>2, <1>3 DEF RingOK
===============================================================================
