------------------------------ MODULE RingBuffer ------------------------------
(***************************************************************************)
(* The operations of outputRing (pkg/output_ring.go) as functions of the    *)
(* ring's state.  A byte is represented by its position in the command's    *)
(* output stream, so a chunk of output is a sequence of positions and "the  *)
(* right bytes at the right offset" is something an invariant can state.    *)
(***************************************************************************)
EXTENDS Integers, Sequences

CONSTANT Capacity   \* outputRing.capacity

ASSUME CapacityAssumption == Capacity \in Nat \ {0}

MinOf(a, b) == IF a <= b THEN a ELSE b
MaxOf(a, b) == IF a >= b THEN a ELSE b

TakeFirst(s, k) == SubSeq(s, 1, k)
DropFirst(s, k) == SubSeq(s, k + 1, Len(s))

\* The bytes at stream positions lo .. hi-1.
Bytes(lo, hi) == [i \in 1 .. (hi - lo) |-> lo + i - 1]

NewOutputRing(lossless) ==
  [buf |-> <<>>, start |-> 0, lossless |-> lossless, released |-> 0, closed |-> FALSE]

EndOffset(r) == r.start + Len(r.buf)

SetReleased(r, offset) ==
  IF offset <= r.released THEN r ELSE [r EXCEPT !.released = offset]

CloseRing(r) == [r EXCEPT !.closed = TRUE]

WriteEvicting(r, p) ==
  IF Len(p) >= Capacity
  THEN [r EXCEPT !.start = @ + Len(r.buf) + (Len(p) - Capacity),
                 !.buf = DropFirst(p, Len(p) - Capacity)]
  ELSE LET over == MaxOf(Len(r.buf) + Len(p) - Capacity, 0)
       IN  [r EXCEPT !.start = @ + over,
                     !.buf = DropFirst(r.buf \o p, over)]

\* Confirmed bytes a lossless write may push out.
Evictable(r) ==
  IF r.released > r.start THEN MinOf(r.released - r.start, Len(r.buf)) ELSE 0

\* Mutant: everything retained may be pushed out.
SpaceIgnoresReleased(r) == Capacity

Space(r) == (Capacity - Len(r.buf)) + Evictable(r)

\* How much of the rest one turn of the writeLossless loop accepts.
Accepted(r, rest) == MinOf(Space(r), Len(rest))

WriteLossless(r, rest) ==
  LET n == Accepted(r, rest)
      over == MaxOf(Len(r.buf) + n - Capacity, 0)
  IN  [r EXCEPT !.start = @ + over,
                !.buf = DropFirst(r.buf, over) \o TakeFirst(rest, n)]

\* Where ReadAt(offset) starts reading, and what it returns from there.
GotOffset(r, offset) == MaxOf(offset, r.start)
HasData(r, offset) == GotOffset(r, offset) < EndOffset(r)
\* Mutant: ReadAt slices from the wrong end of the retained window.
DataAtFromStart(r, offset) == r.buf

DataAt(r, offset) == DropFirst(r.buf, GotOffset(r, offset) - r.start)
===============================================================================
