------------------------------- MODULE Rsync -------------------------------
(***************************************************************************)
(* The rsync engine of the vendored mutagen: the signature of a base, the  *)
(* delta that turns a base into a target, and the application of one delta *)
(* operation.  A byte is a small natural number, a content a sequence of   *)
(* bytes.  The strong hash is injective here: it is the block itself.  The *)
(* weak hash is the code's, with a modulus small enough for collisions.    *)
(* Deltify is a loop: DeltifyRead and DeltifySend are one iteration, on    *)
(* the bytes the open file holds when they are read.  Block indices start  *)
(* at 0, as in the code.                                                   *)
(***************************************************************************)
EXTENDS Integers, Sequences, FiniteSets, SequencesExt

CONSTANTS BlockSize,    \* the block size of every non-empty base
          MaxDataOp,    \* the largest data operation
          Modulus       \* m, the modulus of the weak hash

ASSUME RsyncAssumption ==
  /\ BlockSize \in Nat \ {0}
  /\ MaxDataOp \in Nat \ {0}
  /\ Modulus \in Nat \ {0}

\* The pieces of s: pieces of n elements, the last one possibly shorter.
Pieces(s, n) ==
  [i \in 1 .. ((Len(s) + n - 1) \div n) |->
     SubSeq(s, (i - 1) * n + 1, IF i * n < Len(s) THEN i * n ELSE Len(s))]

\* The two components of the weak hash of one block.
WeakHash(data) ==
  LET r1[i \in 0 .. Len(data)] == IF i = 0 THEN 0 ELSE r1[i - 1] + data[i]
      r2[i \in 0 .. Len(data)] ==
        IF i = 0 THEN 0 ELSE r2[i - 1] + (BlockSize - (i - 1)) * data[i]
  IN << r1[Len(data)] % Modulus, r2[Len(data)] % Modulus >>

\* The hash of the search block moved one byte forward.
RollWeakHash(r, out, in) ==
  LET r1 == (r[1] - out + in) % Modulus
  IN << r1, (r[2] - BlockSize * out + r1) % Modulus >>

EmptySignature == [blockSize |-> 0, last |-> 0, hashes |-> << >>]

\* Hashes of all blocks; the last one may be short.
Signature(base) ==
  LET blocks == Pieces(base, BlockSize)
  IN IF blocks = << >>
     THEN EmptySignature
     ELSE [blockSize |-> BlockSize,
           last |-> Len(Last(blocks)),
           hashes |-> [i \in DOMAIN blocks |->
                         [weak |-> WeakHash(blocks[i]), strong |-> blocks[i]]]]

DataOp(data) == [data |-> data, start |-> 0, count |-> 0]

BlockOp(start, count) == [data |-> << >>, start |-> start, count |-> count]

(***************************************************************************)
(* The state of a running Deltify: how far the target has been read, the   *)
(* buffer, the weak hash of the block at the buffer's end, the coalesced   *)
(* run of blocks not sent yet, and the operations this iteration sends.    *)
(***************************************************************************)
DeltifyStart ==
  [at |-> 0, buffer |-> << >>, weak |-> << 0, 0 >>, start |-> 0, count |-> 0,
   out |-> << >>, eof |-> FALSE]

SendCoalesced(d) ==
  IF d.count = 0
  THEN d
  ELSE [d EXCEPT !.out = Append(@, BlockOp(d.start, d.count)),
                 !.start = 0, !.count = 0]

SendBlock(d, index) ==
  IF d.count > 0 /\ d.start + d.count = index
  THEN [d EXCEPT !.count = @ + 1]
  ELSE [SendCoalesced(d) EXCEPT !.start = index, !.count = 1]

SendData(d, data) ==
  IF data = << >>
  THEN d
  ELSE [SendCoalesced(d) EXCEPT
          !.out = @ \o [i \in DOMAIN Pieces(data, MaxDataOp) |->
                          DataOp(Pieces(data, MaxDataOp)[i])]]

\* The first k elements of the buffer, and the elements after them.
Leading(d, k) == SubSeq(d.buffer, 1, k)
Trailing(d, k) == SubSeq(d.buffer, k + 1, Len(d.buffer))

\* The block indices that may match a full block: all but a short last one.
FullBlocks(sig) ==
  0 .. (Len(sig.hashes) - (IF sig.last = sig.blockSize THEN 1 ELSE 2))

BlockMatches(sig, weak, block) ==
  {i \in FullBlocks(sig) : /\ sig.hashes[i + 1].weak = weak
                           /\ sig.hashes[i + 1].strong = block}

\* What an iteration does once the search block is at the buffer's end.
Search(d, sig) ==
  LET k == Len(d.buffer) - BlockSize
      matches == BlockMatches(sig, d.weak, Trailing(d, k))
      first == CHOOSE i \in matches : \A j \in matches : i <= j
  IN IF matches # {}
     THEN [SendBlock(SendData(d, Leading(d, k)), first) EXCEPT !.buffer = << >>]
     ELSE IF Len(d.buffer) = MaxDataOp + BlockSize
     THEN [SendData(d, Leading(d, k)) EXCEPT !.buffer = Trailing(d, k)]
     ELSE d

\* What follows the loop: the short last block, the rest, the pending run.
Finish(d, sig) ==
  LET k == Len(d.buffer) - sig.last
      short == /\ sig.last # sig.blockSize
               /\ k >= 0
               /\ WeakHash(Trailing(d, k)) = Last(sig.hashes).weak
               /\ Trailing(d, k) = Last(sig.hashes).strong
      sent == IF short
              THEN SendBlock(SendData(d, Leading(d, k)), Len(sig.hashes) - 1)
              ELSE SendData(d, d.buffer)
  IN [SendCoalesced(sent) EXCEPT !.buffer = << >>]

\* One iteration of chunkAndTransmitAll, the path of an empty base.
ChunkStep(d, file) ==
  LET data == SubSeq(file, d.at + 1,
                     IF d.at + MaxDataOp < Len(file) THEN d.at + MaxDataOp
                                                     ELSE Len(file))
  IN [d EXCEPT !.out = IF data = << >> THEN << >> ELSE << DataOp(data) >>,
               !.at = @ + Len(data),
               !.eof = Len(data) < MaxDataOp]

\* One iteration of Deltify's loop first reads the open file's content: a
\* block's worth when the buffer is empty, one more byte otherwise.
DeltifyRead(d, file) ==
  LET n == IF d.buffer = << >> THEN BlockSize ELSE 1
      data == SubSeq(file, d.at + 1,
                     IF d.at + n < Len(file) THEN d.at + n ELSE Len(file))
      buffer == d.buffer \o data
  IN [d EXCEPT !.buffer = buffer, !.at = @ + Len(data), !.eof = Len(data) < n,
               !.weak = IF Len(data) < n THEN @
                        ELSE IF d.buffer = << >> THEN WeakHash(data)
                        ELSE RollWeakHash(@, buffer[Len(buffer) - BlockSize],
                                          data[1])]

\* It then sends what the search, or the end of the file, calls for.
DeltifySend(d, sig) == IF d.eof THEN Finish(d, sig) ELSE Search(d, sig)

\* The size of the c-th block of a block operation.
BlockLength(sig, index) ==
  IF index = Len(sig.hashes) - 1 THEN sig.last ELSE sig.blockSize

\* The number of bytes an operation stands for, as the progress counts it.
OpSize(sig, op) ==
  IF op.data # << >>
  THEN Len(op.data)
  ELSE IF op.start + op.count = Len(sig.hashes)
  THEN (op.count - 1) * sig.blockSize + sig.last
  ELSE op.count * sig.blockSize

\* The bytes an operation appends to the target.  A base that is too short by
\* now stops a block operation after the blocks that could still be read.
Patch(base, sig, op) ==
  LET end(c) == (op.start + c - 1) * sig.blockSize
                  + BlockLength(sig, op.start + c - 1)
      read == {c \in 1 .. op.count : end(c) <= Len(base)}
  IN IF op.data # << >>
     THEN [ok |-> TRUE, data |-> op.data]
     ELSE [ok |-> Cardinality(read) = op.count,
           data |-> IF read = {} THEN << >>
                    ELSE SubSeq(base, op.start * sig.blockSize + 1,
                                end(Cardinality(read)))]

=============================================================================
