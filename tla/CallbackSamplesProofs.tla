------------------------ MODULE CallbackSamplesProofs ------------------------
(***************************************************************************)
(* Proofs about CallbackSamples and AudioBlocks, for blocks and queues of  *)
(* any size, any buffers a device may deliver, any chunks a backend may    *)
(* return and any number of callbacks.                                     *)
(*                                                                         *)
(* The argument: a block that is on its way holds, in the rows and frames  *)
(* it uses, the samples that were made of one callback's input, and every  *)
(* copy keeps that.  What the rows beyond hold does not matter.  The       *)
(* worker remakes only the oldest block of the input queue, which is       *)
(* younger than any block it has put out.                                  *)
(***************************************************************************)
EXTENDS CallbackSamples, SequenceTheorems, TLAPS

Sounds == [call : Nat, channel : Nat, frame : Nat]
SampleRows == [Rows -> [Columns -> Sounds]]
Blocks == [channels : Nat, frames : Nat, sequence : Nat, samples : SampleRows]
Makings == [in : InBuffers, channels : Nat, frames : Nat, new : BOOLEAN]

\* The sample that was made for channel c and frame f.
SampleOf(m, call, c, f) == IF m.new THEN Sample(call, c, f) ELSE Delivered(call, m.in, c, f)

\* The block holds what was made of its callback.
Carries(block, m) ==
  /\ Supports(block.channels, block.frames)
  /\ block.channels = m.channels /\ block.frames = m.frames
  /\ \A c \in 0 .. block.channels - 1, f \in 0 .. block.frames - 1 :
       block.samples[c][f] = SampleOf(m, block.sequence, c, f)

IsMade(block, m, n) == block.sequence \in 1 .. n /\ Carries(block, m[block.sequence])

ArgsOK ==
  /\ calls \in 0 .. MaxCalls /\ submitted \in BOOLEAN
  /\ in \in InBuffers /\ frames \in FrameCounts

ShapesOK ==
  /\ inputScratch \in Blocks /\ (inputScratch = EmptyBlock \/ BlockOK(inputScratch))
  /\ output \in Blocks /\ (output = EmptyBlock \/ BlockOK(output))
  /\ input \in Blocks /\ (input = EmptyBlock \/ BlockOK(input))
  /\ outputScratch \in Blocks

QueuesOK ==
  /\ inputQueue \in Seq(Blocks) /\ Len(inputQueue) <= QueueCapacity
  /\ outputQueue \in Seq(Blocks) /\ Len(outputQueue) <= QueueCapacity
  /\ made \in Seq(Makings) /\ Len(made) = calls

\* Every block on the way is what was made of one callback's input.
ContentsOK ==
  /\ \A i \in 1 .. Len(inputQueue) : IsMade(inputQueue[i], made, calls)
  /\ \A i \in 1 .. Len(outputQueue) : IsMade(outputQueue[i], made, calls)
  /\ outputScratch = EmptyBlock \/ IsMade(outputScratch, made, calls)

\* The blocks are in the order of the callbacks.
OrderOK ==
  \A i \in 1 .. Len(inputQueue) :
    /\ \A j \in 1 .. Len(inputQueue) : i < j => inputQueue[i].sequence < inputQueue[j].sequence
    /\ \A j \in 1 .. Len(outputQueue) : outputQueue[j].sequence < inputQueue[i].sequence
    /\ outputScratch.sequence < inputQueue[i].sequence

PlayedOK ==
  ~submitted /\ played.out.given =>
    \/ played.samples = <<>>
    \/ /\ played.worker /\ played.out \in OutBuffers
       /\ IsMade(outputScratch, made, calls)
       /\ played.samples = CopyTo(outputScratch, played.out, frames)
    \/ ~played.worker /\ played.samples = CopyDryToOutput(calls, in, played.out, frames)

SampleInv == ArgsOK /\ ShapesOK /\ QueuesOK /\ ContentsOK /\ OrderOK /\ PlayedOK

-----------------------------------------------------------------------------
\* Rows of samples.

\* The cell of row c and column f of an array of n columns, and back.
LEMMA Cell ==
  ASSUME NEW c \in Nat, NEW n \in Nat, NEW f \in 0 .. n - 1
  PROVE  (c * n + f) \div n = c /\ (c * n + f) % n = f
<1> DEFINE p == c * n + f
           q == p \div n
           r == p % n
<1>1. c * n \in Nat /\ n \in Nat \ {0} /\ n * c = c * n
  OBVIOUS
<1>2. p \in Nat
  BY <1>1
<1>3. q \in Nat /\ r \in 0 .. n - 1 /\ p = n * q + r
  BY <1>1, <1>2
<1>4. n * q \in Int
  BY <1>3
<1>5. p = n * c + f
  BY <1>1
<1> HIDE DEF p, q, r
<1>6. n * (q - c) = n * q - n * c /\ n * (q - c) \in Int
  BY <1>3
<1>7. n * (q - c) = f - r
  BY <1>1, <1>3, <1>4, <1>5, <1>6
<1>8. q - c = 0
  <2>1. CASE q - c >= 1
    <3>1. n * (q - c) >= n * 1
      BY <1>1, <1>3, <2>1
    <3> QED BY <1>1, <1>3, <1>7, <3>1
  <2>2. CASE q - c <= -1
    <3>1. n * (q - c) <= n * (-1)
      BY <1>1, <1>3, <2>2
    <3> QED BY <1>1, <1>3, <1>7, <3>1
  <2> QED BY <1>3, <2>1, <2>2
<1>9. q = c /\ r = f
  BY <1>1, <1>3, <1>7, <1>8
<1> QED BY <1>9 DEF p, q, r

\* The cells of an array are those of its rows.
LEMMA CellBound ==
  ASSUME NEW k \in Nat, NEW c \in 0 .. k - 1, NEW n \in Nat, NEW f \in 0 .. n - 1
  PROVE  c * n + f + 1 \in 1 .. k * n
<1>1. c * n \in Nat /\ k * n \in Nat
  OBVIOUS
<1>2. (c + 1) * n <= k * n
  OBVIOUS
<1>3. (c + 1) * n = c * n + n
  OBVIOUS
<1>4. c * n + n <= k * n
  BY <1>2, <1>3
<1> QED BY <1>1, <1>4

\* A cell of an array of k rows and n columns is in one of them.
LEMMA CellOf ==
  ASSUME NEW k \in Nat, NEW n \in Nat \ {0}, NEW i \in 1 .. k * n
  PROVE  (i - 1) \div n \in 0 .. k - 1 /\ (i - 1) % n \in 0 .. n - 1
<1> DEFINE p == i - 1
           q == p \div n
           r == p % n
<1>1. k * n \in Nat /\ i \in Nat /\ i <= k * n /\ i >= 1
  OBVIOUS
<1>2. p \in Nat /\ p < k * n
  BY <1>1
<1>3. q \in Nat /\ r \in 0 .. n - 1 /\ p = n * q + r
  BY <1>2
<1> HIDE DEF p, q, r
<1>4. q < k
  <2>1. SUFFICES ASSUME q >= k PROVE FALSE
    BY <1>3
  <2>2. n * q >= n * k /\ n * q \in Nat /\ n * k = k * n
    BY <1>3, <2>1
  <2> QED BY <1>1, <1>2, <1>3, <2>2
<1>5. q \in 0 .. k - 1 /\ r \in 0 .. n - 1
  BY <1>3, <1>4
<1> QED BY <1>5 DEF p, q, r

\* The channels and frames of a supported shape are those of a block.
LEMMA SupportedFits ==
  ASSUME NEW k, NEW n, Supports(k, n)
  PROVE  /\ k \in Nat \ {0} /\ n \in Nat \ {0}
         /\ 0 .. k - 1 \subseteq Rows /\ 0 .. n - 1 \subseteq Columns
BY MaxAssumption DEF Supports, Rows, Columns

\* The channel an output channel is copied from is one of the block's.
LEMMA SourceIsChannel ==
  ASSUME NEW c \in Nat, NEW n \in Nat \ {0}
  PROVE  SourceChannel(c, n) \in 0 .. n - 1
<1>1. CASE n = 1
  BY <1>1 DEF SourceChannel
<1>2. CASE n # 1
  <2>1. ASSUME NEW a \in Int, NEW b \in Int, a <= b PROVE Min({a, b}) = a /\ Min({b, a}) = a
    BY <2>1 DEF Min
  <2>2. CASE c <= n - 1
    BY <1>2, <2>1, <2>2 DEF SourceChannel
  <2>3. CASE n - 1 <= c
    BY <1>2, <2>1, <2>3 DEF SourceChannel
  <2> QED BY <2>2, <2>3
<1> QED BY <1>1, <1>2

\* What is delivered, and silence, are samples.
LEMMA Samples ==
  ASSUME NEW call \in Nat, NEW c \in Nat, NEW f \in Nat, NEW b
  PROVE  /\ Sample(call, c, f) \in Sounds /\ Silence \in Sounds
         /\ Delivered(call, b, c, f) \in Sounds
BY DEF Sample, Silence, Sounds, Delivered

-----------------------------------------------------------------------------
\* What the copies of AudioBlocks keep.

\* copyFrom: the block is the callback's input.
LEMMA CopyFromCarries ==
  ASSUME NEW block \in Blocks, NEW b \in InBuffers, NEW n \in Nat, NEW call \in Nat, NEW m,
         Accepts(b, n),
         m = [in |-> b, channels |-> b.channels, frames |-> n, new |-> FALSE]
  PROVE  LET new == CopyFrom(block, call, b, n)
         IN new \in Blocks /\ new.sequence = call /\ Carries(new, m)
<1> DEFINE cell(c, f) == IF c < b.channels /\ f < n THEN Delivered(call, b, c, f)
                         ELSE block.samples[c][f]
           new == CopyFrom(block, call, b, n)
<1>1. Rows \subseteq Nat /\ Columns \subseteq Nat
  BY DEF Rows, Columns
<1>2. Supports(b.channels, n)
  BY DEF Accepts
<1>3. \A c \in Rows, f \in Columns : cell(c, f) \in Sounds
  <2>1. \A c \in Rows, f \in Columns : block.samples[c][f] \in Sounds
    BY DEF Blocks, SampleRows
  <2> QED BY <1>1, <2>1, Samples
<1>4. new = [channels |-> b.channels, frames |-> n, sequence |-> call,
             samples |-> [c \in Rows |-> [f \in Columns |-> cell(c, f)]]]
  BY DEF CopyFrom
<1>5. \A c \in 0 .. b.channels - 1, f \in 0 .. n - 1 :
        c \in Rows /\ f \in Columns /\ cell(c, f) = Delivered(call, b, c, f)
  BY <1>2, SupportedFits
<1> HIDE DEF cell, new
<1>6. [c \in Rows |-> [f \in Columns |-> cell(c, f)]] \in SampleRows
  BY <1>3 DEF SampleRows
<1>7. new \in Blocks
  BY <1>2, <1>4, <1>6, SupportedFits DEF Blocks
<1>8. \A c \in 0 .. b.channels - 1, f \in 0 .. n - 1 : new.samples[c][f] = Delivered(call, b, c, f)
  BY <1>4, <1>5
<1>9. \A c, f : SampleOf(m, call, c, f) = Delivered(call, b, c, f)
  BY DEF SampleOf
<1>10. /\ new.channels = b.channels /\ new.frames = n /\ new.sequence = call
       /\ m.channels = b.channels /\ m.frames = n
  BY <1>4
<1>11. Carries(new, m)
  <2>1. Supports(new.channels, new.frames) /\ new.channels = m.channels /\ new.frames = m.frames
    BY <1>2, <1>10
  <2>2. \A c \in 0 .. new.channels - 1, f \in 0 .. new.frames - 1 :
          new.samples[c][f] = SampleOf(m, new.sequence, c, f)
    BY ONLY <1>8, <1>9, <1>10
  <2> QED BY <2>1, <2>2 DEF Carries
<1> QED BY <1>7, <1>10, <1>11 DEF new

\* The chunk is as long as its shape says.
IsFilled(chunk) == \A i \in 1 .. chunk.channels * chunk.frames : chunk.samples[i] \in Sounds
IsCopy(block, chunk, seq) ==
  /\ block.channels = chunk.channels /\ block.frames = chunk.frames /\ block.sequence = seq
  /\ \A c \in 0 .. chunk.channels - 1, f \in 0 .. chunk.frames - 1 :
       block.samples[c][f] = chunk.samples[c * chunk.frames + f + 1]

\* copyChunkToBlock: the rows of the chunk become the block's, and what is beyond them is
\* a sample of some kind.
LEMMA CopyChunk ==
  ASSUME NEW chunk, NEW seq \in Nat, NEW old \in Blocks, Supports(chunk.channels, chunk.frames),
         IsFilled(chunk)
  PROVE  /\ CopyChunkToBlock(chunk, seq, old) \in Blocks
         /\ IsCopy(CopyChunkToBlock(chunk, seq, old), chunk, seq)
<1> DEFINE k == chunk.channels
           n == chunk.frames
           at(c, f) == chunk.samples[c * n + f + 1]
           cell(c, f) == IF c < k /\ f < n THEN at(c, f) ELSE old.samples[c][f]
           new == CopyChunkToBlock(chunk, seq, old)
<1>1. Rows \subseteq Nat /\ Columns \subseteq Nat
  BY DEF Rows, Columns
<1>2. k \in Nat \ {0} /\ n \in Nat \ {0}
      /\ 0 .. k - 1 \subseteq Rows /\ 0 .. n - 1 \subseteq Columns
  BY SupportedFits
<1>3. new = [channels |-> k, frames |-> n, sequence |-> seq,
             samples |-> [c \in Rows |-> [f \in Columns |-> cell(c, f)]]]
  BY DEF CopyChunkToBlock
<1>4. \A i \in 1 .. k * n : chunk.samples[i] \in Sounds
  BY DEF IsFilled
<1> HIDE DEF k, n, new
<1>5. \A c \in 0 .. k - 1, f \in 0 .. n - 1 : at(c, f) \in Sounds
  BY <1>2, <1>4, CellBound
<1> HIDE DEF at
<1>6. \A c \in Rows, f \in Columns : cell(c, f) \in Sounds
  <2> SUFFICES ASSUME NEW c \in Rows, NEW f \in Columns PROVE cell(c, f) \in Sounds
    OBVIOUS
  <2>1. CASE c < k /\ f < n
    <3>1. c \in 0 .. k - 1 /\ f \in 0 .. n - 1
      BY <1>1, <1>2, <2>1
    <3> QED BY <1>5, <2>1, <3>1
  <2>2. CASE ~(c < k /\ f < n)
    BY <2>2 DEF Blocks, SampleRows
  <2> QED BY <2>1, <2>2
<1>7. \A c \in 0 .. k - 1, f \in 0 .. n - 1 : c \in Rows /\ f \in Columns /\ cell(c, f) = at(c, f)
  BY <1>2
<1> HIDE DEF cell
<1>8. [c \in Rows |-> [f \in Columns |-> cell(c, f)]] \in SampleRows
  BY <1>6 DEF SampleRows
<1>9. new \in Blocks
  BY <1>2, <1>3, <1>8 DEF Blocks
<1>10. \A c \in 0 .. k - 1, f \in 0 .. n - 1 : new.samples[c][f] = at(c, f)
  BY <1>3, <1>7
<1>11. new.channels = k /\ new.frames = n /\ new.sequence = seq
  BY <1>3
<1>12. IsCopy(new, chunk, seq)
  BY <1>10, <1>11 DEF IsCopy, k, n, at
<1> QED BY <1>9, <1>12 DEF new

\* A block that goes through a chunk and back is still what was made of its callback,
\* whatever the block it is copied into held before.
LEMMA RoundTripCarries ==
  ASSUME NEW block \in Blocks, NEW old \in Blocks, NEW m, Carries(block, m)
  PROVE  LET new == CopyChunkToBlock(CopyBlockToChunk(block), block.sequence, old)
         IN new \in Blocks /\ new.sequence = block.sequence /\ Carries(new, m)
<1> DEFINE k == block.channels
           n == block.frames
           chunk == CopyBlockToChunk(block)
           new == CopyChunkToBlock(chunk, block.sequence, old)
<1>1. /\ k \in Nat \ {0} /\ n \in Nat \ {0} /\ Supports(k, n)
      /\ 0 .. k - 1 \subseteq Rows /\ 0 .. n - 1 \subseteq Columns
      /\ \A c \in 0 .. k - 1, f \in 0 .. n - 1 :
           block.samples[c][f] = SampleOf(m, block.sequence, c, f)
      /\ k = m.channels /\ n = m.frames
  BY SupportedFits DEF Carries
<1>2. /\ chunk.channels = k /\ chunk.frames = n
      /\ chunk.samples = [i \in 1 .. k * n |-> block.samples[(i - 1) \div n][(i - 1) % n]]
  BY DEF CopyBlockToChunk
<1>3. block.sequence \in Nat /\ block.samples \in [Rows -> [Columns -> Sounds]]
  BY DEF Blocks, SampleRows
<1> HIDE DEF k, n, chunk
<1>4. \A i \in 1 .. k * n : chunk.samples[i] \in Sounds
  <2> SUFFICES ASSUME NEW i \in 1 .. k * n PROVE chunk.samples[i] \in Sounds
    OBVIOUS
  <2>1. (i - 1) \div n \in 0 .. k - 1 /\ (i - 1) % n \in 0 .. n - 1
    BY <1>1, CellOf
  <2>2. PICK q, r : q = (i - 1) \div n /\ r = (i - 1) % n
    OBVIOUS
  <2>3. chunk.samples[i] = block.samples[q][r]
    BY <1>2, <2>2
  <2>4. q \in Rows /\ r \in Columns
    BY <1>1, <2>1, <2>2
  <2> QED BY <1>3, <2>3, <2>4
<1>5. /\ new \in Blocks
      /\ new.channels = k /\ new.frames = n /\ new.sequence = block.sequence
      /\ \A c \in 0 .. k - 1, f \in 0 .. n - 1 : new.samples[c][f] = chunk.samples[c * n + f + 1]
  <2>1. Supports(chunk.channels, chunk.frames) /\ IsFilled(chunk)
    BY <1>1, <1>2, <1>4 DEF IsFilled
  <2>2. new \in Blocks /\ IsCopy(new, chunk, block.sequence)
    BY <1>3, <2>1, CopyChunk
  <2> HIDE DEF new
  <2> QED BY ONLY <1>2, <2>2 DEF IsCopy
<1> HIDE DEF new
<1>6. ASSUME NEW c \in 0 .. k - 1, NEW f \in 0 .. n - 1
      PROVE  new.samples[c][f] = SampleOf(m, block.sequence, c, f)
  <2>1. c * n + f + 1 \in 1 .. k * n
    BY <1>1, CellBound
  <2>2. (c * n + f) \div n = c /\ (c * n + f) % n = f
    <3>1. c \in Nat /\ n \in Nat /\ f \in 0 .. n - 1
      BY <1>1
    <3> QED BY ONLY <3>1, Cell
  <2>3. (c * n + f + 1) - 1 = c * n + f
    BY <1>1
  <2>4. PICK i \in 1 .. k * n : i = c * n + f + 1
    BY <2>1
  <2>5. chunk.samples[i] = block.samples[(i - 1) \div n][(i - 1) % n]
    BY <1>2
  <2>6. (i - 1) \div n = c /\ (i - 1) % n = f
    BY <2>2, <2>3, <2>4
  <2>7. chunk.samples[i] = block.samples[c][f]
    BY <2>5, <2>6
  <2> QED BY <1>1, <1>5, <2>4, <2>7
<1>7. Carries(new, m)
  BY <1>1, <1>5, <1>6 DEF Carries
<1> QED BY <1>5, <1>7 DEF new, chunk

\* A chunk of a shape of its own that fits a block is a block that was made anew.
LEMMA ReplyCarries ==
  ASSUME NEW reply \in Replies, NEW seq \in Nat, NEW old \in Blocks, NEW m \in Makings,
         Fits(ReplyChunk(reply, seq))
  PROVE  LET new == CopyChunkToBlock(ReplyChunk(reply, seq), seq, old)
         IN /\ new \in Blocks /\ new.sequence = seq /\ Carries(new, Remade(m, reply))
            /\ Remade(m, reply) \in Makings
<1> DEFINE k == reply.channels
           n == reply.frames
           chunk == ReplyChunk(reply, seq)
           made1 == Remade(m, reply)
           new == CopyChunkToBlock(chunk, seq, old)
<1>0. /\ chunk.channels = k /\ chunk.frames = n
      /\ chunk.samples = [i \in 1 .. reply.size |->
                            Sample(seq, (i - 1) \div Max({1, n}), (i - 1) % Max({1, n}))]
  BY DEF ReplyChunk
<1>1. chunk.channels = k /\ chunk.frames = n /\ Supports(k, n)
  BY <1>0 DEF Fits, chunk
<1> HIDE DEF chunk
<1>2. k \in Nat \ {0} /\ n \in Nat \ {0}
  BY <1>1, SupportedFits
<1>3. Max({1, n}) = n
  BY <1>2 DEF Max
<1>4. Len(chunk.samples) = reply.size
  BY <1>0, RepliesAssumption
<1>5. k * n <= reply.size
  BY <1>1, <1>4 DEF Fits, chunk
<1>6. k * n \in Nat /\ reply.size \in Nat
  BY <1>2, RepliesAssumption
<1>7. \A i \in 1 .. k * n : chunk.samples[i] = Sample(seq, (i - 1) \div n, (i - 1) % n)
  BY <1>0, <1>3, <1>5, <1>6
<1> HIDE DEF k, n
<1>8. \A i \in 1 .. k * n : chunk.samples[i] \in Sounds
  <2> SUFFICES ASSUME NEW i \in 1 .. k * n PROVE chunk.samples[i] \in Sounds
    OBVIOUS
  <2>1. (i - 1) \div n \in 0 .. k - 1 /\ (i - 1) % n \in 0 .. n - 1
    BY <1>2, CellOf
  <2>2. PICK q \in Nat, r \in Nat : q = (i - 1) \div n /\ r = (i - 1) % n
    BY <2>1
  <2> QED BY <1>7, <2>2, Samples
<1>9. /\ new \in Blocks
      /\ new.channels = k /\ new.frames = n /\ new.sequence = seq
      /\ \A c \in 0 .. k - 1, f \in 0 .. n - 1 : new.samples[c][f] = chunk.samples[c * n + f + 1]
  <2>1. Supports(chunk.channels, chunk.frames) /\ IsFilled(chunk)
    BY <1>1, <1>8 DEF IsFilled
  <2>2. new \in Blocks /\ IsCopy(new, chunk, seq)
    BY <2>1, CopyChunk
  <2> HIDE DEF new
  <2> QED BY ONLY <1>1, <2>2 DEF IsCopy
<1> HIDE DEF new
<1>10. ASSUME NEW c \in 0 .. k - 1, NEW f \in 0 .. n - 1
       PROVE  new.samples[c][f] = Sample(seq, c, f)
  <2>1. c * n + f + 1 \in 1 .. k * n
    BY <1>2, CellBound
  <2>2. (c * n + f) \div n = c /\ (c * n + f) % n = f
    <3>1. c \in Nat /\ n \in Nat /\ f \in 0 .. n - 1
      BY <1>2
    <3> QED BY ONLY <3>1, Cell
  <2>3. (c * n + f + 1) - 1 = c * n + f
    BY <1>2
  <2>4. PICK i \in 1 .. k * n : i = c * n + f + 1
    BY <2>1
  <2>5. chunk.samples[i] = Sample(seq, (i - 1) \div n, (i - 1) % n)
    BY <1>7
  <2>6. (i - 1) \div n = c /\ (i - 1) % n = f
    BY <2>2, <2>3, <2>4
  <2> QED BY ONLY <1>9, <2>4, <2>5, <2>6
<1>11. /\ made1.channels = k /\ made1.frames = n /\ made1.new = TRUE /\ made1.in = m.in
       /\ made1 \in Makings
  <2>1. made1 = [m EXCEPT !.channels = k, !.frames = n, !.new = TRUE]
    BY DEF Remade, k, n
  <2>2. m = [in |-> m.in, channels |-> m.channels, frames |-> m.frames, new |-> m.new]
        /\ m.in \in InBuffers
    BY DEF Makings
  <2>3. made1 = [in |-> m.in, channels |-> k, frames |-> n, new |-> TRUE]
    BY <2>1, <2>2
  <2> HIDE DEF made1
  <2> QED BY ONLY <1>2, <2>2, <2>3 DEF Makings
<1> HIDE DEF made1
<1>12. \A c, f : SampleOf(made1, seq, c, f) = Sample(seq, c, f)
  BY <1>11 DEF SampleOf
<1>13. Carries(new, made1)
  BY <1>1, <1>9, <1>10, <1>11, <1>12 DEF Carries
<1> QED BY <1>9, <1>11, <1>13 DEF new, made1, chunk

-----------------------------------------------------------------------------
\* The steps.

\* The empty block of the start is a block, and silent.
LEMMA EmptyIsBlock == EmptyBlock \in Blocks
<1>1. SilentRows \in SampleRows
  <2>1. Silence \in Sounds
    BY DEF Silence, Sample, Sounds
  <2> QED BY <2>1 DEF SilentRows, SampleRows
<1> QED BY <1>1 DEF EmptyBlock, Blocks

\* A block stays what was made of its callback while other callbacks' blocks are made.
LEMMA StaysMade ==
  ASSUME NEW block, NEW m, NEW m1, NEW n \in Nat, NEW n1 \in Nat, n <= n1,
         IsMade(block, m, n), m1[block.sequence] = m[block.sequence]
  PROVE  IsMade(block, m1, n1)
<1>1. block.sequence \in 1 .. n /\ Carries(block, m[block.sequence])
  BY DEF IsMade
<1>2. block.sequence \in 1 .. n1
  BY <1>1
<1> QED BY <1>1, <1>2 DEF IsMade

\* The block at the head of a queue, and those behind it.
LEMMA QueueHead ==
  ASSUME NEW q \in Seq(Blocks), q # <<>>
  PROVE  /\ Len(q) \in Nat \ {0} /\ 1 \in 1 .. Len(q)
         /\ Head(q) = q[1] /\ Head(q) \in Blocks
         /\ Tail(q) \in Seq(Blocks) /\ Len(Tail(q)) = Len(q) - 1
         /\ \A i \in 1 .. Len(Tail(q)) : i + 1 \in 1 .. Len(q) /\ Tail(q)[i] = q[i + 1]
<1>1. Len(q) \in Nat \ {0}
  BY EmptySeq
<1>2. Head(q) \in Blocks /\ Tail(q) \in Seq(Blocks) /\ Len(Tail(q)) = Len(q) - 1
      /\ \A i \in 1 .. Len(Tail(q)) : Tail(q)[i] = q[i + 1]
  BY HeadTailProperties
<1>3. Head(q) = q[1]
  OBVIOUS
<1> QED BY <1>1, <1>2, <1>3

\* A block behind the others.
LEMMA QueueAppend ==
  ASSUME NEW q \in Seq(Blocks), NEW block \in Blocks
  PROVE  /\ Append(q, block) \in Seq(Blocks) /\ Len(Append(q, block)) = Len(q) + 1
         /\ Len(q) \in Nat
         /\ \A i \in 1 .. Len(q) + 1 :
              \/ i \in 1 .. Len(q) /\ Append(q, block)[i] = q[i]
              \/ i = Len(q) + 1 /\ Append(q, block)[i] = block
BY AppendProperties, LenProperties

\* What a block of the input queue was made of is what the callback delivered.
LEMMA SubmitStep ==
  ASSUME SampleInv, NEW b \in InBuffers, NEW n \in FrameCounts, SubmitInput(b, n)
  PROVE  SampleInv'
<1> DEFINE new == [in |-> b, channels |-> b.channels, frames |-> n, new |-> FALSE]
           fresh == CopyFrom(inputScratch, calls + 1, b, n)
<1>1. /\ calls \in Nat /\ calls < MaxCalls /\ calls' = calls + 1
      /\ in' = b /\ frames' = n /\ submitted' = TRUE
      /\ UNCHANGED <<outputScratch, input, output, outputQueue>>
  BY BoundAssumption DEF SubmitInput, SampleInv, ArgsOK, workerVars
<1>2. made' = Append(made, new)
  BY DEF SubmitInput
<1>3. inputScratch' = IF Accepts(b, n) THEN fresh ELSE inputScratch
  BY <1>1 DEF SubmitInput
<1>4. inputQueue' = IF Accepts(b, n) /\ Len(inputQueue) < QueueCapacity
                    THEN Append(inputQueue, inputScratch') ELSE inputQueue
  BY DEF SubmitInput
<1>5. n \in Nat /\ b.channels \in Nat
  BY BuffersAssumption
<1>6. new \in Makings
  BY <1>5 DEF Makings
<1>7. Accepts(b, n) => /\ fresh \in Blocks /\ fresh.sequence = calls + 1
                       /\ Carries(fresh, new) /\ Supports(fresh.channels, fresh.frames)
  <2> SUFFICES ASSUME Accepts(b, n)
               PROVE  /\ fresh \in Blocks /\ fresh.sequence = calls + 1
                      /\ Carries(fresh, new) /\ Supports(fresh.channels, fresh.frames)
    OBVIOUS
  <2>1. inputScratch \in Blocks /\ calls + 1 \in Nat
    BY <1>1 DEF SampleInv, ShapesOK
  <2>2. fresh \in Blocks /\ fresh.sequence = calls + 1 /\ Carries(fresh, new)
    BY <1>5, <2>1, CopyFromCarries
  <2> QED BY <2>2 DEF Carries
<1> HIDE DEF new, fresh
<1>8. /\ inputQueue \in Seq(Blocks) /\ outputQueue \in Seq(Blocks) /\ made \in Seq(Makings)
      /\ Len(inputQueue) <= QueueCapacity /\ Len(outputQueue) <= QueueCapacity
      /\ Len(made) = calls
  BY DEF SampleInv, QueuesOK
<1>9. /\ made' \in Seq(Makings) /\ Len(made') = calls' /\ made'[calls + 1] = new
      /\ \A s \in 1 .. calls : made'[s] = made[s]
  BY <1>1, <1>2, <1>6, <1>8, AppendProperties
<1>10. ASSUME NEW block, IsMade(block, made, calls) PROVE IsMade(block, made', calls')
  <2>1. block.sequence \in 1 .. calls
    BY <1>10 DEF IsMade
  <2>2. calls' \in Nat /\ calls <= calls'
    BY <1>1
  <2> QED BY <1>1, <1>9, <1>10, <2>1, <2>2, StaysMade
<1>11. Accepts(b, n) => IsMade(fresh, made', calls')
  BY <1>1, <1>7, <1>9 DEF IsMade
<1>12. ArgsOK'
  BY <1>1, BoundAssumption DEF ArgsOK
<1>13. ShapesOK'
  <2>1. /\ inputScratch \in Blocks /\ (inputScratch = EmptyBlock \/ BlockOK(inputScratch))
        /\ output \in Blocks /\ (output = EmptyBlock \/ BlockOK(output))
        /\ input \in Blocks /\ (input = EmptyBlock \/ BlockOK(input))
        /\ outputScratch \in Blocks
    BY DEF SampleInv, ShapesOK
  <2>2. inputScratch' \in Blocks /\ (inputScratch' = EmptyBlock \/ BlockOK(inputScratch)')
    <3>1. CASE Accepts(b, n)
      BY <1>1, <1>3, <1>7, <3>1 DEF BlockOK
    <3>2. CASE ~Accepts(b, n)
      BY <1>1, <1>3, <2>1, <3>2 DEF BlockOK
    <3> QED BY <3>1, <3>2
  <2>3. (output' = EmptyBlock \/ BlockOK(output)') /\ (input' = EmptyBlock \/ BlockOK(input)')
    BY <1>1, <2>1 DEF BlockOK
  <2> QED BY <1>1, <2>1, <2>2, <2>3 DEF ShapesOK
<1>14. \/ inputQueue' = inputQueue
       \/ /\ Accepts(b, n) /\ inputQueue' = Append(inputQueue, fresh)
          /\ Len(inputQueue) < QueueCapacity
  BY <1>3, <1>4
<1>15. QueuesOK'
  <2>1. inputQueue' \in Seq(Blocks) /\ Len(inputQueue') <= QueueCapacity
    <3>1. CASE inputQueue' = inputQueue
      BY <1>8, <3>1
    <3>2. CASE Accepts(b, n) /\ inputQueue' = Append(inputQueue, fresh)
               /\ Len(inputQueue) < QueueCapacity
      BY <1>7, <1>8, <3>2, QueueAppend, BoundAssumption
    <3> QED BY <1>14, <3>1, <3>2
  <2> QED BY <1>1, <1>8, <1>9, <2>1 DEF QueuesOK
<1>16. \A i \in 1 .. Len(inputQueue') :
         \/ i \in 1 .. Len(inputQueue) /\ inputQueue'[i] = inputQueue[i]
         \/ /\ i = Len(inputQueue) + 1 /\ inputQueue'[i] = fresh
            /\ fresh.sequence = calls + 1 /\ IsMade(fresh, made', calls')
  <2>1. CASE inputQueue' = inputQueue
    BY <2>1
  <2>2. CASE Accepts(b, n) /\ inputQueue' = Append(inputQueue, fresh)
    BY <1>7, <1>8, <1>11, <2>2, QueueAppend
  <2> QED BY <1>14, <2>1, <2>2
<1>17. ContentsOK'
  <2>1. \A i \in 1 .. Len(inputQueue') : IsMade(inputQueue'[i], made', calls')
    BY <1>10, <1>16 DEF SampleInv, ContentsOK
  <2>2. \A i \in 1 .. Len(outputQueue') : IsMade(outputQueue'[i], made', calls')
    BY <1>1, <1>10 DEF SampleInv, ContentsOK
  <2>3. outputScratch' = EmptyBlock \/ IsMade(outputScratch', made', calls')
    BY <1>1, <1>10 DEF SampleInv, ContentsOK
  <2> QED BY <2>1, <2>2, <2>3 DEF ContentsOK
<1>18. OrderOK'
  <2>1. \A i \in 1 .. Len(inputQueue) : inputQueue[i].sequence \in 1 .. calls
    BY DEF SampleInv, ContentsOK, IsMade
  <2>2. \A i \in 1 .. Len(outputQueue) : outputQueue[i].sequence \in 1 .. calls
    BY DEF SampleInv, ContentsOK, IsMade
  <2>3. outputScratch.sequence \in 0 .. calls
    BY <1>1 DEF SampleInv, ContentsOK, IsMade, EmptyBlock
  <2>4. Len(inputQueue) \in Nat
    BY <1>8, LenProperties
  <2> SUFFICES ASSUME NEW i \in 1 .. Len(inputQueue')
               PROVE  /\ \A j \in 1 .. Len(inputQueue') :
                           i < j => inputQueue'[i].sequence < inputQueue'[j].sequence
                      /\ \A j \in 1 .. Len(outputQueue') :
                           outputQueue'[j].sequence < inputQueue'[i].sequence
                      /\ outputScratch'.sequence < inputQueue'[i].sequence
    BY DEF OrderOK
  <2>5. CASE i \in 1 .. Len(inputQueue) /\ inputQueue'[i] = inputQueue[i]
    <3>1. ASSUME NEW j \in 1 .. Len(inputQueue'), i < j
          PROVE  inputQueue'[i].sequence < inputQueue'[j].sequence
      <4>1. CASE j \in 1 .. Len(inputQueue) /\ inputQueue'[j] = inputQueue[j]
        BY <2>5, <3>1, <4>1 DEF SampleInv, OrderOK
      <4>2. CASE inputQueue'[j] = fresh /\ fresh.sequence = calls + 1
        BY <1>1, <2>1, <2>5, <4>2
      <4> QED BY <1>16, <4>1, <4>2
    <3>2. \A j \in 1 .. Len(outputQueue') : outputQueue'[j].sequence < inputQueue'[i].sequence
      BY <1>1, <2>5 DEF SampleInv, OrderOK
    <3>3. outputScratch'.sequence < inputQueue'[i].sequence
      BY <1>1, <2>5 DEF SampleInv, OrderOK
    <3> QED BY <3>1, <3>2, <3>3
  <2>6. CASE i = Len(inputQueue) + 1 /\ inputQueue'[i] = fresh /\ fresh.sequence = calls + 1
    <3>1. ASSUME NEW j \in 1 .. Len(inputQueue'), i < j PROVE FALSE
      BY <1>16, <2>4, <2>6, <3>1
    <3>2. \A j \in 1 .. Len(outputQueue') : outputQueue'[j].sequence < inputQueue'[i].sequence
      BY <1>1, <2>2, <2>6
    <3>3. outputScratch'.sequence < inputQueue'[i].sequence
      BY <1>1, <2>3, <2>6
    <3> QED BY <3>1, <3>2, <3>3
  <2> QED BY <1>16, <2>5, <2>6
<1>19. PlayedOK'
  BY <1>1 DEF PlayedOK
<1> QED BY <1>12, <1>13, <1>15, <1>17, <1>18, <1>19 DEF SampleInv

\* The callback plays the block it pops, or its own input.
LEMMA PlayStep ==
  ASSUME SampleInv, NEW out \in OutBuffers, PlayOutput(out)
  PROVE  SampleInv'
<1> DEFINE popped == outputQueue # <<>>
           worker == popped /\ Plays(outputScratch', out, frames)
<1>1. UNCHANGED <<calls, in, frames, inputScratch, input, output, inputQueue, made>>
      /\ submitted' = FALSE
  BY DEF PlayOutput, workerVars
<1>2. /\ outputScratch' = IF outputQueue = <<>> THEN outputScratch ELSE Head(outputQueue)
      /\ outputQueue' = IF outputQueue = <<>> THEN <<>> ELSE Tail(outputQueue)
  BY DEF PlayOutput
<1>3. played' = [out |-> out, frames |-> frames, popped |-> popped, worker |-> worker,
                 samples |-> IF worker THEN CopyTo(outputScratch', out, frames)
                             ELSE IF out.given THEN CopyDryToOutput(calls, in, out, frames)
                             ELSE <<>>]
  BY DEF PlayOutput
<1> HIDE DEF popped, worker
<1>4. /\ inputQueue \in Seq(Blocks) /\ outputQueue \in Seq(Blocks) /\ made \in Seq(Makings)
      /\ Len(inputQueue) <= QueueCapacity /\ Len(outputQueue) <= QueueCapacity
      /\ Len(made) = calls
      /\ outputScratch \in Blocks
  BY DEF SampleInv, QueuesOK, ShapesOK
<1>5. outputQueue # <<>> =>
        /\ Len(outputQueue) \in Nat \ {0} /\ 1 \in 1 .. Len(outputQueue)
        /\ outputScratch' = outputQueue[1] /\ outputScratch' \in Blocks
        /\ outputQueue' \in Seq(Blocks) /\ Len(outputQueue') = Len(outputQueue) - 1
        /\ \A i \in 1 .. Len(outputQueue') :
             i + 1 \in 1 .. Len(outputQueue) /\ outputQueue'[i] = outputQueue[i + 1]
  BY <1>2, <1>4, QueueHead
<1>6. outputQueue = <<>> => outputQueue' = outputQueue /\ outputScratch' = outputScratch
  BY <1>2
<1>7. /\ \A i \in 1 .. Len(inputQueue) : IsMade(inputQueue[i], made, calls)
      /\ \A i \in 1 .. Len(outputQueue) : IsMade(outputQueue[i], made, calls)
      /\ outputScratch = EmptyBlock \/ IsMade(outputScratch, made, calls)
  BY DEF SampleInv, ContentsOK
<1>8. outputQueue # <<>> => IsMade(outputScratch', made, calls)
  BY <1>5, <1>7
<1>9. ArgsOK' /\ ShapesOK'
  <2>1. outputScratch' \in Blocks
    BY <1>4, <1>5, <1>6
  <2> QED BY <1>1, <2>1 DEF SampleInv, ArgsOK, ShapesOK, BlockOK
<1>10. QueuesOK'
  <2>1. outputQueue' \in Seq(Blocks) /\ Len(outputQueue') <= QueueCapacity
    BY <1>4, <1>5, <1>6, BoundAssumption
  <2> QED BY <1>1, <1>4, <2>1 DEF QueuesOK
<1>11. ContentsOK'
  <2>1. \A i \in 1 .. Len(outputQueue') : IsMade(outputQueue'[i], made, calls)
    BY <1>5, <1>6, <1>7
  <2>2. outputScratch' = EmptyBlock \/ IsMade(outputScratch', made, calls)
    BY <1>6, <1>7, <1>8
  <2> QED BY <1>1, <1>7, <2>1, <2>2 DEF ContentsOK
<1>12. OrderOK'
  <2>1. ASSUME NEW i \in 1 .. Len(inputQueue)
        PROVE  /\ \A j \in 1 .. Len(outputQueue') :
                    outputQueue'[j].sequence < inputQueue[i].sequence
               /\ outputScratch'.sequence < inputQueue[i].sequence
    <3>1. /\ \A j \in 1 .. Len(outputQueue) : outputQueue[j].sequence < inputQueue[i].sequence
          /\ outputScratch.sequence < inputQueue[i].sequence
      BY DEF SampleInv, OrderOK
    <3> QED BY <1>5, <1>6, <3>1
  <2>2. \A i \in 1 .. Len(inputQueue) : \A j \in 1 .. Len(inputQueue) :
          i < j => inputQueue[i].sequence < inputQueue[j].sequence
    BY DEF SampleInv, OrderOK
  <2> QED BY <1>1, <2>1, <2>2 DEF OrderOK
<1>13. PlayedOK'
  <2>1. CASE worker
    <3>1. IsMade(outputScratch', made, calls)
      BY <1>8, <2>1 DEF worker, popped
    <3>2. played'.worker /\ played'.out = out
          /\ played'.samples = CopyTo(outputScratch', out, frames)
      BY <1>3, <2>1
    <3> QED BY <1>1, <3>1, <3>2 DEF PlayedOK
  <2>2. CASE ~worker /\ out.given
    <3>1. ~played'.worker /\ played'.out = out
          /\ played'.samples = CopyDryToOutput(calls, in, out, frames)
      BY <1>3, <2>2
    <3> QED BY <1>1, <3>1 DEF PlayedOK
  <2>3. CASE ~out.given
    BY <1>3, <2>3 DEF PlayedOK
  <2> QED BY <2>1, <2>2, <2>3
<1> QED BY <1>9, <1>10, <1>11, <1>12, <1>13 DEF SampleInv

\* The worker takes the oldest block and puts out what it makes of it: whatever that is, no
\* other block on its way was made of the same callback.
LEMMA WorkerStep ==
  ASSUME SampleInv, inputQueue # <<>>, WorkerTakes,
         output' \in Blocks, output'.sequence = Head(inputQueue).sequence,
         Carries(output', made'[Head(inputQueue).sequence]),
         made' \in Seq(Makings), Len(made') = Len(made),
         \A s \in 1 .. Len(made) : s # Head(inputQueue).sequence => made'[s] = made[s]
  PROVE  SampleInv'
<1> DEFINE head == Head(inputQueue).sequence
<1>1. UNCHANGED <<calls, in, frames, submitted, inputScratch, outputScratch, played>>
  BY DEF WorkerTakes, audioVars
<1>2. /\ input' = Head(inputQueue) /\ inputQueue' = Tail(inputQueue)
      /\ outputQueue' = IF Len(outputQueue) < QueueCapacity
                        THEN Append(outputQueue, output') ELSE outputQueue
  BY DEF WorkerTakes
<1>3. /\ inputQueue \in Seq(Blocks) /\ outputQueue \in Seq(Blocks) /\ made \in Seq(Makings)
      /\ Len(inputQueue) <= QueueCapacity /\ Len(outputQueue) <= QueueCapacity
      /\ Len(made) = calls /\ calls \in Nat
  BY BoundAssumption DEF SampleInv, QueuesOK, ArgsOK
<1>4. /\ Len(inputQueue) \in Nat \ {0} /\ 1 \in 1 .. Len(inputQueue)
      /\ input' = inputQueue[1] /\ input' \in Blocks
      /\ inputQueue' \in Seq(Blocks) /\ Len(inputQueue') = Len(inputQueue) - 1
      /\ \A i \in 1 .. Len(inputQueue') :
           i + 1 \in 1 .. Len(inputQueue) /\ inputQueue'[i] = inputQueue[i + 1]
  BY <1>2, <1>3, QueueHead
<1>5. head = inputQueue[1].sequence
  BY <1>2, <1>4
<1>6. /\ output' \in Blocks /\ output'.sequence = head /\ Carries(output', made'[head])
      /\ made' \in Seq(Makings) /\ Len(made') = Len(made)
      /\ \A s \in 1 .. calls : s # head => made'[s] = made[s]
  BY <1>3
<1> HIDE DEF head
<1>7. /\ \A i \in 1 .. Len(inputQueue) : IsMade(inputQueue[i], made, calls)
      /\ \A i \in 1 .. Len(outputQueue) : IsMade(outputQueue[i], made, calls)
      /\ outputScratch = EmptyBlock \/ IsMade(outputScratch, made, calls)
  BY DEF SampleInv, ContentsOK
<1>8. IsMade(input', made, calls) /\ head \in 1 .. calls
  BY <1>4, <1>5, <1>7 DEF IsMade
<1>9. IsMade(output', made', calls)
  BY <1>6, <1>8 DEF IsMade
<1>10. ASSUME NEW block, IsMade(block, made, calls), block.sequence # head
       PROVE  IsMade(block, made', calls)
  <2>1. block.sequence \in 1 .. calls
    BY <1>10 DEF IsMade
  <2>2. made'[block.sequence] = made[block.sequence]
    BY <1>6, <1>10, <2>1
  <2>3. calls \in Nat /\ calls <= calls
    BY <1>3
  <2> QED BY <1>10, <2>2, <2>3, StaysMade
<1>11. \A i \in 1 .. Len(inputQueue) :
         /\ \A j \in 1 .. Len(inputQueue) : i < j => inputQueue[i].sequence < inputQueue[j].sequence
         /\ \A j \in 1 .. Len(outputQueue) : outputQueue[j].sequence < inputQueue[i].sequence
         /\ outputScratch.sequence < inputQueue[i].sequence
  BY DEF SampleInv, OrderOK
<1>12. /\ \A i \in 1 .. Len(inputQueue) : inputQueue[i].sequence \in Nat
       /\ \A i \in 1 .. Len(outputQueue) : outputQueue[i].sequence \in Nat
       /\ outputScratch.sequence \in Nat
  <2>1. outputScratch \in Blocks
    BY DEF SampleInv, ShapesOK
  <2>2. \A block \in Blocks : block.sequence \in Nat
    BY DEF Blocks
  <2> QED BY <1>3, <2>1, <2>2, ElementOfSeq
<1>13. \A i \in 1 .. Len(inputQueue') : head < inputQueue'[i].sequence
  <2> SUFFICES ASSUME NEW i \in 1 .. Len(inputQueue') PROVE head < inputQueue'[i].sequence
    OBVIOUS
  <2>1. PICK k \in 1 .. Len(inputQueue) : k = i + 1 /\ inputQueue'[i] = inputQueue[k]
    BY <1>4
  <2>2. 1 < k
    BY <1>4, <2>1
  <2> QED BY <1>4, <1>5, <1>11, <2>1, <2>2
<1>14. \A i \in 1 .. Len(outputQueue) : outputQueue[i].sequence < head
  BY <1>4, <1>5, <1>11
<1>15. outputScratch.sequence < head
  BY <1>4, <1>5, <1>11
<1>16. head \in Nat
  BY <1>8
<1>17. \A i \in 1 .. Len(outputQueue') :
         \/ i \in 1 .. Len(outputQueue) /\ outputQueue'[i] = outputQueue[i]
         \/ outputQueue'[i] = output'
  BY <1>2, <1>3, <1>6, QueueAppend
<1>18. ArgsOK'
  BY <1>1 DEF SampleInv, ArgsOK
<1>19. ShapesOK'
  <2>1. BlockOK(input)'
    BY <1>1, <1>8 DEF BlockOK, IsMade, Carries
  <2>2. BlockOK(output)'
    BY <1>1, <1>9 DEF BlockOK, IsMade, Carries
  <2>3. /\ inputScratch' \in Blocks /\ (inputScratch' = EmptyBlock \/ BlockOK(inputScratch)')
        /\ outputScratch' \in Blocks
    BY <1>1 DEF SampleInv, ShapesOK, BlockOK
  <2> QED BY <1>4, <1>6, <2>1, <2>2, <2>3 DEF ShapesOK
<1>20. QueuesOK'
  <2>1. outputQueue' \in Seq(Blocks) /\ Len(outputQueue') <= QueueCapacity
    <3>1. CASE Len(outputQueue) < QueueCapacity
      BY <1>2, <1>3, <1>6, <3>1, QueueAppend, BoundAssumption
    <3>2. CASE ~(Len(outputQueue) < QueueCapacity)
      BY <1>2, <1>3, <3>2
    <3> QED BY <3>1, <3>2
  <2>2. Len(inputQueue') <= QueueCapacity
    BY <1>3, <1>4, BoundAssumption
  <2> QED BY <1>1, <1>3, <1>4, <1>6, <2>1, <2>2 DEF QueuesOK
<1>21. ContentsOK'
  <2>1. ASSUME NEW i \in 1 .. Len(inputQueue') PROVE IsMade(inputQueue'[i], made', calls)
    <3>1. IsMade(inputQueue'[i], made, calls)
      BY <1>4, <1>7
    <3>2. inputQueue'[i].sequence \in Nat
      BY <1>4, <1>12
    <3>3. inputQueue'[i].sequence # head
      BY <1>13, <1>16, <3>2
    <3> QED BY <1>10, <3>1, <3>3
  <2>2. ASSUME NEW i \in 1 .. Len(outputQueue') PROVE IsMade(outputQueue'[i], made', calls)
    <3>1. CASE i \in 1 .. Len(outputQueue) /\ outputQueue'[i] = outputQueue[i]
      <4>1. outputQueue[i].sequence # head
        BY <1>12, <1>14, <1>16, <3>1
      <4> QED BY <1>7, <1>10, <3>1, <4>1
    <3>2. CASE outputQueue'[i] = output'
      BY <1>9, <3>2
    <3> QED BY <1>17, <3>1, <3>2
  <2>3. outputScratch = EmptyBlock \/ IsMade(outputScratch, made', calls)
    <3>1. outputScratch.sequence # head
      BY <1>12, <1>15, <1>16
    <3> QED BY <1>7, <1>10, <3>1
  <2> QED BY <1>1, <2>1, <2>2, <2>3 DEF ContentsOK
<1>22. OrderOK'
  <2> SUFFICES ASSUME NEW i \in 1 .. Len(inputQueue')
               PROVE  /\ \A j \in 1 .. Len(inputQueue') :
                           i < j => inputQueue'[i].sequence < inputQueue'[j].sequence
                      /\ \A j \in 1 .. Len(outputQueue') :
                           outputQueue'[j].sequence < inputQueue'[i].sequence
                      /\ outputScratch'.sequence < inputQueue'[i].sequence
    BY DEF OrderOK
  <2>1. PICK k \in 1 .. Len(inputQueue) : k = i + 1 /\ inputQueue'[i] = inputQueue[k]
    BY <1>4
  <2>2. ASSUME NEW j \in 1 .. Len(inputQueue'), i < j
        PROVE  inputQueue'[i].sequence < inputQueue'[j].sequence
    <3>1. PICK l \in 1 .. Len(inputQueue) : l = j + 1 /\ inputQueue'[j] = inputQueue[l]
      BY <1>4
    <3>2. k < l
      BY <1>4, <2>1, <2>2, <3>1
    <3> QED BY <1>11, <2>1, <3>1, <3>2
  <2>3. \A j \in 1 .. Len(outputQueue') : outputQueue'[j].sequence < inputQueue'[i].sequence
    BY <1>6, <1>11, <1>13, <1>17, <2>1
  <2>4. outputScratch'.sequence < inputQueue'[i].sequence
    BY <1>1, <1>11, <2>1
  <2> QED BY <2>2, <2>3, <2>4
<1>23. PlayedOK'
  <2>1. IsMade(outputScratch, made, calls) => IsMade(outputScratch, made', calls)
    <3>1. outputScratch.sequence # head
      BY <1>12, <1>15, <1>16
    <3> QED BY <1>10, <3>1
  <2> QED BY <1>1, <2>1 DEF SampleInv, PlayedOK
<1> QED BY <1>18, <1>19, <1>20, <1>21, <1>22, <1>23 DEF SampleInv

\* What the block at the head of the input queue was made of.
LEMMA HeadIsMade ==
  ASSUME SampleInv, inputQueue # <<>>
  PROVE  /\ Head(inputQueue) \in Blocks /\ Head(inputQueue).sequence \in 1 .. Len(made)
         /\ Carries(Head(inputQueue), made[Head(inputQueue).sequence])
         /\ made \in Seq(Makings) /\ output \in Blocks
<1>1. inputQueue \in Seq(Blocks) /\ made \in Seq(Makings) /\ Len(made) = calls
      /\ output \in Blocks
  BY DEF SampleInv, QueuesOK, ShapesOK
<1>2. 1 \in 1 .. Len(inputQueue) /\ Head(inputQueue) = inputQueue[1]
      /\ Head(inputQueue) \in Blocks
  BY <1>1, QueueHead
<1>3. IsMade(Head(inputQueue), made, calls)
  BY <1>2 DEF SampleInv, ContentsOK
<1> QED BY <1>1, <1>2, <1>3 DEF IsMade

\* A worker without a backend hands on the block as it is.
LEMMA CopiesStep ==
  ASSUME SampleInv, WorkerCopies PROVE SampleInv'
<1>1. inputQueue # <<>> /\ output' = Head(inputQueue) /\ WorkerTakes /\ made' = made
  BY DEF WorkerCopies
<1>2. /\ output' \in Blocks /\ output'.sequence = Head(inputQueue).sequence
      /\ Carries(output', made'[Head(inputQueue).sequence]) /\ made' \in Seq(Makings)
  BY <1>1, HeadIsMade
<1> QED BY <1>1, <1>2, WorkerStep

\* A conversion that keeps the shape brings every sample back to its place.
LEMMA ConvertsStep ==
  ASSUME SampleInv, WorkerConverts PROVE SampleInv'
<1> DEFINE head == Head(inputQueue)
<1>1. inputQueue # <<>> /\ WorkerTakes /\ made' = made
  BY DEF WorkerConverts
<1>2. output' = CopyChunkToBlock(CopyBlockToChunk(head), head.sequence, output)
  BY DEF WorkerConverts
<1>3. /\ head \in Blocks /\ output \in Blocks /\ Carries(head, made[head.sequence])
      /\ made \in Seq(Makings)
  BY <1>1, HeadIsMade
<1> HIDE DEF head
<1>4. /\ output' \in Blocks /\ output'.sequence = head.sequence
      /\ Carries(output', made[head.sequence])
  BY <1>2, <1>3, RoundTripCarries
<1> QED BY <1>1, <1>3, <1>4, WorkerStep DEF head

\* An entry of the history is made anew, and no other.
LEMMA RemadeOnly ==
  ASSUME NEW m \in Seq(Makings), NEW s \in 1 .. Len(m), NEW e \in Makings
  PROVE  /\ [m EXCEPT ![s] = e] \in Seq(Makings) /\ Len([m EXCEPT ![s] = e]) = Len(m)
         /\ [m EXCEPT ![s] = e][s] = e
         /\ \A i \in 1 .. Len(m) : i # s => [m EXCEPT ![s] = e][i] = m[i]
BY ExceptSeq

\* A reply of another shape, if it fits, is the history's new entry for the block.
LEMMA ReshapesStep ==
  ASSUME SampleInv, NEW reply \in Replies, WorkerReshapes(reply) PROVE SampleInv'
<1> DEFINE head == Head(inputQueue)
           s == head.sequence
           e == Remade(made[s], reply)
<1>1. inputQueue # <<>> /\ WorkerTakes
  BY DEF WorkerReshapes
<1>2. /\ head \in Blocks /\ s \in 1 .. Len(made) /\ Carries(head, made[s])
      /\ made \in Seq(Makings) /\ output \in Blocks
  BY <1>1, HeadIsMade
<1>3. CASE ~Fits(backendOutput')
  <2>1. output' = head /\ made' = made
    BY <1>3 DEF WorkerReshapes
  <2> QED BY <1>1, <1>2, <2>1, WorkerStep
<1>4. CASE Fits(backendOutput')
  <2>1. output' = CopyChunkToBlock(backendOutput', s, output) /\ made' = [made EXCEPT ![s] = e]
    BY <1>4 DEF WorkerReshapes
  <2>2. made[s] \in Makings /\ s \in Nat
    BY <1>2, ElementOfSeq
  <2>3. Fits(ReplyChunk(reply, s)) /\ backendOutput' = ReplyChunk(reply, s)
    BY <1>4 DEF WorkerReshapes
  <2> HIDE DEF s
  <2>4. output' \in Blocks /\ output'.sequence = s /\ Carries(output', e) /\ e \in Makings
    BY <1>2, <2>1, <2>2, <2>3, ReplyCarries
  <2> HIDE DEF e
  <2>5. /\ made' \in Seq(Makings) /\ Len(made') = Len(made) /\ made'[s] = e
        /\ \A i \in 1 .. Len(made) : i # s => made'[i] = made[i]
    BY <1>2, <2>1, <2>4, RemadeOnly
  <2> QED BY <1>1, <2>4, <2>5, WorkerStep DEF s
<1> QED BY <1>3, <1>4

\* Every block on the way is, at every moment, what was made of one callback's input.
THEOREM SamplesAreKept == Spec => []SampleInv
<1>1. Init => SampleInv
  <2> SUFFICES ASSUME Init PROVE SampleInv
    OBVIOUS
  <2>1. ArgsOK
    <3>1. in \in InBuffers /\ frames \in FrameCounts
      BY BuffersAssumption DEF Init
    <3>2. calls = 0 /\ submitted = FALSE
      BY DEF Init
    <3>3. calls \in 0 .. MaxCalls
      BY <3>2, BoundAssumption
    <3> QED BY <3>1, <3>2, <3>3 DEF ArgsOK
  <2>2. ShapesOK
    BY EmptyIsBlock DEF Init, ShapesOK
  <2>3. QueuesOK
    BY BoundAssumption, EmptySeq DEF Init, QueuesOK
  <2>4. ContentsOK /\ OrderOK
    BY EmptySeq DEF Init, ContentsOK, OrderOK
  <2>5. PlayedOK
    BY DEF Init, Nothing, PlayedOK
  <2> QED BY <2>1, <2>2, <2>3, <2>4, <2>5 DEF SampleInv
<1>2. SampleInv /\ [Next]_vars => SampleInv'
  <2> SUFFICES ASSUME SampleInv, [Next]_vars PROVE SampleInv'
    OBVIOUS
  <2>1. ASSUME NEW b \in InBuffers, NEW n \in FrameCounts, SubmitInput(b, n) PROVE SampleInv'
    BY <2>1, SubmitStep
  <2>2. ASSUME NEW out \in OutBuffers, PlayOutput(out) PROVE SampleInv'
    BY <2>2, PlayStep
  <2>3. CASE WorkerCopies
    BY <2>3, CopiesStep
  <2>4. CASE WorkerConverts
    BY <2>4, ConvertsStep
  <2>5. ASSUME NEW reply \in Replies, WorkerReshapes(reply) PROVE SampleInv'
    BY <2>5, ReshapesStep
  <2>6. CASE UNCHANGED vars
    BY <2>6 DEF vars, audioVars, workerVars, SampleInv, ArgsOK, ShapesOK, BlockOK, QueuesOK,
                ContentsOK, OrderOK, PlayedOK
  <2> QED BY <2>1, <2>2, <2>3, <2>4, <2>5, <2>6 DEF Next
<1> QED BY <1>1, <1>2, PTL DEF Spec

-----------------------------------------------------------------------------
\* What follows.

\* A block made by the worker sounds as Expected says.
LEMMA SoundsAsExpected ==
  ASSUME NEW block \in Blocks, IsMade(block, made, calls), NEW c \in Nat, NEW f \in Nat
  PROVE  Expected(block.sequence, c, f) =
           IF f < block.frames THEN block.samples[SourceChannel(c, block.channels)][f] ELSE Silence
<1> DEFINE m == made[block.sequence]
           source == SourceChannel(c, m.channels)
<1>1. /\ Supports(block.channels, block.frames)
      /\ block.channels = m.channels /\ block.frames = m.frames
      /\ \A i \in 0 .. block.channels - 1, j \in 0 .. block.frames - 1 :
           block.samples[i][j] = SampleOf(m, block.sequence, i, j)
  BY DEF IsMade, Carries
<1>2. m.channels \in Nat \ {0} /\ m.frames \in Nat
  BY <1>1, SupportedFits
<1>3. Expected(block.sequence, c, f) =
        IF f >= m.frames THEN Silence ELSE SampleOf(m, block.sequence, source, f)
  BY DEF Expected, SampleOf
<1> HIDE DEF m
<1>4. source \in 0 .. m.channels - 1
  BY <1>2, SourceIsChannel
<1>5. CASE f < m.frames
  <2>1. f \in 0 .. block.frames - 1 /\ source \in 0 .. block.channels - 1
    BY <1>1, <1>2, <1>4, <1>5
  <2>2. block.samples[source][f] = SampleOf(m, block.sequence, source, f)
    BY <1>1, <2>1
  <2> QED BY <1>1, <1>2, <1>3, <1>5, <2>2
<1>6. CASE ~(f < m.frames)
  BY <1>1, <1>2, <1>3, <1>6
<1> QED BY <1>5, <1>6

\* The frames of every output channel come from one block, whole and in place.
THEOREM OneBlockIsPlayed == Spec => []PlayedIsOneBlock
<1>1. SampleInv => PlayedIsOneBlock
  <2> SUFFICES ASSUME SampleInv, ~submitted, played.out.given,
                      NEW c \in DOMAIN played.samples, NEW f \in DOMAIN played.samples[c]
               PROVE  played.samples[c][f] =
                        IF played.worker
                        THEN Expected(IF played.worker THEN outputScratch.sequence ELSE calls, c, f)
                        ELSE IF in.given /\ in.channels > 0
                        THEN Delivered(calls, in, SourceChannel(c, in.channels), f)
                        ELSE Silence
    BY DEF PlayedIsOneBlock
  <2>1. CASE played.samples = <<>>
    BY <2>1
  <2>2. CASE /\ played.worker /\ played.out \in OutBuffers
             /\ IsMade(outputScratch, made, calls)
             /\ played.samples = CopyTo(outputScratch, played.out, frames)
    <3>1. c \in played.out.present /\ f \in 0 .. frames - 1
      BY <2>2 DEF CopyTo
    <3>2. c \in Nat /\ f \in Nat
      <4>1. frames \in Nat
        BY BuffersAssumption DEF SampleInv, ArgsOK
      <4>2. c \in 0 .. played.out.channels - 1 /\ played.out.channels \in Nat
        BY <2>2, <3>1, BuffersAssumption
      <4> QED BY <3>1, <4>1, <4>2
    <3>3. played.samples[c][f] =
            IF f < outputScratch.frames
            THEN outputScratch.samples[SourceChannel(c, outputScratch.channels)][f] ELSE Silence
      BY <2>2, <3>1 DEF CopyTo
    <3>4. outputScratch \in Blocks
      BY DEF SampleInv, ShapesOK
    <3> QED BY <2>2, <3>2, <3>3, <3>4, SoundsAsExpected
  <2>3. CASE ~played.worker /\ played.samples = CopyDryToOutput(calls, in, played.out, frames)
    BY <2>3 DEF CopyDryToOutput
  <2> QED BY <2>1, <2>2, <2>3 DEF SampleInv, PlayedOK
<1> QED BY <1>1, SamplesAreKept, PTL

\* A popped block is played if there is anything to play it into.
THEOREM PoppedPlays == Spec => []PoppedIsPlayed
<1>1. Init => PoppedIsPlayed
  BY DEF Init, Nothing, PoppedIsPlayed
<1>2. SampleInv /\ PoppedIsPlayed /\ [Next]_vars => PoppedIsPlayed'
  <2> SUFFICES ASSUME SampleInv, PoppedIsPlayed, [Next]_vars PROVE PoppedIsPlayed'
    OBVIOUS
  <2>1. ASSUME NEW b \in InBuffers, NEW n \in FrameCounts, SubmitInput(b, n)
        PROVE  PoppedIsPlayed'
    <3>1. played'.popped = FALSE
      BY <2>1 DEF SubmitInput, Nothing
    <3> QED BY <3>1 DEF PoppedIsPlayed
  <2>2. ASSUME NEW out \in OutBuffers, PlayOutput(out) PROVE PoppedIsPlayed'
    <3> SUFFICES ASSUME played'.popped, ~played'.worker, out.given
                 PROVE  out.channels = 0 \/ frames = 0
      BY <2>2 DEF PoppedIsPlayed, PlayOutput
    <3>1. outputQueue # <<>> /\ outputScratch' = Head(outputQueue)
          /\ ~Plays(outputScratch', out, frames)
      BY <2>2 DEF PlayOutput
    <3>2. outputQueue \in Seq(Blocks)
      BY DEF SampleInv, QueuesOK
    <3>3. 1 \in 1 .. Len(outputQueue) /\ Head(outputQueue) = outputQueue[1]
      BY <3>1, <3>2, QueueHead
    <3>4. Supports(outputScratch'.channels, outputScratch'.frames)
      BY <3>1, <3>3 DEF SampleInv, ContentsOK, IsMade, Carries
    <3>5. outputScratch'.channels > 0 /\ outputScratch'.frames > 0
      BY <3>4, SupportedFits
    <3>6. ~(out.channels > 0) \/ ~(frames > 0)
      BY <3>1, <3>5 DEF Plays
    <3>7. out.channels \in Nat /\ frames \in Nat
      BY BuffersAssumption DEF SampleInv, ArgsOK
    <3> QED BY <3>6, <3>7
  <2>3. CASE WorkerCopies \/ WorkerConverts \/ (\E reply \in Replies : WorkerReshapes(reply))
             \/ UNCHANGED vars
    <3>1. played' = played
      BY <2>3 DEF WorkerCopies, WorkerConverts, WorkerReshapes, WorkerTakes, audioVars, vars
    <3> QED BY <3>1 DEF PoppedIsPlayed, WorkerCopies
  <2> QED BY <2>1, <2>2, <2>3 DEF Next
<1> QED BY <1>1, <1>2, SamplesAreKept, PTL DEF Spec

\* Type correctness: whatever a device delivers and a backend answers, no block on the way
\* has a shape that a block cannot have.
THEOREM TypeCorrect == Spec => []TypeOK
<1>1. SampleInv => TypeOK
  <2> SUFFICES ASSUME SampleInv PROVE TypeOK
    OBVIOUS
  <2>1. DOMAIN made = 1 .. calls
    BY LenProperties DEF SampleInv, QueuesOK
  <2>2. /\ inputScratch = EmptyBlock \/ BlockOK(inputScratch)
        /\ output = EmptyBlock \/ BlockOK(output)
        /\ input = EmptyBlock \/ BlockOK(input)
    BY DEF SampleInv, ShapesOK
  <2>3. \A block : IsMade(block, made, calls) => BlockOK(block)
    BY DEF IsMade, Carries, BlockOK
  <2>4. outputScratch = EmptyBlock \/ BlockOK(outputScratch)
    BY <2>3 DEF SampleInv, ContentsOK
  <2>5. DOMAIN inputQueue = 1 .. Len(inputQueue) /\ DOMAIN outputQueue = 1 .. Len(outputQueue)
    BY LenProperties DEF SampleInv, QueuesOK
  <2>6. /\ \A i \in DOMAIN inputQueue : BlockOK(inputQueue[i])
        /\ \A i \in DOMAIN outputQueue : BlockOK(outputQueue[i])
    BY <2>3, <2>5 DEF SampleInv, ContentsOK
  <2>7. Len(inputQueue) <= QueueCapacity /\ Len(outputQueue) <= QueueCapacity
    BY DEF SampleInv, QueuesOK
  <2>8. \A block \in {inputScratch, outputScratch, input, output} :
          block = EmptyBlock \/ BlockOK(block)
    BY <2>2, <2>4
  <2>9. \A queue \in {inputQueue, outputQueue} :
          Len(queue) <= QueueCapacity /\ \A i \in DOMAIN queue : BlockOK(queue[i])
    BY <2>6, <2>7
  <2> QED BY <2>1, <2>8, <2>9 DEF TypeOK, SampleInv, ArgsOK
<1> QED BY <1>1, SamplesAreKept, PTL
=============================================================================
