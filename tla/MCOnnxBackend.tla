--------------------------- MODULE MCOnnxBackend ---------------------------
(* Models, chunks and replies for OnnxBackend: two models that can be      *)
(* used, of different shapes, and one for each way inspection refuses one. *)
EXTENDS OnnxBackend

Tensor(dims) == [float32 |-> TRUE, dims |-> dims]
OneToOne(in, out) == [inputs |-> 1, outputs |-> 1, in |-> in, out |-> out]
Mono == Tensor(<<1, 1, 2>>)
Stereo == Tensor(<<1, 2, 2>>)

MCModels ==
  { OneToOne(Mono, Mono),
    OneToOne(Stereo, Mono),
    [OneToOne(Mono, Mono) EXCEPT !.outputs = 2],
    OneToOne([Mono EXCEPT !.float32 = FALSE], Mono),
    OneToOne(Mono, Tensor(<<2, 1, 2>>)),
    OneToOne(Tensor(<<1, 1, -1>>), Mono) }

Chunk(from, channels, frames) ==
  [from |-> from, channels |-> channels, frames |-> frames, size |-> channels * frames]
MCChunks ==
  { Chunk("a", 1, 2), Chunk("b", 1, 2), Chunk("a", 2, 2), Chunk("a", 1, 1),
    [Chunk("a", 1, 2) EXCEPT !.size = 1] }

MCReplyDims == { <<1, 1, 2>>, <<1, 2, 2>> }
=============================================================================
