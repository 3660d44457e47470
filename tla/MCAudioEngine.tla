--------------------------- MODULE MCAudioEngine ---------------------------
(* Buffers and devices for AudioEngine: mono and stereo, in place or not,  *)
(* with missing pointers.                                                  *)
EXTENDS AudioEngine

Buffers(n, present) == [given |-> TRUE, channels |-> n, present |-> present]
NoBuffers == [given |-> FALSE, channels |-> 0, present |-> {}]
AllBuffers == {NoBuffers} \cup {Buffers(n, p) : n \in 0 .. 2, p \in SUBSET {0, 1}}
Sides == {b \in AllBuffers : b.present \subseteq 0 .. b.channels - 1}

\* In place the two arrays hold the same pointers as far as both go.
Aliased(in, out) ==
  \A c \in 0 .. Min({in.channels, out.channels}) - 1 : c \in in.present <=> c \in out.present

MCArguments ==
  {a \in [in : Sides, out : Sides, inPlace : BOOLEAN] :
     a.inPlace => a.in.given /\ a.out.given /\ Aliased(a.in, a.out)}
MCDevices == {[rate |-> 44100, size |-> 256]}
=============================================================================
