-------------------------- MODULE MCOrderedStreamout --------------------------
(* Small draws: three workgroups of one or two input primitives, one or    *)
(* two streams, buffers of unequal stride that fill up inside the draw.    *)
EXTENDS OrderedStreamout, TLC

ThreeFirst == <<0, 1, 3, 4>>
TwoFirst   == <<0, 2, 3>>

OneStream      == [b \in {0, 1} |-> 0]
OneStreamStart == [b \in {0, 1} |-> 0]
UnequalStride  == (0 :> 1) @@ (1 :> 2)

TwoStreams     == (0 :> 0) @@ (3 :> 1)
TwoStreamSteps == (0 :> 2) @@ (3 :> 1)
Resumed        == (0 :> 1) @@ (3 :> 0)
=============================================================================
