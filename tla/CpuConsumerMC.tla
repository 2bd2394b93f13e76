--------------------------- MODULE CpuConsumerMC ---------------------------
(***************************************************************************)
(* Instantiates CpuConsumer for TLC: three graphic buffers, one of each    *)
(* format, two client threads and two tracking entries.                    *)
(***************************************************************************)
EXTENDS CpuConsumer, TLC

CONSTANTS g1, g2, g3, g4

\* g1 is flexible YUV, g2 another YUV format, g3 and g4 RGB.
MCFormat == (g1 :> YCbCr420) @@ (g2 :> YV12) @@ (g3 :> RGBA) @@ (g4 :> RGBA)

\* Every buffer has the size the EGL state is first created for.
MCSameWidth  == [b \in {g1, g2, g3, g4} |-> 4]
MCSameHeight == [b \in {g1, g2, g3, g4} |-> 2]

\* The YV12 buffer is larger than the flexible-YUV one.
MCMixedWidth  == (g1 :> 4) @@ (g2 :> 8) @@ (g3 :> 4) @@ (g4 :> 4)
MCMixedHeight == (g1 :> 2) @@ (g2 :> 4) @@ (g3 :> 2) @@ (g4 :> 2)

MCSymmetry == Permutations(Clients) \cup Permutations(HeapAddrs)
=============================================================================
