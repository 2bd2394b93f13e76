------------------------ MODULE ConvertRGB32ToPlanarMC ------------------------
(***************************************************************************)
(* Instantiates ConvertRGB32ToPlanar for TLC with small images.            *)
(***************************************************************************)
EXTENDS ConvertRGB32ToPlanar

\* A semi-planar source whose row pitch is its width: the layout the
\* conversion writes.  One odd width reaches the CHECK.
MCTightLayouts ==
  { [w |-> 2, h |-> 2, ystride |-> 2, gstride |-> 2, cstride |-> 2, step |-> 2],
    [w |-> 4, h |-> 2, ystride |-> 4, gstride |-> 4, cstride |-> 4, step |-> 2],
    [w |-> 2, h |-> 4, ystride |-> 2, gstride |-> 2, cstride |-> 2, step |-> 2],
    [w |-> 3, h |-> 2, ystride |-> 3, gstride |-> 3, cstride |-> 3, step |-> 2] }

\* A gralloc buffer whose rows are padded: ystride above the width.
MCPaddedLayouts ==
  { [w |-> 2, h |-> 2, ystride |-> 4, gstride |-> 4, cstride |-> 4, step |-> 2] }

\* A YV12 source: planar chroma at half the luma pitch, one byte apart.
MCPlanarLayouts ==
  { [w |-> 4, h |-> 2, ystride |-> 4, gstride |-> 4, cstride |-> 2, step |-> 1] }

\* Pure red, green and white: red and green drive the chroma sums negative.
MCColors == { <<255, 0, 0>>, <<0, 255, 0>>, <<255, 255, 255>> }

\* Channel extremes and mid values, for the arithmetic of every sum.
MCManyColors == { <<r, g, b>> : r \in {0, 255}, g \in {0, 128}, b \in {1, 255} }

\* The same three colours whatever the layout.
MCLayoutColors(l) == MCColors

\* Many colours on a single 2x2 block, where they stay few images; three on
\* the larger ones.
MCTightColors(l) == IF l.w * l.h = 4 THEN MCManyColors ELSE MCColors
=============================================================================
