------------------------ MODULE CursorInputMapperMC ------------------------
(***************************************************************************)
(* Instantiates CursorInputMapper for TLC.                                 *)
(***************************************************************************)
EXTENDS CursorInputMapper, TLC

CONSTANTS BTN_LEFT

\* Navigation: a backward delta that crosses the threshold alone, a forward
\* one that needs two windows to cross it.
MCNavDeltas == {-7, 3}

\* Pointer modes: small deltas of both signs that reach the display edges.
MCPointerDeltas == {-1, 2}
=============================================================================
