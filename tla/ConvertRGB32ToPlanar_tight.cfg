\* Sources whose row pitch is their width, one of odd width; the 2x2 image
\* over many colours for the arithmetic of every sum.
CONSTANTS
  Layouts <- MCTightLayouts
  Colors <- MCTightColors
  SurfaceIsBGR32 = FALSE
SPECIFICATION Spec
INVARIANT TypeOK
INVARIANT WritesInBounds
INVARIANT CoversBuffer
INVARIANT ConversionCorrect
\* The conversion returns, or the process aborts at a CHECK.
CHECK_DEADLOCK FALSE
