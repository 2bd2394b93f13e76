\* A YV12 source: the layout reported is the source's planar one.
CONSTANTS
  Layouts <- MCPlanarLayouts
  Colors <- MCLayoutColors
  SurfaceIsBGR32 = FALSE
SPECIFICATION Spec
INVARIANT ConversionCorrect
\* The conversion returns, or the process aborts at a CHECK.
CHECK_DEADLOCK FALSE
