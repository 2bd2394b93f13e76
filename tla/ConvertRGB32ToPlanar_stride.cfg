\* A source with padded rows: ystride above the width.
CONSTANTS
  Layouts <- MCPaddedLayouts
  Colors <- MCLayoutColors
  SurfaceIsBGR32 = FALSE
SPECIFICATION Spec
INVARIANT WritesInBounds
\* The conversion returns, or the process aborts at a CHECK.
CHECK_DEADLOCK FALSE
