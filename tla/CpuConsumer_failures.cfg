\* gralloc-mapping path: no powervr EGL, every lock and unlock of gralloc
\* may fail.
CONSTANTS
  MaxLockedBuffers = 2
  Clients = {c1, c2}
  HeapAddrs = {a1, a2}
  GBufs = {g1, g2, g3, g4}
  g1 = g1
  g2 = g2
  g3 = g3
  g4 = g4
  UnusedId = UnusedId
  NoBuf = NoBuf
  Format <- MCFormat
  Width <- MCSameWidth
  Height <- MCSameHeight
  IsPowerVR = FALSE
  NoThread = NoThread
  LockMayFail = TRUE
  UnlockMayFail = TRUE
SYMMETRY MCSymmetry
SPECIFICATION Spec
INVARIANT SlotsAccounted
INVARIANT HandlesValid
PROPERTY ImplementsBufferLocking
