\* GPU read-back path: powervr EGL, buffers of one size, locks may fail,
\* unlocks succeed.
CONSTANTS
  MaxLockedBuffers = 2
  Clients = {c1, c2, c3}
  HeapAddrs = {a1, a2}
  GBufs = {g1, g2, g3, g4}
  g1 = g1
  g2 = g2
  g3 = g3
  g4 = g4
  UnusedId = UnusedId
  NoBuf = NoBuf
  Format <- MCFormat
  Width <- MCSameWidth
  Height <- MCSameHeight
  IsPowerVR = TRUE
  NoThread = NoThread
  LockMayFail = TRUE
  UnlockMayFail = FALSE
SYMMETRY MCSymmetry
SPECIFICATION Spec
INVARIANT TypeOK
INVARIANT SlotsAccounted
INVARIANT HandlesValid
INVARIANT MemoryMatchesSlots
PROPERTY ImplementsBufferLocking
