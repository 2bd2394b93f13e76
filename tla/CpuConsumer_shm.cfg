\* GPU read-back of buffers of two sizes.
CONSTANTS
  MaxLockedBuffers = 2
  Clients = {c1, c2}
  HeapAddrs = {a1, a2}
  GBufs = {g1, g2, g3, g4}
  g1 = g1
  g2 = g2
  g3 = g3
  g4 = g4
  UnusedId = UnusedId
  NoBuf = NoBuf
  Format <- MCFormat
  Width <- MCMixedWidth
  Height <- MCMixedHeight
  IsPowerVR = TRUE
  NoThread = NoThread
  LockMayFail = TRUE
  UnlockMayFail = FALSE
SYMMETRY MCSymmetry
SPECIFICATION Spec
INVARIANT ShmCoversReadback
