\* GPU read-back with failing unlocks, and retried unlocks.
CONSTANTS
  MaxLockedBuffers = 2
  Clients = {c1, c2}
  HeapAddrs = {a1, a2}
  GBufs = {g1, g2, g3, g4}
  g1 = g1
  g2 = g2
  g3 = g3
  g4 = g4
  UnusedId = UnusedId
  NoBuf = NoBuf
  Format <- MCFormat
  Width <- MCSameWidth
  Height <- MCSameHeight
  IsPowerVR = TRUE
  NoThread = NoThread
  LockMayFail = TRUE
  UnlockMayFail = TRUE
SPECIFICATION Spec
PROPERTY ReleaseOnlyOwn
