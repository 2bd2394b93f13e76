\* Two client threads lock flexible-YUV buffers on a powervr EGL; only the
\* thread that ran initEgl has the EGL context current.
CONSTANTS
  MaxLockedBuffers = 2
  Clients = {c1, c2}
  HeapAddrs = {a1, a2}
  GBufs = {g1, g2, g3, g4}
  g1 = g1
  g2 = g2
  g3 = g3
  g4 = g4
  UnusedId = UnusedId
  NoBuf = NoBuf
  Format <- MCFormat
  Width <- MCSameWidth
  Height <- MCSameHeight
  IsPowerVR = TRUE
  NoThread = NoThread
  LockMayFail = FALSE
  UnlockMayFail = FALSE
SYMMETRY MCSymmetry
SPECIFICATION Spec
INVARIANT GpuReadbackOnContextThread
