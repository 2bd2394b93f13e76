\* Pointer mode: is every press the dispatcher sees closed by an UP?
CONSTANTS
  BTN_LEFT = BTN_LEFT
  Buttons = {BTN_LEFT}
  DeltaValues <- MCPointerDeltas
  MaxRaw = 5
  Gain = 2
  WheelGain = 1
  DisplayMax = 3
  OrientationAware = TRUE
  InitialMode = "POINTER_RELATIVE"
  ConfigModes = {"POINTER", "POINTER_RELATIVE"}
  Orientations = {0, 90}
  NoTime = NoTime
SPECIFICATION Spec
INVARIANT StreamSpansPaired
