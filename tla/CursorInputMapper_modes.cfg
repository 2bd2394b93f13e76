\* All three modes in one run: navigation presses from deltas that cross the
\* threshold in one window or over several, pointer moves clamped at the
\* display edges, button presses across windows, and mode switches,
\* rotations and resets between windows.
CONSTANTS
  BTN_LEFT = BTN_LEFT
  Buttons = {BTN_LEFT}
  DeltaValues <- MCNavDeltas
  MaxRaw = 5
  Gain = 2
  WheelGain = 1
  DisplayMax = 3
  OrientationAware = TRUE
  InitialMode = "NAVIGATION"
  ConfigModes = {"NAVIGATION", "POINTER", "POINTER_RELATIVE"}
  Orientations = {0, 90}
  NoTime = NoTime
SPECIFICATION Spec
INVARIANT TypeOK
INVARIANT DeltaConserved
INVARIANT PressSpansPaired
