------------------------- MODULE CursorInputMapper -------------------------
(***************************************************************************)
(* The cursor input mapper of one relative-pointer device, driven by the   *)
(* reader thread, and the one-way queue into the dispatcher thread.        *)
(*                                                                         *)
(* Only the declarations (CursorInputMapper.h: Parameters, the four        *)
(* accumulators, mButtonState, mDownTime, TRACKBALL_MOVEMENT_THRESHOLD)    *)
(* are in the repository snapshot; process, sync, configure and reset are *)
(* modelled from the specification (spec.md section 4.3).                  *)
(*                                                                         *)
(* A raw event goes to every accumulator; EV_SYN/SYN_REPORT ends the       *)
(* window and runs sync, which reads the accumulators once, rotates the    *)
(* deltas, and emits events according to the mode: one motion event per   *)
(* window in the pointer modes, one DPAD key press per threshold crossed   *)
(* in navigation mode.  The timestamp of an event is the number of raw     *)
(* events read so far.                                                     *)
(***************************************************************************)
EXTENDS Integers, Sequences, FiniteSets

CONSTANTS
  Buttons,           \* button codes the device reports
  DeltaValues,       \* values of the REL_X / REL_Y / REL_WHEEL events
  MaxRaw,            \* bound on the raw events the device produces
  Gain,              \* pointer VelocityControl scale (idle, no acceleration)
  WheelGain,         \* wheel VelocityControl scale
  DisplayMax,        \* the pointer controller keeps x, y in 0..DisplayMax
  OrientationAware,  \* mParameters.orientationAware
  InitialMode,       \* mode the device is configured with at attach
  ConfigModes,       \* modes later configure calls may switch to
  Orientations,      \* display orientations configure may report
  NoTime             \* mDownTime when no press is in progress

\* TRACKBALL_MOVEMENT_THRESHOLD
Threshold == 6

\* Parameters::Mode
MODE_POINTER          == "POINTER"
MODE_POINTER_RELATIVE == "POINTER_RELATIVE"
MODE_NAVIGATION       == "NAVIGATION"
Modes == {MODE_POINTER, MODE_POINTER_RELATIVE, MODE_NAVIGATION}

ASSUME InitialMode \in Modes /\ ConfigModes \subseteq Modes
ASSUME Orientations \subseteq {0, 90, 180, 270}

\* Raw events: relative axes, buttons, and the sync marker.
RelCodes == {"REL_X", "REL_Y", "REL_WHEEL"}
RawEvents ==
  [type : {"EV_REL"}, code : RelCodes, value : DeltaValues]
    \cup [type : {"EV_KEY"}, code : Buttons, value : {0, 1}]
    \cup {[type |-> "EV_SYN", code |-> "SYN_REPORT", value |-> 0]}

PointerKinds == {"DOWN", "UP", "MOVE", "HOVER_MOVE"}
KeyKinds     == {"DPAD_LEFT", "DPAD_RIGHT", "DPAD_UP", "DPAD_DOWN"}

VARIABLES
  mode,         \* mParameters.mode
  orientation,  \* mOrientation
  relX, relY,   \* CursorMotionAccumulator mRelX, mRelY
  btnAcc,       \* CursorButtonAccumulator: buttons reported down
  wheel,        \* CursorScrollAccumulator: vertical wheel delta
  buttonState,  \* mButtonState: the buttons of the last sync
  downTime,     \* mDownTime
  remX, remY,   \* navigation remainders carried between windows
  posX, posY,   \* pointer controller position
  nRaw,         \* raw events read: also the clock
  posted,       \* every event posted to the dispatcher, in order
  dispatched,   \* how many of them the dispatcher has taken
  rawX, rawY,   \* history: raw X / Y deltas read since the last reset
  mark          \* history: Len(posted) at the last reset

vars == <<mode, orientation, relX, relY, btnAcc, wheel, buttonState, downTime,
          remX, remY, posX, posY, nRaw, posted, dispatched, rawX, rawY, mark>>

Event == [kind : PointerKinds \cup KeyKinds, downTime : Int \cup {NoTime},
          x : Int, y : Int, wheel : Int]

AbsVal(v) == IF v < 0 THEN -v ELSE v
Sign(v)   == IF v < 0 THEN -1 ELSE 1

\* History: the delta a raw event reports on an axis.
RawDelta(e, axis) == IF e.type = "EV_REL" /\ e.code = axis THEN e.value ELSE 0

(***************************************************************************)
(* Mutants: plausible slips, each the replacement of one definition below. *)
(***************************************************************************)

\* A key press only once the remainder strictly exceeds the threshold.
NavStepStrict(r) ==
  LET k == (AbsVal(r) - 1) \div Threshold
  IN  <<k, r - Sign(r) * k * Threshold>>

\* The partial remainder dropped instead of carried to the next window.
NavStepDropRemainder(r) == <<AbsVal(r) \div Threshold, 0>>

\* The pointer position clamped at the far edges only.
ClampToDisplayNoFloor(v) == IF v > DisplayMax THEN DisplayMax ELSE v

\* The motion accumulator keeping the last delta of a window, not the sum.
MotionProcessOverwrite(e, axis, acc) ==
  IF e.type = "EV_REL" /\ e.code = axis THEN e.value ELSE acc

\* mDownTime re-stamped in every window with a button down.
NextDownTimeEveryWindow(prev, new, old, when) ==
  IF new # {} THEN when ELSE NoTime

(***************************************************************************)
(* Helpers: the per-window transforms of sync.                             *)
(***************************************************************************)

\* rotateDelta: the fixed rotation of the delta pair by the orientation,
\* counter-clockwise as the specification's table gives it ((5,0) at 90
\* degrees becomes (0,5)).
RotateDelta(dx, dy, o) ==
  CASE o = 0   -> <<dx, dy>>
    [] o = 90  -> <<-dy, dx>>
    [] o = 180 -> <<-dx, -dy>>
    [] o = 270 -> <<dy, -dx>>

\* Deltas of the window, rotated when the device is orientation aware.
WindowDelta(dx, dy) ==
  IF OrientationAware THEN RotateDelta(dx, dy, orientation) ELSE <<dx, dy>>

\* The pointer controller clamps its position to the display.
ClampToDisplay(v) == IF v < 0 THEN 0 ELSE IF v > DisplayMax THEN DisplayMax ELSE v

\* Navigation: the presses a running remainder r is worth, and what is left.
NavStep(r) ==
  LET k == AbsVal(r) \div Threshold
  IN  <<k, r - Sign(r) * k * Threshold>>

\* k DPAD presses (each a down+up pair) in one direction.
KeyPresses(k, kind) ==
  [i \in 1 .. k |-> [kind |-> kind, downTime |-> NoTime, x |-> 0, y |-> 0, wheel |-> 0]]

\* mDownTime after a window whose buttons go from prev to new: set on the
\* first button down, kept while any is down, cleared on the last up.
NextDownTime(prev, new, old, when) ==
  IF prev = {} /\ new # {} THEN when
  ELSE IF new = {} THEN NoTime
  ELSE old

\* The motion action of a window in the pointer modes.
MotionKind(prev, new) ==
  IF prev = {} /\ new # {} THEN "DOWN"
  ELSE IF prev # {} /\ new = {} THEN "UP"
  ELSE IF new # {} THEN "MOVE"
  ELSE "HOVER_MOVE"

(***************************************************************************)
(* Accumulators: process(rawEvent) of each; codes outside an accumulator's *)
(* set leave it unchanged.                                                 *)
(***************************************************************************)

MotionProcess(e, axis, acc) ==
  IF e.type = "EV_REL" /\ e.code = axis THEN acc + e.value ELSE acc

ButtonProcess(e, acc) ==
  IF e.type = "EV_KEY" /\ e.code \in Buttons
    THEN IF e.value = 1 THEN acc \cup {e.code} ELSE acc \ {e.code}
    ELSE acc

ScrollProcess(e, acc) ==
  IF e.type = "EV_REL" /\ e.code = "REL_WHEEL" THEN acc + e.value ELSE acc

(***************************************************************************)
(* The mapper's operations.                                                *)
(***************************************************************************)

Init ==
  /\ mode = InitialMode
  /\ orientation = 0
  /\ relX = 0 /\ relY = 0
  /\ btnAcc = {}
  /\ wheel = 0
  /\ buttonState = {}
  /\ downTime = NoTime
  /\ remX = 0 /\ remY = 0
  /\ posX = 0 /\ posY = 0
  /\ nRaw = 0
  /\ posted = <<>>
  /\ dispatched = 0
  /\ rawX = 0 /\ rawY = 0
  /\ mark = 0

\* reset(when): accumulators, button state, down-time and remainders cleared.
ResetState ==
  /\ relX' = 0 /\ relY' = 0
  /\ btnAcc' = {}
  /\ wheel' = 0
  /\ buttonState' = {}
  /\ downTime' = NoTime
  /\ remX' = 0 /\ remY' = 0
  /\ rawX' = 0 /\ rawY' = 0
  /\ mark' = Len(posted)

Reset ==
  /\ ResetState
  /\ UNCHANGED <<mode, orientation, posX, posY, nRaw, posted, dispatched>>

\* configure(when, config, changes) with a change of mode or orientation:
\* the mapper is fully reset before the new parameters are adopted.
Configure(m, o) ==
  /\ <<m, o>> # <<mode, orientation>>
  /\ mode' = m
  /\ orientation' = o
  /\ ResetState
  /\ UNCHANGED <<posX, posY, nRaw, posted, dispatched>>

\* process(rawEvent) for anything but the sync marker.
ProcessRaw(e) ==
  /\ nRaw < MaxRaw
  /\ e.type # "EV_SYN"
  /\ nRaw' = nRaw + 1
  /\ relX' = MotionProcess(e, "REL_X", relX)
  /\ relY' = MotionProcess(e, "REL_Y", relY)
  /\ btnAcc' = ButtonProcess(e, btnAcc)
  /\ wheel' = ScrollProcess(e, wheel)
  /\ rawX' = rawX + RawDelta(e, "REL_X")
  /\ rawY' = rawY + RawDelta(e, "REL_Y")
  /\ UNCHANGED <<mode, orientation, buttonState, downTime, remX, remY,
                 posX, posY, posted, dispatched, mark>>

\* sync(when) in navigation mode: remainders grow by the window's deltas,
\* each threshold crossed is a DPAD press, the rest carries over.
SyncNavigation(d) ==
  LET sx == NavStep(remX + d[1])
      sy == NavStep(remY + d[2])
  IN  /\ remX' = sx[2]
      /\ remY' = sy[2]
      /\ posted' = posted
                     \o KeyPresses(sx[1], IF remX + d[1] < 0 THEN "DPAD_LEFT" ELSE "DPAD_RIGHT")
                     \o KeyPresses(sy[1], IF remY + d[2] < 0 THEN "DPAD_UP" ELSE "DPAD_DOWN")
      /\ UNCHANGED <<buttonState, downTime, posX, posY>>

\* sync(when) in the pointer modes: one motion event with the buttons, the
\* velocity-scaled deltas (relative mode) or the moved position (pointer
\* mode) and the wheel delta.
SyncPointer(d, when) ==
  LET kind == MotionKind(buttonState, btnAcc)
      dt   == NextDownTime(buttonState, btnAcc, downTime, when)
      nx   == IF mode = MODE_POINTER THEN ClampToDisplay(posX + Gain * d[1]) ELSE posX
      ny   == IF mode = MODE_POINTER THEN ClampToDisplay(posY + Gain * d[2]) ELSE posY
      ev   == [kind     |-> kind,
               downTime |-> IF kind = "UP" THEN downTime ELSE dt,
               x        |-> IF mode = MODE_POINTER THEN nx ELSE Gain * d[1],
               y        |-> IF mode = MODE_POINTER THEN ny ELSE Gain * d[2],
               wheel    |-> WheelGain * wheel]
  IN  /\ buttonState' = btnAcc
      /\ downTime' = dt
      /\ posX' = nx
      /\ posY' = ny
      /\ posted' = Append(posted, ev)
      /\ UNCHANGED <<remX, remY>>

\* process(EV_SYN): sync(when), which reads every accumulator once and
\* clears the window's deltas.
ProcessSync ==
  /\ nRaw < MaxRaw
  /\ nRaw' = nRaw + 1
  /\ LET d == WindowDelta(relX, relY)
     IN  \/ mode = MODE_NAVIGATION /\ SyncNavigation(d)
         \/ mode # MODE_NAVIGATION /\ SyncPointer(d, nRaw + 1)
  /\ relX' = 0 /\ relY' = 0 /\ wheel' = 0
  /\ UNCHANGED <<mode, orientation, btnAcc, dispatched, rawX, rawY, mark>>

\* An event is posted and not yet taken by the dispatcher.
Pending == dispatched < Len(posted)

\* The dispatcher thread takes the next posted event; it never writes any
\* reader-side state.
Dispatch ==
  /\ Pending
  /\ dispatched' = dispatched + 1
  /\ UNCHANGED <<mode, orientation, relX, relY, btnAcc, wheel, buttonState,
                 downTime, remX, remY, posX, posY, nRaw, posted, rawX, rawY, mark>>

Next ==
  \/ \E e \in RawEvents : ProcessRaw(e)
  \/ ProcessSync
  \/ Reset
  \/ \E m \in ConfigModes, o \in Orientations : Configure(m, o)
  \/ Dispatch

Spec == Init /\ [][Next]_vars

(***************************************************************************)
(* Properties.                                                             *)
(***************************************************************************)

TypeOK ==
  /\ mode \in Modes
  /\ orientation \in Orientations \cup {0}
  /\ relX \in Int /\ relY \in Int /\ wheel \in Int
  /\ btnAcc \subseteq Buttons /\ buttonState \subseteq Buttons
  /\ downTime \in 1 .. MaxRaw \cup {NoTime}
  /\ remX \in -(Threshold - 1) .. (Threshold - 1)
  /\ remY \in -(Threshold - 1) .. (Threshold - 1)
  /\ posX \in 0 .. DisplayMax /\ posY \in 0 .. DisplayMax
  /\ nRaw \in 0 .. MaxRaw
  /\ posted \in Seq(Event)
  /\ dispatched \in 0 .. Len(posted)
  /\ mark \in 0 .. Len(posted)

\* Events posted since the last reset or configure.
Segment == SubSeq(posted, mark + 1, Len(posted))

CountKind(s, k) == Cardinality({i \in DOMAIN s : s[i].kind = k})

SumX(s) == LET F[i \in 0 .. Len(s)] == IF i = 0 THEN 0 ELSE F[i - 1] + s[i].x
           IN  F[Len(s)]
SumY(s) == LET F[i \in 0 .. Len(s)] == IF i = 0 THEN 0 ELSE F[i - 1] + s[i].y
           IN  F[Len(s)]

\* No motion is lost or counted twice (P1, P2, P6): since the last reset,
\* the deltas read from the device and already synced, rotated, equal in
\* navigation mode Threshold times the net DPAD presses plus the carried
\* remainder, and in relative-pointer mode the emitted deltas over the gain.
\* It spans many windows, the carry between them, and resets in between.
DeltaConserved ==
  LET d == WindowDelta(rawX - relX, rawY - relY)
  IN  /\ mode = MODE_NAVIGATION =>
           /\ Threshold * (CountKind(Segment, "DPAD_RIGHT") - CountKind(Segment, "DPAD_LEFT"))
                + remX = d[1]
           /\ Threshold * (CountKind(Segment, "DPAD_DOWN") - CountKind(Segment, "DPAD_UP"))
                + remY = d[2]
      /\ mode = MODE_POINTER_RELATIVE =>
           SumX(Segment) = Gain * d[1] /\ SumY(Segment) = Gain * d[2]

\* Within posted[from ..]: the press span (if any) open just before i.
LastSpanEdge(s, from, i) ==
  LET edges == {j \in from .. i - 1 : s[j].kind \in {"DOWN", "UP"}}
  IN  IF edges = {} THEN 0
      ELSE CHOOSE j \in edges : \A j2 \in edges : j2 <= j
SpanOpen(s, from, i) ==
  LastSpanEdge(s, from, i) # 0 /\ s[LastSpanEdge(s, from, i)].kind = "DOWN"

\* Pointer events of posted[from ..] form press spans: DOWN opens a span
\* only when none is open, MOVE and UP occur only in an open span and carry
\* the down-time of its DOWN, HOVER_MOVE only outside one; and a span is
\* open at the end exactly when the mapper has buttons down (P5).
SpansWellFormed(from) ==
  LET s == posted
  IN  /\ \A i \in from .. Len(s) :
           LET e == s[i]
               open == SpanOpen(s, from, i)
               dt == s[LastSpanEdge(s, from, i)].downTime
           IN  /\ e.kind = "DOWN" => ~open /\ e.downTime # NoTime
               /\ e.kind \in {"MOVE", "UP"} => open /\ e.downTime = dt
               /\ e.kind = "HOVER_MOVE" => ~open /\ e.downTime = NoTime
      /\ mode # MODE_NAVIGATION =>
           (SpanOpen(s, from, Len(s) + 1) <=> buttonState # {})

\* Press spans are well formed between resets: a button press produces one
\* down-time for its whole span and one terminating UP.
PressSpansPaired == SpansWellFormed(mark + 1)

\* The whole stream the dispatcher receives is made of well-formed press
\* spans: every DOWN it is given is closed by an UP before the next DOWN,
\* even when the mapper is reset or reconfigured in the middle of a press.
StreamSpansPaired == SpansWellFormed(1)
=============================================================================
