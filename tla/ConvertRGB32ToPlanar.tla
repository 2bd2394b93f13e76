------------------------- MODULE ConvertRGB32ToPlanar -------------------------
(***************************************************************************)
(* The GPU read-back conversion of CpuConsumer::lockBufferItem            *)
(* (src/libs/gui/CpuConsumer.cpp): the RGBA image read from the pbuffer   *)
(* into mShmData is converted by ConvertRGB32ToPlanar into the per-entry  *)
(* vector mb, resized to width*height*3/2 first, and the client is handed *)
(* a LockedBuffer describing where Y, Cb and Cr lie in mb.                 *)
(*                                                                         *)
(* The loop is modelled step by step (one pixel, one row end), with the   *)
(* pointers dstY, dstU and src as byte offsets, so the write extents and  *)
(* the chroma row advance are those of the code.  The gralloc layout of   *)
(* the source buffer (ycbcr.ystride, ycbcr.cstride, ycbcr.chroma_step,    *)
(* getStride()) is an input drawn from Layouts.                            *)
(*                                                                         *)
(* Arithmetic: the code computes in 32-bit unsigned int and stores into   *)
(* uint8_t.  TLC's integers are 32-bit signed, so the unsigned value is   *)
(* kept modulo 2^16 instead of 2^32: the stored byte ((v >> 8) + k) mod   *)
(* 256 depends on bits 8..15 of v only, which both moduli preserve.        *)
(***************************************************************************)
EXTENDS Integers

CONSTANTS
  Layouts,         \* records [w, h, ystride, gstride, cstride, step]
  Colors(_),       \* Colors(l): <<red, green, blue>> values the read-back
                   \* may hold in an image of layout l
  SurfaceIsBGR32   \* whether the build defines SURFACE_IS_BGR32

VARIABLES
  lay,     \* the source buffer's size and gralloc layout
  image,   \* image[<<px, py>>]: the RGB colour of each pixel
  pc,      \* "check", "row", "done" or "abort"
  y, x,    \* loop counters
  srcOff,  \* src - mShmData
  dstY,    \* dstY - mb.array()
  dstU,    \* dstU - mb.array()
  dst      \* dst[o]: the byte written at mb.array() + o, or Unset

vars == <<lay, image, pc, y, x, srcOff, dstY, dstU, dst>>

Unset == -1

Pixels(l) == (0 .. l.w - 1) \X (0 .. l.h - 1)

\* Room for every offset the loop can form, in bounds of mb or not.
DstDom(l) == 0 .. 2 * l.ystride * l.h

\* Mutants: plausible slips in the code below.
MbSizeRGB == lay.w * lay.h * 3
InRowInclusive(xx) == xx <= lay.w
ChromaRowEveryRow(yy) == TRUE
ChromaUTrunc(r, g, b) ==
  LET s == -r * 38 - g * 74 + b * 112 + 128
  IN  ((IF s >= 0 THEN s \div 256 ELSE -((-s) \div 256)) + 128) % 256

\* mb.resize(width * height * 3 / 2) before the call.
MbSize == (lay.w * lay.h * 3) \div 2

\* Unsigned arithmetic, and the store into a uint8_t.
Bits16(n) == n % 65536
StoreU8(n) == n % 256

Luma(r, g, b)    == StoreU8(Bits16(r * 65 + g * 129 + b * 25 + 128) \div 256 + 16)
ChromaU(r, g, b) == StoreU8(Bits16(-r * 38 - g * 74 + b * 112 + 128) \div 256 + 128)
ChromaV(r, g, b) == StoreU8(Bits16(r * 112 - g * 94 - b * 18 + 128) \div 256 + 128)

\* ConvertRGB32ToPlanar is called with bgr = false; the build may flip it.
Bgr == SurfaceIsBGR32
RedOffset   == IF Bgr THEN 2 ELSE 0
GreenOffset == 1
BlueOffset  == IF Bgr THEN 0 ELSE 2

\* glReadPixels(GL_RGBA) wrote the image row by row with pitch width * 4.
SrcStride == lay.w * 4
SrcByte(o) ==
  LET px == (o % SrcStride) \div 4
      py == o \div SrcStride
      c  == o % 4
  IN  IF c = 3 THEN 255 ELSE image[<<px, py>>][c + 1]

InRow(xx) == xx < lay.w
InImage(yy) == yy < lay.h
ChromaSample(xx, yy) == xx % 2 = 0 /\ yy % 2 = 0
ChromaRowDone(yy) == yy % 2 = 0

Init ==
  /\ lay \in Layouts
  /\ image \in [Pixels(lay) -> Colors(lay)]
  /\ pc = "check"
  /\ y = 0 /\ x = 0 /\ srcOff = 0 /\ dstY = 0 /\ dstU = 0
  /\ dst = [o \in DstDom(lay) |-> Unset]

\* CHECK((width & 1) == 0); CHECK((height & 1) == 0): the process aborts.
CheckFails ==
  /\ pc = "check"
  /\ ~(lay.w % 2 = 0 /\ lay.h % 2 = 0)
  /\ pc' = "abort"
  /\ UNCHANGED <<lay, image, y, x, srcOff, dstY, dstU, dst>>

\* The checks pass; dstU = dstY + dstStride * height.
CheckPasses ==
  /\ pc = "check"
  /\ lay.w % 2 = 0 /\ lay.h % 2 = 0
  /\ pc' = "row"
  /\ dstU' = dstY + lay.ystride * lay.h
  /\ UNCHANGED <<lay, image, y, x, srcOff, dstY, dst>>

\* One iteration of the inner loop: luma always, U and V on even x and y.
Pixel ==
  /\ pc = "row" /\ InImage(y) /\ InRow(x)
  /\ LET r == SrcByte(srcOff + RedOffset)
         g == SrcByte(srcOff + GreenOffset)
         b == SrcByte(srcOff + BlueOffset)
         withY == [dst EXCEPT ![dstY + x] = Luma(r, g, b)]
     IN  dst' = IF ChromaSample(x, y)
                THEN [withY EXCEPT ![dstU + x] = ChromaU(r, g, b),
                                   ![dstU + x + 1] = ChromaV(r, g, b)]
                ELSE withY
  /\ x' = x + 1
  /\ srcOff' = srcOff + 4
  /\ UNCHANGED <<lay, image, pc, y, dstY, dstU>>

\* The end of a row: dstU advances after even rows only.
RowEnd ==
  /\ pc = "row" /\ InImage(y) /\ ~InRow(x)
  /\ dstU' = IF ChromaRowDone(y) THEN dstU + lay.ystride ELSE dstU
  /\ srcOff' = srcOff + SrcStride - 4 * lay.w
  /\ dstY' = dstY + lay.ystride
  /\ y' = y + 1
  /\ x' = 0
  /\ UNCHANGED <<lay, image, pc, dst>>

Return ==
  /\ pc = "row" /\ ~InImage(y)
  /\ pc' = "done"
  /\ UNCHANGED <<lay, image, y, x, srcOff, dstY, dstU, dst>>

Next == CheckFails \/ CheckPasses \/ Pixel \/ RowEnd \/ Return

Spec == Init /\ [][Next]_vars

-----------------------------------------------------------------------------
(* The LockedBuffer lockBufferItem fills in for the converted image.       *)

ReportedStride == lay.ystride                 \* outBuffer->stride
ReportedCb == lay.gstride * lay.h             \* dataCb - mb.array()
ReportedCr == lay.gstride * lay.h + 1         \* dataCr - mb.array()
ReportedChromaStride == lay.cstride           \* outBuffer->chromaStride
ReportedChromaStep == lay.step                \* outBuffer->chromaStep

\* The samples a client reads through that description.
ReadY(i, j)  == dst[j * ReportedStride + i]
ReadCb(i, j) == dst[ReportedCb + j * ReportedChromaStride + i * ReportedChromaStep]
ReadCr(i, j) == dst[ReportedCr + j * ReportedChromaStride + i * ReportedChromaStep]

-----------------------------------------------------------------------------
(* Reference: ITU-R BT.601 in 8-bit integer form, with a true floor.       *)

FloorDiv256(n) == IF n >= 0 THEN n \div 256 ELSE -((255 - n) \div 256)
RefY(c)  == FloorDiv256(c[1] * 65 + c[2] * 129 + c[3] * 25 + 128) + 16
RefCb(c) == FloorDiv256(-c[1] * 38 - c[2] * 74 + c[3] * 112 + 128) + 128
RefCr(c) == FloorDiv256(c[1] * 112 - c[2] * 94 - c[3] * 18 + 128) + 128

-----------------------------------------------------------------------------
(* Properties.                                                             *)

TypeOK ==
  /\ pc \in {"check", "row", "done", "abort"}
  /\ y \in 0 .. lay.h
  /\ x \in 0 .. lay.w
  /\ dst \in [DstDom(lay) -> {Unset} \cup (0 .. 255)]

\* Every byte the loop writes through dstY and dstU lies inside mb as
\* lockBufferItem sized it (width * height * 3 / 2), whatever pitch
\* ycbcr.ystride the buffer has.
WritesInBounds == \A o \in DOMAIN dst : dst[o] # Unset => o < MbSize

\* When the conversion returns, every byte of mb has been written in this
\* call: the client reads nothing left over from an earlier frame.
CoversBuffer == pc = "done" => \A o \in 0 .. MbSize - 1 : dst[o] # Unset

\* When the conversion returns, a client reading Y, Cb and Cr through the
\* LockedBuffer's data, stride, dataCb, dataCr, chromaStride and chromaStep
\* gets the BT.601 value of every pixel and of the top-left pixel of every
\* 2x2 block, in spite of the unsigned wrap-around of the chroma sums.
ConversionCorrect ==
  pc = "done" =>
    /\ \A p \in Pixels(lay) : ReadY(p[1], p[2]) = RefY(image[p])
    /\ \A i \in 0 .. lay.w \div 2 - 1, j \in 0 .. lay.h \div 2 - 1 :
         /\ ReadCb(i, j) = RefCb(image[<<2 * i, 2 * j>>])
         /\ ReadCr(i, j) = RefCr(image[<<2 * i, 2 * j>>])
=============================================================================
