# TLA+ models of the cursor input path and CpuConsumer

This directory holds TLA+ specifications of two parts of this repository,
the TLC configurations that check them, and `PROJECT.json`. That file records
the components, the runs, the mutants, the map from definitions to source
lines, the findings and the hazards.

## 1. The system

The repository snapshot contains two independent subsystems.

* **CpuConsumer** (`src/libs/gui/CpuConsumer.cpp`) is the consumer end of a
  BufferQueue that hands graphic buffers to CPU readers.
  * A fixed table `mAcquiredBuffers` has `mMaxLockedBuffers` entries, and one
    mutex guards the table.
  * `lockNextBuffer` acquires the next queued buffer and maps it through
    `lockBufferItem`. It then records the buffer in a free entry, keyed by the
    data pointer it hands out (`mLockedBufferId`).
  * `unlockBuffer` finds the entry by that pointer, unlocks the graphic buffer
    and releases it to the queue.
  * This fork adds a GPU path for YUV buffers on a PowerVR EGL.
    * `initEgl` runs once. It creates a pbuffer and `mShmData`, both sized for
      the first buffer, and one `mMemoryBuffer` vector per entry.
    * Every later YUV buffer is drawn, read back with `glReadPixels` into
      `mShmData`, and converted by `ConvertRGB32ToPlanar` into
      `mMemoryBuffer[idx]`.
    * The address of that vector becomes the handed-out data pointer, and so
      the entry's id.
* **Cursor input** consists of three pieces:
  * `src/services/inputflinger/reader/mapper/CursorInputMapper.h`: the header
    only; the .cpp is not in the snapshot;
  * `src/services/inputflinger/InputManager.h`: the reader/dispatcher contract;
  * `spec.md`.

  Together they describe how the mapper turns a device's raw events into
  events, and how those events pass to the dispatcher:
  * The accumulators collect relative motion, buttons and the wheel.
  * At each `SYN_REPORT`, `sync` emits one of two things, depending on the mode:
    * in navigation mode, DPAD key presses, with a carried remainder, at
      `TRACKBALL_MOVEMENT_THRESHOLD` = 6;
    * in the pointer modes, motion events (DOWN/MOVE/UP/HOVER_MOVE with a
      down-time).
  * `configure` and `reset` fully reset the mapper.
  * The events are posted one way into the dispatcher's queue.

The two subsystems do not interact (spec.md §1), so they are modelled in
separate modules.

## 2. Inventory

| Component | State | Operations | Hard behaviour |
|---|---|---|---|
| CpuConsumer entry table | `mAcquiredBuffers[i]` (slot, graphic buffer, id), `mCurrentLockedBuffers` | `lockNextBuffer`, `unlockBuffer`, `findAcquiredBufferLocked` | several client threads; an error return in the middle of an operation; entries found by address |
| CpuConsumer GPU read-back | `mIsInited`, pbuffer/`mShmData` size, `mMemoryBuffer[i]` | `initEgl` (once), the GPU branch of `lockBufferItem`, the `mb.clear()` in `unlockBuffer` | state sized once and reused; memory freed before a step that can fail |
| BufferQueue (environment) | per-buffer FREE/QUEUED/ACQUIRED, the queue order, the acquire limit `max+1` | producer queue, `acquireBufferLocked`, `releaseBufferLocked` | acquire limit reached by leaked buffers |
| ConvertRGB32ToPlanar | output bytes | one pass over the pixels | stride against the allocated size; odd dimensions (`CHECK`) |
| Accumulators | rel X/Y, button mask, wheel | `process` per raw event, cleared at window end | no delta counted twice or lost |
| CursorInputMapper | mode, orientation, button state, down-time, navigation remainder, pointer position | `process`, `sync`, `configure`, `reset` | remainder carried across windows; press/release pairing; reset mid-press |
| VelocityControl | velocity estimate | scale one delta | floating-point curve (abstracted to a gain) |
| Reader to dispatcher | the posted queue | post (reader), dispatch (dispatcher thread) | one-way, order-preserving |
| Input threads' lifecycle | started/stopping/stopped, each thread's place in its loop, exit requests and wakes | `start()`, `stop()` (request exit, then join), the reader and dispatcher loops | stop while a thread is blocked or inside a batch; restarts |

The properties that make each component correct:
* **Entry table.**
  * The count equals the number of entries in use.
  * Every handle a client holds identifies the entry of its own buffer.
  * Every acquired buffer is in an entry.
  * A release frees only a buffer whose handle is given up.
* **GPU read-back.**
  * An entry's id is its own `mMemoryBuffer`.
  * The read-back target covers the buffer read.
* **Mapper.**
  * Raw deltas are conserved, through key presses and the remainder or through
    emitted motion.
  * The remainder stays below the threshold.
  * Every DOWN has exactly one UP and keeps one down-time.
* **Lifecycle.** `stop()` returns, whatever the threads are blocked in.

## 3. Modules

### CpuConsumer.tla (with CpuConsumerMC.tla)

The state is:
* `slots` (`mAcquiredBuffers`) and `curLocked`;
* `isInited` and `shmSize` (the size `initEgl` fixed);
* `eglThread`, the client thread on which `initEgl`'s `eglMakeCurrent`
  (line 194) made the EGL context current (`NoThread` before);
* `mb` (the address of each `mMemoryBuffer` vector, or `UnusedId`);
* the BufferQueue (`bq`, `queue`);
* `held` (the LockedBuffers each client holds) and `ret` (the last status).

The actions are:
* **`QueueBuffer`**, the producer.
* **`LockNextBuffer(c)`**, the whole call under the mutex. It has three
  disjuncts:
  * the `NOT_ENOUGH_DATA` return when full;
  * the acquire failure (an error, `INVALID_OPERATION`, at the acquire limit,
    which is checked first; else `BAD_VALUE` on an empty queue);
  * acquire followed by `LockBufferItem`. That step models:
    * the YUV and PowerVR choice;
    * `initEgl`;
    * the index of the GPU memory vector;
    * the fresh or reused heap address;
    * the lock failure;
    * recording the entry.
* **`UnlockBuffer(c, h)`**. It models:
  * the lookup, with `BAD_VALUE` when the lookup fails;
  * the conditional `mb.clear()`;
  * the `unlockAsync` failure;
  * the release, the reset and the decrement.

Data are model values. Buffers are `g1..g4`, with a YUV format, YV12 and RGBA.
Memory addresses are `a1, a2`. Pixel contents are not modelled.

### BufferLocking.tla (abstract) and the refinement

BufferLocking is what CpuConsumer promises its clients, with no entries,
ids or memory. Its state is:
* `queue`: the queued buffers;
* `locked[c]`: the buffers client `c` holds;
* `lost`: the buffers a failed lock took off the queue.

Its steps are `Produce`, `Lock` (the head of the queue, below the limit),
`LockFails` and `Unlock(c, b)`, which needs `b` to be in `locked[c]`.

CpuConsumer instantiates it as `BL == INSTANCE BufferLocking WITH ...`. The
mapping is:
* `locked[c]` is the set of graphic buffers of the handles `c` holds;
* `lost` is the acquired buffers that no entry tracks.

`ImplementsBufferLocking == BL!Spec` is a PROPERTY of cpu_gpu and cpu_failures.
No abstract step matches either of these:
* an unlock that releases another buffer than the one named;
* a lock past the limit.

So the property also fails in the cpu_retry configuration, which shows the
wrong-release bug.

### ConvertRGB32ToPlanar.tla (with ConvertRGB32ToPlanarMC.tla)

This module models the conversion loop of `ConvertRGB32ToPlanar` step by step.
* **Inputs.** The source's size and gralloc layout (`ycbcr.ystride`,
  `cstride`, `chroma_step`, `getStride()`) are drawn from `Layouts`. The
  read-back image is drawn from `Colors`.
* **State.** The loop counters, and `src`, `dstY` and `dstU` as byte offsets.
  `dst` holds every byte written at an offset into `mb`, inside its bounds or
  not.
* **Actions.**
  * `CheckFails` and `CheckPasses`: the two CHECKs.
  * `Pixel`: luma always, U and V on even x and y.
  * `RowEnd`: `dstU` advances after even rows.
  * `Return`.
* **The `LockedBuffer`.** `MbSize` is `mb.resize(width*height*3/2)`. The
  `Reported*` definitions are the fields lockBufferItem fills in (lines
  406-415). `ReadY`, `ReadCb` and `ReadCr` are what a client reading through
  them gets.
* **Arithmetic.** The code computes in `unsigned` and stores into `uint8_t`.
  TLC's integers are 32-bit signed, so the model keeps the unsigned value
  modulo 2^16. The stored byte depends only on bits 8..15, which 2^16 and 2^32
  both preserve.
* **Reference.** `RefY`, `RefCb` and `RefCr` are BT.601 with a true floor,
  written independently of the code's arithmetic.

### CursorInputMapper.tla (with CursorInputMapperMC.tla)

The state is:
* mode and orientation;
* the accumulators (`relX`, `relY`, `btnAcc`, `wheel`);
* `buttonState`, `downTime`, the navigation remainder `remX/remY` and the
  pointer position;
* the posted queue and the dispatched sequence;
* the history variables `rawX/rawY` (the raw deltas synced since the last
  reset), `nRaw` (the raw-event clock, which is also the event time) and `mark`
  (where the stream stood at the last reset).

The actions are:
* **`ProcessRaw(e)`**: an `EV_REL` or `EV_KEY` event goes to every
  accumulator.
* **`ProcessSync`**: `sync` in the current mode, then the window is cleared.
* **`Configure(m, o)`** and **`Reset`**: a full reset.
* **`Dispatch`**: the dispatcher thread takes the head of the queue.

`RotateDelta` uses the convention of spec.md §4.3. VelocityControl is a
constant gain, so the conservation property is exact.

### InputManager.tla (with InputManagerMC.tla)

`InputManager.h` declares `start()` ("Starts the input threads") and
`stop()` ("Stops the input threads and waits for them to exit"). Its comment
gives the two threads and the one-way queue between them. The thread loops
are not in the source, so they follow spec.md §4.4 and §5:
* each thread checks for exit at the head of its loop;
* the reader's only blocking point is the read of the next batch;
* the dispatcher's only blocking point is the wait for the next event;
* a batch the reader has read is processed up to its sync boundary and
  posted before the thread can exit.

The state is:
* `ctl`, the control thread (`stopped`, `started`, `stopping`);
* `thr[t]`, where each thread is in its loop (`idle` when no thread runs);
* `exitReq` and `woken`, the exit requests and pending wakes;
* the device source (`device`, `produced`);
* `readN`, the `inbound` queue and the `delivered` sequence.

The actions are:
* `Start`;
* `Stop`, which requests exit and wakes both waits;
* `StopReturns`, enabled once both threads are joined;
* `LoopTop(t)`, `Woken(t)`, `ReaderRead`, `ReaderSync` and `DispatchOne`;
* `DeviceBatch`, the environment.

The mapper is abstracted to its window: batch k yields posted event k. What
the mapper does inside a window is CursorInputMapper.tla.

The spec does not say that stop interrupts the blocking waits. The model
takes the wake, and the mutant that drops it shows that `stop()` then hangs
on an idle device.

## 4. Runs

| Run | Checks | Result | What it shows |
|---|---|---|---|
| cpu_gpu | TypeOK, SlotsAccounted, HandlesValid, MemoryMatchesSlots, ImplementsBufferLocking | pass (about 69k states) | the GPU path, with three client threads, with failing locks keeps the table, count, handles and memory vectors consistent, and implements BufferLocking |
| cpu_failures | SlotsAccounted, HandlesValid, ImplementsBufferLocking | pass (about 8k states) | the mapping path with failing locks and unlocks, retries and null handles stays consistent and implements BufferLocking |
| cpu_leak | AcquiredAreTracked | violation | **bug**: lockNextBuffer does not release the acquired buffer when lockBufferItem fails (line 480) |
| cpu_shm | ShmCoversReadback | violation | **bug**: a later larger YUV buffer is read into the first buffer's pbuffer and `mShmData` (lines 160, 394) |
| cpu_thread | GpuReadbackOnContextThread | violation | **bug**: `initEgl` makes the EGL context current only on the thread of the first GPU lock (line 194); a second client thread's lock runs `glReadPixels` (line 394) with no context and is handed a conversion of stale `mShmData` |
| cpu_retry | ReleaseOnlyOwn | violation | **bug**: after a failed unlockAsync the memory is already freed, the address is reused by another entry, and the unlock releases the wrong buffer (lines 513, 519, 503) |
| cursor_modes | TypeOK, DeltaConserved, PressSpansPaired | pass (about 397k states) | in all three modes and across switches between them, every raw delta is accounted for (by DPAD presses and the remainder, or by motion); between resets, presses are well formed |
| cursor_reset | StreamSpansPaired | violation | **spec gap**: a reset or configure mid-press leaves the dispatcher with an unclosed DOWN |
| inputmgr | TypeOK, StopEventuallyReturns | pass (about 730 states) | across any number of start/stop cycles, `stop()` always returns, even with both threads blocked on an idle device or the reader inside a batch |
| convert_tight | TypeOK, WritesInBounds, CoversBuffer, ConversionCorrect | pass (about 222k states) | when a source's row pitch is its width, the conversion stays inside `mb` and fills it, and a client reading through the reported layout gets BT.601 values, including over channel extremes where the unsigned chroma sums wrap; an odd width reaches the CHECK |
| convert_stride | WritesInBounds | violation | **bug**: with padded rows (ystride > width), chroma is written past `width*height*3/2` (lines 397, 399) |
| convert_layout | ConversionCorrect | violation | **bug**: for a YV12 source the reported chroma stride and step are the source's planar ones, but the data is interleaved (lines 414-415) |

Each property of a passing run has a mutant in `PROJECT.json`: a plausible
code bug that TLC must then catch under the run's own configuration. The
mutants cover:
* the full check off by one;
* an entry reset that keeps its id;
* the last free index instead of the first;
* an unlock that fails after touching the count or the entry;
* the threshold tested with `>`;
* a dropped remainder;
* a clamp without a floor;
* an accumulator that overwrites instead of adding;
* a down-time renewed every window;
* a pixel loop that runs one column too far;
* `dstU` advanced after every row;
* `mb` sized as RGB;
* chroma divided with truncation instead of a shift.

### Bounds

* **CpuConsumer** has 2 entries, 4 buffers and 2 heap addresses. cpu_gpu has
  3 client threads (about 69k states), so one of them can be refused at the
  limit while the other two hold buffers; the other runs have 2.
  * The acquire limit is `max + 1` = 3, so it can be reached only with a leaked
    buffer, which 4 buffers allow.
  * Address reuse needs an address freed and then taken again by the other
    entry, which 2 addresses already give.
  * Symmetry over clients and addresses is sound: no definition names one.
* **Cursor input** has 5 raw events, starting in navigation mode with
  configure able to switch to either pointer mode (about 397k states).
  * The deltas are {-7, 3}: -7 crosses the threshold with a remainder, and
    3+3 reaches it exactly; in the pointer modes the same deltas with display
    bounds 0..3 make the clamps bite at both edges.
  * Orientations 0 and 90 make rotation change signs and axes.
* **Conversion** uses 2x2, 4x2 and 2x4 images, plus one 3x2 image that reaches
  the CHECK.
  * A height of 4 is needed for a second chroma row, where a wrong `dstU`
    advance overflows.
  * A width of 4 is needed for a second chroma sample per row, where the
    chroma step matters.
  * The colours red, green and white make the U and V sums negative and not
    multiples of 256.
  * The 2x2 image takes 8 colours (each channel at an extreme or mid value)
    for the arithmetic; the larger ones take the three above (`Colors` is a
    function of the layout, `MCTightColors`).
* **Input threads** take 3 device batches.
  * That is enough for a batch to be inside the reader, one in the queue and
    one in the device when a stop comes.
  * Start/stop cycles are unbounded; the state space closes over them.

### Fairness

CursorInputMapper checks safety only and assumes no fairness.

InputManager has weak fairness on each thread's steps (`ThreadStep(t)`) and
on `StopReturns`. The reader and dispatcher are OS threads, and a thread
that can run will run. The control thread's join returns once both threads
have exited. `StopEventuallyReturns` is checked under this fairness.

Nothing is assumed fair for device input, clients, the producer, or the
calls of `start` and `stop`. Those are the environment.

## 5. Not modelled

* The EGL/GL calls (pure I/O whose errors are only logged).
* `closeEgl` and the destructor. They run once, when the consumer is
  destroyed; `closeEgl` deletes `mShmData` and unbinds the context on the
  destroying thread. Nothing of CpuConsumer is used afterwards.
* The BufferQueue internals beyond acquire, release and the limit.
* The position accumulator and the horizontal wheel.
* The VelocityControl curve (floating point).
* The dispatcher, the classifier and the pointer-icon controller.
* Non-cursor mappers.
* **Per-device ordering into the dispatcher (P7).** InputReader,
  InputClassifier and InputDispatcher are not in the source. With one reader
  thread posting into one FIFO, the order holds by construction in any model
  built from the header alone.

CursorInputMapper's behaviour is modelled from spec.md, because only its header
is in `src/`. Its operations are marked `spec_modelled` in the map.

## 6. Further work

1. **A liveness form of the leak** (CpuConsumer.cpp:465): once
   `MaxLockedBuffers + 1` buffers are lost, `lockNextBuffer` is refused
   forever. AcquiredAreTracked already catches the first leak; the
   permanent refusal would need a run of its own, and the project keeps at
   most 12.
2. **Several devices into one dispatcher** (P7). One reader thread posts
   every device's events into one FIFO, so per-device order holds by
   construction (see Not modelled). A model is worth writing only with the
   classifier's own thread, whose code is not in the snapshot.
3. **An abstract navigation specification** (net key presses per axis). It
   would restate DeltaConserved as a refinement and add little to it.
