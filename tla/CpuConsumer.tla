---------------------------- MODULE CpuConsumer ----------------------------
(***************************************************************************)
(* CpuConsumer (src/libs/gui/CpuConsumer.cpp): a BufferQueue consumer that *)
(* locks acquired graphic buffers for CPU reading.  It keeps a fixed table *)
(* of MaxLockedBuffers tracking entries (mAcquiredBuffers), each naming    *)
(* the queue slot it holds and the id of the LockedBuffer handed out: the  *)
(* address of the data the client reads.  lockNextBuffer and unlockBuffer  *)
(* run entirely under mMutex, so each call is one atomic step here; the    *)
(* interleaving is that of the calls of several client threads.            *)
(*                                                                         *)
(* Flexible-YUV buffers on a "powervr" EGL are read back through the GPU:  *)
(* the image is drawn into a pbuffer, read into mShmData and converted     *)
(* into the per-entry heap vector mMemoryBuffer[i], whose address becomes  *)
(* the id.  Every other buffer is handed out at its gralloc mapping.       *)
(*                                                                         *)
(* Data abstraction: a graphic buffer is a model value of GBufs with a     *)
(* format and a size; its gralloc mapping address is the buffer itself;   *)
(* heap allocations are drawn from HeapAddrs, any free one, the way       *)
(* malloc may return a chunk that was just freed.                          *)
(***************************************************************************)
EXTENDS Integers, Sequences, FiniteSets, FiniteSetsExt

CONSTANTS
  MaxLockedBuffers,  \* mMaxLockedBuffers, fixed at construction
  Clients,           \* threads calling lockNextBuffer / unlockBuffer
  GBufs,             \* graphic buffers cycling through the BufferQueue
  HeapAddrs,         \* addresses the heap allocator may hand out
  UnusedId,          \* AcquiredBuffer::kUnusedId (a null data pointer)
  NoBuf,             \* AcquiredBuffer with no graphic buffer
  Format,            \* Format[b]: the pixel format of graphic buffer b
  Width, Height,     \* Width[b], Height[b]: its dimensions
  IsPowerVR,         \* property ro.hardware.egl equals "powervr"
  NoThread,          \* no thread: the EGL context is current nowhere
  LockMayFail,       \* lockAsync / lockAsyncYCbCr may return an error
  UnlockMayFail      \* unlockAsync may return an error

ASSUME MaxLockedBuffers \in Nat \ {0}
ASSUME GBufs \cap HeapAddrs = {} /\ UnusedId \notin GBufs \cup HeapAddrs
ASSUME Cardinality(HeapAddrs) >= MaxLockedBuffers
ASSUME NoThread \notin Clients

Idx == 0 .. MaxLockedBuffers - 1
Ids == GBufs \cup HeapAddrs
NullBuf == [id |-> UnusedId, gb |-> NoBuf]

\* Pixel formats: a flexible YUV one (which must lock as YCbCr), another
\* YUV one, and an RGB one.
YCbCr420 == "YCbCr_420_888"
YV12     == "YV12"
RGBA     == "RGBA_8888"
Formats  == {YCbCr420, YV12, RGBA}

VARIABLES
  slots,       \* mAcquiredBuffers[i]: [id |-> mLockedBufferId, gb |-> mGraphicBuffer]
  curLocked,   \* mCurrentLockedBuffers
  isInited,    \* mIsInited: initEgl has completed
  shmSize,     \* <<w, h>> mShmData and the pbuffer were sized for (<<0,0>> before)
  eglThread,   \* the thread mEglContext is current on (eglMakeCurrent in initEgl)
  mb,          \* mMemoryBuffer[i]: address of its storage, or UnusedId when empty
  bq,          \* BufferQueue state of each graphic buffer
  queue,       \* buffers queued by the producer, oldest first
  held,        \* held[c]: LockedBuffers client c has been given and not unlocked
  ret          \* status the last call of each client returned

vars == <<slots, curLocked, isInited, shmSize, eglThread, mb, bq, queue, held, ret>>

Rets == {"OK", "NOT_ENOUGH_DATA", "BAD_VALUE", "ERROR"}
Handle == [id : Ids, gb : GBufs]

(***************************************************************************)
(* Mutants: plausible slips in the code below, each the replacement of one *)
(* definition; every property of a passing run is broken by one of them.   *)
(***************************************************************************)

\* The count check written as "more than the maximum".
LockedBuffersFullPastMax == curLocked > MaxLockedBuffers

\* lockBufferItem picking the last free entry for its memory buffer.
LockBufferItemIdxLast ==
  LET free == {i \in Idx : slots[i].id = UnusedId}
  IN  IF free = {} THEN MaxLockedBuffers ELSE Max(free)

\* AcquiredBuffer::reset() forgetting mLockedBufferId.
ResetAcquiredBufferKeepId(ab) == [ab EXCEPT !.gb = NoBuf]

\* mCurrentLockedBuffers-- moved above the unlockAsync error return.
UnlockAsyncFailedCountFirst(c, idx) ==
  /\ ret' = [ret EXCEPT ![c] = "ERROR"]
  /\ curLocked' = curLocked - 1
  /\ UNCHANGED <<slots, bq, held>>

\* ab.reset() moved above the unlockAsync error return.
UnlockAsyncFailedResetFirst(c, idx) ==
  /\ ret' = [ret EXCEPT ![c] = "ERROR"]
  /\ slots' = [slots EXCEPT ![idx] = NullBuf]
  /\ UNCHANGED <<curLocked, bq, held>>

(***************************************************************************)
(* Helpers translated from CpuConsumer.cpp.                                *)
(***************************************************************************)

\* isPossiblyYUV(format): RGB-family formats are not, every other format is.
IsPossiblyYUV(f) == f # RGBA

\* findAcquiredBufferLocked(id): the first entry whose id matches, or
\* mMaxLockedBuffers when none does.  It finds kUnusedId as well.
FindAcquiredBufferLocked(id) ==
  LET hits == {i \in Idx : slots[i].id = id}
  IN  IF hits = {} THEN MaxLockedBuffers ELSE Min(hits)

\* The entry whose mMemoryBuffer lockBufferItem fills (line 376).
LockBufferItemIdx == FindAcquiredBufferLocked(UnusedId)

\* Heap addresses currently owned by some mMemoryBuffer vector.
LiveHeap == {mb[i] : i \in Idx} \ {UnusedId}

\* Outcomes of calls into gralloc: an error only where failures are allowed.
LockOutcomes   == IF LockMayFail THEN BOOLEAN ELSE {TRUE}
UnlockOutcomes == IF UnlockMayFail THEN BOOLEAN ELSE {TRUE}

(***************************************************************************)
(* BufferQueue side (ConsumerBase, not part of CpuConsumer.cpp).           *)
(***************************************************************************)

\* The producer queues a free buffer.
QueueBuffer(b) ==
  /\ bq[b] = "FREE"
  /\ bq' = [bq EXCEPT ![b] = "QUEUED"]
  /\ queue' = Append(queue, b)
  /\ UNCHANGED <<slots, curLocked, isInited, shmSize, eglThread, mb, held, ret>>

Acquired == {b \in GBufs : bq[b] = "ACQUIRED"}

\* acquireBufferLocked succeeds while a buffer is queued and fewer than
\* mMaxAcquiredBufferCount + 1 are acquired (setMaxAcquiredBufferCount is
\* called with maxLockedBuffers in the constructor).
CanAcquire ==
  /\ queue # <<>>
  /\ Cardinality(Acquired) < MaxLockedBuffers + 1

Init ==
  /\ slots = [i \in Idx |-> NullBuf]
  /\ curLocked = 0
  /\ isInited = FALSE
  /\ shmSize = <<0, 0>>
  /\ eglThread = NoThread
  /\ mb = [i \in Idx |-> UnusedId]
  /\ bq = [b \in GBufs |-> "FREE"]
  /\ queue = <<>>
  /\ held = [c \in Clients |-> {}]
  /\ ret = [c \in Clients |-> "OK"]

(***************************************************************************)
(* initEgl(width, height, true): a no-op once mIsInited; INVALID_OPERATION *)
(* unless the EGL is powervr; otherwise the pbuffer and mShmData are made   *)
(* for width x height and mMemoryBuffer gets its MaxLockedBuffers entries.  *)
(* eglMakeCurrent binds the new context to the calling thread c, and to no *)
(* other.  EGL and GL errors are only logged, so it then returns OK.       *)
(***************************************************************************)
InitEglOK == isInited \/ IsPowerVR

InitEgl(c, b) ==
  /\ isInited' = InitEglOK
  /\ shmSize' = IF ~isInited /\ IsPowerVR THEN <<Width[b], Height[b]>> ELSE shmSize
  /\ eglThread' = IF ~isInited /\ IsPowerVR THEN c ELSE eglThread

(***************************************************************************)
(* lockNextBuffer(nativeBuffer) with lockBufferItem: the whole call runs   *)
(* under mMutex.                                                           *)
(***************************************************************************)

\* lockBufferItem(b) after a successful acquire of b.  ycOk and laOk are the
\* results of lockAsyncYCbCr and lockAsync, addr the storage mb.resize gets:
\* a free chunk, or the entry's own storage if it still had some.
LockBufferItem(c, b) ==
  \E ycOk \in LockOutcomes, laOk \in LockOutcomes :
    LET f         == Format[b]
        yuvLocked == IsPossiblyYUV(f) /\ ycOk        \* ycbcr.y != nullptr
        yuvFailed == IsPossiblyYUV(f) /\ ~ycOk /\ f = YCbCr420
        gpu       == yuvLocked /\ InitEglOK
        k         == LockBufferItemIdx
        idx       == FindAcquiredBufferLocked(UnusedId)
    IN
    \/ \* lockAsyncYCbCr failed on a flexible-YUV buffer, or lockAsync failed:
       \* the error is returned, the acquired buffer is kept acquired.
       /\ yuvFailed \/ (~yuvLocked /\ ~laOk)
       /\ ret' = [ret EXCEPT ![c] = "ERROR"]
       /\ UNCHANGED <<slots, curLocked, isInited, shmSize, eglThread, mb, held>>
    \/ /\ ~yuvFailed
       /\ yuvLocked \/ laOk
       /\ IF yuvLocked THEN InitEgl(c, b) ELSE UNCHANGED <<isInited, shmSize, eglThread>>
       /\ \E addr \in IF gpu THEN (HeapAddrs \ LiveHeap) \cup ({mb[k]} \ {UnusedId})
                             ELSE {UnusedId} :
            LET id == IF gpu THEN addr ELSE b
            IN  /\ mb' = IF gpu THEN [mb EXCEPT ![k] = addr] ELSE mb
                /\ slots' = [slots EXCEPT ![idx] = [id |-> id, gb |-> b]]
                /\ held' = [held EXCEPT ![c] = @ \cup {[id |-> id, gb |-> b]}]
       /\ curLocked' = curLocked + 1
       /\ ret' = [ret EXCEPT ![c] = "OK"]

\* mCurrentLockedBuffers == mMaxLockedBuffers: "Max buffers have been locked".
LockedBuffersFull == curLocked = MaxLockedBuffers

LockNextBuffer(c) ==
  \/ /\ LockedBuffersFull
     /\ ret' = [ret EXCEPT ![c] = "NOT_ENOUGH_DATA"]
     /\ UNCHANGED <<slots, curLocked, isInited, shmSize, eglThread, mb, bq, queue, held>>
  \/ /\ ~LockedBuffersFull
     /\ ~CanAcquire
     \* The acquire limit is checked first (INVALID_OPERATION, returned as
     \* is); NO_BUFFER_AVAILABLE on an empty queue becomes BAD_VALUE.
     /\ ret' = [ret EXCEPT ![c] =
                  IF Cardinality(Acquired) >= MaxLockedBuffers + 1
                    THEN "ERROR" ELSE "BAD_VALUE"]
     /\ UNCHANGED <<slots, curLocked, isInited, shmSize, eglThread, mb, bq, queue, held>>
  \/ /\ ~LockedBuffersFull
     /\ CanAcquire
     /\ LET b == Head(queue)
        IN  /\ bq' = [bq EXCEPT ![b] = "ACQUIRED"]
            /\ queue' = Tail(queue)
            /\ LockBufferItem(c, b)

(***************************************************************************)
(* unlockBuffer(nativeBuffer), under mMutex.                               *)
(***************************************************************************)

\* AcquiredBuffer::reset(): the entry no longer tracks a buffer.
ResetAcquiredBuffer(ab) == [ab EXCEPT !.id = UnusedId, !.gb = NoBuf]

\* unlockAsync returned an error: it is returned, the entry stays locked and
\* the client keeps its handle (and may retry).
UnlockAsyncFailed(c, idx) ==
  /\ ret' = [ret EXCEPT ![c] = "ERROR"]
  /\ UNCHANGED <<slots, curLocked, bq, held>>

UnlockBuffer(c, h) ==
  LET idx == IF h.id # UnusedId THEN FindAcquiredBufferLocked(h.id)
                                ELSE MaxLockedBuffers
  IN
  \/ \* "Can't find buffer to free"
     /\ idx = MaxLockedBuffers
     /\ ret' = [ret EXCEPT ![c] = "BAD_VALUE"]
     /\ held' = [held EXCEPT ![c] = @ \ {h}]
     /\ UNCHANGED <<slots, curLocked, isInited, shmSize, eglThread, mb, bq, queue>>
  \/ /\ idx # MaxLockedBuffers
     /\ LET ab == slots[idx]
        IN  \* the entry's memory buffer is cleared when it is the locked data
            /\ mb' = IF isInited /\ ab.id = mb[idx]
                       THEN [mb EXCEPT ![idx] = UnusedId] ELSE mb
            /\ \E ok \in UnlockOutcomes :
                 \/ ~ok /\ UnlockAsyncFailed(c, idx)
                 \/ \* addReleaseFenceLocked, releaseBufferLocked, ab.reset(), count--
                    /\ ok
                    /\ bq' = [bq EXCEPT ![ab.gb] = "FREE"]
                    /\ slots' = [slots EXCEPT ![idx] = ResetAcquiredBuffer(ab)]
                    /\ curLocked' = curLocked - 1
                    /\ held' = [held EXCEPT ![c] = @ \ {h}]
                    /\ ret' = [ret EXCEPT ![c] = "OK"]
     /\ UNCHANGED <<isInited, shmSize, eglThread, queue>>

Next ==
  \/ \E b \in GBufs : QueueBuffer(b)
  \/ \E c \in Clients : LockNextBuffer(c)
  \* a client unlocks a buffer it holds, or the zeroed LockedBuffer that a
  \* failed lockNextBuffer left untouched (its data is null)
  \/ \E c \in Clients : \E h \in held[c] \cup {NullBuf} : UnlockBuffer(c, h)

Spec == Init /\ [][Next]_vars

(***************************************************************************)
(* Properties.                                                             *)
(***************************************************************************)

TypeOK ==
  /\ slots \in [Idx -> [id : Ids \cup {UnusedId}, gb : GBufs \cup {NoBuf}]]
  /\ curLocked \in 0 .. MaxLockedBuffers
  /\ isInited \in BOOLEAN
  /\ shmSize \in (Nat \X Nat)
  /\ eglThread \in Clients \cup {NoThread}
  /\ mb \in [Idx -> HeapAddrs \cup {UnusedId}]
  /\ bq \in [GBufs -> {"FREE", "QUEUED", "ACQUIRED"}]
  /\ queue \in Seq(GBufs)
  /\ held \in [Clients -> SUBSET Handle]
  /\ ret \in [Clients -> Rets]

\* mCurrentLockedBuffers counts exactly the entries holding a locked buffer,
\* across every interleaving of lock, failed lock and unlock calls.  This is
\* what makes the search for a free entry in lockNextBuffer (line 485, only
\* ALOG_ASSERTed) succeed whenever the count check at line 458 let it in.
SlotsAccounted ==
  curLocked = Cardinality({i \in Idx : slots[i].id # UnusedId})

\* Every LockedBuffer a client still holds is found again by unlockBuffer's
\* search on its data address, and the entry found is the one holding the
\* graphic buffer it was locked from: unlocking it releases that buffer.
HandlesValid ==
  \A c \in Clients : \A h \in held[c] :
    LET i == FindAcquiredBufferLocked(h.id)
    IN  i # MaxLockedBuffers /\ slots[i].gb = h.gb

\* Entry i's mMemoryBuffer holds storage exactly while entry i is locked on
\* GPU-converted data, and that storage is the data the client was given:
\* lockBufferItem and lockNextBuffer pick the same free entry, and unlock
\* frees the storage of the entry it releases.
MemoryMatchesSlots ==
  \A i \in Idx :
    /\ slots[i].id \in HeapAddrs => mb[i] = slots[i].id
    /\ mb[i] # UnusedId => slots[i].id = mb[i]

\* Every graphic buffer the consumer has acquired from the BufferQueue is
\* tracked by an entry, so some unlockBuffer call can release it again.
\* lockNextBuffer acquires (line 465) before lockBufferItem can fail.
AcquiredAreTracked ==
  \A b \in Acquired : \E i \in Idx : slots[i].gb = b

\* A buffer read back through the GPU fits the pbuffer surface and the
\* mShmData array glReadPixels writes width*height*4 bytes into; initEgl
\* sizes both once, for the first buffer, and returns early afterwards.
ShmCoversReadback ==
  \A i \in Idx :
    slots[i].id \in HeapAddrs =>
      /\ Width[slots[i].gb] <= shmSize[1]
      /\ Height[slots[i].gb] <= shmSize[2]

\* Every LockedBuffer whose data was converted on the GPU was read back by
\* glReadPixels (line 394) on the thread the EGL context is current on.
\* initEgl makes mEglContext current (line 194) on the thread of the first
\* GPU lock only; mMutex orders the calls of other client threads but gives
\* them no context, so their GL calls do nothing and mShmData still holds
\* an earlier frame, or memory never written, when it is converted.
GpuReadbackOnContextThread ==
  \A c \in Clients : \A h \in held[c] : h.id \in HeapAddrs => c = eglThread

\* A step returns a graphic buffer to the BufferQueue only when a client
\* gives up a handle locked from that very buffer: an unlockBuffer call,
\* first or retried after unlockAsync failed, never releases a buffer other
\* than the one its LockedBuffer came from.
ReleaseOnlyOwn ==
  [][\A b \in GBufs :
       (bq[b] = "ACQUIRED" /\ bq'[b] = "FREE") =>
         \E c \in Clients : \E h \in held[c] \ held'[c] : h.gb = b]_vars

\* The table, the count, the memory vectors and the handles implement the
\* promise of BufferLocking: the buffers a client holds are those its
\* LockedBuffers came from, the acquired buffers no entry tracks are the
\* ones failed locks kept, and every step is a step of the promise.  Where
\* an unlock releases another buffer than the one named, or a lock gets
\* past the limit, no abstract step matches.
BL == INSTANCE BufferLocking WITH
        queue  <- queue,
        locked <- [c \in Clients |-> {h.gb : h \in held[c]}],
        lost   <- Acquired \ {slots[i].gb : i \in Idx}

ImplementsBufferLocking == BL!Spec
=============================================================================
