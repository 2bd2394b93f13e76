----------------------------- MODULE InputManager -----------------------------
(***************************************************************************)
(* The input threads' lifecycle (src/services/inputflinger/InputManager.h): *)
(* a control thread calls start() and stop(); start() starts the reader    *)
(* and dispatcher threads, stop() stops them and waits for them to exit.   *)
(* The reader thread blocks for the next batch of raw events, runs it      *)
(* through the mappers up to its sync boundary and posts the result into   *)
(* the dispatcher's queue; the dispatcher thread blocks for the next       *)
(* queued event and delivers it.  Only the header is in the source, so the *)
(* thread loops follow spec.md sections 4.4 and 5: each thread checks for  *)
(* exit at the top of its loop, and a batch is always finished before.    *)
(*                                                                         *)
(* Data abstraction: batch k of the device yields the posted event k; the  *)
(* mapper itself is CursorInputMapper.tla, here only its window matters.   *)
(***************************************************************************)
EXTENDS Naturals, Sequences

CONSTANT MaxBatches   \* batches the device source delivers in a behaviour

Threads == {"reader", "dispatcher"}

VARIABLES
  ctl,        \* the control thread: "stopped", "started" or "stopping"
  thr,        \* thr[t]: "idle" (no thread), "top" (loop head), "wait"
              \* (blocked), "busy" (reader inside a batch) or "exited"
  exitReq,    \* exitReq[t]: requestExit has been called on thread t
  woken,      \* woken[t]: a wake is pending for thread t's blocking wait
  device,     \* batches the device source holds, not yet read
  produced,   \* batches the device source has delivered in all
  readN,      \* batches the reader has taken from the device source
  inbound,    \* the dispatcher's queue of posted events
  delivered   \* events the dispatcher has delivered, in order

vars == <<ctl, thr, exitReq, woken, device, produced, readN, inbound, delivered>>

(***************************************************************************)
(* Mutants: plausible slips in the lifecycle below.                        *)
(***************************************************************************)

\* stop() requesting exit without waking the blocked threads.
RequestExitNoWake ==
  /\ exitReq' = [t \in Threads |-> TRUE]
  /\ UNCHANGED woken

\* The reader's read leaving the batch in the device source.
ReaderReadKeepBatch ==
  /\ thr["reader"] = "wait" /\ device > 0
  /\ readN' = readN + 1
  /\ thr' = [thr EXCEPT !["reader"] = "busy"]
  /\ UNCHANGED <<ctl, exitReq, woken, device, produced, inbound, delivered>>

(***************************************************************************)
(* The model.                                                              *)
(***************************************************************************)

\* The InputManager is constructed with its reader and dispatcher, no
\* thread running.
Init ==
  /\ ctl = "stopped"
  /\ thr = [t \in Threads |-> "idle"]
  /\ exitReq = [t \in Threads |-> FALSE]
  /\ woken = [t \in Threads |-> FALSE]
  /\ device = 0 /\ produced = 0 /\ readN = 0
  /\ inbound = <<>> /\ delivered = <<>>

\* The device source delivers a batch ending in a sync marker.
DeviceBatch ==
  /\ produced < MaxBatches
  /\ device' = device + 1
  /\ produced' = produced + 1
  /\ UNCHANGED <<ctl, thr, exitReq, woken, readN, inbound, delivered>>

\* start(): both threads are started at the head of their loops.
Start ==
  /\ ctl = "stopped"
  /\ \A t \in Threads : thr[t] = "idle"
  /\ ctl' = "started"
  /\ thr' = [t \in Threads |-> "top"]
  /\ exitReq' = [t \in Threads |-> FALSE]
  /\ woken' = [t \in Threads |-> FALSE]
  /\ UNCHANGED <<device, produced, readN, inbound, delivered>>

\* requestExit on each thread, and a wake of the wait it may block in.
RequestExit ==
  /\ exitReq' = [t \in Threads |-> TRUE]
  /\ woken' = [t \in Threads |-> TRUE]

\* stop(), first half: the threads are asked to exit.
Stop ==
  /\ ctl = "started"
  /\ ctl' = "stopping"
  /\ RequestExit
  /\ UNCHANGED <<thr, device, produced, readN, inbound, delivered>>

\* stop() waits for a thread by joining it.
Joined(t) == thr[t] = "exited"

\* stop(), second half: it returns once every thread has been joined.
StopReturns ==
  /\ ctl = "stopping"
  /\ \A t \in Threads : Joined(t)
  /\ ctl' = "stopped"
  /\ thr' = [t \in Threads |-> IF thr[t] = "exited" THEN "idle" ELSE thr[t]]
  /\ UNCHANGED <<exitReq, woken, device, produced, readN, inbound, delivered>>

\* The head of a thread's loop: exit when asked to, else block again.
LoopTop(t) ==
  /\ thr[t] = "top"
  /\ thr' = [thr EXCEPT ![t] = IF exitReq[t] THEN "exited" ELSE "wait"]
  /\ UNCHANGED <<ctl, exitReq, woken, device, produced, readN, inbound, delivered>>

\* A wake ends a blocking wait with nothing read; the loop goes round.
Woken(t) ==
  /\ thr[t] = "wait" /\ woken[t]
  /\ thr' = [thr EXCEPT ![t] = "top"]
  /\ woken' = [woken EXCEPT ![t] = FALSE]
  /\ UNCHANGED <<ctl, exitReq, device, produced, readN, inbound, delivered>>

\* The reader's blocking read returns a batch.
ReaderRead ==
  /\ thr["reader"] = "wait" /\ device > 0
  /\ device' = device - 1
  /\ readN' = readN + 1
  /\ thr' = [thr EXCEPT !["reader"] = "busy"]
  /\ UNCHANGED <<ctl, exitReq, woken, produced, inbound, delivered>>

\* The batch reaches its sync boundary: the mapper's events are posted,
\* one way, and the reader goes back to the head of its loop.
ReaderSync ==
  /\ thr["reader"] = "busy"
  /\ inbound' = Append(inbound, readN)
  /\ thr' = [thr EXCEPT !["reader"] = "top"]
  /\ UNCHANGED <<ctl, exitReq, woken, device, produced, readN, delivered>>

\* The dispatcher's wait returns the head of its queue, which it delivers.
DispatchOne ==
  /\ thr["dispatcher"] = "wait" /\ inbound # <<>>
  /\ delivered' = Append(delivered, Head(inbound))
  /\ inbound' = Tail(inbound)
  /\ thr' = [thr EXCEPT !["dispatcher"] = "top"]
  /\ UNCHANGED <<ctl, exitReq, woken, device, produced, readN>>

ThreadStep(t) ==
  \/ LoopTop(t)
  \/ Woken(t)
  \/ t = "reader" /\ (ReaderRead \/ ReaderSync)
  \/ t = "dispatcher" /\ DispatchOne

Next ==
  \/ DeviceBatch \/ Start \/ Stop \/ StopReturns
  \/ \E t \in Threads : ThreadStep(t)

\* The threads are scheduled by the OS and the control thread's join
\* returns once it can; the device and the calls of start and stop are
\* the environment and need not happen.
Fairness ==
  /\ \A t \in Threads : WF_vars(ThreadStep(t))
  /\ WF_vars(StopReturns)

Spec == Init /\ [][Next]_vars /\ Fairness

(***************************************************************************)
(* Properties.                                                             *)
(***************************************************************************)

TypeOK ==
  /\ ctl \in {"stopped", "started", "stopping"}
  /\ thr \in [Threads -> {"idle", "top", "wait", "busy", "exited"}]
  /\ exitReq \in [Threads -> BOOLEAN] /\ woken \in [Threads -> BOOLEAN]
  /\ device \in 0 .. MaxBatches /\ produced \in 0 .. MaxBatches
  /\ readN \in 0 .. MaxBatches
  /\ inbound \in Seq(1 .. MaxBatches) /\ delivered \in Seq(1 .. MaxBatches)

\* stop() returns (header line 72: it waits for the threads to exit),
\* whatever the reader and dispatcher are blocked in when it is called,
\* even when the device never delivers another batch.
StopEventuallyReturns == ctl = "stopping" ~> ctl = "stopped"
=============================================================================
