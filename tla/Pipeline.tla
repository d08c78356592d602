------------------------------ MODULE Pipeline ------------------------------
(***************************************************************************)
(* src/board/pipeline_probe.cpp as a whole: the capture, processing,       *)
(* monitor and asr threads, the three queues between them, the store, and  *)
(* the main thread that stops them (run_pipeline, request_stop).           *)
(*                                                                         *)
(* The three consumers run the loop of BoundedQueue.tla; wakeups are       *)
(* settled there, so a pop is one step here: it takes an item, or finds    *)
(* the queue empty and asks closed() in the next step. What the processing *)
(* thread does with a frame is in VadSegmenter.tla; here a frame may or    *)
(* may not complete a segment. The files of the store are in               *)
(* RecordingStore.tla.                                                     *)
(*                                                                         *)
(* An operator followed by the definition it misstates (FullTooLate, ...)  *)
(* is a mutation that a property is tried against.                         *)
(***************************************************************************)
EXTENDS Naturals, Sequences

CONSTANTS ProcessingCapacity,  \* processing_capacity
          MonitorCapacity,     \* monitor_capacity
          AsrCapacity,         \* asr_queue_capacity
          MaxFrames            \* bound of the model: frames captured

ASSUME CapacityAssumption ==
    /\ ProcessingCapacity \in Nat \ {0}
    /\ MonitorCapacity \in Nat \ {0}
    /\ AsrCapacity \in Nat \ {0}
ASSUME MaxFramesAssumption == MaxFrames \in Nat

VARIABLES
    asked,          \* "signal": g_signal_stop; "run_ms": that time has passed
    stopRequested,  \* stop_requested
    main,           \* place in run_pipeline and request_stop
    capture,        \* place in capture_worker
    interrupted,    \* snd_pcm_drop was called and not recovered from
    readErrors,     \* stats.read_errors # 0
    items,          \* per queue: its items, oldest first
    isOpen,         \* per queue: ~closed_
    worker,         \* per queue: place of the thread that empties it
    captured,       \* frames read
    popped,         \* per queue: processing_popped, monitor_popped; for the
                    \* recogniser's the segments it took (history)
    drops,          \* per queue: processing_drops, monitor_drops, asr_drops
    segments,       \* asr_segments
    storeOpen       \* recording_store accepts records

deviceVars == <<interrupted, readErrors>>
queueVars  == <<items, isOpen, worker>>
countVars  == <<captured, popped, drops, segments>>
vars == <<asked, stopRequested, main, capture, interrupted, readErrors, items,
          isOpen, worker, captured, popped, drops, segments, storeOpen>>

FrameQueues == {"processing", "monitor"}
Queues == FrameQueues \cup {"asr"}

\* run_pipeline has opened the device, the model and the store (or has thrown
\* before any thread began), and starts the threads. Without a model there is
\* no asr thread: nothing to wait for, no segments.
WorkersStarted ==
    \E asr \in {"popping", "done"} :
        worker = [q \in Queues |-> IF q = "asr" THEN asr ELSE "popping"]

Init ==
    /\ asked = "no" /\ stopRequested = FALSE
    /\ main = "run" /\ capture = "check"
    /\ interrupted = FALSE /\ readErrors = FALSE
    /\ items = [q \in Queues |-> <<>>]
    /\ isOpen = [q \in Queues |-> TRUE]
    /\ WorkersStarted
    /\ captured = 0 /\ segments = 0
    /\ popped = [q \in Queues |-> 0]
    /\ drops = [q \in Queues |-> 0]
    /\ storeOpen = TRUE

HasAsr == worker["asr"] # "done"

-----------------------------------------------------------------------------
(* capture_worker.                                                         *)

StopSeen == stopRequested \/ asked = "signal"

CaptureGoes(from, to) ==
    /\ capture = from
    /\ capture' = to
    /\ UNCHANGED <<asked, stopRequested, main, worker, segments, popped,
                   storeOpen>>

CaptureOnly(from, to) ==
    /\ CaptureGoes(from, to)
    /\ UNCHANGED <<deviceVars, items, isOpen, captured, drops>>

CaptureCheck == CaptureOnly("check", IF StopSeen THEN "closing" ELSE "reading")

\* snd_pcm_readi returns a frame, nothing, or an error. A handle that was
\* interrupted gives an error, and only there the read is sure to return.
ReadFrame ==
    /\ ~interrupted
    /\ captured < MaxFrames
    /\ CaptureGoes("reading", "captured")
    /\ captured' = captured + 1
    /\ UNCHANGED <<deviceVars, items, isOpen, drops>>

ReadNothing == ~interrupted /\ CaptureOnly("reading", "check")

ReadFails == CaptureOnly("reading", "failed")

AfterFailure ==
    CaptureOnly("failed", IF StopSeen THEN "closing" ELSE "recovering")

RecoverAndRead ==
    /\ CaptureGoes("recovering", "reading")
    /\ interrupted' = FALSE
    /\ UNCHANGED <<readErrors, items, isOpen, captured, drops>>

\* snd_pcm_recover prepares the handle again, even one dropped meanwhile.
Recover ==
    /\ CaptureGoes("recovering", "check")
    /\ interrupted' = FALSE
    /\ UNCHANGED <<readErrors, items, isOpen, captured, drops>>

RecoverFails ==
    /\ CaptureGoes("recovering", "closing")
    /\ readErrors' = TRUE
    /\ UNCHANGED <<interrupted, items, isOpen, captured, drops>>

\* The frame is given up when the stop has been requested meanwhile.
CheckBeforePush ==
    CaptureOnly("captured",
                IF stopRequested THEN "closing" ELSE "push_processing")

CapacityOf(q) == CASE q = "processing" -> ProcessingCapacity
                   [] q = "monitor"    -> MonitorCapacity
                   [] q = "asr"        -> AsrCapacity

FullTooLate(q) == Len(items[q]) > CapacityOf(q)

Full(q) == Len(items[q]) >= CapacityOf(q)

PushProcessing ==
    \/ /\ isOpen["processing"] /\ ~Full("processing")
       /\ CaptureGoes("push_processing", "pushed")
       /\ items' = [items EXCEPT !["processing"] = Append(@, captured)]
       /\ UNCHANGED <<deviceVars, isOpen, captured, drops>>
    \/ /\ ~isOpen["processing"] \/ Full("processing")
       /\ CaptureOnly("push_processing", "refused")

CountDropNever(q, from, to) == CaptureOnly(from, to)

\* A drop counts only while no stop is requested.
CountDrop(q, from, to) ==
    /\ CaptureGoes(from, to)
    /\ drops' = IF stopRequested THEN drops ELSE [drops EXCEPT ![q] = @ + 1]
    /\ UNCHANGED <<deviceVars, items, isOpen, captured>>

CheckBeforeMonitor ==
    CaptureOnly("pushed", IF stopRequested THEN "closing" ELSE "push_monitor")

PushMonitor ==
    \/ /\ ~isOpen["monitor"]
       /\ CaptureOnly("push_monitor", "check")
    \/ /\ isOpen["monitor"] /\ ~Full("monitor")
       /\ CaptureGoes("push_monitor", "check")
       /\ items' = [items EXCEPT !["monitor"] = Append(@, captured)]
       /\ UNCHANGED <<deviceVars, isOpen, captured, drops>>
    \/ /\ isOpen["monitor"] /\ Full("monitor")
       /\ CaptureGoes("push_monitor", "overwrote")
       /\ items' = [items EXCEPT !["monitor"] = Append(Tail(@), captured)]
       /\ UNCHANGED <<deviceVars, isOpen, captured, drops>>

\* The end of capture_worker: both queues are closed.
CaptureCloses(q, from, to) ==
    /\ CaptureGoes(from, to)
    /\ isOpen' = [isOpen EXCEPT ![q] = FALSE]
    /\ UNCHANGED <<deviceVars, items, captured, drops>>

-----------------------------------------------------------------------------
(* processing_worker, monitor_worker and asr_worker.                       *)

WorkerGoes(q, from, to) ==
    /\ worker[q] = from
    /\ worker' = [worker EXCEPT ![q] = to]
    /\ UNCHANGED <<asked, stopRequested, main, capture, deviceVars,
                   captured, storeOpen>>

WorkerOnly(q, from, to) ==
    /\ WorkerGoes(q, from, to)
    /\ UNCHANGED <<items, isOpen, popped, drops, segments>>

\* The monitor thread only counts its frames, so it is ready for the next.
Pop(q) ==
    /\ items[q] # <<>>
    /\ WorkerGoes(q, "popping", IF q = "monitor" THEN "popping" ELSE "handling")
    /\ items' = [items EXCEPT ![q] = Tail(@)]
    /\ popped' = [popped EXCEPT ![q] = @ + 1]
    /\ UNCHANGED <<isOpen, drops, segments>>

\* The wait expires, or the queue is closed and empty.
PopNothing(q) == items[q] = <<>> /\ WorkerOnly(q, "popping", "probing")

AfterLoop(q) == IF q = "processing" THEN "closing" ELSE "done"

Probe(q) ==
    WorkerOnly(q, "probing", IF isOpen[q] THEN "popping" ELSE AfterLoop(q))

\* A frame that completes no segment.
HandleFrame == WorkerOnly("processing", "handling", "popping")

\* The result of try_push is not looked at.
CompleteSegmentUncounted ==
    /\ HasAsr
    /\ WorkerGoes("processing", "handling", "popping")
    /\ segments' = segments + 1
    /\ items' = IF isOpen["asr"] /\ ~Full("asr")
                THEN [items EXCEPT !["asr"] = Append(@, segments')] ELSE items
    /\ UNCHANGED <<isOpen, popped, drops>>

\* A frame completes a segment: try_push to the recogniser.
CompleteSegment ==
    /\ HasAsr
    /\ WorkerGoes("processing", "handling", "popping")
    /\ segments' = segments + 1
    /\ \/ /\ isOpen["asr"] /\ ~Full("asr")
          /\ items' = [items EXCEPT !["asr"] = Append(@, segments')]
          /\ UNCHANGED drops
       \/ /\ ~isOpen["asr"] \/ Full("asr")
          /\ drops' = [drops EXCEPT !["asr"] = @ + 1]
          /\ UNCHANGED items
    /\ UNCHANGED <<isOpen, popped>>

\* An exception ends processing_worker; its own queue stays open.
ProcessingThrows == WorkerOnly("processing", "handling", "closing")

ProcessingCloses ==
    /\ WorkerGoes("processing", "closing", "done")
    /\ isOpen' = [isOpen EXCEPT !["asr"] = FALSE]
    /\ UNCHANGED <<items, popped, drops, segments>>

\* transcribe() returns or throws; either way a record goes to the store.
Transcribe == WorkerOnly("asr", "handling", "popping")

-----------------------------------------------------------------------------
(* run_pipeline and request_stop.                                          *)

MainGoes(from, to) ==
    /\ main = from
    /\ main' = to
    /\ UNCHANGED <<asked, capture, readErrors, items, worker,
                   countVars>>

MainOnly(from, to) ==
    /\ MainGoes(from, to)
    /\ UNCHANGED <<stopRequested, interrupted, isOpen, storeOpen>>

\* A signal arrives, or options.run_ms is over (0 is never).
Ask(reason) ==
    /\ asked = "no"
    /\ asked' = reason
    /\ UNCHANGED <<stopRequested, main, capture, deviceVars, queueVars,
                   countVars, storeOpen>>

\* The loop of run_pipeline ends, and request_stop begins with the exchange.
RequestStop ==
    /\ asked # "no" \/ readErrors
    /\ MainGoes("run", "drop_pcm")
    /\ stopRequested' = TRUE
    /\ UNCHANGED <<interrupted, isOpen, storeOpen>>

DropNothing == MainOnly("drop_pcm", "close_processing")

\* snd_pcm_drop: the read in progress, or the next one, returns.
DropPcm ==
    /\ MainGoes("drop_pcm", "close_processing")
    /\ interrupted' = TRUE
    /\ UNCHANGED <<stopRequested, isOpen, storeOpen>>

MainCloses(q, from, to) ==
    /\ MainGoes(from, to)
    /\ isOpen' = [isOpen EXCEPT ![q] = FALSE]
    /\ UNCHANGED <<stopRequested, interrupted, storeOpen>>

JoinCapture == capture = "done" /\ MainOnly("join_capture", "join_processing")

JoinUnstarted(q, from, to) == MainOnly(from, to)

Join(q, from, to) == worker[q] = "done" /\ MainOnly(from, to)

StopStore ==
    /\ MainGoes("stop_store", "done")
    /\ storeOpen' = FALSE
    /\ UNCHANGED <<stopRequested, interrupted, isOpen>>

-----------------------------------------------------------------------------
\* Everything the capture thread does without waiting for the device.
CaptureStep ==
    \/ CaptureCheck \/ AfterFailure \/ Recover \/ RecoverFails
    \/ CheckBeforePush \/ PushProcessing
    \/ CountDrop("processing", "refused", "pushed")
    \/ CheckBeforeMonitor \/ PushMonitor
    \/ CountDrop("monitor", "overwrote", "check")
    \/ CaptureCloses("processing", "closing", "closing_monitor")
    \/ CaptureCloses("monitor", "closing_monitor", "done")

ProcessingStep ==
    \/ Pop("processing") \/ PopNothing("processing") \/ Probe("processing")
    \/ HandleFrame \/ CompleteSegment \/ ProcessingThrows
    \/ ProcessingCloses

MonitorStep == Pop("monitor") \/ PopNothing("monitor") \/ Probe("monitor")

AsrStep == Pop("asr") \/ PopNothing("asr") \/ Probe("asr") \/ Transcribe

MainStep ==
    \/ RequestStop \/ DropPcm
    \/ MainCloses("processing", "close_processing", "close_monitor")
    \/ MainCloses("monitor", "close_monitor", "join_capture")
    \/ JoinCapture
    \/ Join("processing", "join_processing", "join_monitor")
    \/ Join("monitor", "join_monitor", "join_asr")
    \/ Join("asr", "join_asr", "stop_store")
    \/ StopStore

Next ==
    \/ CaptureStep
    \/ ReadFrame \/ ReadNothing \/ ReadFails
    \/ ProcessingStep \/ MonitorStep \/ AsrStep
    \/ \E reason \in {"signal", "run_ms"} : Ask(reason)
    \/ MainStep

Spec == Init /\ [][Next]_vars

\* Threads that can run are run, and a read of an interrupted handle returns.
\* Nobody need ask for the stop, and the device may stay silent.
FairSpec ==
    /\ Spec
    /\ WF_vars(CaptureStep)
    /\ WF_vars(interrupted /\ ReadFails)
    /\ WF_vars(ProcessingStep)
    /\ WF_vars(MonitorStep)
    /\ WF_vars(AsrStep)
    /\ WF_vars(MainStep)

-----------------------------------------------------------------------------
(* Properties.                                                             *)

CapturePlaces == {"check", "reading", "captured", "failed", "recovering",
                  "push_processing", "refused", "pushed", "push_monitor",
                  "overwrote", "closing", "closing_monitor", "done"}

\* The variables keep their types (PipelineContext, PipelineStats), and each
\* queue its capacity.
TypeOK ==
    /\ asked \in {"no", "signal", "run_ms"}
    /\ {stopRequested, interrupted, readErrors, storeOpen} \subseteq BOOLEAN
    /\ main \in {"run", "drop_pcm", "close_processing",
                 "close_monitor", "join_capture", "join_processing",
                 "join_monitor", "join_asr", "stop_store", "done"}
    /\ capture \in CapturePlaces
    /\ items \in [Queues -> Seq(1 .. MaxFrames)]
    /\ \A q \in Queues : Len(items[q]) <= CapacityOf(q)
    /\ isOpen \in [Queues -> BOOLEAN]
    /\ worker \in [Queues -> {"popping", "probing", "handling", "closing",
                              "done"}]
    /\ captured \in 0 .. MaxFrames
    /\ popped \in [Queues -> Nat] /\ drops \in [Queues -> Nat]
    /\ segments \in Nat

\* The capture thread still has a frame that queue q has not seen, or whose
\* loss it has yet to count.
InHand(q) ==
    IF capture \in {"captured", "push_processing", "refused"}
                   \cup (IF q = "monitor"
                         THEN {"pushed", "push_monitor", "overwrote"} ELSE {})
    THEN 1 ELSE 0

\* Every captured frame is popped, queued, in the hand of the capture thread
\* or counted as dropped, for either queue; the stop may lose a single frame
\* without counting it. Every segment is taken by the recogniser, queued or
\* counted as dropped, those too that complete while the program stops. So
\* the statistics explain what is missing, and what the end finds in a queue
\* is all they leave out.
FramesAccounted ==
    /\ \A q \in FrameQueues :
        LET seen == popped[q] + Len(items[q]) + drops[q] + InHand(q)
        IN  /\ seen <= captured
            /\ captured <= seen + 1
            /\ captured > seen => stopRequested
    /\ segments = popped["asr"] + Len(items["asr"]) + drops["asr"]

\* The stop in its order: the recogniser's queue is closed only when the
\* processing thread has submitted its last segment, the store takes records
\* until the recogniser has ended, and the end finds nothing running. From
\* snd_pcm_drop on no read waits on a handle that works, though the capture
\* thread may prepare the dropped one again while it recovers. The two frame
\* queues are closed at once, before the capture has ended: FramesAccounted
\* says what becomes of the frames. Nor is a segment that was accepted sure
\* to be transcribed: the recogniser may leave its loop with one queued, as
\* DrainedBeforeDone of BoundedQueue shows.
ShutdownOrder ==
    /\ capture = "reading" /\ main \notin {"run", "drop_pcm"} => interrupted
    /\ ~isOpen["asr"] => worker["processing"] = "done"
    /\ ~storeOpen => worker["asr"] = "done"
    /\ main = "done" => capture = "done" /\ \A q \in Queues : worker[q] = "done"

\* Once asked to stop, or after an error that ended the capture, the program
\* ends, even when the device is silent or the processing thread has died.
StopCompletes == asked # "no" \/ readErrors ~> main = "done"
=============================================================================
