---------------------------- MODULE VadSegmenter ----------------------------
(***************************************************************************)
(* The path of one audio frame through the thread that detects speech:     *)
(* EnergyVAD::process (src/board/energy_vad.hpp), the counting of its      *)
(* events and handle_vad_segment, which collects the samples of a speech   *)
(* segment and queues it for the recogniser. processing_worker of          *)
(* pipeline_probe.cpp and ServerRuntime::capture_loop of ws_server.cpp     *)
(* run the same three calls; here they are one step, Frame.                *)
(*                                                                         *)
(* The two RMS thresholds divide the loudness of a frame into three        *)
(* levels: "high" (rms >= start_rms), "low" (rms < end_rms) and "mid"      *)
(* between them. The samples of a frame are stood for by its number. An    *)
(* operator followed by the definition it misstates (TooLongSinceLast,     *)
(* SubmitBlindly, ...) is a mutation that a property is tried against.     *)
(***************************************************************************)
EXTENDS Naturals, Sequences

CONSTANTS MinSpeech,    \* min_speech_ms
          Silence,      \* silence_ms
          MaxSegment,   \* max_segment_ms
          AsrCapacity,  \* capacity of asr_queue
          Gaps,         \* milliseconds between two frames that arrive here
          MaxFrames     \* bound of the model: frames that arrive

\* The constructor of EnergyVAD refuses 0 for the first two, BoundedQueue
\* refuses 0 for the capacity.
ASSUME ConfigAssumption ==
    /\ MinSpeech \in Nat \ {0}
    /\ Silence \in Nat \ {0}
    /\ MaxSegment \in Nat
    /\ AsrCapacity \in Nat \ {0}
ASSUME InputAssumption == Gaps \subseteq Nat /\ MaxFrames \in Nat

VARIABLES
    vad,           \* state_ and the three timestamps of EnergyVAD
    seg,           \* segment_active, segment_start_ms, segment_samples
    asrQueue,      \* the queued SpeechSegments
    nextSegmentId, \* next_segment_id, also the statistic asr_segments
    vadStarted, vadEnded, asrOverflows, asrDrops,   \* statistics
    asr,           \* whether a recogniser is configured
    transcribed,   \* segments the recogniser has taken
    frames,        \* frames processed so far
    now,           \* timestamp_ms of the last of them
    lastHigh       \* timestamp of the last frame at start_rms or above

stats == <<vadStarted, vadEnded, asrOverflows, asrDrops>>
clock == <<frames, now, lastHigh>>
vars == <<vad, seg, asrQueue, nextSegmentId, vadStarted, vadEnded,
          asrOverflows, asrDrops, asr, transcribed, frames, now, lastHigh>>

Levels == {"low", "mid", "high"}

VadReset == [state |-> "idle", candidate |-> 0, speech |-> 0, silence |-> 0]

\* Before the first frame of a segment and after its end.
SegReset == [active |-> FALSE, start |-> 0, samples |-> <<>>]

Init ==
    /\ vad = VadReset
    /\ seg = SegReset
    /\ asrQueue = <<>>
    /\ nextSegmentId = 0
    /\ vadStarted = 0 /\ vadEnded = 0 /\ asrOverflows = 0 /\ asrDrops = 0
    /\ asr \in BOOLEAN
    /\ transcribed = 0
    /\ frames = 0 /\ now = 0 /\ lastHigh = 0

-----------------------------------------------------------------------------
(* EnergyVAD::process.                                                     *)

FallSilentOnce(v, t) ==
    [v EXCEPT !.state = "ending", !.silence = IF @ = 0 THEN t ELSE @]

\* Speech fades: the silence is timed from this frame.
FallSilent(v, t) == [v EXCEPT !.state = "ending", !.silence = t]

Process(v, level, t) ==
    CASE v.state = "idle" /\ level = "high" ->
            [v EXCEPT !.state = "starting", !.candidate = t]
      [] v.state = "starting" /\ level = "low" ->
            [v EXCEPT !.state = "idle", !.candidate = 0]
      [] v.state = "starting" /\ level # "low" /\ t >= v.candidate + MinSpeech ->
            [v EXCEPT !.state = "speaking", !.speech = v.candidate]
      [] v.state = "speaking" /\ level = "low" ->
            FallSilent(v, t)
      [] v.state = "ending" /\ level = "high" ->
            [v EXCEPT !.state = "speaking"]
      [] v.state = "ending" /\ level # "high" /\ t >= v.silence + Silence ->
            VadReset
      [] OTHER -> v

\* The decision carries an event exactly on these two transitions.
Started(v, w) == v.state = "starting" /\ w.state = "speaking"
Ended(v, w)   == v.state = "ending" /\ w.state = "idle"

-----------------------------------------------------------------------------
(* handle_vad_segment, for a frame numbered n with timestamp t; w is the   *)
(* detector after process() and ended tells whether it reported Ended.     *)

ExtendedLate(w, n, t) ==
    IF seg.active
    THEN [seg EXCEPT !.samples = Append(@, n)]
    ELSE [active |-> TRUE, start |-> t, samples |-> <<>>]

\* The segment with the samples of this frame, begun now if need be.
Extended(w, n, t) ==
    IF seg.active
    THEN [seg EXCEPT !.samples = Append(@, n)]
    ELSE [active |-> TRUE, start |-> t, samples |-> <<n>>]

InSegment(w) == asr /\ (seg.active \/ w.state # "idle")

TooLongSinceLast(s, t) == t >= now /\ t - now > MaxSegment

TooLong(s, t) == t >= s.start /\ t - s.start > MaxSegment

OutsideSegment(w) ==
    /\ ~InSegment(w)
    /\ vad' = w
    /\ UNCHANGED <<seg, asrQueue, nextSegmentId, asrOverflows, asrDrops>>

OverflowKeepsVad(w, n, t) ==
    /\ InSegment(w)
    /\ TooLong(Extended(w, n, t), t)
    /\ seg' = SegReset
    /\ vad' = w
    /\ asrOverflows' = asrOverflows + 1
    /\ UNCHANGED <<asrQueue, nextSegmentId, asrDrops>>

\* The segment is given up and the detector starts afresh.
Overflow(w, n, t) ==
    /\ InSegment(w)
    /\ TooLong(Extended(w, n, t), t)
    /\ seg' = SegReset
    /\ vad' = VadReset
    /\ asrOverflows' = asrOverflows + 1
    /\ UNCHANGED <<asrQueue, nextSegmentId, asrDrops>>

SubmitBlindly(s) ==
    /\ asrQueue' = Append(asrQueue, s)
    /\ UNCHANGED asrDrops

SubmitUncounted(s) ==
    /\ asrQueue' = IF Len(asrQueue) < AsrCapacity
                   THEN Append(asrQueue, s) ELSE asrQueue
    /\ UNCHANGED asrDrops

\* try_push into the queue of the recogniser, which is open while frames are
\* processed (the thread that processes them closes it afterwards).
Submit(s) ==
    \/ /\ Len(asrQueue) < AsrCapacity
       /\ asrQueue' = Append(asrQueue, s)
       /\ UNCHANGED asrDrops
    \/ /\ Len(asrQueue) >= AsrCapacity
       /\ asrDrops' = asrDrops + 1
       /\ UNCHANGED asrQueue

Complete(w, ended, n, t) ==
    /\ InSegment(w)
    /\ ~TooLong(Extended(w, n, t), t)
    /\ ended
    /\ nextSegmentId' = nextSegmentId + 1
    /\ Submit([id |-> nextSegmentId, start |-> Extended(w, n, t).start,
               end |-> t, samples |-> Extended(w, n, t).samples])
    /\ seg' = SegReset
    /\ vad' = w
    /\ UNCHANGED asrOverflows

\* A candidate that never reached min_speech_ms is forgotten.
Noise(w, ended, n, t) ==
    /\ InSegment(w)
    /\ ~TooLong(Extended(w, n, t), t)
    /\ ~ended /\ w.state = "idle"
    /\ seg' = SegReset
    /\ vad' = w
    /\ UNCHANGED <<asrQueue, nextSegmentId, asrOverflows, asrDrops>>

Extend(w, ended, n, t) ==
    /\ InSegment(w)
    /\ ~TooLong(Extended(w, n, t), t)
    /\ ~ended /\ w.state # "idle"
    /\ seg' = Extended(w, n, t)
    /\ vad' = w
    /\ UNCHANGED <<asrQueue, nextSegmentId, asrOverflows, asrDrops>>

HandleVadSegment(w, ended, n, t) ==
    \/ OutsideSegment(w)
    \/ Overflow(w, n, t)
    \/ Complete(w, ended, n, t)
    \/ Noise(w, ended, n, t)
    \/ Extend(w, ended, n, t)

-----------------------------------------------------------------------------
\* One frame: process(), the counters of the events, handle_vad_segment.
Frame(level, gap) ==
    LET t == now + gap
        w == Process(vad, level, t)
    IN  /\ frames < MaxFrames
        /\ frames' = frames + 1
        /\ now' = t
        /\ lastHigh' = IF level = "high" THEN t ELSE lastHigh
        /\ vadStarted' = IF Started(vad, w) THEN vadStarted + 1 ELSE vadStarted
        /\ vadEnded' = IF Ended(vad, w) THEN vadEnded + 1 ELSE vadEnded
        /\ HandleVadSegment(w, Ended(vad, w), frames', t)
        /\ UNCHANGED <<asr, transcribed>>

\* asr_worker and asr_loop take the oldest segment.
Transcribe ==
    /\ asrQueue # <<>>
    /\ asrQueue' = Tail(asrQueue)
    /\ transcribed' = transcribed + 1
    /\ UNCHANGED <<vad, seg, nextSegmentId, stats, asr, clock>>

Next ==
    \/ \E level \in Levels, gap \in Gaps : Frame(level, gap)
    \/ Transcribe

Spec == Init /\ [][Next]_vars

-----------------------------------------------------------------------------
(* Properties.                                                             *)

Segment == [id : Nat, start : Nat, end : Nat, samples : Seq(Nat)]

\* The variables keep their types (EnergyVAD, PipelineContext,
\* SpeechSegment), and the queue of the recogniser keeps its capacity.
TypeOK ==
    /\ vad \in [state : {"idle", "starting", "speaking", "ending"},
                candidate : Nat, speech : Nat, silence : Nat]
    /\ seg \in [active : BOOLEAN, start : Nat, samples : Seq(Nat)]
    /\ asrQueue \in Seq(Segment)
    /\ Len(asrQueue) <= AsrCapacity
    /\ \A n \in {nextSegmentId, vadStarted, vadEnded, asrOverflows, asrDrops,
                 transcribed, frames, now, lastHigh} : n \in Nat
    /\ asr \in BOOLEAN

InSpeech == vad.state \in {"speaking", "ending"}

\* The collector follows the detector: audio is collected exactly while the
\* detector is not idle, from the frame at which the candidate (and then the
\* reported speech) began. handle_vad_segment keeps a state of its own and
\* resets both on an overflow, so the two could drift apart.
SegmentTracksVad ==
    /\ seg.active <=> asr /\ vad.state # "idle"
    /\ seg.active => seg.start = IF InSpeech THEN vad.speech ELSE vad.candidate

\* Every queued segment is longer than the shortest speech and its silence
\* and no longer than max_segment_ms; the one being collected never exceeds
\* max_segment_ms either, so the samples kept in memory are bounded.
SegmentDuration ==
    /\ \A i \in DOMAIN asrQueue :
          LET length == asrQueue[i].end - asrQueue[i].start
          IN  MinSpeech + Silence <= length /\ length <= MaxSegment
    /\ seg.active => now - seg.start <= MaxSegment

Last(s) == s[Len(s)]
Consecutive(s) == s # <<>> /\ \A i \in DOMAIN s : s[i] = s[1] + i - 1

\* A segment holds every frame from its first to its last, once and in
\* order; no frame is in two segments; the segment being collected goes up
\* to the newest frame.
NoFrameLostOrRepeated ==
    /\ \A i \in DOMAIN asrQueue : Consecutive(asrQueue[i].samples)
    /\ \A i, j \in DOMAIN asrQueue :
          i < j => Last(asrQueue[i].samples) < asrQueue[j].samples[1]
    /\ seg.active =>
          /\ Consecutive(seg.samples) /\ Last(seg.samples) = frames
          /\ \A i \in DOMAIN asrQueue :
                Last(asrQueue[i].samples) < seg.samples[1]

\* The numbers a client is shown account for all speech. Each vad_started is
\* answered by one vad_ended unless an overflow took the speech away or it
\* still goes on. Each vad_ended hands over one segment, unless that very
\* frame overflows it; a segment is dropped and counted, waiting or taken,
\* and what waits has the newest numbers in order.
SegmentsAccounted ==
    LET open == IF InSpeech THEN 1 ELSE 0
    IN
    /\ vadEnded + open <= vadStarted
    /\ vadStarted <= vadEnded + open + asrOverflows
    /\ nextSegmentId = asrDrops + transcribed + Len(asrQueue)
    /\ nextSegmentId <= vadEnded
    /\ asr => vadEnded <= nextSegmentId + asrOverflows
    /\ \A i \in DOMAIN asrQueue :
          /\ asrQueue[i].id < nextSegmentId
          /\ asrQueue[i].id >= transcribed + i - 1
    /\ \A i, j \in DOMAIN asrQueue : i < j => asrQueue[i].id < asrQueue[j].id

\* Speech is reported to have ended only when no frame at start_rms or above
\* was heard for silence_ms: the silence is timed anew after every pause.
\* (A level between the two thresholds counts as silence here.)
EndsAfterPause ==
    [][vadEnded' > vadEnded => now' - lastHigh' >= Silence]_vars
=============================================================================
