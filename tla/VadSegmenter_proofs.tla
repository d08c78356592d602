------------------------ MODULE VadSegmenter_proofs ------------------------
(***************************************************************************)
(* Theorems about VadSegmenter for all thresholds, capacities and frame    *)
(* times: which segments the detector and the collector hand over, with    *)
(* which frames, and how the statistics account for them.                  *)
(***************************************************************************)
EXTENDS VadSegmenter, SequenceTheorems, TLAPS

USE ConfigAssumption, InputAssumption DEF ConfigAssumption, InputAssumption

\* The timestamps of the detector: speech is reported when the candidate is
\* MinSpeech old, and silence is timed from the pause, in which no frame was
\* loud.
TimesInOrder ==
    /\ lastHigh <= now
    /\ InSpeech => vad.speech + MinSpeech <= now
    /\ vad.state = "ending" => /\ vad.speech + MinSpeech <= vad.silence
                               /\ vad.silence <= now
                               /\ lastHigh <= vad.silence

\* The newest frame of a queued segment has arrived, so that the next segment
\* begins behind it.
QueuedFramesArrived ==
    \A i \in DOMAIN asrQueue : Last(asrQueue[i].samples) <= frames

\* The inductive invariant.
IInv == /\ TypeOK /\ SegmentTracksVad /\ TimesInOrder /\ SegmentDuration
        /\ NoFrameLostOrRepeated /\ QueuedFramesArrived /\ SegmentsAccounted

Vad == [state : {"idle", "starting", "speaking", "ending"},
        candidate : Nat, speech : Nat, silence : Nat]

Collector == [active : BOOLEAN, start : Nat, samples : Seq(Nat)]

-----------------------------------------------------------------------------
(* What one call of process() and of handle_vad_segment does.              *)

Waits(v, w, level) ==
    /\ w = v
    /\ v.state = "speaking" => level # "low"
    /\ v.state = "ending" => level # "high"

FindsCandidate(v, w, t) ==
    /\ v.state = "idle" /\ w.state = "starting"
    /\ w.candidate = t

ForgetsCandidate(v, w) == v.state = "starting" /\ w.state = "idle"

ReportsSpeech(v, w, t) ==
    /\ v.state = "starting" /\ w.state = "speaking"
    /\ w.speech = v.candidate /\ v.candidate + MinSpeech <= t

Pauses(v, w, level, t) ==
    /\ v.state = "speaking" /\ w.state = "ending" /\ level # "high"
    /\ w.speech = v.speech /\ w.silence = t

Resumes(v, w) ==
    /\ v.state = "ending" /\ w.state = "speaking"
    /\ w.speech = v.speech

ReportsEnd(v, w, level, t) ==
    /\ v.state = "ending" /\ w.state = "idle" /\ level # "high"
    /\ v.silence + Silence <= t

\* What process() may do to the detector at time t.
DetectorStep(v, w, level, t) ==
    \/ Waits(v, w, level)
    \/ FindsCandidate(v, w, t)
    \/ ForgetsCandidate(v, w)
    \/ ReportsSpeech(v, w, t)
    \/ Pauses(v, w, level, t)
    \/ Resumes(v, w)
    \/ ReportsEnd(v, w, level, t)

\* process() takes one of seven steps and keeps the types of its fields.
LEMMA ProcessSteps ==
    ASSUME NEW v \in Vad, NEW level \in Levels, NEW t \in Nat
    PROVE  /\ Process(v, level, t) \in Vad
           /\ DetectorStep(v, Process(v, level, t), level, t)
<1> USE DEF Vad, Levels, Process, FallSilent, VadReset, DetectorStep, Waits,
        FindsCandidate, ForgetsCandidate, ReportsSpeech, Pauses, Resumes,
        ReportsEnd
<1>1. CASE v.state = "idle"
  BY <1>1
<1>2. CASE v.state = "starting"
  BY <1>2
<1>3. CASE v.state = "speaking"
  BY <1>3
<1>4. CASE v.state = "ending"
  BY <1>4
<1> QED
  BY <1>1, <1>2, <1>3, <1>4

\* The collector takes the frame: with it the segment is a sequence of
\* numbers that ends with the new frame, from the first frame of all.
LEMMA ExtendedTypes ==
    ASSUME seg \in Collector, NEW w, NEW n \in Nat, NEW t \in Nat
    PROVE  /\ Extended(w, n, t) \in Collector
           /\ Extended(w, n, t).active
           /\ Extended(w, n, t).samples # <<>>
           /\ Last(Extended(w, n, t).samples) = n
           /\ Extended(w, n, t).start = IF seg.active THEN seg.start ELSE t
<1>1. CASE seg.active
  <2>1. Append(seg.samples, n) \in Seq(Nat)
    BY AppendProperties DEF Collector
  <2>2. /\ Append(seg.samples, n) # <<>>
        /\ Last(Append(seg.samples, n)) = n
    BY AppendProperties DEF Collector, Last
  <2> QED
    BY <1>1, <2>1, <2>2 DEF Extended, Collector
<1>2. CASE ~seg.active
  BY <1>2 DEF Extended, Collector, Last
<1> QED
  BY <1>1, <1>2

\* Appending the next frame keeps a segment without gaps.
LEMMA ConsecutiveAppend ==
    ASSUME NEW s \in Seq(Nat), NEW n \in Nat, Consecutive(s), Last(s) = n
    PROVE  /\ Consecutive(Append(s, n + 1))
           /\ Append(s, n + 1)[1] = s[1]
<1> DEFINE r == Append(s, n + 1)
<1>1. /\ r \in Seq(Nat) /\ Len(r) = Len(s) + 1 /\ r[Len(s) + 1] = n + 1
      /\ \A i \in 1 .. Len(s) : r[i] = s[i]
      /\ r # <<>>
  BY AppendProperties
<1>2. Len(s) \in Nat \ {0} /\ DOMAIN s = 1 .. Len(s)
      /\ DOMAIN r = 1 .. Len(r)
  BY <1>1, LenProperties, EmptySeq DEF Consecutive
<1>3. n = s[1] + Len(s) - 1
  BY <1>2 DEF Consecutive, Last
<1>4. s[1] \in Nat
  BY <1>2
<1>5. r[1] = s[1]
  BY <1>1, <1>2
<1>6. ASSUME NEW i \in DOMAIN r PROVE r[i] = r[1] + i - 1
  <2>1. CASE i \in 1 .. Len(s)
    BY <1>1, <1>2, <1>5, <2>1 DEF Consecutive
  <2>2. CASE i = Len(s) + 1
    BY <1>1, <1>3, <1>4, <1>5, <2>2, <1>2
  <2> QED
    BY <1>1, <1>2, <2>1, <2>2
<1> QED
  BY <1>1, <1>5, <1>6 DEF Consecutive

-----------------------------------------------------------------------------
(* One step of the thread that detects speech or of the recogniser.        *)

\* A frame: the detector takes one step, and the times go on.
LEMMA FrameFacts ==
    ASSUME TypeOK, NEW level \in Levels, NEW gap \in Gaps, Frame(level, gap),
           NEW w, w = Process(vad, level, now')
    PROVE  /\ w \in Vad /\ seg \in Collector
           /\ DetectorStep(vad, w, level, now')
           /\ now' \in Nat /\ now <= now'
           /\ frames' \in Nat /\ frames' = frames + 1
           /\ lastHigh' = IF level = "high" THEN now' ELSE lastHigh
           /\ HandleVadSegment(w, Ended(vad, w), frames', now')
<1>1. vad \in Vad /\ now \in Nat /\ frames \in Nat /\ gap \in Nat
  BY DEF TypeOK, Vad
<1>2. now' = now + gap /\ frames' = frames + 1
  BY DEF Frame
<1>3. now' \in Nat /\ now <= now' /\ frames' \in Nat
  BY <1>1, <1>2
<1>4. w \in Vad /\ DetectorStep(vad, w, level, now')
  BY <1>1, <1>3, ProcessSteps
<1>5. /\ lastHigh' = IF level = "high" THEN now' ELSE lastHigh
      /\ HandleVadSegment(w, Ended(vad, w), frames', now')
  BY <1>2 DEF Frame
<1>6. seg \in Collector
  BY DEF TypeOK, Collector
<1> QED
  BY <1>2, <1>3, <1>4, <1>5, <1>6

\* The pop of the recogniser.
LEMMA TailFacts ==
    ASSUME TypeOK, asrQueue # <<>>
    PROVE  /\ Tail(asrQueue) \in Seq(Segment)
           /\ Len(asrQueue) \in Nat \ {0}
           /\ Len(Tail(asrQueue)) = Len(asrQueue) - 1
           /\ DOMAIN asrQueue = 1 .. Len(asrQueue)
           /\ DOMAIN Tail(asrQueue) = 1 .. Len(asrQueue) - 1
           /\ \A i \in DOMAIN Tail(asrQueue) :
                 /\ i + 1 \in DOMAIN asrQueue
                 /\ Tail(asrQueue)[i] = asrQueue[i + 1]
<1>1. asrQueue \in Seq(Segment)
  BY DEF TypeOK
<1>2. /\ Tail(asrQueue) \in Seq(Segment)
      /\ Len(Tail(asrQueue)) = Len(asrQueue) - 1
      /\ \A i \in 1 .. Len(Tail(asrQueue)) : Tail(asrQueue)[i] = asrQueue[i + 1]
  BY <1>1, HeadTailProperties
<1>3. Len(asrQueue) \in Nat \ {0} /\ DOMAIN asrQueue = 1 .. Len(asrQueue)
  BY <1>1, EmptySeq, LenProperties
<1>4. DOMAIN Tail(asrQueue) = 1 .. Len(asrQueue) - 1
  BY <1>2, LenProperties
<1> QED
  BY <1>2, <1>3, <1>4

\* The push of a finished segment.
LEMMA AppendFacts ==
    ASSUME TypeOK, NEW x \in Segment
    PROVE  /\ Append(asrQueue, x) \in Seq(Segment)
           /\ Len(asrQueue) \in Nat
           /\ Len(Append(asrQueue, x)) = Len(asrQueue) + 1
           /\ DOMAIN asrQueue = 1 .. Len(asrQueue)
           /\ DOMAIN Append(asrQueue, x) = 1 .. Len(asrQueue) + 1
           /\ \A i \in DOMAIN asrQueue : Append(asrQueue, x)[i] = asrQueue[i]
           /\ Append(asrQueue, x)[Len(asrQueue) + 1] = x
<1>1. asrQueue \in Seq(Segment)
  BY DEF TypeOK
<1>2. /\ Append(asrQueue, x) \in Seq(Segment)
      /\ Len(Append(asrQueue, x)) = Len(asrQueue) + 1
      /\ \A i \in 1 .. Len(asrQueue) : Append(asrQueue, x)[i] = asrQueue[i]
      /\ Append(asrQueue, x)[Len(asrQueue) + 1] = x
  BY <1>1, AppendProperties
<1>3. Len(asrQueue) \in Nat /\ DOMAIN asrQueue = 1 .. Len(asrQueue)
  BY <1>1, LenProperties
<1>4. DOMAIN Append(asrQueue, x) = 1 .. Len(asrQueue) + 1
  BY <1>2, LenProperties
<1> QED
  BY <1>2, <1>3, <1>4

\* The segment that Complete hands over for the frame at time t.
Handed(w, n, t) ==
    [id |-> nextSegmentId, start |-> Extended(w, n, t).start,
     end |-> t, samples |-> Extended(w, n, t).samples]

\* Complete finds the collector active, and gives the queue one segment, with
\* the samples collected and those of this frame.
LEMMA HandedFacts ==
    ASSUME TypeOK, SegmentTracksVad, NEW level \in Levels, NEW gap \in Gaps,
           Frame(level, gap), NEW w, w = Process(vad, level, now'),
           Complete(w, Ended(vad, w), frames', now')
    PROVE  /\ asr /\ seg.active /\ vad.state = "ending" /\ w.state = "idle"
           /\ vad.silence + Silence <= now'
           /\ Handed(w, frames', now') \in Segment
           /\ Handed(w, frames', now').id = nextSegmentId
           /\ Handed(w, frames', now').start = vad.speech
           /\ Handed(w, frames', now').end = now'
           /\ Handed(w, frames', now').samples = Append(seg.samples, frames + 1)
           /\ now' - vad.speech <= MaxSegment
           /\ Submit(Handed(w, frames', now'))
<1> DEFINE x == Handed(w, frames', now')
<1>1. /\ DetectorStep(vad, w, level, now') /\ now' \in Nat /\ frames' \in Nat
      /\ frames' = frames + 1
  BY FrameFacts
<1>2. Ended(vad, w) /\ InSegment(w)
  BY DEF Complete
<1>3. /\ vad.state = "ending" /\ w.state = "idle"
      /\ vad.silence + Silence <= now'
  BY <1>1, <1>2 DEF Ended, DetectorStep, Waits, FindsCandidate,
       ForgetsCandidate, ReportsSpeech, Pauses, Resumes, ReportsEnd
<1>4. asr /\ seg.active /\ seg.start = vad.speech
  BY <1>2, <1>3 DEF InSegment, SegmentTracksVad, InSpeech
<1>5. seg \in Collector /\ nextSegmentId \in Nat /\ vad.speech \in Nat
  BY DEF TypeOK, Collector
<1>6. /\ Extended(w, frames', now') \in Collector
      /\ Extended(w, frames', now').start = vad.speech
  BY <1>1, <1>4, <1>5, ExtendedTypes
<1>7. Extended(w, frames', now').samples = Append(seg.samples, frames + 1)
  BY <1>1, <1>4, <1>5 DEF Extended, Collector
<1>8. x \in Segment
  BY <1>1, <1>5, <1>6 DEF Handed, Segment, Collector
<1>9. now' - vad.speech <= MaxSegment
  <2>1. ~TooLong(Extended(w, frames', now'), now')
    BY DEF Complete
  <2> QED
    BY <1>1, <1>5, <1>6, <2>1 DEF TooLong
<1>10. Submit(x)
  BY DEF Complete, Handed
<1> QED
  BY <1>3, <1>4, <1>6, <1>7, <1>8, <1>9, <1>10 DEF Handed

-----------------------------------------------------------------------------
(* The parts of the inductive invariant.                                   *)

\* The variables keep their types, and try_push the capacity.
LEMMA TypeStep ==
    ASSUME TypeOK, SegmentTracksVad, [Next]_vars
    PROVE  TypeOK'
<1> USE DEF stats, clock
<1>0. CASE UNCHANGED vars
  BY <1>0 DEF vars, TypeOK
<1>1. ASSUME NEW level \in Levels, NEW gap \in Gaps, Frame(level, gap)
      PROVE  TypeOK'
  <2> DEFINE w == Process(vad, level, now')
  <2>1. /\ seg \in Collector
        /\ w \in Vad /\ now' \in Nat /\ frames' \in Nat
        /\ lastHigh' = IF level = "high" THEN now' ELSE lastHigh
        /\ HandleVadSegment(w, Ended(vad, w), frames', now')
    BY <1>1, FrameFacts
  <2>2. Extended(w, frames', now') \in Collector
    BY <2>1, ExtendedTypes
  <2>3. VadReset \in Vad /\ SegReset \in Collector
    BY EmptySeq DEF VadReset, SegReset, Vad, Collector
  <2>4. /\ vadStarted \in Nat /\ vadEnded \in Nat /\ lastHigh \in Nat
         /\ transcribed \in Nat /\ nextSegmentId \in Nat
         /\ asrOverflows \in Nat /\ asrDrops \in Nat
    BY DEF TypeOK
  <2>5. /\ vadStarted' \in Nat /\ vadEnded' \in Nat /\ lastHigh' \in Nat
        /\ transcribed' \in Nat
    BY <1>1, <2>1, <2>4 DEF Frame
  <2>6. asr' \in BOOLEAN
    BY <1>1 DEF Frame, TypeOK
  <2>7. nextSegmentId' \in Nat /\ asrOverflows' \in Nat
    BY <2>1, <2>4 DEF HandleVadSegment, OutsideSegment, Overflow,
         Complete, Noise, Extend
  <2>8. vad' \in Vad /\ seg' \in Collector
    <3>1. seg \in Collector
      BY DEF TypeOK, Collector
    <3> QED
      BY <2>1, <2>2, <2>3, <3>1 DEF HandleVadSegment, OutsideSegment,
           Overflow, Complete, Noise, Extend
  <2>9. /\ asrQueue' \in Seq(Segment) /\ Len(asrQueue') <= AsrCapacity
        /\ asrDrops' \in Nat
    <3>1. CASE Complete(w, Ended(vad, w), frames', now')
      <4>1. /\ Handed(w, frames', now') \in Segment
            /\ Submit(Handed(w, frames', now'))
        BY <1>1, <3>1, HandedFacts
      <4>2. CASE Len(asrQueue) < AsrCapacity
        BY <2>4, <4>1, <4>2, AppendFacts DEF Submit
      <4>3. CASE Len(asrQueue) >= AsrCapacity
        <5>1. asrDrops' = asrDrops + 1 /\ asrQueue' = asrQueue
          BY <4>1, <4>3, AppendFacts DEF Submit
        <5> QED
          BY <2>4, <5>1 DEF TypeOK
      <4> QED
        BY <4>1, <4>2, <4>3 DEF Submit
    <3>2. CASE ~Complete(w, Ended(vad, w), frames', now')
      <4>1. UNCHANGED <<asrQueue, asrDrops>>
        BY <2>1, <3>2 DEF HandleVadSegment, OutsideSegment, Overflow, Noise,
             Extend
      <4> QED
        BY <4>1 DEF TypeOK
    <3> QED
      BY <3>1, <3>2
  <2> QED
    BY <2>1, <2>5, <2>6, <2>7, <2>8, <2>9 DEF TypeOK, Vad, Collector
<1>2. CASE Transcribe
  <2>1. Tail(asrQueue) \in Seq(Segment) /\ Len(Tail(asrQueue)) <= AsrCapacity
    BY <1>2, TailFacts DEF Transcribe, TypeOK
  <2>2. transcribed \in Nat /\ transcribed' = transcribed + 1
    BY <1>2 DEF Transcribe, TypeOK
  <2>3. transcribed' \in Nat
    BY <2>2
  <2>4. asrQueue' = Tail(asrQueue) /\ UNCHANGED <<vad, seg, nextSegmentId,
           vadStarted, vadEnded, asrOverflows, asrDrops, asr, frames, now,
           lastHigh>>
    BY <1>2 DEF Transcribe
  <2> QED
    BY <2>1, <2>3, <2>4 DEF TypeOK
<1> QED
  BY <1>0, <1>1, <1>2 DEF Next

\* Whatever ends a segment resets the collector and the detector together.
LEMMA TracksStep ==
    ASSUME TypeOK, SegmentTracksVad, [Next]_vars
    PROVE  SegmentTracksVad'
<1> USE DEF SegmentTracksVad, InSpeech, stats, clock
<1>0. CASE UNCHANGED vars
  BY <1>0 DEF vars
<1>1. ASSUME NEW level \in Levels, NEW gap \in Gaps, Frame(level, gap)
      PROVE  SegmentTracksVad'
  <2> DEFINE w == Process(vad, level, now')
             e == Extended(w, frames', now')
  <2>1. /\ seg \in Collector
        /\ w \in Vad /\ DetectorStep(vad, w, level, now')
        /\ now' \in Nat /\ frames' \in Nat
        /\ HandleVadSegment(w, Ended(vad, w), frames', now')
    BY <1>1, FrameFacts
  <2>2. e.active /\ e.start = IF seg.active THEN seg.start ELSE now'
    BY <2>1, ExtendedTypes
  <2>3. asr' = asr
    BY <1>1 DEF Frame
  <2>4. CASE OutsideSegment(w)
    BY <2>1, <2>3, <2>4 DEF OutsideSegment, InSegment
  <2>5. CASE Overflow(w, frames', now')
    BY <2>3, <2>5 DEF Overflow, VadReset, SegReset
  <2>6. CASE Complete(w, Ended(vad, w), frames', now')
    BY <2>3, <2>6 DEF Complete, Ended, SegReset
  <2>7. CASE Noise(w, Ended(vad, w), frames', now')
    BY <2>3, <2>7 DEF Noise, SegReset
  <2>8. CASE Extend(w, Ended(vad, w), frames', now')
    <3>1. asr /\ w.state # "idle" /\ seg' = e /\ vad' = w
      BY <2>8 DEF Extend, InSegment
    <3>2. e.start = IF w.state \in {"speaking", "ending"} THEN w.speech
                    ELSE w.candidate
      BY <2>1, <2>2, <3>1 DEF DetectorStep, Waits, FindsCandidate,
           ForgetsCandidate, ReportsSpeech, Pauses, Resumes, ReportsEnd, Vad
    <3> QED
      BY <2>2, <2>3, <3>1, <3>2
  <2> QED
    BY <2>1, <2>4, <2>5, <2>6, <2>7, <2>8 DEF HandleVadSegment
<1>2. CASE Transcribe
  BY <1>2 DEF Transcribe
<1> QED
  BY <1>0, <1>1, <1>2 DEF Next

\* The time does not run backwards, and loud frames end a pause.
LEMMA TimesStep ==
    ASSUME TypeOK, TimesInOrder, [Next]_vars
    PROVE  TimesInOrder'
<1> USE DEF TimesInOrder, InSpeech, stats, clock
<1>0. CASE UNCHANGED vars
  BY <1>0 DEF vars
<1>1. ASSUME NEW level \in Levels, NEW gap \in Gaps, Frame(level, gap)
      PROVE  TimesInOrder'
  <2> DEFINE w == Process(vad, level, now')
  <2>1. /\ w \in Vad /\ DetectorStep(vad, w, level, now')
        /\ now' \in Nat /\ now <= now'
        /\ lastHigh' = IF level = "high" THEN now' ELSE lastHigh
        /\ HandleVadSegment(w, Ended(vad, w), frames', now')
    BY <1>1, FrameFacts
  <2>2. vad' = w \/ vad' = VadReset
    BY <2>1 DEF HandleVadSegment, OutsideSegment, Overflow, Complete, Noise,
         Extend
  <2>3. /\ vad.candidate \in Nat /\ vad.speech \in Nat /\ vad.silence \in Nat
        /\ now \in Nat /\ lastHigh \in Nat
    BY DEF TypeOK
  <2>4. lastHigh' <= now'
    BY <2>1, <2>3
  <2>5. CASE vad' = VadReset
    BY <2>4, <2>5 DEF VadReset
  <2>6. CASE vad' = w
    <3>1. w.state \in {"speaking", "ending"} => w.speech + MinSpeech <= now'
      BY <2>1, <2>3 DEF DetectorStep, Waits, FindsCandidate,
           ForgetsCandidate, ReportsSpeech, Pauses, Resumes, ReportsEnd
    <3>2. w.state = "ending" =>
             /\ w.speech + MinSpeech <= w.silence
             /\ w.silence <= now'
             /\ lastHigh' <= w.silence
      BY <2>1, <2>3 DEF DetectorStep, Waits, FindsCandidate,
           ForgetsCandidate, ReportsSpeech, Pauses, Resumes, ReportsEnd
    <3> QED
      BY <2>4, <2>6, <3>1, <3>2
  <2> QED
    BY <2>2, <2>5, <2>6
<1>2. CASE Transcribe
  BY <1>2 DEF Transcribe
<1> QED
  BY <1>0, <1>1, <1>2 DEF Next


\* A segment is handed over when it is long enough, and given up when it is
\* too long.
LEMMA DurationStep ==
    ASSUME TypeOK, SegmentTracksVad, TimesInOrder, SegmentDuration, [Next]_vars
    PROVE  SegmentDuration'
<1> USE DEF SegmentDuration, stats, clock
<1>0. CASE UNCHANGED vars
  BY <1>0 DEF vars
<1>1. ASSUME NEW level \in Levels, NEW gap \in Gaps, Frame(level, gap)
      PROVE  SegmentDuration'
  <2> DEFINE w == Process(vad, level, now')
             e == Extended(w, frames', now')
  <2>1. /\ seg \in Collector
        /\ now' \in Nat /\ frames' \in Nat
        /\ HandleVadSegment(w, Ended(vad, w), frames', now')
    BY <1>1, FrameFacts
  <2>2. e \in Collector /\ (e.start = IF seg.active THEN seg.start ELSE now')
    BY <2>1, ExtendedTypes
  <2>3. seg'.active => now' - seg'.start <= MaxSegment
    <3>1. CASE Extend(w, Ended(vad, w), frames', now')
      <4>1. seg' = e /\ ~TooLong(e, now') /\ e.start \in Nat
        BY <2>2, <3>1 DEF Extend, Collector
      <4> QED
        BY <2>1, <4>1 DEF TooLong
    <3>2. CASE OutsideSegment(w)
      <4>1. seg' = seg /\ ~seg.active
        BY <3>2 DEF OutsideSegment, InSegment, SegmentTracksVad
      <4> QED
        BY <4>1
    <3>3. CASE seg' = SegReset
      BY <3>3 DEF SegReset
    <3> QED
      BY <2>1, <3>1, <3>2, <3>3 DEF HandleVadSegment, Overflow, Complete, Noise
  <2>4. CASE UNCHANGED asrQueue
    BY <2>3, <2>4
  <2>5. CASE /\ Complete(w, Ended(vad, w), frames', now')
             /\ asrQueue' = Append(asrQueue, Handed(w, frames', now'))
    <3> DEFINE x == Handed(w, frames', now')
    <3>1. /\ x \in Segment
          /\ x.start = vad.speech /\ x.end = now'
          /\ vad.state = "ending" /\ vad.silence + Silence <= now'
          /\ now' - vad.speech <= MaxSegment
      BY <1>1, <2>5, HandedFacts
    <3>2. vad.speech + MinSpeech <= vad.silence
      BY <3>1 DEF TimesInOrder
    <3>3. vad.speech \in Nat /\ vad.silence \in Nat
      BY DEF TypeOK
    <3>4. /\ MinSpeech + Silence <= x.end - x.start
          /\ x.end - x.start <= MaxSegment
      BY <2>1, <3>1, <3>2, <3>3
    <3>5. \A i \in DOMAIN asrQueue' :
             \/ i \in DOMAIN asrQueue /\ asrQueue'[i] = asrQueue[i]
             \/ asrQueue'[i] = x
      BY <2>5, <3>1, AppendFacts
    <3> QED
      BY <2>3, <3>4, <3>5
  <2> QED
    BY <1>1, <2>1, <2>4, <2>5, HandedFacts DEF HandleVadSegment,
         OutsideSegment, Overflow, Noise, Extend, Submit
<1>2. CASE Transcribe
  <2>1. UNCHANGED <<seg, now>>
    BY <1>2 DEF Transcribe
  <2>2. \A i \in DOMAIN asrQueue' :
           i + 1 \in DOMAIN asrQueue /\ asrQueue'[i] = asrQueue[i + 1]
    BY <1>2, TailFacts DEF Transcribe
  <2> QED
    BY <2>1, <2>2
<1> QED
  BY <1>0, <1>1, <1>2 DEF Next

\* Each frame goes to the end of the segment that is being collected, and a
\* segment that begins has only frames behind those of the queued ones.
LEMMA FramesStep ==
    ASSUME TypeOK, SegmentTracksVad, NoFrameLostOrRepeated,
           QueuedFramesArrived, [Next]_vars
    PROVE  NoFrameLostOrRepeated' /\ QueuedFramesArrived'
<1> USE DEF stats, clock
<1>0. CASE UNCHANGED vars
  BY <1>0 DEF vars, NoFrameLostOrRepeated, QueuedFramesArrived
<1> DEFINE Queue(q) == /\ \A i \in DOMAIN q : Consecutive(q[i].samples)
                       /\ \A i, j \in DOMAIN q :
                             i < j => Last(q[i].samples) < q[j].samples[1]
           Open(s, q, n) == s.active =>
              /\ Consecutive(s.samples) /\ Last(s.samples) = n
              /\ \A i \in DOMAIN q : Last(q[i].samples) < s.samples[1]
           Arrived(q, n) == \A i \in DOMAIN q : Last(q[i].samples) <= n
<1>1. /\ Queue(asrQueue) /\ Open(seg, asrQueue, frames)
      /\ Arrived(asrQueue, frames)
  BY DEF NoFrameLostOrRepeated, QueuedFramesArrived
<1>2. ASSUME /\ Queue(asrQueue') /\ Open(seg', asrQueue', frames')
             /\ Arrived(asrQueue', frames')
      PROVE  NoFrameLostOrRepeated' /\ QueuedFramesArrived'
  BY <1>2 DEF NoFrameLostOrRepeated, QueuedFramesArrived
<1>3. /\ frames \in Nat
      /\ \A i \in DOMAIN asrQueue : Last(asrQueue[i].samples) \in Nat
  <2>1. asrQueue \in Seq(Segment) /\ frames \in Nat
    BY DEF TypeOK
  <2>2. ASSUME NEW i \in DOMAIN asrQueue PROVE Last(asrQueue[i].samples) \in Nat
    <3>1. asrQueue[i] \in Segment
      BY <2>1, LenProperties
    <3>2. asrQueue[i].samples \in Seq(Nat) /\ asrQueue[i].samples # <<>>
      BY <1>1, <3>1 DEF Segment, Consecutive
    <3> QED
      BY <3>2, EmptySeq, LenProperties DEF Last
  <2> QED
    BY <2>1, <2>2
<1>4. ASSUME NEW level \in Levels, NEW gap \in Gaps, Frame(level, gap)
      PROVE  NoFrameLostOrRepeated' /\ QueuedFramesArrived'
  <2> DEFINE w == Process(vad, level, now')
             e == Extended(w, frames', now')
  <2>1. /\ now' \in Nat /\ frames' \in Nat /\ frames' = frames + 1
        /\ HandleVadSegment(w, Ended(vad, w), frames', now')
    BY <1>4, FrameFacts
  <2>2. e.active /\ Last(e.samples) = frames'
    <3>1. seg \in Collector
      BY DEF TypeOK, Collector
    <3> QED
      BY <2>1, <3>1, ExtendedTypes
  <2>3. Open(e, asrQueue, frames')
    <3>1. CASE seg.active
      <4>1. seg \in Collector /\ seg.samples \in Seq(Nat)
        BY DEF TypeOK, Collector
      <4>2. e.samples = Append(seg.samples, frames + 1)
        BY <2>1, <3>1, <4>1 DEF Extended, Collector
      <4>3. Consecutive(seg.samples) /\ Last(seg.samples) = frames
        BY <1>1, <3>1
      <4>4. Consecutive(e.samples) /\ e.samples[1] = seg.samples[1]
        BY <1>3, <4>1, <4>2, <4>3, ConsecutiveAppend
      <4> QED
        BY <1>1, <2>2, <3>1, <4>4
    <3>2. CASE ~seg.active
      <4>1. e.samples = <<frames'>>
        BY <3>2 DEF Extended
      <4>2. Consecutive(e.samples) /\ e.samples[1] = frames'
        BY <2>1, <4>1 DEF Consecutive
      <4>3. \A i \in DOMAIN asrQueue : Last(asrQueue[i].samples) < frames'
        BY <1>1, <1>3, <2>1
      <4> QED
        BY <2>2, <4>2, <4>3
    <3> QED
      BY <3>1, <3>2
  <2>4. Arrived(asrQueue, frames')
    BY <1>1, <1>3, <2>1
  <2>5. CASE UNCHANGED asrQueue
    <3>1. ASSUME OutsideSegment(w) PROVE Open(seg', asrQueue, frames')
      BY <3>1 DEF OutsideSegment, InSegment, SegmentTracksVad
    <3>2. ASSUME ~OutsideSegment(w) PROVE Open(seg', asrQueue, frames')
      <4>1. seg' = e \/ seg' = SegReset
        BY <2>1, <3>2 DEF HandleVadSegment, Overflow, Complete, Noise, Extend
      <4> QED
        BY <2>3, <4>1 DEF SegReset
    <3>3. Open(seg', asrQueue, frames')
      BY <3>1, <3>2
    <3> QED
      BY <1>1, <1>2, <2>4, <2>5, <3>3
  <2>6. CASE /\ Complete(w, Ended(vad, w), frames', now')
             /\ asrQueue' = Append(asrQueue, Handed(w, frames', now'))
    <3> DEFINE x == Handed(w, frames', now')
    <3>1. x \in Segment /\ x.samples = e.samples
      BY <1>4, <2>6, HandedFacts DEF Handed
    <3>2. /\ Consecutive(x.samples) /\ Last(x.samples) = frames'
          /\ \A i \in DOMAIN asrQueue :
                Last(asrQueue[i].samples) < x.samples[1]
      BY <2>1, <2>2, <2>3, <3>1
    <3>3. /\ Len(asrQueue) \in Nat
          /\ DOMAIN asrQueue = 1 .. Len(asrQueue)
          /\ DOMAIN asrQueue' = 1 .. Len(asrQueue) + 1
          /\ \A i \in DOMAIN asrQueue : asrQueue'[i] = asrQueue[i]
          /\ asrQueue'[Len(asrQueue) + 1] = x
      BY <2>6, <3>1, AppendFacts
    <3>4. Queue(asrQueue')
      <4>1. \A i \in DOMAIN asrQueue' : Consecutive(asrQueue'[i].samples)
        BY <1>1, <3>2, <3>3
      <4>2. ASSUME NEW i \in DOMAIN asrQueue', NEW j \in DOMAIN asrQueue', i < j
            PROVE  Last(asrQueue'[i].samples) < asrQueue'[j].samples[1]
        <5>1. i \in DOMAIN asrQueue
          BY <3>3, <4>2
        <5>2. CASE j \in DOMAIN asrQueue
          BY <1>1, <3>3, <4>2, <5>1, <5>2
        <5>3. CASE j = Len(asrQueue) + 1
          BY <3>2, <3>3, <5>1, <5>3
        <5> QED
          BY <3>3, <5>2, <5>3
      <4> QED
        BY <4>1, <4>2
    <3>5. Arrived(asrQueue', frames')
      BY <2>1, <2>4, <3>2, <3>3
    <3>6. ~seg'.active
      BY <2>6 DEF Complete, SegReset
    <3> QED
      BY <1>2, <3>4, <3>5, <3>6
  <2> QED
    BY <1>4, <2>1, <2>5, <2>6, HandedFacts DEF HandleVadSegment,
         OutsideSegment, Overflow, Noise, Extend, Submit
<1>5. CASE Transcribe
  <2>1. UNCHANGED <<seg, frames>>
    BY <1>5 DEF Transcribe
  <2>2. /\ DOMAIN asrQueue = 1 .. Len(asrQueue) /\ Len(asrQueue) \in Nat
        /\ DOMAIN asrQueue' = 1 .. Len(asrQueue) - 1
        /\ \A i \in DOMAIN asrQueue' :
              i + 1 \in DOMAIN asrQueue /\ asrQueue'[i] = asrQueue[i + 1]
    BY <1>5, TailFacts DEF Transcribe
  <2>3. Queue(asrQueue')
    BY <1>1, <2>2
  <2> QED
    BY <1>1, <1>2, <2>1, <2>2, <2>3
<1> QED
  BY <1>0, <1>4, <1>5 DEF Next

\* An overflow makes up for the speech that no longer goes on.
LEMMA OneMore ==
    \A started, ended, overflows \in Nat, g \in {0, 1}, none \in {0} :
        ended + g <= started /\ started <= ended + g + overflows
            => /\ ended + none <= started
               /\ started <= ended + none + (overflows + 1)
  OBVIOUS

\* Each event is counted where the detector reports it, and each segment that
\* is handed over is queued or counted as dropped.
LEMMA AccountedStep ==
    ASSUME TypeOK, SegmentTracksVad, SegmentsAccounted, [Next]_vars
    PROVE  SegmentsAccounted'
<1> USE DEF stats, clock
<1>0. CASE UNCHANGED vars
  BY <1>0 DEF vars, SegmentsAccounted, InSpeech
<1> DEFINE Going(v) == IF v.state \in {"speaking", "ending"} THEN 1 ELSE 0
           Events == /\ vadEnded + Going(vad) <= vadStarted
                     /\ vadStarted <= vadEnded + Going(vad) + asrOverflows
                     /\ nextSegmentId <= vadEnded
                     /\ asr => vadEnded <= nextSegmentId + asrOverflows
           Queued == nextSegmentId = asrDrops + transcribed + Len(asrQueue)
           Ids == /\ \A i \in DOMAIN asrQueue :
                        /\ asrQueue[i].id < nextSegmentId
                        /\ asrQueue[i].id >= transcribed + i - 1
                  /\ \A i, j \in DOMAIN asrQueue :
                        i < j => asrQueue[i].id < asrQueue[j].id
<1>1. Events /\ Queued /\ Ids
  BY DEF SegmentsAccounted, InSpeech
<1>2. ASSUME Events', Queued', Ids' PROVE SegmentsAccounted'
  BY <1>2 DEF SegmentsAccounted, InSpeech
<1>3. /\ vadStarted \in Nat /\ vadEnded \in Nat /\ nextSegmentId \in Nat
      /\ asrOverflows \in Nat /\ asrDrops \in Nat /\ transcribed \in Nat
  BY DEF TypeOK
<1>4. /\ Len(asrQueue) \in Nat /\ DOMAIN asrQueue = 1 .. Len(asrQueue)
      /\ \A i \in DOMAIN asrQueue : asrQueue[i].id \in Nat
  <2>1. asrQueue \in Seq(Segment)
    BY DEF TypeOK
  <2>2. DOMAIN asrQueue = 1 .. Len(asrQueue) /\ Len(asrQueue) \in Nat
    BY <2>1, LenProperties
  <2>3. ASSUME NEW i \in DOMAIN asrQueue PROVE asrQueue[i].id \in Nat
    <3>1. asrQueue[i] \in Segment
      BY <2>1, <2>2, <2>3
    <3> QED
      BY <3>1 DEF Segment
  <2> QED
    BY <2>2, <2>3
<1>5. ASSUME NEW level \in Levels, NEW gap \in Gaps, Frame(level, gap)
      PROVE  SegmentsAccounted'
  <2> DEFINE w == Process(vad, level, now')
  <2>1. /\ w \in Vad /\ DetectorStep(vad, w, level, now')
        /\ HandleVadSegment(w, Ended(vad, w), frames', now')
    BY <1>5, FrameFacts
  <2>2. /\ vadStarted' = IF Started(vad, w) THEN vadStarted + 1 ELSE vadStarted
        /\ vadEnded' = IF Ended(vad, w) THEN vadEnded + 1 ELSE vadEnded
        /\ asr' = asr /\ transcribed' = transcribed
    BY <1>5 DEF Frame
  <2>3. vadEnded' + Going(w) <= vadStarted'
        /\ vadStarted' <= vadEnded' + Going(w) + asrOverflows
    <3> USE DEF DetectorStep, Waits, FindsCandidate, ForgetsCandidate,
            ReportsSpeech, Pauses, Resumes, ReportsEnd, Started, Ended
    <3>1. CASE vad.state = "starting" /\ w.state = "speaking"
      BY <1>1, <1>3, <2>2, <3>1
    <3>2. CASE vad.state = "ending" /\ w.state = "idle"
      BY <1>1, <1>3, <2>2, <3>2
    <3>3. CASE ~Started(vad, w) /\ ~Ended(vad, w)
      <4>1. Going(w) = Going(vad)
        BY <2>1, <3>3
      <4> QED
        BY <1>1, <1>3, <2>2, <3>3, <4>1
    <3> QED
      BY <3>1, <3>2, <3>3
  <2>4. Going(w) \in {0, 1} /\ Going(VadReset) = 0
    BY DEF VadReset
  <2>5. Events'
    <3>1. CASE OutsideSegment(w)
      <4>1. Ended(vad, w) => ~asr
        BY <3>1 DEF OutsideSegment, InSegment, SegmentTracksVad, Ended
      <4> QED
        BY <1>1, <1>3, <2>2, <2>3, <3>1, <4>1 DEF OutsideSegment
    <3>2. CASE Overflow(w, frames', now')
      <4>1. /\ asrOverflows' = asrOverflows + 1 /\ vad' = VadReset
            /\ nextSegmentId' = nextSegmentId
        BY <3>2 DEF Overflow
      <4>2. /\ vadEnded' \in Nat /\ vadStarted' \in Nat
            /\ vadEnded <= vadEnded' /\ vadEnded' <= vadEnded + 1
        BY <1>3, <2>2
      <4>3. Going(vad') = 0
        BY <2>4, <4>1
      <4>4. /\ vadEnded' + Going(vad') <= vadStarted'
            /\ vadStarted' <= vadEnded' + Going(vad') + asrOverflows'
        BY <1>3, <2>3, <2>4, <4>1, <4>2, <4>3, OneMore
      <4> QED
        BY <1>1, <1>3, <2>2, <4>1, <4>2, <4>4
    <3>3. CASE Complete(w, Ended(vad, w), frames', now')
      BY <1>1, <1>3, <2>2, <2>3, <3>3 DEF Complete
    <3>4. CASE \/ Noise(w, Ended(vad, w), frames', now')
               \/ Extend(w, Ended(vad, w), frames', now')
      BY <1>1, <1>3, <2>2, <2>3, <3>4 DEF Noise, Extend
    <3> QED
      BY <2>1, <3>1, <3>2, <3>3, <3>4 DEF HandleVadSegment
  <2>6. CASE /\ Complete(w, Ended(vad, w), frames', now')
             /\ asrQueue' = Append(asrQueue, Handed(w, frames', now'))
             /\ UNCHANGED asrDrops
    <3> DEFINE x == Handed(w, frames', now')
    <3>1. x \in Segment /\ x.id = nextSegmentId
      BY <1>5, <2>6, HandedFacts
    <3>2. nextSegmentId' = nextSegmentId + 1
      BY <2>6 DEF Complete
    <3>3. /\ Len(asrQueue') = Len(asrQueue) + 1
          /\ DOMAIN asrQueue' = 1 .. Len(asrQueue) + 1
          /\ \A i \in DOMAIN asrQueue : asrQueue'[i] = asrQueue[i]
          /\ asrQueue'[Len(asrQueue) + 1] = x
      BY <2>6, <3>1, AppendFacts
    <3>4. Queued'
      BY <1>1, <1>3, <1>4, <2>2, <2>6, <3>2, <3>3
    <3>5. ASSUME NEW i \in DOMAIN asrQueue'
          PROVE  /\ asrQueue'[i].id < nextSegmentId'
                 /\ asrQueue'[i].id >= transcribed' + i - 1
      <4>1. CASE i \in DOMAIN asrQueue
        BY <1>1, <1>3, <1>4, <2>2, <3>2, <3>3, <4>1
      <4>2. CASE i = Len(asrQueue) + 1
        BY <1>1, <1>3, <1>4, <2>2, <3>1, <3>2, <3>3, <4>2
      <4> QED
        BY <1>4, <3>3, <4>1, <4>2
    <3>6. ASSUME NEW i \in DOMAIN asrQueue', NEW j \in DOMAIN asrQueue', i < j
          PROVE  asrQueue'[i].id < asrQueue'[j].id
      <4>1. i \in DOMAIN asrQueue
        BY <1>4, <3>3, <3>6
      <4>2. CASE j \in DOMAIN asrQueue
        BY <1>1, <3>3, <3>6, <4>1, <4>2
      <4>3. CASE j = Len(asrQueue) + 1
        BY <1>1, <3>1, <3>3, <4>1, <4>3
      <4> QED
        BY <1>4, <3>3, <4>2, <4>3
    <3> QED
      BY <1>2, <2>5, <3>4, <3>5, <3>6
  <2>7. CASE UNCHANGED asrQueue
    <3>1. \/ nextSegmentId' = nextSegmentId /\ asrDrops' = asrDrops
          \/ /\ nextSegmentId' = nextSegmentId + 1
             /\ asrDrops' = asrDrops + 1
      BY <1>3, <1>5, <2>1, <2>7, HandedFacts, AppendFacts
         DEF HandleVadSegment, OutsideSegment, Overflow, Complete, Noise,
             Extend, Submit
    <3>2. Queued'
      BY <1>1, <1>3, <1>4, <2>2, <2>7, <3>1
    <3>3. nextSegmentId <= nextSegmentId' /\ nextSegmentId' \in Nat
      BY <1>3, <3>1
    <3>4. \A i \in DOMAIN asrQueue : asrQueue[i].id < nextSegmentId'
      BY <1>1, <1>3, <1>4, <3>3
    <3>5. Ids'
      BY <1>1, <2>2, <2>7, <3>4
    <3> QED
      BY <1>2, <2>5, <3>2, <3>5
  <2> QED
    BY <1>5, <2>1, <2>6, <2>7, HandedFacts DEF HandleVadSegment,
         OutsideSegment, Overflow, Noise, Extend, Submit
<1>6. CASE Transcribe
  <2>1. /\ asrQueue # <<>> /\ asrQueue' = Tail(asrQueue)
        /\ transcribed' = transcribed + 1
        /\ UNCHANGED <<vad, nextSegmentId, asr, vadStarted, vadEnded,
                       asrOverflows, asrDrops>>
    BY <1>6 DEF Transcribe
  <2>2. Events'
    BY <1>1, <2>1
  <2>3. /\ Len(asrQueue') = Len(asrQueue) - 1
        /\ DOMAIN asrQueue' = 1 .. Len(asrQueue) - 1
        /\ \A i \in DOMAIN asrQueue' :
              i + 1 \in DOMAIN asrQueue /\ asrQueue'[i] = asrQueue[i + 1]
    BY <2>1, TailFacts
  <2>4. Queued'
    BY <1>1, <1>3, <1>4, <2>1, <2>3
  <2>5. Ids'
    <3>1. ASSUME NEW i \in DOMAIN asrQueue'
          PROVE  /\ asrQueue'[i].id < nextSegmentId'
                 /\ asrQueue'[i].id >= transcribed' + i - 1
      <4>1. /\ i + 1 \in DOMAIN asrQueue /\ asrQueue'[i] = asrQueue[i + 1]
            /\ i \in Nat
        BY <1>4, <2>3
      <4>2. asrQueue[i + 1].id >= transcribed + (i + 1) - 1
        BY <1>1, <4>1
      <4> QED
        BY <1>1, <1>3, <1>4, <2>1, <4>1, <4>2
    <3>2. ASSUME NEW i \in DOMAIN asrQueue', NEW j \in DOMAIN asrQueue', i < j
          PROVE  asrQueue'[i].id < asrQueue'[j].id
      <4>1. /\ i + 1 \in DOMAIN asrQueue /\ asrQueue'[i] = asrQueue[i + 1]
            /\ j + 1 \in DOMAIN asrQueue /\ asrQueue'[j] = asrQueue[j + 1]
            /\ i \in Nat /\ j \in Nat /\ i + 1 < j + 1
        BY <1>4, <2>3, <3>2
      <4> QED
        BY <1>1, <4>1
    <3> QED
      BY <3>1, <3>2
  <2> QED
    BY <1>2, <2>2, <2>4, <2>5
<1> QED
  BY <1>0, <1>5, <1>6 DEF Next

\* The times of a pause.
LEMMA Difference == \A x, y, z \in Nat : x + z <= y => y - x >= z
  OBVIOUS

\* No frame, no segment, nothing collected.
LEMMA InitInv == Init => IInv
<1> SUFFICES ASSUME Init PROVE IInv
  OBVIOUS
<1> USE DEF Init, VadReset, SegReset
<1>1. TypeOK
  <2>1. /\ asrQueue \in Seq(Segment) /\ Len(asrQueue) = 0
        /\ seg.samples \in Seq(Nat)
    BY EmptySeq
  <2>2. Len(asrQueue) <= AsrCapacity
    BY <2>1
  <2>3. vad \in Vad /\ seg \in Collector
    BY <2>1 DEF Vad, Collector
  <2> QED
    BY <2>1, <2>2, <2>3 DEF TypeOK, Vad, Collector
<1>2. SegmentTracksVad /\ TimesInOrder /\ SegmentDuration
  BY DEF SegmentTracksVad, TimesInOrder, SegmentDuration, InSpeech
<1>3. NoFrameLostOrRepeated /\ QueuedFramesArrived
  BY DEF NoFrameLostOrRepeated, QueuedFramesArrived
<1>4. SegmentsAccounted
  BY EmptySeq DEF SegmentsAccounted, InSpeech
<1> QED
  BY <1>1, <1>2, <1>3, <1>4 DEF IInv

\* The parts carry each other through a step.
LEMMA StepInv == IInv /\ [Next]_vars => IInv'
  BY TypeStep, TracksStep, TimesStep, DurationStep, FramesStep, AccountedStep
     DEF IInv

-----------------------------------------------------------------------------
(* The theorems.                                                           *)

\* Every run keeps the inductive invariant.
THEOREM Invariance == Spec => []IInv
  BY InitInv, StepInv, PTL DEF Spec

\* The variables keep their types and the queue its capacity.
THEOREM TypeCorrect == Spec => []TypeOK
<1>1. IInv => TypeOK
  BY DEF IInv
<1> QED
  BY <1>1, Invariance, PTL

\* The collector never drifts apart from the detector: audio is collected
\* exactly while the detector is not idle, from where the speech began.
THEOREM CollectorFollows == Spec => []SegmentTracksVad
<1>1. IInv => SegmentTracksVad
  BY DEF IInv
<1> QED
  BY <1>1, Invariance, PTL

\* A segment that is handed over spans the shortest speech and its silence,
\* and never max_segment_ms.
THEOREM DurationsBounded == Spec => []SegmentDuration
<1>1. IInv => SegmentDuration
  BY DEF IInv
<1> QED
  BY <1>1, Invariance, PTL

\* No frame of a segment is lost, repeated or shared with another segment.
THEOREM FramesKept == Spec => []NoFrameLostOrRepeated
<1>1. IInv => NoFrameLostOrRepeated
  BY DEF IInv
<1> QED
  BY <1>1, Invariance, PTL

\* The statistics of the events and of the segments agree.
THEOREM SegmentsCounted == Spec => []SegmentsAccounted
<1>1. IInv => SegmentsAccounted
  BY DEF IInv
<1> QED
  BY <1>1, Invariance, PTL

\* vad_ended is counted only for a pause in which no frame was loud for
\* silence_ms: the silence began behind the last loud frame, and no frame of
\* the pause is one.
THEOREM EndAfterSilence == Spec => EndsAfterPause
<1>1. ASSUME IInv, [Next]_vars
      PROVE  vadEnded' > vadEnded => now' - lastHigh' >= Silence
  <2> SUFFICES ASSUME vadEnded' > vadEnded
               PROVE  now' - lastHigh' >= Silence
    OBVIOUS
  <2>1. TypeOK /\ TimesInOrder
    BY <1>1 DEF IInv
  <2>2. /\ vadEnded \in Nat /\ lastHigh \in Nat /\ now \in Nat
        /\ vad.silence \in Nat
    BY <2>1 DEF TypeOK
  <2>3. PICK level \in Levels, gap \in Gaps : Frame(level, gap)
    BY <1>1, <2>2 DEF Next, Transcribe, stats, vars
  <2> DEFINE w == Process(vad, level, now')
  <2>4. /\ DetectorStep(vad, w, level, now') /\ now' \in Nat
        /\ lastHigh' = IF level = "high" THEN now' ELSE lastHigh
    BY <2>1, <2>3, FrameFacts
  <2>5. Ended(vad, w)
    BY <2>2, <2>3 DEF Frame
  <2>6. /\ vad.state = "ending" /\ level # "high"
        /\ vad.silence + Silence <= now'
    BY <2>4, <2>5 DEF Ended, DetectorStep, Waits, FindsCandidate,
         ForgetsCandidate, ReportsSpeech, Pauses, Resumes, ReportsEnd
  <2>7. lastHigh <= vad.silence
    BY <2>1, <2>6 DEF TimesInOrder
  <2>8. lastHigh' = lastHigh /\ now' \in Nat
    BY <2>4, <2>6
  <2>9. vad.silence + Silence <= now'
    BY <2>6
  <2> QED
    <3>1. lastHigh + Silence <= now'
      BY <2>2, <2>7, <2>8, <2>9
    <3> QED
      BY <2>2, <2>8, <3>1, Difference
<1>2. IInv /\ [Next]_vars =>
         [vadEnded' > vadEnded => now' - lastHigh' >= Silence]_vars
  BY <1>1
<1> QED
  BY <1>2, Invariance, PTL DEF Spec, EndsAfterPause
=============================================================================
