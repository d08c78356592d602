--------------------------- MODULE Pipeline_proofs ---------------------------
(***************************************************************************)
(* Theorems about Pipeline for all capacities of the three queues and any  *)
(* number of frames: the statistics explain every frame that is missing,   *)
(* and the threads end in the order of the data flow.                      *)
(***************************************************************************)
EXTENDS Pipeline, SequenceTheorems, TLAPS

USE CapacityAssumption, MaxFramesAssumption DEF CapacityAssumption

\* What the capture thread has done with its frame when it may have given it
\* up uncounted: it has seen the stop, or is about to.
GivenUp(q) ==
    {"check", "closing", "closing_monitor", "done"}
        \cup (IF q = "processing" THEN {"pushed"} ELSE {})

\* The places at which the capture thread has a frame.
WithFrame == {"captured", "push_processing", "refused", "pushed",
              "push_monitor", "overwrote"}

\* stop_requested comes before everything that request_stop does, and the
\* monitor queue is closed by request_stop or at the end of capture_worker.
StopKnown ==
    /\ main # "run" => stopRequested
    /\ isOpen["monitor"] \/ stopRequested \/ capture = "done"
    /\ capture \in WithFrame => captured > 0

\* The frames of queue q that are accounted for.
Seen(q) == popped[q] + Len(items[q]) + drops[q] + InHand(q)

\* FramesAccounted, with the places at which a frame can be missing: none
\* leads to a second read.
Counted(q) ==
    /\ Seen(q) <= captured
    /\ captured <= Seen(q) + 1
    /\ captured > Seen(q) => stopRequested /\ capture \in GivenUp(q)

FramesCounted == \A q \in FrameQueues : Counted(q)

\* A segment takes a frame.
SegmentsFromFrames ==
    segments + (IF worker["processing"] = "handling" THEN 1 ELSE 0)
        <= popped["processing"]

\* What became of the segments.
SegmentsCounted ==
    segments = popped["asr"] + Len(items["asr"]) + drops["asr"]

\* The places of main behind the join of each thread.
Joined == [capture    |-> {"join_processing", "join_monitor", "join_asr",
                           "stop_store", "done"},
           processing |-> {"join_monitor", "join_asr", "stop_store", "done"},
           monitor    |-> {"join_asr", "stop_store", "done"},
           asr        |-> {"stop_store", "done"}]

\* ShutdownOrder, with what each join of run_pipeline has established.
JoinsHold ==
    /\ ~isOpen["asr"] => worker["processing"] = "done"
    /\ ~storeOpen => main = "done"
    /\ main \in Joined.capture => capture = "done"
    /\ \A q \in Queues : main \in Joined[q] => worker[q] = "done"

\* The read in progress, or the next one, is on the dropped handle.
NoReadOutlastsDrop ==
    capture = "reading" /\ main \notin {"run", "drop_pcm"} => interrupted

\* The inductive invariant.
IInv ==
    /\ TypeOK /\ StopKnown /\ FramesCounted /\ SegmentsFromFrames
    /\ SegmentsCounted /\ JoinsHold /\ NoReadOutlastsDrop

-----------------------------------------------------------------------------
(* Sequences.                                                              *)

\* A pop takes one item.
LEMMA TailFacts ==
    ASSUME NEW S, NEW s \in Seq(S), s # <<>>
    PROVE  /\ Tail(s) \in Seq(S)
           /\ Len(s) \in Nat \ {0}
           /\ Len(Tail(s)) = Len(s) - 1
  BY EmptySeq, HeadTailProperties

\* A push adds one, and an overwriting push leaves the length as it is.
LEMMA AppendFacts ==
    ASSUME NEW S, NEW s \in Seq(S), NEW x \in S
    PROVE  /\ Append(s, x) \in Seq(S)
           /\ Len(Append(s, x)) = Len(s) + 1
           /\ s # <<>> => /\ Append(Tail(s), x) \in Seq(S)
                          /\ Len(Append(Tail(s), x)) = Len(s)
<1>1. /\ Append(s, x) \in Seq(S)
      /\ Len(Append(s, x)) = Len(s) + 1
  BY AppendProperties
<1>2. ASSUME s # <<>>
      PROVE  /\ Append(Tail(s), x) \in Seq(S)
             /\ Len(Append(Tail(s), x)) = Len(s)
  <2>1. Tail(s) \in Seq(S) /\ Len(s) \in Nat \ {0} /\ Len(Tail(s)) = Len(s) - 1
    BY <1>2, TailFacts
  <2> QED
    BY <2>1, AppendProperties
<1> QED
  BY <1>1, <1>2

\* The capacities are positive, so a full queue has an item to overwrite.
LEMMA FullFacts ==
    ASSUME TypeOK, NEW q \in Queues
    PROVE  /\ CapacityOf(q) \in Nat \ {0}
           /\ Len(items[q]) \in Nat
           /\ items[q] \in Seq(1 .. MaxFrames)
           /\ Full(q) => items[q] # <<>>
<1>1. items[q] \in Seq(1 .. MaxFrames)
  BY DEF TypeOK
<1>2. Len(items[q]) \in Nat /\ (items[q] = <<>> => Len(items[q]) = 0)
  BY <1>1, EmptySeq, LenProperties
<1>3. CapacityOf(q) \in Nat \ {0}
  BY DEF CapacityOf, Queues, FrameQueues
<1> QED
  BY <1>1, <1>2, <1>3 DEF Full

-----------------------------------------------------------------------------
(* One step of the program.                                                *)

\* After request_stop has begun there is no way back.
LEMMA StopKnownStep ==
    ASSUME TypeOK, StopKnown, [Next]_vars
    PROVE  StopKnown'
<1> USE DEF deviceVars, queueVars, countVars, TypeOK, Queues, FrameQueues,
        StopKnown, WithFrame
<1>0. CASE UNCHANGED vars
  BY <1>0 DEF vars
<1>1. CASE \/ CaptureCheck \/ AfterFailure \/ Recover \/ RecoverFails
           \/ CheckBeforePush \/ CheckBeforeMonitor
  BY <1>1 DEF CaptureCheck, AfterFailure, Recover, RecoverFails,
       CheckBeforePush, CheckBeforeMonitor, StopSeen, CaptureOnly, CaptureGoes
<1>2. CASE ReadFrame \/ ReadNothing \/ ReadFails
  BY <1>2 DEF ReadFrame, ReadNothing, ReadFails, CaptureOnly, CaptureGoes
<1>3. CASE PushProcessing
  BY <1>3 DEF PushProcessing, CaptureOnly, CaptureGoes
<1>4. CASE PushMonitor
  BY <1>4 DEF PushMonitor, CaptureOnly, CaptureGoes
<1>5. CASE CountDrop("processing", "refused", "pushed")
  BY <1>5 DEF CountDrop, CaptureGoes
<1>6. CASE CountDrop("monitor", "overwrote", "check")
  BY <1>6 DEF CountDrop, CaptureGoes
<1>7. CASE \/ CaptureCloses("processing", "closing", "closing_monitor")
           \/ CaptureCloses("monitor", "closing_monitor", "done")
  BY <1>7 DEF CaptureCloses, CaptureGoes
<1>8. ASSUME NEW q \in Queues, Pop(q)
      PROVE  StopKnown'
  BY <1>8 DEF Pop, WorkerGoes
<1>9. ASSUME NEW q \in Queues, PopNothing(q) \/ Probe(q)
      PROVE  StopKnown'
  BY <1>9 DEF PopNothing, Probe, AfterLoop, WorkerOnly, WorkerGoes
<1>10. CASE HandleFrame \/ ProcessingThrows \/ Transcribe
  BY <1>10 DEF HandleFrame, ProcessingThrows, Transcribe, WorkerOnly,
       WorkerGoes
<1>11. CASE CompleteSegment
  BY <1>11 DEF CompleteSegment, WorkerGoes
<1>12. CASE ProcessingCloses
  BY <1>12 DEF ProcessingCloses, WorkerGoes
<1>13. ASSUME NEW reason \in {"signal", "run_ms"}, Ask(reason)
      PROVE  StopKnown'
  BY <1>13 DEF Ask
<1>14. CASE RequestStop \/ DropPcm \/ StopStore
  BY <1>14 DEF RequestStop, DropPcm, StopStore, MainGoes
<1>15. CASE \/ MainCloses("processing", "close_processing", "close_monitor")
           \/ MainCloses("monitor", "close_monitor", "join_capture")
  BY <1>15 DEF MainCloses, MainGoes
<1>16. CASE \/ JoinCapture
           \/ Join("processing", "join_processing", "join_monitor")
           \/ Join("monitor", "join_monitor", "join_asr")
           \/ Join("asr", "join_asr", "stop_store")
  BY <1>16 DEF JoinCapture, Join, MainOnly, MainGoes
<1> QED
  BY <1>0, <1>1, <1>2, <1>3, <1>4, <1>5, <1>6, <1>7, <1>8, <1>9, <1>10, <1>11,
       <1>12, <1>13, <1>14, <1>15, <1>16 DEF Next, CaptureStep,
       ProcessingStep, MonitorStep, AsrStep, MainStep, Queues, FrameQueues

\* No read begins behind stop_requested, and a handle that is prepared again
\* meanwhile is not read from.
LEMMA ReadStep ==
    ASSUME TypeOK, StopKnown, NoReadOutlastsDrop, [Next]_vars
    PROVE  NoReadOutlastsDrop'
<1> USE DEF deviceVars, queueVars, countVars, TypeOK, Queues, FrameQueues,
        StopKnown, NoReadOutlastsDrop
<1>0. CASE UNCHANGED vars
  BY <1>0 DEF vars
<1>1. CASE \/ CaptureCheck \/ AfterFailure \/ Recover \/ RecoverFails
           \/ CheckBeforePush \/ CheckBeforeMonitor
  BY <1>1 DEF CaptureCheck, AfterFailure, Recover, RecoverFails,
       CheckBeforePush, CheckBeforeMonitor, StopSeen, CaptureOnly, CaptureGoes
<1>2. CASE ReadFrame \/ ReadNothing \/ ReadFails
  BY <1>2 DEF ReadFrame, ReadNothing, ReadFails, CaptureOnly, CaptureGoes
<1>3. CASE PushProcessing
  BY <1>3 DEF PushProcessing, CaptureOnly, CaptureGoes
<1>4. CASE PushMonitor
  BY <1>4 DEF PushMonitor, CaptureOnly, CaptureGoes
<1>5. CASE CountDrop("processing", "refused", "pushed")
  BY <1>5 DEF CountDrop, CaptureGoes
<1>6. CASE CountDrop("monitor", "overwrote", "check")
  BY <1>6 DEF CountDrop, CaptureGoes
<1>7. CASE \/ CaptureCloses("processing", "closing", "closing_monitor")
           \/ CaptureCloses("monitor", "closing_monitor", "done")
  BY <1>7 DEF CaptureCloses, CaptureGoes
<1>8. ASSUME NEW q \in Queues, Pop(q)
      PROVE  NoReadOutlastsDrop'
  BY <1>8 DEF Pop, WorkerGoes
<1>9. ASSUME NEW q \in Queues, PopNothing(q) \/ Probe(q)
      PROVE  NoReadOutlastsDrop'
  BY <1>9 DEF PopNothing, Probe, AfterLoop, WorkerOnly, WorkerGoes
<1>10. CASE HandleFrame \/ ProcessingThrows \/ Transcribe
  BY <1>10 DEF HandleFrame, ProcessingThrows, Transcribe, WorkerOnly,
       WorkerGoes
<1>11. CASE CompleteSegment
  BY <1>11 DEF CompleteSegment, WorkerGoes
<1>12. CASE ProcessingCloses
  BY <1>12 DEF ProcessingCloses, WorkerGoes
<1>13. ASSUME NEW reason \in {"signal", "run_ms"}, Ask(reason)
      PROVE  NoReadOutlastsDrop'
  BY <1>13 DEF Ask
<1>14. CASE RequestStop \/ DropPcm \/ StopStore
  BY <1>14, SMTT(30) DEF RequestStop, DropPcm, StopStore, MainGoes
<1>15. CASE \/ MainCloses("processing", "close_processing", "close_monitor")
           \/ MainCloses("monitor", "close_monitor", "join_capture")
  BY <1>15 DEF MainCloses, MainGoes
<1>16. CASE \/ JoinCapture
           \/ Join("processing", "join_processing", "join_monitor")
           \/ Join("monitor", "join_monitor", "join_asr")
           \/ Join("asr", "join_asr", "stop_store")
  BY <1>16 DEF JoinCapture, Join, MainOnly, MainGoes
<1> QED
  BY <1>0, <1>1, <1>2, <1>3, <1>4, <1>5, <1>6, <1>7, <1>8, <1>9, <1>10, <1>11,
       <1>12, <1>13, <1>14, <1>15, <1>16 DEF Next, CaptureStep,
       ProcessingStep, MonitorStep, AsrStep, MainStep, Queues, FrameQueues

\* Nobody leaves "done", and main passes a join only when its thread is there.
LEMMA JoinsStep ==
    ASSUME TypeOK, JoinsHold, [Next]_vars
    PROVE  JoinsHold'
<1> USE DEF deviceVars, queueVars, countVars, TypeOK, Queues, FrameQueues,
        JoinsHold, Joined
<1>0. CASE UNCHANGED vars
  BY <1>0 DEF vars
<1>1. CASE \/ CaptureCheck \/ AfterFailure \/ Recover \/ RecoverFails
           \/ CheckBeforePush \/ CheckBeforeMonitor
  BY <1>1 DEF CaptureCheck, AfterFailure, Recover, RecoverFails,
       CheckBeforePush, CheckBeforeMonitor, StopSeen, CaptureOnly, CaptureGoes
<1>2. CASE ReadFrame \/ ReadNothing \/ ReadFails
  BY <1>2 DEF ReadFrame, ReadNothing, ReadFails, CaptureOnly, CaptureGoes
<1>3. CASE PushProcessing
  BY <1>3 DEF PushProcessing, CaptureOnly, CaptureGoes
<1>4. CASE PushMonitor
  BY <1>4 DEF PushMonitor, CaptureOnly, CaptureGoes
<1>5. CASE CountDrop("processing", "refused", "pushed")
  BY <1>5 DEF CountDrop, CaptureGoes
<1>6. CASE CountDrop("monitor", "overwrote", "check")
  BY <1>6 DEF CountDrop, CaptureGoes
<1>7. CASE \/ CaptureCloses("processing", "closing", "closing_monitor")
           \/ CaptureCloses("monitor", "closing_monitor", "done")
  BY <1>7 DEF CaptureCloses, CaptureGoes
<1>8. ASSUME NEW q \in Queues, Pop(q)
      PROVE  JoinsHold'
  BY <1>8 DEF Pop, WorkerGoes
<1>9. ASSUME NEW q \in Queues, PopNothing(q) \/ Probe(q)
      PROVE  JoinsHold'
  BY <1>9 DEF PopNothing, Probe, AfterLoop, WorkerOnly, WorkerGoes
<1>10. CASE HandleFrame \/ ProcessingThrows \/ Transcribe
  BY <1>10 DEF HandleFrame, ProcessingThrows, Transcribe, WorkerOnly,
       WorkerGoes
<1>11. CASE CompleteSegment
  BY <1>11 DEF CompleteSegment, WorkerGoes
<1>12. CASE ProcessingCloses
  BY <1>12 DEF ProcessingCloses, WorkerGoes
<1>13. ASSUME NEW reason \in {"signal", "run_ms"}, Ask(reason)
      PROVE  JoinsHold'
  BY <1>13 DEF Ask
<1>14. CASE RequestStop \/ DropPcm \/ StopStore
  <2>1. CASE RequestStop \/ DropPcm
    BY <2>1 DEF RequestStop, DropPcm, MainGoes
  <2>2. CASE StopStore
    BY <2>2 DEF StopStore, MainGoes
  <2> QED
    BY <1>14, <2>1, <2>2
<1>15. CASE \/ MainCloses("processing", "close_processing", "close_monitor")
           \/ MainCloses("monitor", "close_monitor", "join_capture")
  <2>1. CASE MainCloses("processing", "close_processing", "close_monitor")
    BY <2>1 DEF MainCloses, MainGoes
  <2>2. CASE MainCloses("monitor", "close_monitor", "join_capture")
    BY <2>2 DEF MainCloses, MainGoes
  <2> QED
    BY <1>15, <2>1, <2>2
<1>16. CASE \/ JoinCapture
           \/ Join("processing", "join_processing", "join_monitor")
           \/ Join("monitor", "join_monitor", "join_asr")
           \/ Join("asr", "join_asr", "stop_store")
  BY <1>16 DEF JoinCapture, Join, MainOnly, MainGoes
<1> QED
  BY <1>0, <1>1, <1>2, <1>3, <1>4, <1>5, <1>6, <1>7, <1>8, <1>9, <1>10, <1>11,
       <1>12, <1>13, <1>14, <1>15, <1>16 DEF Next, CaptureStep,
       ProcessingStep, MonitorStep, AsrStep, MainStep, Queues, FrameQueues

\* CompleteSegment needs a frame in hand.
LEMMA SegmentsStep ==
    ASSUME TypeOK, SegmentsFromFrames, [Next]_vars
    PROVE  SegmentsFromFrames'
<1> USE DEF deviceVars, queueVars, countVars, TypeOK, Queues, FrameQueues,
        SegmentsFromFrames
<1>0. CASE UNCHANGED vars
  BY <1>0 DEF vars
<1>1. CASE \/ CaptureCheck \/ AfterFailure \/ Recover \/ RecoverFails
           \/ CheckBeforePush \/ CheckBeforeMonitor
  BY <1>1 DEF CaptureCheck, AfterFailure, Recover, RecoverFails,
       CheckBeforePush, CheckBeforeMonitor, StopSeen, CaptureOnly, CaptureGoes
<1>2. CASE ReadFrame \/ ReadNothing \/ ReadFails
  BY <1>2 DEF ReadFrame, ReadNothing, ReadFails, CaptureOnly, CaptureGoes
<1>3. CASE PushProcessing
  BY <1>3 DEF PushProcessing, CaptureOnly, CaptureGoes
<1>4. CASE PushMonitor
  BY <1>4 DEF PushMonitor, CaptureOnly, CaptureGoes
<1>5. CASE CountDrop("processing", "refused", "pushed")
  BY <1>5 DEF CountDrop, CaptureGoes
<1>6. CASE CountDrop("monitor", "overwrote", "check")
  BY <1>6 DEF CountDrop, CaptureGoes
<1>7. CASE \/ CaptureCloses("processing", "closing", "closing_monitor")
           \/ CaptureCloses("monitor", "closing_monitor", "done")
  BY <1>7 DEF CaptureCloses, CaptureGoes
<1>8. ASSUME NEW q \in Queues, Pop(q)
      PROVE  SegmentsFromFrames'
  BY <1>8, SMTT(30) DEF Pop, WorkerGoes
<1>9. ASSUME NEW q \in Queues, PopNothing(q) \/ Probe(q)
      PROVE  SegmentsFromFrames'
  BY <1>9 DEF PopNothing, Probe, AfterLoop, WorkerOnly, WorkerGoes
<1>10. CASE HandleFrame \/ ProcessingThrows \/ Transcribe
  BY <1>10 DEF HandleFrame, ProcessingThrows, Transcribe, WorkerOnly,
       WorkerGoes
<1>11. CASE CompleteSegment
  BY <1>11 DEF CompleteSegment, WorkerGoes
<1>12. CASE ProcessingCloses
  BY <1>12 DEF ProcessingCloses, WorkerGoes
<1>13. ASSUME NEW reason \in {"signal", "run_ms"}, Ask(reason)
      PROVE  SegmentsFromFrames'
  BY <1>13 DEF Ask
<1>14. CASE RequestStop \/ DropPcm \/ StopStore
  BY <1>14 DEF RequestStop, DropPcm, StopStore, MainGoes
<1>15. CASE \/ MainCloses("processing", "close_processing", "close_monitor")
           \/ MainCloses("monitor", "close_monitor", "join_capture")
  BY <1>15 DEF MainCloses, MainGoes
<1>16. CASE \/ JoinCapture
           \/ Join("processing", "join_processing", "join_monitor")
           \/ Join("monitor", "join_monitor", "join_asr")
           \/ Join("asr", "join_asr", "stop_store")
  BY <1>16 DEF JoinCapture, Join, MainOnly, MainGoes
<1> QED
  BY <1>0, <1>1, <1>2, <1>3, <1>4, <1>5, <1>6, <1>7, <1>8, <1>9, <1>10, <1>11,
       <1>12, <1>13, <1>14, <1>15, <1>16 DEF Next, CaptureStep,
       ProcessingStep, MonitorStep, AsrStep, MainStep, Queues, FrameQueues

\* A segment is queued or its loss is counted in the step that completes it.
LEMMA CountedStep ==
    ASSUME TypeOK, SegmentsCounted, [Next]_vars
    PROVE  SegmentsCounted'
<1>a. /\ popped \in [Queues -> Nat] /\ drops \in [Queues -> Nat]
      /\ DOMAIN items = Queues /\ "asr" \in Queues
      /\ "processing" \in Queues /\ "monitor" \in Queues
      /\ segments \in Nat /\ Len(items["asr"]) \in Nat
  BY FullFacts DEF TypeOK, Queues, FrameQueues
<1>b. SegmentsCounted
  OBVIOUS
<1>c. ASSUME UNCHANGED <<segments, popped, items, drops>>
      PROVE  SegmentsCounted'
  BY <1>b, <1>c DEF SegmentsCounted
<1>d. ASSUME NEW q \in FrameQueues, NEW s,
             items' = [items EXCEPT ![q] = s],
             UNCHANGED <<segments, popped, drops>>
      PROVE  SegmentsCounted'
  BY <1>a, <1>b, <1>d DEF SegmentsCounted, FrameQueues
<1>1. CASE PushProcessing \/ PushMonitor
  BY <1>1, <1>c, <1>d DEF PushProcessing, PushMonitor, CaptureOnly,
     CaptureGoes, FrameQueues
<1>2. ASSUME NEW q \in FrameQueues,
             \/ CountDrop(q, "refused", "pushed")
             \/ CountDrop(q, "overwrote", "check")
      PROVE  SegmentsCounted'
  <2>1. UNCHANGED <<segments, popped, items>> /\ drops'["asr"] = drops["asr"]
    BY <1>2, <1>a DEF CountDrop, CaptureGoes, FrameQueues
  <2> QED
    BY <2>1, <1>b DEF SegmentsCounted
<1>3. ASSUME NEW q \in FrameQueues, Pop(q)
      PROVE  SegmentsCounted'
  <2>1. /\ UNCHANGED <<segments, drops>>
        /\ items'["asr"] = items["asr"] /\ popped'["asr"] = popped["asr"]
    BY <1>3, <1>a DEF Pop, WorkerGoes, FrameQueues
  <2> QED
    BY <2>1, <1>b DEF SegmentsCounted
<1>4. CASE Pop("asr")
  <2>1. /\ UNCHANGED <<segments, drops>> /\ items["asr"] # <<>>
        /\ items'["asr"] = Tail(items["asr"])
        /\ popped'["asr"] = popped["asr"] + 1
    BY <1>4, <1>a DEF Pop, WorkerGoes
  <2>2. Len(items'["asr"]) = Len(items["asr"]) - 1
    BY <2>1, <1>a, FullFacts, TailFacts
  <2>3. popped["asr"] \in Nat /\ drops["asr"] \in Nat
    BY <1>a
  <2> QED
    BY <2>1, <2>2, <2>3, <1>a, <1>b DEF SegmentsCounted
<1>5. CASE CompleteSegment
  <2>1. segments' = segments + 1 /\ popped' = popped
    BY <1>5 DEF CompleteSegment
  <2>2. popped["asr"] \in Nat /\ drops["asr"] \in Nat
    BY <1>a
  <2>3. CASE /\ items' = [items EXCEPT !["asr"] = Append(@, segments')]
             /\ drops' = drops
    <3>1. items'["asr"] = Append(items["asr"], segments')
      BY <2>3, <1>a
    <3>2. Len(items'["asr"]) = Len(items["asr"]) + 1
      BY <3>1, <1>a, FullFacts, AppendProperties
    <3> QED
      BY <2>1, <2>2, <2>3, <3>2, <1>a, <1>b DEF SegmentsCounted
  <2>4. CASE /\ drops' = [drops EXCEPT !["asr"] = @ + 1]
             /\ items' = items
    <3>1. drops'["asr"] = drops["asr"] + 1
      BY <2>4, <1>a
    <3> QED
      BY <2>1, <2>2, <2>4, <3>1, <1>a, <1>b DEF SegmentsCounted
  <2> QED
    BY <1>5, <2>3, <2>4 DEF CompleteSegment
<1>6. CASE \/ PushProcessing \/ PushMonitor \/ CompleteSegment
           \/ CountDrop("processing", "refused", "pushed")
           \/ CountDrop("monitor", "overwrote", "check")
           \/ \E q \in Queues : Pop(q)
           \/ UNCHANGED <<segments, popped, items, drops>>
  BY <1>6, <1>c, <1>1, <1>2, <1>3, <1>4, <1>5 DEF Queues, FrameQueues
<1> QED
  BY <1>6 DEF Next, CaptureStep, ProcessingStep, MonitorStep, AsrStep, MainStep,
     vars, deviceVars, queueVars, countVars, Queues, FrameQueues,
     CaptureCheck, AfterFailure, Recover, RecoverFails, CheckBeforePush,
     CheckBeforeMonitor, CaptureCloses, ReadFrame, ReadNothing, ReadFails,
     CaptureOnly, CaptureGoes, PopNothing, Probe, HandleFrame,
     ProcessingThrows, ProcessingCloses, Transcribe, WorkerOnly, WorkerGoes,
     Ask, RequestStop, DropPcm, MainCloses, JoinCapture, Join, StopStore,
     MainOnly, MainGoes

\* A frame goes on, or its loss is counted, or the stop is on its way.
LEMMA FramesStep ==
    ASSUME TypeOK, StopKnown, FramesCounted, [Next]_vars
    PROVE  FramesCounted'
<1> SUFFICES ASSUME NEW r \in FrameQueues PROVE Counted(r)'
  BY DEF FramesCounted
<1>a. /\ captured \in Nat /\ popped \in [Queues -> Nat]
      /\ drops \in [Queues -> Nat] /\ DOMAIN items = Queues
      /\ popped[r] \in Nat /\ drops[r] \in Nat /\ Len(items[r]) \in Nat
      /\ r \in {"processing", "monitor"} /\ r \in Queues
      /\ stopRequested \in BOOLEAN
  BY FullFacts, SMTT(30) DEF TypeOK, Queues, FrameQueues
<1>b. /\ Counted(r)
      /\ main # "run" => stopRequested
      /\ isOpen["monitor"] \/ stopRequested \/ capture = "done"
      /\ capture \in WithFrame => captured > 0
  BY DEF FramesCounted, StopKnown
<1> USE <1>a, <1>b DEF deviceVars, queueVars, countVars, WithFrame, Counted,
        Seen, GivenUp, InHand
<1>0. CASE UNCHANGED vars
  BY <1>0 DEF vars
<1>1. CASE \/ CaptureCheck \/ AfterFailure \/ Recover \/ RecoverFails
           \/ CheckBeforePush \/ CheckBeforeMonitor
  BY <1>1 DEF CaptureCheck, AfterFailure, Recover, RecoverFails,
       CheckBeforePush, CheckBeforeMonitor, StopSeen, CaptureOnly, CaptureGoes
<1>2. CASE ReadFrame \/ ReadNothing \/ ReadFails
  BY <1>2 DEF ReadFrame, ReadNothing, ReadFails, CaptureOnly, CaptureGoes
<1>3. CASE PushProcessing
  <2>1. captured \in 1 .. MaxFrames
    BY <1>3 DEF PushProcessing, CaptureOnly, CaptureGoes, TypeOK
  <2>2. CASE /\ items' = [items EXCEPT !["processing"] = Append(@, captured)]
             /\ CaptureGoes("push_processing", "pushed")
             /\ UNCHANGED <<deviceVars, isOpen, captured, drops>>
    <3>1. Len(items'[r]) = IF r = "processing" THEN Len(items[r]) + 1
                                               ELSE Len(items[r])
      BY <2>1, <2>2, FullFacts, AppendFacts
    <3> QED
      BY <2>2, <3>1 DEF CaptureGoes
  <2>3. CASE CaptureOnly("push_processing", "refused")
    BY <2>3 DEF CaptureOnly, CaptureGoes
  <2> QED
    BY <1>3, <2>2, <2>3 DEF PushProcessing
<1>4. CASE PushMonitor
  <2>1. captured \in 1 .. MaxFrames
    BY <1>4 DEF PushMonitor, CaptureOnly, CaptureGoes, TypeOK
  <2>2. CASE ~isOpen["monitor"] /\ CaptureOnly("push_monitor", "check")
    BY <2>2 DEF CaptureOnly, CaptureGoes
  <2>3. CASE /\ items' = [items EXCEPT !["monitor"] = Append(@, captured)]
             /\ CaptureGoes("push_monitor", "check")
             /\ UNCHANGED <<deviceVars, isOpen, captured, drops>>
    <3>1. Len(items'[r]) = IF r = "monitor" THEN Len(items[r]) + 1
                                            ELSE Len(items[r])
      BY <2>1, <2>3, FullFacts, AppendFacts
    <3> QED
      BY <2>3, <3>1 DEF CaptureGoes
  <2>4. CASE /\ Full("monitor")
             /\ items' = [items EXCEPT !["monitor"] = Append(Tail(@), captured)]
             /\ CaptureGoes("push_monitor", "overwrote")
             /\ UNCHANGED <<deviceVars, isOpen, captured, drops>>
    <3>1. Len(items'[r]) = Len(items[r])
      BY <2>1, <2>4, FullFacts, AppendFacts
    <3> QED
      BY <2>4, <3>1 DEF CaptureGoes
  <2> QED
    BY <1>4, <2>2, <2>3, <2>4 DEF PushMonitor
<1>5. CASE CountDrop("processing", "refused", "pushed")
  BY <1>5 DEF CountDrop, CaptureGoes
<1>6. CASE CountDrop("monitor", "overwrote", "check")
  BY <1>6 DEF CountDrop, CaptureGoes
<1>7. CASE \/ CaptureCloses("processing", "closing", "closing_monitor")
           \/ CaptureCloses("monitor", "closing_monitor", "done")
  BY <1>7 DEF CaptureCloses, CaptureGoes
<1>8. ASSUME NEW q \in Queues, Pop(q)
      PROVE  Counted(r)'
  <2>1. /\ items[q] \in Seq(1 .. MaxFrames) /\ items[q] # <<>>
        /\ items' = [items EXCEPT ![q] = Tail(@)]
        /\ popped' = [popped EXCEPT ![q] = @ + 1]
        /\ UNCHANGED <<captured, drops, capture, stopRequested>>
    BY <1>8, FullFacts DEF Pop, WorkerGoes
  <2>2. Len(items'[q]) = Len(items[q]) - 1 /\ Len(items[q]) \in Nat \ {0}
    BY <2>1, TailFacts
  <2>3. CASE q = r
    <3>1. popped'[r] = popped[r] + 1
      BY <2>1, <2>3
    <3>2. Len(items'[r]) = Len(items[r]) - 1
      BY <2>2, <2>3
    <3>3. Seen(r)' = Seen(r)
      BY <2>1, <3>1, <3>2, SMTT(30)
    <3> QED
      BY <2>1, <3>3
  <2>4. CASE q # r
    <3>1. popped'[r] = popped[r] /\ items'[r] = items[r]
      BY <2>1, <2>4
    <3> QED
      BY <2>1, <3>1
  <2> QED
    BY <2>3, <2>4
<1>9. ASSUME NEW q \in Queues, PopNothing(q) \/ Probe(q)
      PROVE  Counted(r)'
  BY <1>9 DEF PopNothing, Probe, AfterLoop, WorkerOnly, WorkerGoes
<1>10. CASE HandleFrame \/ ProcessingThrows \/ Transcribe
  BY <1>10 DEF HandleFrame, ProcessingThrows, Transcribe, WorkerOnly,
       WorkerGoes
<1>11. CASE CompleteSegment
  <2>1. /\ items'[r] = items[r] /\ drops'[r] = drops[r]
        /\ UNCHANGED <<captured, popped, capture, stopRequested>>
    BY <1>11 DEF CompleteSegment, WorkerGoes, Queues, FrameQueues
  <2> QED
    BY <2>1
<1>12. CASE ProcessingCloses
  BY <1>12 DEF ProcessingCloses, WorkerGoes
<1>13. ASSUME NEW reason \in {"signal", "run_ms"}, Ask(reason)
      PROVE  Counted(r)'
  BY <1>13 DEF Ask
<1>14. CASE RequestStop \/ DropPcm \/ StopStore
  BY <1>14 DEF RequestStop, DropPcm, StopStore, MainGoes
<1>15. CASE \/ MainCloses("processing", "close_processing", "close_monitor")
           \/ MainCloses("monitor", "close_monitor", "join_capture")
  BY <1>15 DEF MainCloses, MainGoes
<1>16. CASE \/ JoinCapture
           \/ Join("processing", "join_processing", "join_monitor")
           \/ Join("monitor", "join_monitor", "join_asr")
           \/ Join("asr", "join_asr", "stop_store")
  BY <1>16 DEF JoinCapture, Join, MainOnly, MainGoes
<1> QED
  BY <1>0, <1>1, <1>2, <1>3, <1>4, <1>5, <1>6, <1>7, <1>8, <1>9, <1>10, <1>11,
       <1>12, <1>13, <1>14, <1>15, <1>16 DEF Next, CaptureStep,
       ProcessingStep, MonitorStep, AsrStep, MainStep, Queues, FrameQueues

\* The part of TypeOK that is about the contents of the queues.
QueuesOK ==
    /\ items \in [Queues -> Seq(1 .. MaxFrames)]
    /\ \A q \in Queues : Len(items[q]) <= CapacityOf(q)

\* No queue outgrows its capacity, and what is in it are frames that were
\* captured or segments, of which there are no more than frames.
LEMMA QueuesStep ==
    ASSUME IInv, [Next]_vars
    PROVE  QueuesOK'
<1>a. TypeOK /\ StopKnown /\ FramesCounted /\ SegmentsFromFrames
  BY DEF IInv
<1>b. /\ captured \in 0 .. MaxFrames /\ captured \in Nat /\ segments \in Nat
      /\ capture \in WithFrame => captured > 0
      /\ items \in [Queues -> Seq(1 .. MaxFrames)]
      /\ \A q \in Queues : Len(items[q]) <= CapacityOf(q)
      /\ "processing" \in Queues /\ "monitor" \in Queues /\ "asr" \in Queues
  BY <1>a DEF TypeOK, StopKnown, Queues, FrameQueues
<1>c. ASSUME NEW q \in Queues, NEW s \in Seq(1 .. MaxFrames),
             Len(s) <= CapacityOf(q), items' = [items EXCEPT ![q] = s]
      PROVE  QueuesOK'
  BY <1>b, <1>c DEF QueuesOK
<1>d. ASSUME UNCHANGED items PROVE QueuesOK'
  BY <1>b, <1>d DEF QueuesOK
<1>1. CASE PushProcessing
  <2>1. CASE /\ ~Full("processing")
             /\ items' = [items EXCEPT !["processing"] = Append(@, captured)]
    <3>1. captured \in 1 .. MaxFrames
      BY <1>1, <1>b DEF PushProcessing, CaptureOnly, CaptureGoes, WithFrame
    <3>2. /\ Append(items["processing"], captured) \in Seq(1 .. MaxFrames)
          /\ Len(Append(items["processing"], captured))
             <= CapacityOf("processing")
      BY <1>a, <1>b, <2>1, <3>1, FullFacts, AppendFacts DEF Full
    <3> QED
      BY <1>b, <1>c, <2>1, <3>2
  <2> QED
    BY <1>1, <1>d, <2>1 DEF PushProcessing, CaptureOnly
<1>2. CASE PushMonitor
  <2>1. captured \in 1 .. MaxFrames
    BY <1>2, <1>b DEF PushMonitor, CaptureOnly, CaptureGoes, WithFrame
  <2>2. CASE /\ ~Full("monitor")
             /\ items' = [items EXCEPT !["monitor"] = Append(@, captured)]
    <3>1. /\ Append(items["monitor"], captured) \in Seq(1 .. MaxFrames)
          /\ Len(Append(items["monitor"], captured))
             <= CapacityOf("monitor")
      BY <1>a, <1>b, <2>1, <2>2, FullFacts, AppendFacts DEF Full
    <3> QED
      BY <1>b, <1>c, <2>2, <3>1
  <2>3. CASE /\ Full("monitor")
             /\ items' = [items EXCEPT !["monitor"] = Append(Tail(@), captured)]
    <3>1. /\ Append(Tail(items["monitor"]), captured) \in Seq(1 .. MaxFrames)
          /\ Len(Append(Tail(items["monitor"]), captured))
             <= CapacityOf("monitor")
      BY <1>a, <1>b, <2>1, <2>3, FullFacts, AppendFacts
    <3> QED
      BY <1>b, <1>c, <2>3, <3>1
  <2> QED
    BY <1>2, <1>d, <2>2, <2>3 DEF PushMonitor, CaptureOnly
<1>3. ASSUME NEW q \in Queues, Pop(q) PROVE QueuesOK'
  <2>1. /\ Tail(items[q]) \in Seq(1 .. MaxFrames)
        /\ Len(Tail(items[q])) <= CapacityOf(q)
    BY <1>a, <1>b, <1>3, FullFacts, TailFacts DEF Pop
  <2> QED
    BY <1>c, <1>3, <2>1 DEF Pop
<1>4. CASE CompleteSegment
  <2>1. segments < popped["processing"] /\ segments' = segments + 1
    BY <1>4, <1>a DEF CompleteSegment, WorkerGoes, SegmentsFromFrames, TypeOK,
                      Queues, FrameQueues
  <2>2. popped["processing"] <= captured
    <3>1. /\ Len(items["processing"]) \in Nat /\ drops["processing"] \in Nat
          /\ popped["processing"] \in Nat /\ InHand("processing") \in {0, 1}
      BY <1>a, <1>b, FullFacts DEF TypeOK, InHand, Queues, FrameQueues
    <3>2. Seen("processing") <= captured
      BY <1>a DEF FramesCounted, Counted, FrameQueues
    <3> QED
      BY <1>b, <3>1, <3>2 DEF Seen
  <2>3. segments' \in 1 .. MaxFrames
    BY <1>a, <1>b, <2>1, <2>2 DEF TypeOK, Queues, FrameQueues
  <2>4. CASE /\ ~Full("asr")
             /\ items' = [items EXCEPT !["asr"] = Append(@, segments')]
    <3>1. /\ Append(items["asr"], segments') \in Seq(1 .. MaxFrames)
          /\ Len(Append(items["asr"], segments')) <= CapacityOf("asr")
      BY <1>a, <1>b, <2>3, <2>4, FullFacts, AppendFacts DEF Full
    <3> QED
      BY <1>b, <1>c, <2>4, <3>1
  <2> QED
    BY <1>4, <1>d, <2>4 DEF CompleteSegment
<1>5. CASE \/ PushProcessing \/ PushMonitor \/ CompleteSegment
           \/ \E q \in Queues : Pop(q)
           \/ UNCHANGED items
  BY <1>5, <1>d, <1>1, <1>2, <1>3, <1>4
<1> QED
  BY <1>5 DEF Next, CaptureStep, ProcessingStep, MonitorStep, AsrStep, MainStep,
     vars, queueVars, Queues, FrameQueues, CaptureCheck, AfterFailure, Recover,
     RecoverFails, CheckBeforePush, CountDrop, CheckBeforeMonitor,
     CaptureCloses, ReadFrame, ReadNothing, ReadFails, CaptureOnly,
     PopNothing, Probe, HandleFrame, ProcessingThrows, ProcessingCloses,
     Transcribe, WorkerOnly, Ask, RequestStop, DropPcm, MainCloses, JoinCapture,
     Join, StopStore, MainOnly, MainGoes

\* The other variables keep their types too.
LEMMA TypeStep ==
    ASSUME TypeOK, QueuesOK', [Next]_vars
    PROVE  TypeOK'
<1> USE DEF deviceVars, queueVars, countVars, TypeOK, Queues, FrameQueues,
        QueuesOK, CapturePlaces
<1>0. CASE UNCHANGED vars
  BY <1>0 DEF vars
<1>1. CASE \/ CaptureCheck \/ AfterFailure \/ Recover \/ RecoverFails
           \/ CheckBeforePush \/ CheckBeforeMonitor
  BY <1>1 DEF CaptureCheck, AfterFailure, Recover, RecoverFails,
       CheckBeforePush, CheckBeforeMonitor, StopSeen, CaptureOnly, CaptureGoes
<1>2. CASE ReadFrame \/ ReadNothing \/ ReadFails
  <2>1. captured \in 0 .. MaxFrames /\ MaxFrames \in Nat /\ readErrors \in BOOLEAN
    BY MaxFramesAssumption
  <2>2. UNCHANGED <<asked, stopRequested, main, interrupted, isOpen, worker,
                    popped, drops, segments, storeOpen>>
    BY <1>2 DEF ReadFrame, ReadNothing, ReadFails, CaptureOnly, CaptureGoes
  <2> HIDE DEF TypeOK
  <2>3. ASSUME ReadFrame
        PROVE  /\ capture' \in CapturePlaces /\ captured' \in 0 .. MaxFrames
               /\ readErrors' \in BOOLEAN
    <3>1. captured' = captured + 1 /\ captured < MaxFrames
      BY <2>3 DEF ReadFrame
    <3>2. capture' = "captured" /\ readErrors' = readErrors
      BY <2>3 DEF ReadFrame, CaptureGoes
    <3> QED
      BY <2>1, <3>1, <3>2 DEF CapturePlaces
  <2>4. ASSUME ReadNothing \/ ReadFails
        PROVE  /\ capture' \in CapturePlaces /\ captured' \in 0 .. MaxFrames
               /\ readErrors' \in BOOLEAN
    BY <2>1, <2>4 DEF ReadNothing, ReadFails, CaptureOnly, CaptureGoes
  <2>5. /\ capture' \in CapturePlaces /\ captured' \in 0 .. MaxFrames
        /\ readErrors' \in BOOLEAN
    BY <1>2, <2>3, <2>4
  <2> QED
    BY <2>2, <2>5 DEF TypeOK
<1>3. CASE PushProcessing
  BY <1>3 DEF PushProcessing, CaptureOnly, CaptureGoes
<1>4. CASE PushMonitor
  BY <1>4 DEF PushMonitor, CaptureOnly, CaptureGoes
<1>5. CASE CountDrop("processing", "refused", "pushed")
  BY <1>5 DEF CountDrop, CaptureGoes
<1>6. CASE CountDrop("monitor", "overwrote", "check")
  BY <1>6 DEF CountDrop, CaptureGoes
<1>7. CASE \/ CaptureCloses("processing", "closing", "closing_monitor")
           \/ CaptureCloses("monitor", "closing_monitor", "done")
  BY <1>7 DEF CaptureCloses, CaptureGoes
<1>8. ASSUME NEW q \in Queues, Pop(q)
      PROVE  TypeOK'
  <2>1. worker' \in [Queues -> {"popping", "probing", "handling", "closing",
                               "done"}]
    BY <1>8 DEF Pop, WorkerGoes
  <2>2. popped' \in [Queues -> Nat]
    <3>1. popped' = [popped EXCEPT ![q] = @ + 1]
      BY <1>8 DEF Pop
    <3>2. popped \in [Queues -> Nat] /\ popped[q] + 1 \in Nat
      OBVIOUS
    <3> HIDE DEF TypeOK, Queues
    <3> QED
      BY <3>1, <3>2
  <2>3. UNCHANGED <<asked, stopRequested, main, capture, deviceVars, isOpen,
                    captured, drops, segments, storeOpen>>
    BY <1>8 DEF Pop, WorkerGoes
  <2> QED
    BY <2>1, <2>2, <2>3
<1>9. ASSUME NEW q \in Queues, PopNothing(q) \/ Probe(q)
      PROVE  TypeOK'
  BY <1>9, SMTT(30)
     DEF PopNothing, Probe, AfterLoop, WorkerOnly, WorkerGoes
<1>10. CASE HandleFrame \/ ProcessingThrows \/ Transcribe
  <2>1. worker' \in [Queues -> {"popping", "probing", "handling", "closing",
                               "done"}]
    BY <1>10 DEF HandleFrame, ProcessingThrows, Transcribe, WorkerOnly,
              WorkerGoes
  <2>2. UNCHANGED <<asked, stopRequested, main, capture, deviceVars, isOpen,
                    captured, popped, drops, segments, storeOpen>>
    BY <1>10 DEF HandleFrame, ProcessingThrows, Transcribe, WorkerOnly,
              WorkerGoes
  <2> QED
    BY <2>1, <2>2
<1>11. CASE CompleteSegment
  BY <1>11, SMTT(30) DEF CompleteSegment, WorkerGoes
<1>12. CASE ProcessingCloses
  BY <1>12 DEF ProcessingCloses, WorkerGoes
<1>13. ASSUME NEW reason \in {"signal", "run_ms"}, Ask(reason)
      PROVE  TypeOK'
  BY <1>13 DEF Ask
<1>14. CASE RequestStop \/ DropPcm \/ StopStore
  BY <1>14 DEF RequestStop, DropPcm, StopStore, MainGoes
<1>15. CASE \/ MainCloses("processing", "close_processing", "close_monitor")
           \/ MainCloses("monitor", "close_monitor", "join_capture")
  BY <1>15 DEF MainCloses, MainGoes
<1>16. CASE \/ JoinCapture
           \/ Join("processing", "join_processing", "join_monitor")
           \/ Join("monitor", "join_monitor", "join_asr")
           \/ Join("asr", "join_asr", "stop_store")
  BY <1>16 DEF JoinCapture, Join, MainOnly, MainGoes
<1> QED
  BY <1>0, <1>1, <1>2, <1>3, <1>4, <1>5, <1>6, <1>7, <1>8, <1>9, <1>10, <1>11,
       <1>12, <1>13, <1>14, <1>15, <1>16 DEF Next, CaptureStep,
       ProcessingStep, MonitorStep, AsrStep, MainStep, Queues, FrameQueues

\* Before the first frame nothing is missing and nothing has ended.
LEMMA InitInv == Init => IInv
<1> SUFFICES ASSUME Init PROVE IInv
  OBVIOUS
<1> USE DEF Init, WorkersStarted, Queues, FrameQueues
<1>1. \A q \in Queues : items[q] = <<>> /\ Len(items[q]) = 0
  OBVIOUS
<1>2. TypeOK
  <2>1. {stopRequested, interrupted, readErrors, storeOpen} \subseteq BOOLEAN
    OBVIOUS
  <2>2. /\ items \in [Queues -> Seq(1 .. MaxFrames)]
        /\ \A q \in Queues : Len(items[q]) <= CapacityOf(q)
    BY <1>1 DEF CapacityOf
  <2>3. /\ worker \in [Queues -> {"popping", "probing", "handling", "closing",
                                 "done"}]
        /\ isOpen \in [Queues -> BOOLEAN]
    OBVIOUS
  <2> QED
    BY <2>1, <2>2, <2>3 DEF TypeOK, CapturePlaces
<1>3. StopKnown
  BY DEF StopKnown, WithFrame
<1>4. FramesCounted
  BY <1>1 DEF FramesCounted, Counted, Seen, InHand
<1>5. SegmentsFromFrames /\ SegmentsCounted
  BY <1>1 DEF SegmentsFromFrames, SegmentsCounted
<1>6. JoinsHold /\ NoReadOutlastsDrop
  BY DEF JoinsHold, Joined, NoReadOutlastsDrop
<1> QED
  BY <1>2, <1>3, <1>4, <1>5, <1>6 DEF IInv

\* The parts carry each other through a step.
LEMMA StepInv == IInv /\ [Next]_vars => IInv'
<1> SUFFICES ASSUME IInv, [Next]_vars PROVE IInv'
  OBVIOUS
<1>1. QueuesOK'
  BY QueuesStep
<1> QED
  BY <1>1, TypeStep, StopKnownStep, ReadStep, FramesStep, SegmentsStep,
     CountedStep, JoinsStep DEF IInv

-----------------------------------------------------------------------------
(* The theorems.                                                           *)

\* Every run of pipeline_probe keeps the inductive invariant.
THEOREM Invariance == Spec => []IInv
  BY InitInv, StepInv, PTL DEF Spec

\* PipelineContext keeps its types and every queue its capacity.
THEOREM TypeCorrect == Spec => []TypeOK
<1>1. IInv => TypeOK
  BY DEF IInv
<1> QED
  BY <1>1, Invariance, PTL

\* The statistics of run_pipeline explain every frame that was captured, but
\* for the one the stop may catch between two threads, and every segment.
THEOREM FramesExplained == Spec => []FramesAccounted
<1>1. IInv => FramesAccounted
  BY DEF IInv, FramesCounted, Counted, Seen, SegmentsCounted, FramesAccounted
<1> QED
  BY <1>1, Invariance, PTL

\* The stop reaches a capture thread that is blocked in the device; the
\* recogniser's queue outlives the processing thread and the store the
\* recogniser, and run_pipeline leaves no thread behind.
THEOREM ThreadsEndInOrder == Spec => []ShutdownOrder
<1>1. IInv => ShutdownOrder
  <2> SUFFICES ASSUME JoinsHold, NoReadOutlastsDrop PROVE ShutdownOrder
    BY DEF IInv
  <2>1. main = "done" =>
           capture = "done" /\ \A q \in Queues : worker[q] = "done"
    BY DEF JoinsHold, Joined, Queues, FrameQueues
  <2> QED
    BY <2>1 DEF JoinsHold, NoReadOutlastsDrop, ShutdownOrder, Queues
<1> QED
  BY <1>1, Invariance, PTL
=============================================================================
