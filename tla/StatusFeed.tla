----------------------------- MODULE StatusFeed -----------------------------
(***************************************************************************)
(* What one client of ws_server hears and its page (src/web/app.js) shows. *)
(* Four threads of src/board/ws_server.cpp put messages into its queue:    *)
(* capture_loop (events of the detector, audio packets), asr_loop (the     *)
(* recogniser at work), run() (the state, read field by field and sent     *)
(* again and again) and accept_loop (the hello). The queue overwrites its  *)
(* oldest message when it is full, so any of them may be lost.             *)
(*                                                                         *)
(* The queue and the way of a message to the page are one FIFO here, and   *)
(* the connection lasts: threads of the client, its loss and its end are   *)
(* in ClientSession.tla. Other clients have queues of their own. The four  *)
(* states of the detector are two: "idle" (and starting) and "speaking"    *)
(* (and ending); when it changes and when a segment overflows is in        *)
(* VadSegmenter.tla. There is a recogniser; a read without audio changes   *)
(* nothing.                                                                *)
(*                                                                         *)
(* An operator followed by the definition it misstates (FullTooLate, ...)  *)
(* is a mutation that a property is tried against.                         *)
(***************************************************************************)
EXTENDS Naturals, Sequences, FiniteSets

CONSTANTS QueueCapacity, \* options_.client_queue_capacity
          AsrCapacity,   \* options_.asr_queue_capacity
          MaxFrames      \* bound of the model: frames captured

ASSUME CapacityAssumption == {QueueCapacity, AsrCapacity} \subseteq Nat \ {0}
ASSUME MaxFramesAssumption == MaxFrames \in Nat

VARIABLES
    capture,    \* place of the capture thread in the handling of a frame
    sequence,   \* stats_.sequence: frames numbered so far
    event,      \* of the detector for the frame; "reset": it was reset
    vadState,   \* stats_.vad_state
    nextId,     \* next_segment_id_
    asrQueue,   \* asr_queue_: numbers of segments
    asr,        \* place of the asr thread
    segment,    \* the segment it has
    processing, \* stats_.asr_processing
    main,       \* place of the main thread in run()
    fields,     \* what make_state_json has read
    client,     \* how far the accept thread has come with the client
    queue,      \* its messages, oldest first
    lost,       \* history: packets overwritten since one was received
    page,       \* what the page shows of detector, recogniser and packets
    missed,     \* what it misses in the sequence of packets
    heard       \* history: rank of the last news of the recogniser

captureVars == <<capture, sequence, event, vadState, nextId>>
asrVars  == <<asr, segment, processing>>
feedVars == <<queue, lost>>
pageVars == <<page, missed, heard>>
vars == <<capture, sequence, event, vadState, nextId, asrQueue,
          asr, segment, processing, main, fields, client, queue, lost, page, missed, heard>>

NoFields == [vad |-> "idle", asr |-> FALSE]

\* Some moment between two frames; frames and segments count from here.
Init ==
    /\ capture = "read" /\ sequence = 0
    /\ event = "none" /\ vadState \in {"idle", "speaking"}
    /\ nextId = 1 /\ asrQueue = <<>>
    /\ asr = "pop" /\ segment = 0 /\ processing = FALSE
    /\ main = "wait" /\ fields = NoFields
    /\ client = "unknown" /\ queue = <<>> /\ lost = 0
    /\ page = [vad |-> "none", asr |-> "none", packet |-> 0]
    /\ missed = 0 /\ heard = 0

-----------------------------------------------------------------------------
(* Messages.                                                               *)

\* encode_audio_packet: what the client tells apart is the sequence number.
Packet(n) == [kind |-> "packet", n |-> n]

\* The page takes "vad_" away from the name of the event.
VadEvent(name, n) == [kind |-> "vad", event |-> name, n |-> n]

AsrEvent(name, n) == [kind |-> "asr", event |-> name, n |-> n]

StateMessage(f) == [kind |-> "state", vad |-> f.vad, asr |-> f.asr]

\* Messages the page shows nothing of: hello, asr_event.
Note == [kind |-> "note"]

IsPacket(m) == m.kind = "packet"

FullTooLate == Len(queue) > QueueCapacity

Full == Len(queue) >= QueueCapacity

\* broadcast copies clients_ and calls ClientSession::enqueue.
Broadcast(m) ==
    \/ /\ client = "unknown"
       /\ UNCHANGED feedVars
    \/ /\ client # "unknown"
       /\ queue' = Append(IF Full THEN Tail(queue) ELSE queue, m)
       /\ lost' = IF Full /\ IsPacket(Head(queue)) /\ page.packet # 0
                  THEN lost + 1 ELSE lost

-----------------------------------------------------------------------------
(* capture_loop.                                                           *)

CaptureGoes(from, to) ==
    /\ capture = from
    /\ capture' = to
    /\ UNCHANGED <<asrVars, main, fields, client, pageVars>>

\* Every frame takes the next number.
Numbered(found) ==
    /\ event = found
    /\ sequence < MaxFrames
    /\ sequence' = sequence + 1
    /\ UNCHANGED <<nextId, asrQueue, feedVars>>

\* A frame gets its number and goes through the detector, whose state is
\* put into the statistics.
Frame ==
    /\ Numbered("none")
    /\ CaptureGoes("read", "packet")
    /\ UNCHANGED <<event, vadState>>

SpeechStarts ==
    /\ vadState = "idle"
    /\ Numbered("none")
    /\ CaptureGoes("read", "event")
    /\ event' = "started" /\ vadState' = "speaking"

SpeechEnds ==
    /\ vadState = "speaking"
    /\ Numbered("none")
    /\ CaptureGoes("read", "event")
    /\ event' = "ended" /\ vadState' = "idle"

\* A segment grows too long with this frame, be it speech or a candidate that
\* has not become speech yet or has died as noise ...
SpeechOverflows ==
    /\ Numbered("none")
    /\ CaptureGoes("read", "segment")
    /\ event' = "reset" /\ UNCHANGED vadState

\* ... which resets the detector: the next frame finds no speech in it.
FrameAfterReset ==
    /\ Numbered("reset")
    /\ CaptureGoes("read", "packet")
    /\ event' = "none" /\ vadState' = "idle"

\* The event is told before the segment is looked at. The frame of a start may
\* be the one with which the segment grows too long; an end is told with the
\* number its segment will get.
TellVadEvent ==
    /\ \/ /\ event = "started" /\ event' = "none"
          /\ CaptureGoes("event", "packet")
       \/ /\ event' = IF event = "started" THEN "reset" ELSE "none"
          /\ CaptureGoes("event", "segment")
    /\ Broadcast(VadEvent(event, nextId))
    /\ UNCHANGED <<sequence, vadState, nextId, asrQueue>>

SubmitSameNumber ==
    /\ Len(asrQueue) < AsrCapacity
    /\ CaptureGoes("segment", "packet")
    /\ asrQueue' = Append(asrQueue, nextId)
    /\ UNCHANGED <<sequence, event, vadState, nextId, feedVars>>

\* handle_vad_segment at the end of speech.
SubmitSegment ==
    /\ event = "none"
    /\ Len(asrQueue) < AsrCapacity
    /\ CaptureGoes("segment", "packet")
    /\ asrQueue' = Append(asrQueue, nextId) /\ nextId' = nextId + 1
    /\ UNCHANGED <<sequence, event, vadState, feedVars>>

DropSegment ==
    /\ event = "none"
    /\ Len(asrQueue) >= AsrCapacity
    /\ CaptureGoes("segment", "packet")
    /\ nextId' = nextId + 1
    /\ Broadcast(Note)
    /\ UNCHANGED <<sequence, event, vadState, asrQueue>>

OverflowEndsFrame ==
    /\ CaptureGoes("segment", "read")
    /\ Broadcast(Note)
    /\ UNCHANGED <<sequence, event, vadState, nextId, asrQueue>>

\* The segment is forgotten, in the middle of speech or with its last frame.
Overflow ==
    /\ CaptureGoes("segment", "packet")
    /\ Broadcast(Note)
    /\ UNCHANGED <<sequence, event, vadState, nextId, asrQueue>>

SendPacket ==
    /\ CaptureGoes("packet", "read")
    /\ Broadcast(Packet(sequence))
    /\ UNCHANGED <<sequence, event, vadState, nextId, asrQueue>>

-----------------------------------------------------------------------------
(* asr_loop.                                                               *)

AsrGoes(from, to) ==
    /\ asr = from
    /\ asr' = to
    /\ UNCHANGED <<captureVars, main, fields, client, pageVars>>

\* Between the pop and the store to asr_processing nothing is to be seen.
PopSegment ==
    /\ asrQueue # <<>>
    /\ AsrGoes("pop", "begin")
    /\ segment' = Head(asrQueue) /\ asrQueue' = Tail(asrQueue)
    /\ processing' = TRUE
    /\ UNCHANGED feedVars

TellStarted ==
    /\ AsrGoes("begin", "transcribe")
    /\ Broadcast(AsrEvent("started", segment))
    /\ UNCHANGED <<segment, processing, asrQueue>>

\* transcribe returns a text, perhaps an empty one, or throws.
TellResult ==
    /\ AsrGoes("transcribe", "end")
    /\ \E result \in {"final", "failed"} : Broadcast(AsrEvent(result, segment))
    /\ UNCHANGED <<segment, processing, asrQueue>>

EndProcessing ==
    /\ AsrGoes("end", "pop")
    /\ processing' = FALSE /\ segment' = 0
    /\ UNCHANGED <<asrQueue, feedVars>>

-----------------------------------------------------------------------------
(* run() and accept_loop.                                                  *)

MainGoes(from, to) ==
    /\ main = from
    /\ main' = to
    /\ UNCHANGED <<captureVars, asrQueue, asrVars, client, pageVars>>

\* Every state_ms make_state_json reads the statistics, one after the other ...
ReadVad ==
    /\ MainGoes("wait", "reading")
    /\ fields' = [fields EXCEPT !.vad = vadState]
    /\ UNCHANGED feedVars

ReadAsr ==
    /\ MainGoes("reading", "send")
    /\ fields' = [fields EXCEPT !.asr = processing]
    /\ UNCHANGED feedVars

SendStateAgain ==
    /\ MainGoes("send", "send")
    /\ Broadcast(StateMessage(fields))
    /\ UNCHANGED fields

\* ... and other threads may have sent something when the result is sent.
SendState ==
    /\ MainGoes("send", "wait")
    /\ Broadcast(StateMessage(fields))
    /\ fields' = NoFields

Accepts(from, to) ==
    /\ client = from
    /\ client' = to
    /\ UNCHANGED <<captureVars, asrQueue, asrVars, main, fields, pageVars>>

\* From here on broadcasts reach the client's queue.
ListClient == Accepts("unknown", "listed") /\ UNCHANGED feedVars

\* client->start() and the hello; its writer may send what is queued.
StartClient == Accepts("listed", "started") /\ Broadcast(Note)

-----------------------------------------------------------------------------
(* The page.                                                               *)

\* The writer takes the oldest message and the page gets it.
Arrives(m) ==
    /\ queue # <<>> /\ client = "started"
    /\ m = Head(queue)
    /\ queue' = Tail(queue)
    /\ UNCHANGED <<captureVars, asrQueue, asrVars, main, fields, client, lost>>

\* The news of the recogniser, in the order in which they should come.
Rank(m) == IF m.event = "started" THEN 2 * m.n ELSE 2 * m.n + 1

\* handleAudio; the gap in the numbers is what a client can find out.
OnPacket(m) ==
    /\ Arrives(m) /\ IsPacket(m)
    /\ page' = [page EXCEPT !.packet = m.n]
    /\ missed' = IF page.packet = 0 THEN 0 ELSE missed + m.n - page.packet - 1
    /\ UNCHANGED heard

\* handleText.
OnVadEvent(m) ==
    /\ Arrives(m) /\ m.kind = "vad"
    /\ page' = [page EXCEPT !.vad = m.event]
    /\ UNCHANGED <<missed, heard>>

OnAsrEvent(m) ==
    /\ Arrives(m) /\ m.kind = "asr"
    /\ page' = [page EXCEPT !.asr = CASE m.event = "started" -> "processing"
                                      [] m.event = "final"   -> "idle"
                                      [] m.event = "failed"  -> "error"]
    /\ heard' = Rank(m)
    /\ UNCHANGED missed

AsrShown(busy) == IF busy THEN "processing" ELSE "idle"

OnState(m) ==
    /\ Arrives(m) /\ m.kind = "state"
    /\ page' = [page EXCEPT !.vad = m.vad, !.asr = AsrShown(m.asr)]
    /\ UNCHANGED <<missed, heard>>

OnNote(m) ==
    /\ Arrives(m) /\ m.kind = "note"
    /\ UNCHANGED pageVars

Received ==
    LET m == Head(queue)
    IN  OnPacket(m) \/ OnVadEvent(m) \/ OnAsrEvent(m) \/ OnState(m) \/ OnNote(m)

-----------------------------------------------------------------------------
CaptureStep ==
    TellVadEvent \/ SubmitSegment \/ DropSegment \/ Overflow \/ SendPacket

AsrStep == PopSegment \/ TellStarted \/ TellResult \/ EndProcessing

MainStep == ReadVad \/ ReadAsr \/ SendState

Next ==
    \/ Frame \/ SpeechStarts \/ SpeechEnds
    \/ SpeechOverflows \/ FrameAfterReset
    \/ CaptureStep \/ AsrStep \/ MainStep
    \/ ListClient \/ StartClient
    \/ Received

Spec == Init /\ [][Next]_vars

\* The main thread, the start of a client and the browser go on. Nothing is
\* assumed of the threads that read a device or recognise: any of them may
\* stop for ever, wherever it is.
FairSpec ==
    /\ Spec
    /\ WF_vars(MainStep) /\ WF_vars(StartClient) /\ WF_vars(Received)

-----------------------------------------------------------------------------
(* Properties.                                                             *)

\* The variables keep their types; no queue exceeds its capacity.
TypeOK ==
    /\ capture \in {"read", "event", "segment", "packet"}
    /\ {sequence, lost, missed} \subseteq 0 .. MaxFrames
    /\ event \in {"none", "started", "ended", "reset"}
    /\ vadState \in {"idle", "speaking"}
    /\ nextId \in 1 .. MaxFrames + 1 /\ segment \in 0 .. MaxFrames
    /\ asrQueue \in Seq(1 .. MaxFrames) /\ Len(asrQueue) <= AsrCapacity
    /\ asr \in {"pop", "begin", "transcribe", "end"}
    /\ main \in {"wait", "reading", "send"}
    /\ fields \in [vad : {"idle", "speaking"}, asr : BOOLEAN]
    /\ client \in {"unknown", "listed", "started"}
    /\ Len(queue) <= QueueCapacity
    /\ processing \in BOOLEAN
    /\ page \in [vad : {"none", "idle", "speaking", "started", "ended"},
                 asr : {"none", "idle", "processing", "error"},
                 packet : 0 .. MaxFrames]
    /\ heard \in Nat

\* Two threads tell the story of a segment: capture_loop that the speech has
\* ended, asr_loop that it is recognised and what was said. Whatever is lost
\* on the way, a client hears it in this order and one segment after the
\* other, and the news of the recogniser at most once each. The end may be
\* told of speech that overflows with its last frame and makes no segment;
\* then the next end is told for the number it would have had. (The numbers
\* of ends are of the model: the message holds a time.)
StoryInOrder ==
    \A k \in DOMAIN queue :
        LET m == queue[k]
            heardBefore == {heard} \cup
                {Rank(queue[j]) : j \in {i \in 1 .. k - 1 : queue[i].kind = "asr"}}
        IN  /\ m.kind = "asr" => \A r \in heardBefore : r < Rank(m)
            /\ m.kind = "vad" /\ m.event = "ended" =>
                  \A r \in heardBefore : r < 2 * m.n

\* The last packet that was sent to the clients.
Sent == IF capture = "read" THEN sequence ELSE sequence - 1

\* docs/WebSocket protocol: a client finds out from the sequence numbers
\* which packets it lost. Behind the first packet it has got, the numbers
\* that are missing are exactly the packets overwritten in its queue.
LossesShow ==
    LET queued == {k \in DOMAIN queue : IsPacket(queue[k])}
    IN  page.packet # 0 =>
            missed + Sent - page.packet = lost + Cardinality(queued)

\* A message is put into a full queue in the place of another one.
Overwrites == Full /\ Full'

\* An event may be lost, and a state message may be older than an event that
\* was sent before it. But when detector or recogniser stay as they are, the
\* page shows it in the end and for good, unless its queue overflows again
\* and again.
PageCatchesUp ==
    []<><<Overwrites>>_queue \/ []<>(client = "unknown") \/
        /\ <>[][UNCHANGED vadState]_vars => <>[](page.vad = vadState)
        /\ <>[][UNCHANGED processing]_vars =>
              <>[](page.asr = AsrShown(processing))
=============================================================================
