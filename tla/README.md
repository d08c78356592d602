# VoiceEdgeMonitor: TLA+ specifications

VoiceEdgeMonitor captures sound from an ALSA device, detects speech in it,
recognises the speech and shows everything in a browser. This directory models
the C++ programs under `src/board` and the browser client `src/web/app.js`,
checks them with TLC and proves part of them with TLAPS.

## 1. The system

| component | source | state | operations | interacts with |
|---|---|---|---|---|
| BoundedQueue | `src/board/bounded_queue.hpp` | `queue_`, `dropped_items_`, `closed_` under `mutex_`, one condition variable | `try_push`, `push_drop_oldest`, `pop_for`, `pop`, `close`, `closed` | every pair of threads that hand over data |
| consumer loops | `pipeline_probe.cpp` (processing, monitor, asr), `ws_server.cpp` (asr), `recording_store.hpp` (worker) | place in the loop | pop with a 100 ms limit, ask `closed()`, handle | BoundedQueue |
| EnergyVAD | `src/board/energy_vad.hpp` | `state_`, three timestamps | `process`, `reset`, `finish` | called by the processing or capture thread |
| segment collector | `handle_vad_segment` in `pipeline_probe.cpp` and `ws_server.cpp` | `segment_active`, start, samples, next id | one call per frame | EnergyVAD (state, event, reset), the queue of the recogniser |
| ClientSession | `ws_server.cpp` | message queue, `stopped_`, socket, two threads | `start`, `run`, `writer_loop`, `enqueue`, `stop`, `join` | broadcasting threads, ServerRuntime, the peer |
| ServerRuntime and `main` | `ws_server.cpp` | list of clients, acceptor, device handle, `pcm_for_stop_`, `stopping_`, statistics | `start`, `run`, `stop`, `accept_loop`, `capture_loop`, `reopen_capture`, `asr_loop`, `broadcast` | all of the above |
| RecordingStore | `recording_store.hpp` | queue, transcript file, WAV files | `start`, `enqueue`, `persist`, `stop` | asr threads, file system |
| pipeline_probe | `pipeline_probe.cpp` | three queues, `stop_requested`, statistics | `capture_worker`, `processing_worker`, `monitor_worker`, `asr_worker`, `request_stop`, `run_pipeline` | ALSA, RecordingStore |
| web client | `src/web/app.js` | socket, reconnect timer, listening and mute, what is shown | `connect`, `disconnect`, `onclose`, `toggleListening`, `toggleMute`, `updateVolume`, `handleText`, `handleAudio` | ClientSession |
| wire protocol | `voiceedge_protocol.hpp` | none | audio packet header, JSON escape | ServerRuntime, web client |
| OfflineASR | `offline_asr.hpp` | the recogniser of sherpa-onnx | `open`, `transcribe` | asr threads |
| capture_probe | `capture_probe.cpp` | the WAV file, `data_bytes_`, `g_stop` | `run_capture`, `WavWriter::open`, `write`, `close` | ALSA, file system, asr_probe through the file |
| asr_probe | `asr_probe.cpp` | none | `read_wave`, one transcription | the files of capture_probe |
| ws_cli | `tools/ws_cli.cpp` | counters | connect, read for a while, print | ClientSession |

What is hard in it:

* **Queue and consumers.** Producers notify after they unlock; the consumer
  leaves its loop on a second look at `closed()`, after the lock that told it
  there was nothing. Order, the accounting of lost items, wakeups, and what is
  still queued when the consumer leaves all depend on interleavings.
* **Detector and collector.** Two state machines that must stay in step, over
  frames whose timestamps jump when an earlier queue dropped some of them;
  an overflow resets both in the middle of speech.
* **ClientSession.** `stop()` is called by three threads and notifies without
  the mutex; the session thread joins the writer, the server joins the
  session.
* **ServerRuntime.** Clients arrive while `stop()` works through its copy of
  the list; the capture thread closes and reopens the device that `stop()`
  must interrupt; the threads must end in the order of the data flow.
* **pipeline_probe.** Four threads, three queues and the store must end in the
  order of the data flow, although the capture thread may be blocked in the
  device and the processing thread may have died.
* **RecordingStore.** A crash between two files, a restart that uses the same
  numbers again, a disk that fails in the middle of a record.
* **Messages.** Four threads feed one bounded queue per client that overwrites
  its oldest message. Events and the periodic state say the same thing twice,
  from different threads and at different times.
* **capture_probe.** The sizes in the WAV header are written last; a kill, a
  full disk, the size limit or a lost device may come before.
* **Web client.** Sockets that were replaced still deliver their close event;
  a timer may fire when the connection is back; `toggleListening` awaits in
  the middle of its state change; mute and volume act on a gain node that it
  replaces.

What makes each correct is stated by the properties of section 3; the list
`hazards` of `PROJECT.json` names the line where each can go wrong.

## 2. The modules and the code

| module | models | role |
|---|---|---|
| `LossyFifo` | what a bounded queue promises | abstract specification, implemented by `BoundedQueue` and `ClientSession` |
| `BoundedQueue` | the queue with several producers and closers and one consumer loop | detailed specification |
| `BoundedQueue_proofs` | | theorems about `BoundedQueue` |
| `VadSegmenter` | `EnergyVAD::process`, event counters, `handle_vad_segment`, the recogniser's queue | detailed specification |
| `MCVadSegmenter` | | gives `Gaps` a value for TLC |
| `VadSegmenter_proofs` | | theorems about `VadSegmenter` |
| `ClientSession` | one client: session thread, writer, broadcasters, the server's stop, the peer | detailed specification |
| `ClientSession_proofs` | | theorems about `ClientSession` |
| `ServerRuntime` | main, accept, capture and asr threads from the options to the end of `stop()`, clients, device handle | detailed specification; a client, the queue and the detector appear in it by what the other modules show of them |
| `ServerRuntime_proofs` | | theorems about `ServerRuntime` |
| `Pipeline` | all threads of pipeline_probe, its three queues, the stop | composition: three queues that behave as `BoundedQueue` does, a detector that does what `VadSegmenter` does, a store that is open or not |
| `Pipeline_proofs` | | theorems about `Pipeline` |
| `RecordingStore` | queue, worker, files, crashes and restarts | detailed specification |
| `RecordingStore_proofs` | | theorems about `RecordingStore` |
| `WebClient` | sockets, reconnect timer, listening, mute and volume | detailed specification |
| `StatusFeed` | the messages of the capture, asr, main and accept threads, one client's queue, what its page shows | composition of server and page, with the queue that `ClientSession` shows to be a `LossyFifo` |
| `WebPage_proofs` | | theorems about `StatusFeed` and `WebClient` |
| `CaptureProbe` | capture_probe with its `WavWriter`, and `read_wave` of asr_probe | detailed specification |
| `CaptureProbe_proofs` | | theorems about `CaptureProbe` |

**Grain of the steps.** A critical section of a mutex is one step. Whatever a
thread does after it unlocked, and each access to an atomic variable whose
position matters, is a step of its own: the notification after a push
(`Notify`, `NotifyOne`), the second call of `closed()` (`Probe`), the three
parts of `ClientSession::stop` (`Exchange`, `NotifyAll`, `CloseSocket`), the
load of `pcm_for_stop_` and the drop of the handle (`LoadPcm`, `DropPcm`), the
withdrawal of the handle and its close (`Disarm`, `Release`). A thread's
program counter is a variable: `worker`, `caller`, `at`, `main`, `accept`,
`capture`.

**BoundedQueue.** `items`, `droppedItems`, `isClosed` are the members. An item
is the number of its push, which makes "in order" and "not twice" visible.
`TryPush`, `PushDropOldest`, `Close` are the calls of a producer; `Block`,
`TimeOut`, `SpuriousWakeup`, `Pop`, `PopNothing` are `pop_for` and the
condition variable under it; `Probe` and `Handle` the rest of the loop.
`sent`, `rejected`, `taken`, `lastTaken`, `sawClosed` are history.

**VadSegmenter.** The loudness of a frame is one of three levels, because two
thresholds are all the detector compares it with. `Frame` is the whole path of
one frame: `Process` (the switch of `EnergyVAD::process`), the two counters,
`HandleVadSegment`. Timestamps are model integers; their differences are
compared in milliseconds as in the code. `asr` is whether a recogniser is
configured, which turns the collector off. `now`, `frames`, `lastHigh` are
history.

**ClientSession.** `queue`, `dropped`, `stopped` are the members, `socketOpen`
is what `stop()` does to the socket, `peerUp` what the network does to it. The
writer's `wait(lock, predicate)` is three places: it evaluates the predicate
with the mutex held (`locking` to `blocking`), goes to sleep and releases the
mutex (`Sleep`), and is woken (`Wake`). `raced` records that a `notify_all`
came in `blocking`; nothing reads it but two properties.

**ServerRuntime.** `thread[c]` is the life of a connection, `listed` is
`clients_`, `halted` the clients whose `stopped_` is set, `snapshot` the copy
that `stop()` works on. A device handle is the number of its opening;
`pcmForStop` is the atomic pointer, `target` what `stop()` loaded from it,
`interrupted` the handle `snd_pcm_drop` was called on. `SessionStops` and
`SessionEnds` are what `ClientSession` says of a client, `AsrEnds` what
`BoundedQueue` says of the asr thread, `ReadFrame` stands for a frame that is
handled as `VadSegmenter` says. The four boundaries are therefore modelled on
both sides. `main()` reads the options and opens the device before there is a
`ServerRuntime` (`ReadOptions`, `OpenDevice`); an error there ends the program
without a `stop()` (`EndsEarly`). `OpenCapture` is `open_capture` of the start
and of every reconnection. `start()` is five steps (`StartStore` ...
`StartAsr`), and `StartFails` may take the place of each: the exception reaches
`main()` through the destructor, which calls `stop()` on whatever threads there
are.

**Pipeline.** `items[q]`, `isOpen[q]`, `worker[q]` are a queue and the thread
that empties it, for the three queues; a frame is its number. The capture
thread has thirteen places because it looks at `stop_requested` four times per
frame, and counts a drop only on a look after the push. A pop takes an item or
finds nothing (`Pop`, `PopNothing`); whether it sleeps before is settled by
`BoundedQueue`. `CompleteSegment`, `HandleFrame` and `ProcessingThrows` are
what a frame can come to in the processing thread. `captured`,
`segments`, `popped` and `drops` are the statistics, and `popped["asr"]`, which
the program does not count, is history. `asked` is what ends the main loop, `main` walks through `request_stop` and the joins.

**RecordingStore.** A record is the number of its segment; `lines` is the text
file and `wavs` the directory, with the run whose audio a file holds.
`OpenTemporary`, `WriteSucceeds`, `Rename` are `write_wav`, each with the
failure that may take its place; `AppendLine`, `LineLost`, `AudioOnly` the rest
of `persist`. A stream that fails, or a crash between two characters, may leave
half a line at the end of the file (`torn`, `MayTear`), and the next run appends
to it. Otherwise `Crash` leaves the disk as it is, `Restart` begins the
numbering again, `Midnight` changes the directory of the next file.

**WebClient.** (`WebInit`, `WebNext`, `WebTypeOK` and so on have their prefix
because `WebPage_proofs` extends this module together with `StatusFeed`.) A
handler of the page is one step, since a script is not
interrupted; an `await` ends a step (`StartListening` and `Resumed`,
`StopListening` and `ContextClosed`). `phase` is what the browser knows of
each socket, `socket` the one in `state.socket`: `Closed(s)` and `Lost(s)` run
`onclose` for any `s`. `overlapped` is history: a click came while
`toggleListening` waited. `controls` is whether mute button and range can be
used, `level` what the gain was last set to, relative to the range;
`startedMuted` is history.

**StatusFeed.** A message is its kind with the one or two values a client can
tell apart: the sequence number of a packet, the number of a segment, the state
of detector and recogniser. `Broadcast` is `broadcast` with `enqueue` under it.
A frame is up to four steps of the capture thread (number and detector, event,
segment, packet), because the other threads may broadcast between them;
`ReadVad`, `ReadAsr` and `SendState` are the periodic message, whose two fields
are read one after the other. `page`
is what `vad-status`, `asr-status` and `packet-status` show. The queue and the
network behind it are one FIFO: the writer takes from the front in order, so a
message in flight differs from the head of the queue only in that it cannot be
overwritten any more. `lost` and `heard` are history; `missed` is what
a client can compute from the numbers it has seen.

**CaptureProbe.** `dataBytes` is `data_bytes_`; `file` has the two sizes in the
header and the samples behind it, of which the stream may hold some back
(`Save`). The three steps of `close()` are the moments at which the stream hands
something to the system; each may fail, and a stream that failed does nothing
afterwards. `SaveTooMuch` and `SaveFails` go to `close()` too, since the
exception destroys the writer. `Readable` is `read_wave`; it changes nothing,
so it is a state function and not an action.

Operators named after a mistake (`PopNewest`, `JoinNothing`, `RearmNot`, ...)
stand beside the definition they misstate and belong to no specification:
each shows that a property would notice that mistake.

## 3. What the runs check

| run | instance | what it shows |
|---|---|---|
| `bounded_queue` | 2 producers, capacity 2, 5 pushes | no reordering or second delivery (`InOrder`), every push accounted for (`Accounting`), no sleep on an item or a close without a notification to come (`NoLostWakeup`), a consumer told "closed" has drained the queue (`DrainedWhenSeenClosed`), a closed queue ends its consumer (`CloseStopsWorker`), and all of it implements `LossyFifo` with its liveness (`FifoSpec`) |
| `bounded_queue_drain` | 2 producers, capacity 2, 2 pushes | finding: `DrainedBeforeDone` fails |
| `vad_segmenter` | min_speech 1, silence 2, max_segment 6, recogniser's queue 1, 9 frames with gaps 0, 1, 3 | collector and detector never drift apart (`SegmentTracksVad`), length of a segment (`SegmentDuration`), no frame lost, repeated or shared (`NoFrameLostOrRepeated`), starts, ends and segments account for each other (`SegmentsAccounted`), no end without a pause (`EndsAfterPause`) |
| `client_session` | 2 broadcasters, queue of 2, 4 messages | no message slept on (`NoMissedMessage`), joins return and a client that has gone is cleaned up unless the notification was lost in one precise window (`JoinEndsUnlessRaced`, `GoneClientIsCleanedUp`), the client's queue is a `LossyFifo` (`FifoSpec`) |
| `client_session_hang` | 1 broadcaster, 1 message | finding: `JoinEnds` fails |
| `server_runtime` | 2 clients, max_clients 1, the device opened twice | never more than max_clients active (in `TypeOK`), `stop()` can only load the open handle, and a read in progress when it drops the handle is a read from that one (`StopFindsTheHandle`), the recogniser's queue and the store outlive those who fill them, every thread `stop()` knows has ended, at most one client is left over (`ShutdownInOrder`), `stop()` joins its own threads and stops the store even on a silent device, and ends if the sessions it has stopped do (`StopCompletes`), all of it also when `start()` failed half-way |
| `pipeline` | capacities 1, 2 frames | every frame is popped, queued, in hand or counted as dropped, but for the one the stop may catch, and every segment is taken, queued or counted, those too that complete while the program stops (`FramesAccounted`), the recogniser's queue is closed behind the processing thread and the store behind the recogniser, and no read waits on a working handle behind the drop (`ShutdownOrder`), a requested stop ends the program even on a silent device or after the processing thread has died (`StopCompletes`) |
| `recording_store` | queue of 1, 3 records per run, 2 runs, 2 days | no line names a file that is not there or holds older audio (`LinesNameTheirAudio`), every record is accounted for, the lines are the finished records in order, and half a line in the file spoils at most the first line of the next run (`RecordsAccounted`) |
| `web_client` | 3 sockets, 3 audio contexts | one live socket at a time, and after `disconnect()` none but by a click (`OneConnection`), a lost connection is sought again (`SeeksConnection`), gain node and level are those of the open context and of the buttons as long as clicks do not overlap (`ListeningWorks`) |
| `web_reconnect` | 3 sockets, 1 audio context | finding: `NoEndlessReconnection` fails |
| `status_feed` | queue of 2, recogniser's queue 1, 3 frames | a client hears the end of a segment, its recognition and its result in order, the last two at most once (`StoryInOrder`), the gaps in the packet numbers are exactly its losses (`LossesShow`), the page shows in the end what detector and recogniser stay at (`PageCatchesUp`) |
| `capture_probe` | sizes up to 7, header 3, reads of 1 to 3, 11 samples | a file the reader takes is complete, whenever it comes (`AcceptedIsWhole`), a recording that ended by itself can be read unless the disk refused it (`EndLeavesReadableFile`) |

Each passing run also checks the type invariant of its module, which carries
the capacity of the queues (`TypeOK`).

### Bounds and why they are enough

* *Queues.* Capacity 2 is the least at which a queue can be empty, partly full
  and full, and order within it matters. Five pushes go twice round a full
  queue. Two producers are enough for one to be between its unlock and its
  notification while the other pushes or closes.
* *Detector.* Nine frames with gaps up to 3 complete a segment and begin
  another, or overflow one and begin another, and the gap 3 jumps over
  min_speech, over silence and, in two steps, over max_segment; gap 0 is two
  frames within one millisecond. The queue of one segment is full after one.
* *Client.* Four messages overflow the queue of two while the writer holds one.
* *Server.* Two clients with max_clients 1 make the limit bite and let a
  second one in after the first has stopped. Two openings are the first and
  a whole reconnection; after the bound only failed reopenings remain. A client
  left over by `stop()` needs the accept thread between two of its steps, so a
  second client is enough to see that there is no second one.
* *Pipeline.* With capacity 1 the second frame already meets a full queue, is
  refused by the processing queue and overwrites in the monitor queue; reads
  that bring nothing, errors and recoveries are not bounded.
* *Store.* Three records fill the queue of one while one is in hand. The second
  run uses the numbers of the first again, on the same day or on the next.
* *Web client.* Three sockets are the current one, one closing, and one to
  connect with; dead ones are used again, so the run has no last event. Three
  contexts allow a context being closed beside two being resumed.
* *Messages.* A frame with an end of speech sends three messages at once
  (event, dropped segment, packet) and overflows the queue of two by itself;
  three frames end speech twice, so two segments can be on their way.
* *Recording.* The largest size is not a multiple of the reads, so the limit is
  met exactly, and passed by one, two or three samples; the header makes the
  RIFF size wrap before that.

The bounds are the constants `MaxPushes`, `MaxFrames`, `MaxMessages`,
`MaxOpens`, `MaxRecords`, `MaxRuns`, `MaxDays` and the sets `Clients`,
`Sockets`, `Contexts`; they occur in the guards of `Offer`, `Frame`,
`Numbered`, `Read`, `Enqueue`, `OpenCapture`, `ReadFrame`, `Restart`, `Midnight`, `AcceptSocket`,
`Connect` and `StartListening`. Where the model may stop (its frames are used
up, a client is joined, the server or the program has ended) deadlock is not
checked; `BoundedQueue` never stops, since `Close` may be called again, nor
does the page of `WebClient`.

### Fairness

The only assumption is that the operating system runs a thread that can run:
weak fairness of each thread's own steps and of a notification already on its
way. Nothing is assumed of producers, clients, signals, timeouts, spurious
wakeups, of a write to a client that does not read, of a read from a silent
device, or of the success of a reconnection. A read on a handle that
`snd_pcm_drop` was called on returns (`interrupted = pcm`), which is what the
code uses that call for. Nothing is assumed of sessions: that a stopped one ends
is not so in every run, as `client_session_hang` shows. It is the premise
`SessionsEnd` of the second part of `StopCompletes`; the first part, that
`stop()` joins accept, capture and asr thread and stops the store, does without.

In `pipeline` the same holds of a read after `snd_pcm_drop`. `recording_store`
and `capture_probe` check safety only. In `status_feed` `run()` goes on sending
the state, the accept thread finishes with a client it has listed, and the page
takes what arrives; the capture thread and the recogniser may stop for ever
wherever they are. In `web_client` the browser fires a timer that is set, delivers the
close event of a socket that was closed, ends every attempt to connect with
success or failure, and settles the promises of an audio context; nobody need
click.

In `client_session` the fairness of `SessionStep` leaves out reading a message
(`LoopEnds`), so a session whose peer is silent ends only by what `stop()` does
to its socket.

## 4. What is proved

`BoundedQueue_proofs` holds for every non-empty set of threads, every capacity
of at least 1 (the constructor refuses 0) and every number of pushes:

| theorem | statement |
|---|---|
| `TypeCorrect` | `Spec => []TypeOK` |
| `OrderKept` | `Spec => []InOrder` |
| `PushesAccounted` | `Spec => []Accounting` |
| `WakeupsNotLost` | `Spec => []NoLostWakeup` |
| `ClosedMeansDrained` | `Spec => []DrainedWhenSeenClosed` |
| `ImplementsLossyFifo` | `Spec => Fifo!Spec` |

The inductive invariant is the conjunction of `TypeOK`; `InOrder` with
`lastTaken <= sent`; `Accounting`; `NoLostWakeup`; and `DrainedWhenSeenClosed`
with `sawClosed => isClosed`. Two parts are there only to be inductive: an
empty queue says nothing of `lastTaken`, so the next push needs to know that
the newest item taken is not newer than the newest sent; and a consumer that
saw the queue closed stays right only because a closed queue is never reopened
and refuses what comes, which needs `isClosed` and not only the memory of it.
The typing is proved first; each other part is then proved to be preserved
action by action with the typing as a hypothesis; the refinement uses them to
map each step to one of `LossyFifo` or to a stutter.

`CaptureProbe_proofs` holds for every size limit, header size, length of a read
and number of samples, all positive (`SizesAssumption`), with more samples than
the limit allows (`MaxFramesAssumption`, so that the limit can be met):

| theorem | statement |
|---|---|
| `Invariance` | `Spec => []IInv` |
| `TypeCorrect` | `Spec => []TypeOK` |
| `AcceptedFilesAreWhole` | `Spec => []AcceptedIsWhole` |
| `EndedRecordingsAreReadable` | `Spec => []EndLeavesReadableFile` |

Neither property is inductive, since both speak of sizes that are written in the
last steps of `close()`. `IInv` is `TypeOK` with three parts. `Counted` ties
`data_bytes_` to the samples captured at every place of the loop; the read in
hand when `write()` threw is the one exception, and it remains in `got` because
nothing reads after an exception. `Sealed` says that a data size other than 0 is
there only behind `close()`, and is then `data_bytes_` itself: the 32-bit field
does not wrap, because `TypeOK` has it within the limit (`WordFits`). `Kept`
follows the audio through `close()`: as long as the disk has refused nothing it
is in the file before either size is, which rests on a stream being open
whenever there is something to write. Each part is preserved action by action
with the others as hypotheses.

`VadSegmenter_proofs` holds for all `MinSpeech`, `Silence` and `AsrCapacity` of
at least 1 (the constructors refuse 0), any `MaxSegment`, and frames at any
distances in milliseconds:

| theorem | statement |
|---|---|
| `Invariance` | `Spec => []IInv` |
| `TypeCorrect` | `Spec => []TypeOK` |
| `CollectorFollows` | `Spec => []SegmentTracksVad` |
| `DurationsBounded` | `Spec => []SegmentDuration` |
| `FramesKept` | `Spec => []NoFrameLostOrRepeated` |
| `SegmentsCounted` | `Spec => []SegmentsAccounted` |
| `EndAfterSilence` | `Spec => EndsAfterPause` (an action property) |

`ProcessSteps` first shows that a call of `process()` is one of seven steps, and
`HandedFacts` what a segment is when `Complete` hands it over; the parts of the
invariant use these two and not the code behind them. To the four properties
`IInv` adds `TimesInOrder` and `QueuedFramesArrived`. A segment is long enough
only because its speech was reported `MinSpeech` after the candidate and its
silence began no earlier than the report (`TimesInOrder`, which also puts the
last loud frame before the silence, and with it `EndsAfterPause`); and that it
began with its candidate is `SegmentTracksVad`. A new segment shares no frame
with a queued one because those have only frames that arrived before
(`QueuedFramesArrived`).

`ClientSession_proofs` holds for any set of broadcasting threads, every capacity
of at least 1 and every number of messages:

| theorem | statement |
|---|---|
| `Invariance` | `Spec => []IInv` |
| `TypeCorrect` | `Spec => []TypeOK` |
| `MessagesWakeTheWriter` | `Spec => []NoMissedMessage` |
| `StopWakesTheWriter` | `Spec => []WokenUnlessRaced` |
| `ImplementsLossyFifo` | `Spec => FifoSpec` |

`NoMissedMessage` needs `SleepsOnEmpty`: nobody pushes while the writer holds
the mutex between its predicate and its sleep. `WokenUnlessRaced` is the safety
core of `JoinEndsUnlessRaced`, which is liveness and only checked: a writer that
sleeps on a stopped session has a `notify_all` to come, or `raced` is set. The
refinement needs `WriterKnown`: `Abandon` of `LossyFifo` is allowed on a closed
queue only, so the writer must be done only when `stopped_` is set, and must not
be started after it was done.

`ServerRuntime_proofs` holds for every finite set of connections, every limit of
at least 1 and any number of openings of the device:

| theorem | statement |
|---|---|
| `Invariance` | `Spec => []IInv` |
| `TypeCorrect` | `Spec => []TypeOK` |
| `StopLoadsOpenHandle` | `Spec => []StopFindsTheHandle` |
| `ThreadsEndInOrder` | `Spec => []ShutdownInOrder` |

`TypeOK` has the limit of clients in it, so its proof counts: `accept_loop`
compares the running clients with the limit and starts the new one later, which
is right because the accept thread has only one client in hand (`ClientsKnown`).
`OneLateClient` says what may happen behind the copy of the list in `stop()`:
the acceptor is closed, so what is listed afterwards is that one client.
`HandleOwned` lists the places at which the capture thread keeps `pcm_for_stop_`
empty. `JoinsHold` is `ShutdownInOrder` with what each join has established on
the way. `ReadDropped` is what makes `StopFindsTheHandle` inductive: the capture thread
reads only from the handle that `pcm_for_stop_` has got before, and begins no
read once `stopping_` is set; so the handle that `stop()` loads while a read is
in progress is the handle of that read, and still is when it is dropped. As the
main thread starts its threads one by one, two parts say that a thread is unborn
before its place.

`Pipeline_proofs` holds for all capacities of at least 1 and any number of
frames:

| theorem | statement |
|---|---|
| `Invariance` | `Spec => []IInv` |
| `TypeCorrect` | `Spec => []TypeOK` |
| `FramesExplained` | `Spec => []FramesAccounted` |
| `ThreadsEndInOrder` | `Spec => []ShutdownOrder` |

`FramesAccounted` allows one frame to be missing after the stop. That it is
never a second needs the place at which it goes missing (`GivenUp`): a frame
that a closed queue refused is counted on the next look at `stop_requested`
only, and no such place leads to another read once that is set. `SegmentsCounted` is the
second part of `FramesAccounted` and inductive as it stands. `StopKnown` has
`stop_requested` precede the closing of the queues and the drop of the handle,
which makes the first part of `ShutdownOrder` inductive, `NoReadOutlastsDrop`: a
recovery may prepare the dropped handle again, but leads to a look at
`stop_requested` before the next read. `JoinsHold` is as in the server.

`RecordingStore_proofs` holds for every capacity of at least 1 and any number of
records, runs and days:

| theorem | statement |
|---|---|
| `Invariance` | `Spec => []IInv` |
| `TypeCorrect` | `Spec => []TypeOK` |
| `AudioIsThere` | `Spec => []LinesNameTheirAudio` |
| `RecordsCounted` | `Spec => []RecordsAccounted` |

`AudioBeforeLine` says that the file is renamed when its line is due, and that no
line is of a later run: a `rename()` that replaces a file that a line names puts
one there that is as new. `NumbersAscend` follows the numbers through queue and
hand into `finished`, whose order `RecordsAccounted` claims. `TornByOthers` is
why only the first line of a run can be spoiled: as long as the stream works,
half a line at the end of the file is of an earlier run, and nothing has been
finished yet.

`WebPage_proofs` is about the two modules of the browser's page. Its first part
holds for `StatusFeed` with queues of any capacity of at least 1 and any number
of frames:

| theorem | statement |
|---|---|
| `Invariance` | `Spec => []IInv` |
| `TypeCorrect` | `Spec => []TypeOK` |
| `StoryTold` | `Spec => []StoryInOrder` |
| `LossesFound` | `Spec => []LossesShow` |

Both properties speak of the client's queue, and neither is inductive. For
`StoryInOrder` the invariant follows a segment from the capture thread to the
page: `SegmentsBounded` and `SegmentsInOrder` say that the segment in hand, the
queued ones and the next one have ascending numbers; `NewsToCome` that all a
client has heard, or has waiting, is older than what the recogniser says next of
the segment in hand, of any queued one and of the next. `Story` is the property
place by place. A message that is overwritten only removes conditions, so the
capacity plays no part. For `LossesShow` the invariant says which packets are in
the queue: `PacketsKept` has them carry consecutive numbers up to the last one
sent, beginning behind those heard, missed and overwritten. So the packet that is
overwritten is the next to be missed, and the packet that arrives ends a gap of
just those. That as many packets wait as there are numbers (`PacketsCounted`) is
a bijection between the two sets. `FeedStep` first shows that a step leaves the
queue alone, sends one message or delivers one; the rest uses no other fact
about the queue.

The second part holds for `WebClient` with any number of sockets and audio
contexts:

| theorem | statement |
|---|---|
| `WebInvariance` | `WebSpec => []WebInv` |
| `WebTypeCorrect` | `WebSpec => []WebTypeOK` |
| `OneConnectionAtATime` | `WebSpec => []OneConnection` |
| `NeverForgotten` | `WebSpec => []Sought` |
| `SoundAsShown` | `WebSpec => []ListeningWorks` |

`OneConnection` is inductive as it stands. `Sought` is the safety core of
`SeeksConnection`: as long as the user has not given the connection up, the timer
is set or a socket has its close event to come. `ListeningWorks` speaks of the
time while listening; `OneContext` adds the three other places of
`toggleListening` (silent, starting, stopping), of which each step leads to the
next.

In all of them the parts of the invariant are preserved action by action, each
with the parts it needs as hypotheses; TLC found each invariant to hold on
instances like those of section 3 before it was proved.

Only model-checked is liveness: `CloseStopsWorker`, the fairness of `LossyFifo`
that `BoundedQueue` promises, `JoinEndsUnlessRaced`, `GoneClientIsCleanedUp`,
both `StopCompletes`, `PageCatchesUp`, `SeeksConnection`. Fairness and ENABLED
are outside what the prover handles. For most of them the invariant is proved on
which the argument turns: `NoLostWakeup` for `CloseStopsWorker`,
`WokenUnlessRaced` for the joins of a client, `StopFindsTheHandle` and the first part
of `ShutdownOrder` for the two `StopCompletes`, `Sought` for `SeeksConnection`. `PageCatchesUp` has no such
core: a page may be wrong for any number of messages, and only the repetition of
the state message puts it right.

## 5. Findings

1. **A record accepted before stop can be lost** (`bounded_queue_drain`,
   `recording_store.hpp:214`). `pop_for` times out on the empty queue, the item
   is pushed, the queue closed, and only then the loop asks `closed()`. The
   test of the store expects a record enqueued before `stop()` on disk. All
   five consumer loops have the window.
2. **A client's stop can hang** (`client_session_hang`, `ws_server.cpp:454`).
   `stopped_` is set and notified without `queue_mutex_`, so the writer about
   to sleep can miss both. `client_session` shows that this is the only way.
3. **The page reconnects for ever** (`web_reconnect`, `app.js:217`). `connect()`
   closes the socket it replaces, whose `onclose` sets the reconnect timer, which
   calls `connect()`, which closes the new, live socket, and so on; one click on
   connect while connected is enough. Each `onopen` resets the delay to its
   least. The README forbids endless reconnection.

The code departs from its documents in five more places. Each is part of a
model; a property that no run of section 3 checks states the promise, and a
configuration of its own shows a behaviour against it. What remains true is
checked by the property named last.

* *A read error ends the server* (`ws_server.cpp:669`).
  `docs/WebSocket协议.md:87-88` says that one ALSA/USB I/O error does not, and
  `docs/部署说明.md:247` that the device is opened again. The capture thread
  counts an error that `snd_pcm_recover` cannot repair in `read_errors` and begins
  to reopen; `run()` leaves its loop on that counter, and `main()` calls `stop()`.
  `ReadErrorIsNoEnd`, `ServerReadError.cfg`. `StopCompletes` begins at a signal
  or at the `stop()` itself and says nothing of whether an error should lead there.
* *A late client is never stopped* (`ws_server.cpp:697`).
  `docs/WebSocket协议.md:117` says that the server closes all clients. A
  connection the accept thread has in hand is listed after `stop()` copied the
  list, and is neither stopped nor joined. `AllClientsClosed`,
  `ServerLateClient.cfg`. `ShutdownInOrder`: it is one at most.
* *Sessions are kept* (`ws_server.cpp:760`). `src/README.md:545-550` wants no
  growth of memory and no leak of threads. `clients_` keeps every session that
  has ended, with its thread unjoined, until `stop()`. `EndedSessionsReleased`,
  which allows as many as may run at a time, `ServerSessions.cfg`. `TypeOK`: the
  sessions that run stay within max_clients.
* *Listening again while muted is loud* (`app.js:242`). `src/web/README.md:25`
  has the mute button against acoustic feedback. The new gain node is set to the
  volume while the button says muted. `MutedIsSilent`, `WebMute.cfg`.
  `ListeningWorks` excepts this case, by `startedMuted`, and no other.
* *Audio of an earlier run is replaced* (`recording_store.hpp:187`).
  `src/README.md:116` has the segments saved as WAV and their results as JSONL.
  Files are named after the day and the number of the segment, which begins
  again in every process; after a restart on the same day `rename()` replaces
  files that lines of the first run name. `EachLineKeepsItsAudio`,
  `StoreOverwrites.cfg`. `LinesNameTheirAudio`: a line names a file that is
  there and is no older.

Also worth knowing, though no document is as definite:

* *Silence.* The note on VAD says the level must stay "continuously below the
  end threshold"; the code takes a level between the thresholds for silence once
  speech has faded. `EndsAfterPause` states what the code guarantees.
* *Overlapped clicks.* A second click while `toggleListening` waits runs its
  other half on half-changed state (`app.js:240`): the model has it, and
  `ListeningWorks` excepts it by `overlapped`.
* *A lost line.* A line that the transcript stream refuses is not counted in
  `failed_records_` (`recording_store.hpp:207`). `RecordsAccounted` excepts a
  stream that has failed.
* *A failed recognition* is shown as an error only until the next state message
  says "idle" (`app.js:73`), at most `state_ms` later.
* *A killed recording* of capture_probe has its audio but is refused by
  asr_probe, because its sizes are still 0; with a full disk likewise, and then
  `close()` does not report it (the exit status is 1 only if a write failed
  before).

## 6. What is not modelled, and why

* RMS arithmetic, samples, JSON, printing, statistics other than the counters
  named above: data that no property distinguishes.
* `EnergyVAD::finish`: no program calls it.
* The text of all messages; counters that only appear in the state message.
* The waveform, the scheduling of audio buffers, the lists of events and
  transcripts, an empty address and the delays of the reconnection (only that
  there is one).
* The bytes of a packet and of JSON text (`voiceedge_protocol.hpp`), and
  `decode_audio_packet`, which only ws_cli and a test call.
* ws_cli: a sequential diagnostic client without state beyond its counters.
* sherpa-onnx behind OfflineASR and asr_probe; the options of pipeline_probe.
* A loss of power, after which the disk may miss what the system had accepted.
* `snd_pcm_drop` on a handle that `stop()` loaded and the capture thread closed
  meanwhile: the window is in `ServerRuntime` (`LoadPcm`, then `Disarm` and
  `Release`), but the effect of the call is ALSA's and is not modelled.

## 7. Plan

Done, in this order: `LossyFifo`, `BoundedQueue` and its proofs,
`VadSegmenter`, `ClientSession`, `ServerRuntime`, `Pipeline`,
`RecordingStore`, `WebClient`, `CaptureProbe`, `StatusFeed`, then the proofs of
`CaptureProbe`, `Pipeline`, `ServerRuntime`, `WebClient`, `VadSegmenter`,
`ClientSession`, `RecordingStore` and `StatusFeed`.

Every invariant and every action property that a passing run checks is now a
theorem. Left is what section 4 names as out of the prover's reach.

## 8. Running it

    tlc -config BoundedQueue.cfg BoundedQueue.tla
    tlc -config MCVadSegmenter.cfg MCVadSegmenter.tla
    tlc -config ClientSession.cfg ClientSession.tla
    tlc -config ServerRuntime.cfg ServerRuntime.tla
    tlc -config Pipeline.cfg Pipeline.tla
    tlc -config RecordingStore.cfg RecordingStore.tla
    tlc -config WebClient.cfg WebClient.tla
    tlc -config CaptureProbe.cfg CaptureProbe.tla
    tlc -config StatusFeed.cfg StatusFeed.tla
    tlapm BoundedQueue_proofs.tla
    tlapm CaptureProbe_proofs.tla
    tlapm VadSegmenter_proofs.tla
    tlapm ClientSession_proofs.tla
    tlapm ServerRuntime_proofs.tla
    tlapm Pipeline_proofs.tla
    tlapm RecordingStore_proofs.tla
    tlapm WebPage_proofs.tla

The other configurations are those of section 5: `BoundedQueueDrain.cfg`,
`ClientSessionHang.cfg` and `WebReconnect.cfg` for the findings,
`ServerReadError.cfg`, `ServerLateClient.cfg`, `ServerSessions.cfg` (module
`ServerRuntime`), `WebMute.cfg` (`WebClient`) and `StoreOverwrites.cfg`
(`RecordingStore`) for the other departures. TLC reports a violation for each.
