--------------------------- MODULE ServerRuntime ---------------------------
(***************************************************************************)
(* class ServerRuntime of src/board/ws_server.cpp: the threads of the      *)
(* WebSocket server (main, accept, capture, asr), the clients it accepts   *)
(* and the sound device it captures from, from the options of main() and   *)
(* start(), which may fail in the middle, to the end of stop().            *)
(*                                                                         *)
(* A client is what ClientSession.tla makes of it: a thread that is        *)
(* created, runs, and ends by itself or some time after stop(). What the   *)
(* capture thread does with a frame is in VadSegmenter.tla; the queue of   *)
(* the recogniser and the loop of its thread are in BoundedQueue.tla. Here *)
(* they matter only by when they are open and when their threads end.      *)
(*                                                                         *)
(* An operator followed by the definition it misstates (DisarmLater,       *)
(* RearmNot, ...) is a mutation that a property is tried against.          *)
(***************************************************************************)
EXTENDS Naturals, FiniteSets

CONSTANTS Clients,     \* connections that may be made; bound of the model
          MaxClients,  \* options_.max_clients
          MaxOpens     \* bound of the model: times the device is opened

ASSUME ClientsAssumption == IsFiniteSet(Clients)
ASSUME MaxClientsAssumption == MaxClients \in Nat \ {0}
ASSUME MaxOpensAssumption == MaxOpens \in Nat \ {0}

VARIABLES
    asked,         \* "signal": g_signal_stop; "run_ms": that time has passed
    stopping,      \* stopping_
    main,          \* place of the main thread; "gone": ended without stop()
    accept,        \* place of the accept thread
    acceptorOpen,  \* acceptor_ is open
    thread,        \* per connection: the thread of its ClientSession
    listed,        \* clients_
    halted,        \* clients whose stopped_ is set
    snapshot,      \* the copy of clients_ made by stop()
    capture,       \* place of the capture thread
    pcm,           \* the open handle of audio_.pcm, 0 when closed
    opens,         \* handles opened so far; they are numbered from 1
    pcmForStop,    \* pcm_for_stop_, 0 for nullptr
    target,        \* the handle stop() has loaded and will drop
    interrupted,   \* the handle on which snd_pcm_drop was called, or 0
    readErrors,    \* stats_.read_errors # 0
    asrClosed,     \* asr_queue_ is closed
    asr,           \* the asr thread, "absent" without a model
    storeOpen      \* recording_store_ accepts records

clientVars == <<thread, listed, halted>>
deviceVars == <<pcm, opens, pcmForStop, interrupted, readErrors>>
workerVars == <<asrClosed, asr, storeOpen>>
stopVars   == <<stopping, snapshot, target, acceptorOpen>>
vars == <<asked, stopping, main, accept, acceptorOpen, thread, listed, halted,
          snapshot, capture, pcm, opens, pcmForStop, target, interrupted,
          readErrors, asrClosed, asr, storeOpen>>

\* main() begins; no device is open and no thread runs yet.
Init ==
    /\ asked = "no" /\ stopping = FALSE
    /\ main = "options"
    /\ accept = "unborn" /\ acceptorOpen = FALSE
    /\ thread = [c \in Clients |-> "none"]
    /\ listed = {} /\ halted = {} /\ snapshot = {}
    /\ capture = "unborn"
    /\ pcm = 0 /\ opens = 0 /\ pcmForStop = 0 /\ target = 0
    /\ interrupted = 0 /\ readErrors = FALSE
    /\ asrClosed = FALSE /\ asr \in {"unborn", "absent"} /\ storeOpen = FALSE

\* What ends the loops of the capture thread.
StopSeen == stopping \/ asked = "signal"

-----------------------------------------------------------------------------
(* accept_loop.                                                            *)

AcceptGoes(from, to) ==
    /\ accept = from
    /\ accept' = to
    /\ UNCHANGED <<asked, main, capture, deviceVars, workerVars, stopVars>>

AcceptCheck ==
    /\ AcceptGoes("loop", IF stopping THEN "done" ELSE "accepting")
    /\ UNCHANGED clientVars

\* would_block, or an error of the acceptor; always once it is closed.
AcceptNothing ==
    /\ AcceptGoes("accepting", "loop")
    /\ UNCHANGED clientVars

AcceptSocket(c) ==
    /\ acceptorOpen
    /\ thread[c] = "none"
    /\ AcceptGoes("accepting", "registering")
    /\ thread' = [thread EXCEPT ![c] = "arriving"]
    /\ UNCHANGED <<listed, halted>>

\* The clients for which ClientSession::active() is true.
Active == listed \ halted

HasRoomForOneMore == Cardinality(Active) <= MaxClients

HasRoom == Cardinality(Active) < MaxClients

\* Under clients_mutex_: count the active clients, then add this one.
Register(c) ==
    /\ thread[c] = "arriving"
    /\ HasRoom
    /\ AcceptGoes("registering", "starting")
    /\ listed' = listed \cup {c}
    /\ thread' = [thread EXCEPT ![c] = "created"]
    /\ UNCHANGED halted

TurnAway(c) ==
    /\ thread[c] = "arriving"
    /\ ~HasRoom
    /\ AcceptGoes("registering", "loop")
    /\ thread' = [thread EXCEPT ![c] = "refused"]
    /\ UNCHANGED <<listed, halted>>

\* client->start() and the hello message.
StartClient(c) ==
    /\ thread[c] = "created"
    /\ AcceptGoes("starting", "loop")
    /\ thread' = [thread EXCEPT ![c] = "running"]
    /\ UNCHANGED <<listed, halted>>

\* The session calls its own stop(): the client is gone, or was none.
SessionStops(c) ==
    /\ thread[c] = "running" /\ c \notin halted
    /\ halted' = halted \cup {c}
    /\ UNCHANGED <<asked, main, accept, thread, listed, capture, deviceVars,
                   workerVars, stopVars>>

\* A stopped session joins its writer and ends.
SessionEnds(c) ==
    /\ thread[c] = "running" /\ c \in halted
    /\ thread' = [thread EXCEPT ![c] = "ended"]
    /\ UNCHANGED <<asked, main, accept, listed, halted, capture, deviceVars,
                   workerVars, stopVars>>

-----------------------------------------------------------------------------
(* capture_loop and reopen_capture.                                        *)

CaptureGoes(from, to) ==
    /\ capture = from
    /\ capture' = to
    /\ UNCHANGED <<asked, main, accept, clientVars, stopVars, asr,
                   storeOpen>>

\* pcm_for_stop_ takes the handle before the loop that reads from it.
Arm ==
    /\ CaptureGoes("begin", "loop")
    /\ pcmForStop' = pcm
    /\ UNCHANGED <<pcm, opens, interrupted, readErrors, asrClosed>>

CaptureCheck ==
    /\ CaptureGoes("loop", IF StopSeen THEN "leaving" ELSE "reading")
    /\ UNCHANGED <<deviceVars, asrClosed>>

\* snd_pcm_readi returns audio (handled as VadSegmenter says) or an error.
\* It is certain to return only on an interrupted handle.
ReadFrame ==
    /\ CaptureGoes("reading", "loop")
    /\ UNCHANGED <<deviceVars, asrClosed>>

ReadFails ==
    /\ CaptureGoes("reading", "failed")
    /\ UNCHANGED <<deviceVars, asrClosed>>

\* An error while stopping is what snd_pcm_drop brought about.
AfterFailure ==
    /\ CaptureGoes("failed", IF StopSeen THEN "leaving" ELSE "recovering")
    /\ UNCHANGED <<deviceVars, asrClosed>>

RecoverAndRead ==
    /\ CaptureGoes("recovering", "reading")
    /\ interrupted' = 0
    /\ UNCHANGED <<pcm, opens, pcmForStop, readErrors, asrClosed>>

\* snd_pcm_recover makes the handle work again, even if stop() dropped it
\* meanwhile.
Recover ==
    /\ CaptureGoes("recovering", "loop")
    /\ interrupted' = 0
    /\ UNCHANGED <<pcm, opens, pcmForStop, readErrors, asrClosed>>

RecoverFails ==
    /\ CaptureGoes("recovering", "disarm")
    /\ readErrors' = TRUE
    /\ UNCHANGED <<pcm, opens, pcmForStop, interrupted, asrClosed>>

DisarmLater ==
    /\ CaptureGoes("disarm", "release")
    /\ UNCHANGED <<deviceVars, asrClosed>>

\* reopen_capture: stop() may not use the handle that is to be closed ...
Disarm ==
    /\ CaptureGoes("disarm", "release")
    /\ pcmForStop' = 0
    /\ UNCHANGED <<pcm, opens, interrupted, readErrors, asrClosed>>

\* ... which is closed next.
Release ==
    /\ CaptureGoes("release", "backoff")
    /\ pcm' = 0
    /\ UNCHANGED <<opens, pcmForStop, interrupted, readErrors, asrClosed>>

AfterBackoff ==
    /\ CaptureGoes("backoff", IF StopSeen THEN "leaving" ELSE "opening")
    /\ UNCHANGED <<deviceVars, asrClosed>>

\* open_capture succeeds: a new handle, with the parameters asked for ...
OpenCapture ==
    /\ opens < MaxOpens
    /\ opens' = opens + 1
    /\ pcm' = opens + 1
    /\ UNCHANGED <<pcmForStop, interrupted, readErrors>>

Reopen ==
    /\ CaptureGoes("opening", "rearm")
    /\ OpenCapture
    /\ UNCHANGED asrClosed

\* ... or throws, with what it opened closed again; the backoff is doubled.
ReopenFails ==
    /\ CaptureGoes("opening", "backoff")
    /\ UNCHANGED <<deviceVars, asrClosed>>

RearmNot ==
    /\ CaptureGoes("rearm", "loop")
    /\ UNCHANGED <<deviceVars, asrClosed>>

Rearm ==
    /\ CaptureGoes("rearm", "loop")
    /\ pcmForStop' = pcm
    /\ UNCHANGED <<pcm, opens, interrupted, readErrors, asrClosed>>

\* The end of capture_loop: the handle stays open until the destructor.
Leave ==
    /\ CaptureGoes("leaving", "closing")
    /\ pcmForStop' = 0
    /\ UNCHANGED <<pcm, opens, interrupted, readErrors, asrClosed>>

CaptureClosesQueue ==
    /\ CaptureGoes("closing", "done")
    /\ asrClosed' = TRUE
    /\ UNCHANGED deviceVars

\* asr_loop ends some time after its queue is closed.
AsrEnds ==
    /\ asr = "running" /\ asrClosed
    /\ asr' = "done"
    /\ UNCHANGED <<asked, main, accept, capture, clientVars, deviceVars,
                   stopVars, asrClosed, storeOpen>>

-----------------------------------------------------------------------------
(* start(), run() and stop() of the main thread.                           *)

Begins(from, to) ==
    /\ main = from
    /\ main' = to
    /\ UNCHANGED <<asked, accept, capture, clientVars, workerVars, stopVars>>

\* parse_options takes every option; the device is touched only after that.
ReadOptions ==
    /\ Begins("options", "open")
    /\ UNCHANGED deviceVars

OpenDevice ==
    /\ Begins("open", "start_store")
    /\ OpenCapture

\* --help, an option unknown, malformed or out of range, or no such device:
\* the program ends and there is nothing to stop.
EndsEarly ==
    /\ \E place \in {"options", "open"} : Begins(place, "gone")
    /\ UNCHANGED deviceVars

Starts(from, to) ==
    /\ main = from
    /\ main' = to
    /\ UNCHANGED <<asked, clientVars, deviceVars, asrClosed, stopping,
                   snapshot, target>>

\* Options and model are accepted, the store (if any) opens its files.
StartStore ==
    /\ Starts("start_store", "bind")
    /\ storeOpen' = TRUE
    /\ UNCHANGED <<accept, acceptorOpen, capture, asr>>

\* open, set_option, bind, listen, non_blocking of the acceptor.
Bind ==
    /\ Starts("bind", "start_accept")
    /\ acceptorOpen' = TRUE
    /\ UNCHANGED <<accept, capture, asr, storeOpen>>

\* From here on clients are accepted.
StartAccept ==
    /\ Starts("start_accept", "start_capture")
    /\ accept' = "loop"
    /\ UNCHANGED <<acceptorOpen, capture, asr, storeOpen>>

StartCapture ==
    /\ Starts("start_capture", "start_asr")
    /\ capture' = "begin"
    /\ UNCHANGED <<accept, acceptorOpen, asr, storeOpen>>

StartAsr ==
    /\ Starts("start_asr", "run")
    /\ asr' = IF asr = "unborn" THEN "running" ELSE asr
    /\ UNCHANGED <<accept, acceptorOpen, capture, storeOpen>>

\* An exception leaves start() (a bad option, a port in use, no thread to be
\* had); it reaches main() through the destructor, which calls stop().
StartFails(place) ==
    /\ Starts(place, "exchange")
    /\ UNCHANGED <<accept, acceptorOpen, capture, asr, storeOpen>>

StartPlaces == {"start_store", "bind", "start_accept", "start_capture",
                "start_asr"}

MainGoes(from, to) ==
    /\ main = from
    /\ main' = to
    /\ UNCHANGED <<asked, accept, thread, listed, capture>>

MainWaits(from, to) ==
    /\ MainGoes(from, to)
    /\ UNCHANGED <<halted, deviceVars, workerVars, stopVars>>

\* A signal arrives, or options_.run_ms is over (0 is never).
Ask(reason) ==
    /\ asked = "no"
    /\ asked' = reason
    /\ UNCHANGED <<main, accept, capture, clientVars, deviceVars, workerVars,
                   stopVars>>

\* run() returns: on a signal, after run_ms, or after a read error.
RunEnds ==
    /\ asked # "no" \/ readErrors
    /\ MainWaits("run", "exchange")

StopBegins ==
    /\ MainGoes("exchange", "close_acceptor")
    /\ stopping' = TRUE
    /\ UNCHANGED <<halted, deviceVars, workerVars, snapshot, target,
                   acceptorOpen>>

CloseAcceptor ==
    /\ MainGoes("close_acceptor", "load_pcm")
    /\ acceptorOpen' = FALSE
    /\ UNCHANGED <<halted, deviceVars, workerVars, stopping, snapshot, target>>

LoadPcm ==
    /\ MainGoes("load_pcm", "drop_pcm")
    /\ target' = pcmForStop
    /\ UNCHANGED <<halted, deviceVars, workerVars, stopping, snapshot,
                   acceptorOpen>>

\* snd_pcm_drop makes the read in progress, or the next one, return.
DropPcm ==
    /\ MainGoes("drop_pcm", "snapshot")
    /\ interrupted' = IF target # 0 THEN target ELSE interrupted
    /\ UNCHANGED <<halted, pcm, opens, pcmForStop, readErrors, workerVars,
                   stopVars>>

TakeSnapshot ==
    /\ MainGoes("snapshot", "stop_clients")
    /\ snapshot' = listed
    /\ UNCHANGED <<halted, deviceVars, workerVars, stopping, target,
                   acceptorOpen>>

StopClient(c) ==
    /\ main = "stop_clients"
    /\ c \in snapshot \ halted
    /\ halted' = halted \cup {c}
    /\ UNCHANGED <<asked, main, accept, thread, listed, capture,
                   deviceVars, workerVars, stopVars>>

ClientsStopped ==
    /\ snapshot \subseteq halted
    /\ MainWaits("stop_clients", "join_accept")

JoinAcceptNot == MainWaits("join_accept", "join_capture")

JoinAccept ==
    /\ accept \in {"unborn", "done"}
    /\ MainWaits("join_accept", "join_capture")

JoinCapture ==
    /\ capture \in {"unborn", "done"}
    /\ MainWaits("join_capture", "close_queue")

CloseQueue ==
    /\ MainGoes("close_queue", "join_asr")
    /\ asrClosed' = TRUE
    /\ UNCHANGED <<halted, deviceVars, asr, storeOpen, stopVars>>

JoinAsr ==
    /\ asr # "running"
    /\ MainWaits("join_asr", "stop_store")

StopStore ==
    /\ MainGoes("stop_store", "join_clients")
    /\ storeOpen' = FALSE
    /\ UNCHANGED <<halted, deviceVars, asrClosed, asr, stopVars>>

\* join() of a client whose thread was never started returns at once.
JoinClients ==
    /\ \A c \in snapshot : thread[c] # "running"
    /\ MainWaits("join_clients", "done")

-----------------------------------------------------------------------------
AcceptStep ==
    \/ AcceptCheck \/ AcceptNothing
    \/ \E c \in Clients : Register(c) \/ TurnAway(c) \/ StartClient(c)

\* Every step of the capture thread but an ordinary read, which a silent
\* device may delay for ever, and the success of an attempt to reopen it.
CaptureStep ==
    \/ Arm \/ CaptureCheck
    \/ AfterFailure \/ Recover \/ RecoverFails
    \/ Disarm \/ Release \/ AfterBackoff \/ ReopenFails
    \/ Rearm \/ Leave \/ CaptureClosesQueue

MainStep ==
    \/ ReadOptions \/ OpenDevice
    \/ StartStore \/ Bind \/ StartAccept \/ StartCapture \/ StartAsr
    \/ RunEnds \/ StopBegins \/ CloseAcceptor \/ LoadPcm \/ DropPcm
    \/ TakeSnapshot \/ (\E c \in Clients : StopClient(c)) \/ ClientsStopped
    \/ JoinAccept \/ JoinCapture \/ CloseQueue \/ JoinAsr \/ StopStore
    \/ JoinClients

Next ==
    \/ AcceptStep
    \/ \E c \in Clients : AcceptSocket(c) \/ SessionStops(c) \/ SessionEnds(c)
    \/ CaptureStep \/ ReadFrame \/ ReadFails \/ Reopen
    \/ AsrEnds
    \/ \E reason \in {"signal", "run_ms"} : Ask(reason)
    \/ MainStep \/ EndsEarly
    \/ \E place \in StartPlaces : StartFails(place)

Spec == Init /\ [][Next]_vars

\* Threads that can run are run, and a read on an interrupted handle returns.
\* Nobody need signal, connect or deliver audio, the device may stay away, and
\* a stopped session need not end (ClientSession.tla shows how it can hang).
FairSpec ==
    /\ Spec
    /\ WF_vars(AcceptStep)
    /\ WF_vars(CaptureStep)
    /\ WF_vars(interrupted = pcm /\ ReadFails)
    /\ WF_vars(AsrEnds)
    /\ WF_vars(MainStep)

-----------------------------------------------------------------------------
(* Properties.                                                             *)

\* The variables keep their types (members of class ServerRuntime), and no
\* more than max_clients clients are served at any time, though they come, go
\* and are stopped while the accept thread counts them.
TypeOK ==
    /\ asked \in {"no", "signal", "run_ms"}
    /\ {stopping, acceptorOpen, readErrors, asrClosed, storeOpen}
          \subseteq BOOLEAN
    /\ main \in StartPlaces \cup
                {"options", "open", "gone", "run", "exchange",
                 "close_acceptor", "load_pcm", "drop_pcm",
                 "snapshot", "stop_clients", "join_accept", "join_capture",
                 "close_queue", "join_asr", "stop_store", "join_clients",
                 "done"}
    /\ accept \in {"unborn", "loop", "accepting", "registering", "starting",
                   "done"}
    /\ thread \in [Clients -> {"none", "arriving", "refused", "created",
                            "running", "ended"}]
    /\ listed \subseteq Clients /\ halted \subseteq listed
    /\ Cardinality(Active) <= MaxClients
    /\ snapshot \subseteq listed
    /\ capture \in {"unborn", "begin", "loop", "reading", "failed",
                    "recovering", "disarm", "release", "backoff", "opening",
                    "rearm", "leaving", "closing", "done"}
    /\ opens \in 0 .. MaxOpens
    /\ {pcm, pcmForStop, target, interrupted} \subseteq 0 .. opens
    /\ asr \in {"absent", "unborn", "running", "done"}

\* What stop() can load from pcm_for_stop_ is the handle that is open: it is
\* taken back before the handle is closed and given after it is opened. From
\* snd_pcm_drop on a read that is still in progress is one on the handle that
\* was dropped, which ends it: stop() found the handle of the very read, though
\* recoveries and reconnections replace it, and no read begins later.
StopFindsTheHandle ==
    /\ pcmForStop # 0 => pcmForStop = pcm
    /\ capture = "reading" /\ main \in {"snapshot", "stop_clients",
                                        "join_accept", "join_capture"} =>
          pcm # 0 /\ interrupted = pcm

\* The shutdown takes the parts away in the order in which they depend on
\* each other, whatever part of start() was reached: the recogniser's queue is
\* closed only when no more segments can come, the store stopped only when no
\* more records can come. After stop() the accept, capture and asr threads and
\* every client stop() knew of have ended, none joined before it was started;
\* at most one client, the one the accept thread had in hand, is left over.
ShutdownInOrder ==
    /\ asrClosed => capture \in {"unborn", "done"}
    /\ ~storeOpen => asr # "running"
    /\ main = "done" =>
          /\ accept \in {"unborn", "done"}
          /\ \A c \in snapshot : thread[c] = "ended"
          /\ Cardinality(listed \ snapshot) <= 1

\* A signal, the end of run_ms, or a start() that failed half-way.
MustStop == asked # "no" \/ main = "exchange"

\* Every session that is stopped ends, which ClientSession does not promise.
SessionsEnd ==
    \A c \in Clients : c \in halted /\ thread[c] = "running"
                           ~> thread[c] = "ended"

\* When the server must stop it has joined its own threads and stopped the
\* store in the end, even when the device is silent: the handle the capture
\* thread blocks on is the one that stop() drops. Only sessions that do not
\* end can keep it from stopping altogether.
StopCompletes ==
    /\ MustStop ~> main \in {"join_clients", "done", "gone"}
    /\ SessionsEnd => (MustStop ~> main \in {"done", "gone"})

\* docs/WebSocket protocol, lines 87-88: one I/O error of the device does not
\* end the server, which opens the device again. So run() is left only by
\* who was asked to stop. The code leaves it on a read error, too.
ReadErrorIsNoEnd ==
    [][main = "run" /\ main' # "run" => asked # "no"]_vars

\* docs/WebSocket protocol, line 117: when the server stops it closes all
\* clients. The code forgets one that is registered behind the copy of
\* clients_ (OneLateClient of the proofs).
AllClientsClosed == main = "done" => listed \subseteq halted

\* README, lines 545-550: neither memory nor threads may grow with the time
\* the server runs. A session that has ended is to be joined and released, so
\* there are never more ended ones than clients that may end at a time. The
\* code keeps each of them, unjoined, until stop().
EndedSessionsReleased ==
    Cardinality({c \in listed : thread[c] = "ended"}) <= MaxClients
=============================================================================
