------------------------ MODULE ServerRuntime_proofs ------------------------
(***************************************************************************)
(* Theorems about ServerRuntime for any set of connections, any limit of   *)
(* clients and any number of reconnections of the device: what stop() may  *)
(* rely on while clients and the device come and go.                       *)
(***************************************************************************)
EXTENDS ServerRuntime, FiniteSetTheorems, TLAPS

USE ClientsAssumption, MaxClientsAssumption, MaxOpensAssumption

\* Places of the main thread: behind the copy of clients_, and behind each join.
BehindSnapshot == {"stop_clients", "join_accept", "join_capture", "close_queue",
                   "join_asr", "stop_store", "join_clients", "done"}
AcceptJoined   == {"join_capture", "close_queue", "join_asr", "stop_store",
                   "join_clients", "done"}
CaptureJoined  == {"close_queue", "join_asr", "stop_store", "join_clients",
                   "done"}
QueueClosed    == {"join_asr", "stop_store", "join_clients", "done"}
AsrJoined      == {"stop_store", "join_clients", "done"}

\* Places of the main thread before it starts the accept thread, and the
\* capture thread.
BeforeAccept  == {"options", "open", "start_store", "bind", "start_accept"}
BeforeCapture == BeforeAccept \cup {"start_capture"}

\* A client is on the list from Register on, and the accept thread has at
\* most one in hand, whose thread is not started yet.
ClientsKnown ==
    /\ main \in BeforeAccept => accept = "unborn"
    /\ \A c \in Clients :
          /\ c \in listed <=> thread[c] \in {"created", "running", "ended"}
          /\ thread[c] = "arriving" => accept = "registering"
          /\ thread[c] = "created" => accept = "starting"
    /\ \A c, d \in Clients :
          {thread[c], thread[d]} \subseteq {"arriving", "created"} => c = d

\* Behind the copy of the list one more client may be registered: the acceptor
\* is closed, so no other arrives.
OneLateClient ==
    /\ main \in BehindSnapshot \cup {"load_pcm", "drop_pcm", "snapshot"} =>
          ~acceptorOpen
    /\ main \in BehindSnapshot =>
          /\ accept = "registering" => listed = snapshot
          /\ \A c, d \in listed \ snapshot : c = d

\* Half of StopFindsTheHandle, and where capture_loop and reopen_capture keep
\* pcm_for_stop_ empty.
HandleOwned ==
    /\ main \in BeforeCapture => capture = "unborn"
    /\ capture \in {"unborn", "begin", "release", "backoff", "opening",
                    "rearm", "closing", "done"} => pcmForStop = 0
    /\ pcmForStop # 0 => pcmForStop = pcm

\* ShutdownInOrder, with what each step of stop() has established.
JoinsHold ==
    /\ main \in AcceptJoined => accept \in {"unborn", "done"}
    /\ main \in CaptureJoined => capture \in {"unborn", "done"}
    /\ asrClosed => capture = "done" \/ main \in QueueClosed
    /\ main \in AsrJoined => asr # "running"
    /\ main \in {"bind", "start_accept", "start_capture", "start_asr"} =>
          storeOpen
    /\ asr = "running" => storeOpen
    /\ main = "done" => \A c \in snapshot : thread[c] = "ended"

\* Places of the main thread from snd_pcm_drop on, and behind the exchange.
BehindDrop == BehindSnapshot \cup {"snapshot"}
Stopping   == BehindDrop \cup {"close_acceptor", "load_pcm", "drop_pcm"}

\* The capture thread reads from the handle that stop() can load, and begins no
\* read behind the exchange: so stop() loads and drops the handle of the read.
ReadDropped ==
    /\ main \in Stopping => stopping
    /\ main \in StartPlaces \ {"start_asr"} => pcm # 0
    /\ capture \in {"begin", "rearm"} => pcm # 0
    /\ capture \in {"loop", "reading", "failed", "recovering"} =>
          pcm # 0 /\ pcmForStop = pcm
    /\ capture = "reading" /\ main = "drop_pcm" => target = pcm
    /\ capture = "reading" /\ main \in BehindDrop => interrupted = pcm

\* The inductive invariant.
IInv ==
    /\ TypeOK /\ ClientsKnown /\ OneLateClient /\ HandleOwned /\ JoinsHold
    /\ ReadDropped

-----------------------------------------------------------------------------
(* One step of the server.                                                 *)

\* The accept thread works on one client at a time.
LEMMA ClientsStep ==
    ASSUME TypeOK, ClientsKnown, [Next]_vars
    PROVE  ClientsKnown'
<1> USE DEF clientVars, deviceVars, workerVars, stopVars, TypeOK,
        ClientsKnown, BeforeAccept
<1>0. CASE UNCHANGED vars
  BY <1>0 DEF vars
<1>1. CASE AcceptCheck \/ AcceptNothing
  BY <1>1 DEF AcceptCheck, AcceptNothing, AcceptGoes
<1>2. ASSUME NEW c \in Clients, AcceptSocket(c) PROVE ClientsKnown'
  BY <1>2 DEF AcceptSocket, AcceptGoes
<1>3. ASSUME NEW c \in Clients, Register(c) PROVE ClientsKnown'
  BY <1>3 DEF Register, AcceptGoes
<1>4. ASSUME NEW c \in Clients, TurnAway(c) \/ StartClient(c)
      PROVE  ClientsKnown'
  BY <1>4 DEF TurnAway, StartClient, AcceptGoes
<1>5. ASSUME NEW c \in Clients, SessionStops(c) PROVE ClientsKnown'
  BY <1>5 DEF SessionStops
<1>6. ASSUME NEW c \in Clients, SessionEnds(c) PROVE ClientsKnown'
  BY <1>6 DEF SessionEnds
<1>7. CASE \/ CaptureCheck \/ ReadFrame \/ ReadFails \/ AfterFailure
           \/ AfterBackoff \/ ReopenFails
  BY <1>7 DEF CaptureCheck, ReadFrame, ReadFails, AfterFailure, AfterBackoff,
       ReopenFails, CaptureGoes
<1>8. CASE Recover \/ RecoverFails
  BY <1>8 DEF Recover, RecoverFails, CaptureGoes
<1>9. CASE Arm \/ Disarm \/ Rearm \/ Leave
  BY <1>9 DEF Arm, Disarm, Rearm, Leave, CaptureGoes
<1>10. CASE Release
  BY <1>10 DEF Release, CaptureGoes
<1>11. CASE Reopen
  BY <1>11 DEF Reopen, OpenCapture, CaptureGoes
<1>12. CASE CaptureClosesQueue
  BY <1>12 DEF CaptureClosesQueue, CaptureGoes
<1>13. CASE AsrEnds
  BY <1>13 DEF AsrEnds
<1>14. ASSUME NEW reason \in {"signal", "run_ms"}, Ask(reason)
      PROVE  ClientsKnown'
  BY <1>14 DEF Ask
<1>15. CASE ReadOptions \/ EndsEarly
  BY <1>15 DEF ReadOptions, EndsEarly, Begins
<1>16. CASE OpenDevice
  BY <1>16 DEF OpenDevice, OpenCapture, Begins
<1>17. CASE StartStore \/ Bind \/ StartAccept \/ StartCapture \/ StartAsr
  BY <1>17 DEF StartStore, Bind, StartAccept, StartCapture, StartAsr, Starts
<1>18. ASSUME NEW place \in StartPlaces, StartFails(place) PROVE ClientsKnown'
  BY <1>18 DEF StartFails, StartPlaces, Starts
<1>19. CASE RunEnds \/ StopBegins
  BY <1>19 DEF RunEnds, StopBegins, MainWaits, MainGoes
<1>20. CASE CloseAcceptor
  BY <1>20 DEF CloseAcceptor, MainGoes
<1>21. CASE LoadPcm \/ DropPcm
  BY <1>21 DEF LoadPcm, DropPcm, MainGoes
<1>22. CASE TakeSnapshot
  BY <1>22 DEF TakeSnapshot, MainGoes
<1>23. ASSUME NEW c \in Clients, StopClient(c) PROVE ClientsKnown'
  BY <1>23 DEF StopClient
<1>24. CASE ClientsStopped \/ JoinAccept \/ JoinCapture \/ JoinAsr
  BY <1>24 DEF ClientsStopped, JoinAccept, JoinCapture, JoinAsr, MainWaits,
       MainGoes
<1>25. CASE CloseQueue \/ StopStore
  BY <1>25 DEF CloseQueue, StopStore, MainGoes
<1>26. CASE JoinClients
  BY <1>26 DEF JoinClients, MainWaits, MainGoes
<1> QED
  BY <1>0, <1>1, <1>2, <1>3, <1>4, <1>5, <1>6, <1>7, <1>8, <1>9, <1>10, <1>11,
       <1>12, <1>13, <1>14, <1>15, <1>16, <1>17, <1>18, <1>19, <1>20, <1>21,
       <1>22, <1>23, <1>24, <1>25, <1>26 DEF Next, AcceptStep, CaptureStep,
       MainStep

\* Once the acceptor is closed, accept_loop can only finish with the client it
\* has in hand.
LEMMA LateStep ==
    ASSUME TypeOK, ClientsKnown, OneLateClient, [Next]_vars
    PROVE  OneLateClient'
<1> USE DEF clientVars, deviceVars, workerVars, stopVars, TypeOK,
        ClientsKnown, OneLateClient, BehindSnapshot
<1>0. CASE UNCHANGED vars
  BY <1>0 DEF vars
<1>1. CASE AcceptCheck \/ AcceptNothing
  BY <1>1 DEF AcceptCheck, AcceptNothing, AcceptGoes
<1>2. ASSUME NEW c \in Clients, AcceptSocket(c) PROVE OneLateClient'
  BY <1>2 DEF AcceptSocket, AcceptGoes
<1>3. ASSUME NEW c \in Clients, Register(c) PROVE OneLateClient'
  BY <1>3 DEF Register, AcceptGoes
<1>4. ASSUME NEW c \in Clients, TurnAway(c) \/ StartClient(c)
      PROVE  OneLateClient'
  BY <1>4 DEF TurnAway, StartClient, AcceptGoes
<1>5. ASSUME NEW c \in Clients, SessionStops(c) PROVE OneLateClient'
  BY <1>5 DEF SessionStops
<1>6. ASSUME NEW c \in Clients, SessionEnds(c) PROVE OneLateClient'
  BY <1>6 DEF SessionEnds
<1>7. CASE \/ CaptureCheck \/ ReadFrame \/ ReadFails \/ AfterFailure
           \/ AfterBackoff \/ ReopenFails
  BY <1>7 DEF CaptureCheck, ReadFrame, ReadFails, AfterFailure, AfterBackoff,
       ReopenFails, CaptureGoes
<1>8. CASE Recover \/ RecoverFails
  BY <1>8 DEF Recover, RecoverFails, CaptureGoes
<1>9. CASE Arm \/ Disarm \/ Rearm \/ Leave
  BY <1>9 DEF Arm, Disarm, Rearm, Leave, CaptureGoes
<1>10. CASE Release
  BY <1>10 DEF Release, CaptureGoes
<1>11. CASE Reopen
  BY <1>11 DEF Reopen, OpenCapture, CaptureGoes
<1>12. CASE CaptureClosesQueue
  BY <1>12 DEF CaptureClosesQueue, CaptureGoes
<1>13. CASE AsrEnds
  BY <1>13 DEF AsrEnds
<1>14. ASSUME NEW reason \in {"signal", "run_ms"}, Ask(reason)
      PROVE  OneLateClient'
  BY <1>14 DEF Ask
<1>15. CASE ReadOptions \/ EndsEarly
  BY <1>15 DEF ReadOptions, EndsEarly, Begins
<1>16. CASE OpenDevice
  BY <1>16 DEF OpenDevice, OpenCapture, Begins
<1>17. CASE StartStore \/ Bind \/ StartAccept \/ StartCapture \/ StartAsr
  BY <1>17 DEF StartStore, Bind, StartAccept, StartCapture, StartAsr, Starts
<1>18. ASSUME NEW place \in StartPlaces, StartFails(place) PROVE OneLateClient'
  BY <1>18 DEF StartFails, StartPlaces, Starts
<1>19. CASE RunEnds \/ StopBegins
  BY <1>19 DEF RunEnds, StopBegins, MainWaits, MainGoes
<1>20. CASE CloseAcceptor
  BY <1>20 DEF CloseAcceptor, MainGoes
<1>21. CASE LoadPcm \/ DropPcm
  BY <1>21 DEF LoadPcm, DropPcm, MainGoes
<1>22. CASE TakeSnapshot
  BY <1>22 DEF TakeSnapshot, MainGoes
<1>23. ASSUME NEW c \in Clients, StopClient(c) PROVE OneLateClient'
  BY <1>23 DEF StopClient
<1>24. CASE ClientsStopped \/ JoinAccept \/ JoinCapture \/ JoinAsr
  BY <1>24 DEF ClientsStopped, JoinAccept, JoinCapture, JoinAsr, MainWaits,
       MainGoes
<1>25. CASE CloseQueue \/ StopStore
  BY <1>25 DEF CloseQueue, StopStore, MainGoes
<1>26. CASE JoinClients
  BY <1>26 DEF JoinClients, MainWaits, MainGoes
<1> QED
  BY <1>0, <1>1, <1>2, <1>3, <1>4, <1>5, <1>6, <1>7, <1>8, <1>9, <1>10, <1>11,
       <1>12, <1>13, <1>14, <1>15, <1>16, <1>17, <1>18, <1>19, <1>20, <1>21,
       <1>22, <1>23, <1>24, <1>25, <1>26 DEF Next, AcceptStep, CaptureStep,
       MainStep

\* pcm_for_stop_ is given and taken back by the capture thread only, and the
\* handle changes only while it is empty.
LEMMA HandleStep ==
    ASSUME TypeOK, HandleOwned, [Next]_vars
    PROVE  HandleOwned'
<1> USE DEF clientVars, deviceVars, workerVars, stopVars, TypeOK, HandleOwned,
        BeforeAccept, BeforeCapture
<1>0. CASE UNCHANGED vars
  BY <1>0 DEF vars
<1>1. CASE AcceptCheck \/ AcceptNothing
  BY <1>1 DEF AcceptCheck, AcceptNothing, AcceptGoes
<1>2. ASSUME NEW c \in Clients, AcceptSocket(c) PROVE HandleOwned'
  BY <1>2 DEF AcceptSocket, AcceptGoes
<1>3. ASSUME NEW c \in Clients, Register(c) PROVE HandleOwned'
  BY <1>3 DEF Register, AcceptGoes
<1>4. ASSUME NEW c \in Clients, TurnAway(c) \/ StartClient(c)
      PROVE  HandleOwned'
  BY <1>4 DEF TurnAway, StartClient, AcceptGoes
<1>5. ASSUME NEW c \in Clients, SessionStops(c) PROVE HandleOwned'
  BY <1>5 DEF SessionStops
<1>6. ASSUME NEW c \in Clients, SessionEnds(c) PROVE HandleOwned'
  BY <1>6 DEF SessionEnds
<1>7. CASE \/ CaptureCheck \/ ReadFrame \/ ReadFails \/ AfterFailure
           \/ AfterBackoff \/ ReopenFails
  BY <1>7 DEF CaptureCheck, ReadFrame, ReadFails, AfterFailure, AfterBackoff,
       ReopenFails, CaptureGoes
<1>8. CASE Recover \/ RecoverFails
  BY <1>8 DEF Recover, RecoverFails, CaptureGoes
<1>9. CASE Arm \/ Disarm \/ Rearm \/ Leave
  BY <1>9 DEF Arm, Disarm, Rearm, Leave, CaptureGoes
<1>10. CASE Release
  BY <1>10 DEF Release, CaptureGoes
<1>11. CASE Reopen
  BY <1>11 DEF Reopen, OpenCapture, CaptureGoes
<1>12. CASE CaptureClosesQueue
  BY <1>12 DEF CaptureClosesQueue, CaptureGoes
<1>13. CASE AsrEnds
  BY <1>13 DEF AsrEnds
<1>14. ASSUME NEW reason \in {"signal", "run_ms"}, Ask(reason)
      PROVE  HandleOwned'
  BY <1>14 DEF Ask
<1>15. CASE ReadOptions \/ EndsEarly
  BY <1>15 DEF ReadOptions, EndsEarly, Begins
<1>16. CASE OpenDevice
  BY <1>16 DEF OpenDevice, OpenCapture, Begins
<1>17. CASE StartStore \/ Bind \/ StartAccept \/ StartCapture \/ StartAsr
  BY <1>17 DEF StartStore, Bind, StartAccept, StartCapture, StartAsr, Starts
<1>18. ASSUME NEW place \in StartPlaces, StartFails(place) PROVE HandleOwned'
  BY <1>18 DEF StartFails, StartPlaces, Starts
<1>19. CASE RunEnds \/ StopBegins
  BY <1>19 DEF RunEnds, StopBegins, MainWaits, MainGoes
<1>20. CASE CloseAcceptor
  BY <1>20 DEF CloseAcceptor, MainGoes
<1>21. CASE LoadPcm \/ DropPcm
  BY <1>21 DEF LoadPcm, DropPcm, MainGoes
<1>22. CASE TakeSnapshot
  BY <1>22 DEF TakeSnapshot, MainGoes
<1>23. ASSUME NEW c \in Clients, StopClient(c) PROVE HandleOwned'
  BY <1>23 DEF StopClient
<1>24. CASE ClientsStopped \/ JoinAccept \/ JoinCapture \/ JoinAsr
  BY <1>24 DEF ClientsStopped, JoinAccept, JoinCapture, JoinAsr, MainWaits,
       MainGoes
<1>25. CASE CloseQueue \/ StopStore
  BY <1>25 DEF CloseQueue, StopStore, MainGoes
<1>26. CASE JoinClients
  BY <1>26 DEF JoinClients, MainWaits, MainGoes
<1> QED
  BY <1>0, <1>1, <1>2, <1>3, <1>4, <1>5, <1>6, <1>7, <1>8, <1>9, <1>10, <1>11,
       <1>12, <1>13, <1>14, <1>15, <1>16, <1>17, <1>18, <1>19, <1>20, <1>21,
       <1>22, <1>23, <1>24, <1>25, <1>26 DEF Next, AcceptStep, CaptureStep,
       MainStep

\* A read begins only on the way from a look at stopping_, with the handle that
\* pcm_for_stop_ has got before.
LEMMA ReadStep ==
    ASSUME TypeOK, HandleOwned, ReadDropped, [Next]_vars
    PROVE  ReadDropped'
<1> USE DEF clientVars, deviceVars, workerVars, stopVars, TypeOK, HandleOwned,
        BeforeAccept, BeforeCapture, ReadDropped, BehindDrop, BehindSnapshot,
        Stopping, StartPlaces
<1>0. CASE UNCHANGED vars
  BY <1>0 DEF vars
<1>1. CASE AcceptCheck \/ AcceptNothing
  BY <1>1 DEF AcceptCheck, AcceptNothing, AcceptGoes
<1>2. ASSUME NEW c \in Clients, AcceptSocket(c) PROVE ReadDropped'
  BY <1>2 DEF AcceptSocket, AcceptGoes
<1>3. ASSUME NEW c \in Clients, Register(c) PROVE ReadDropped'
  BY <1>3 DEF Register, AcceptGoes
<1>4. ASSUME NEW c \in Clients, TurnAway(c) \/ StartClient(c)
      PROVE  ReadDropped'
  BY <1>4 DEF TurnAway, StartClient, AcceptGoes
<1>5. ASSUME NEW c \in Clients, SessionStops(c) PROVE ReadDropped'
  BY <1>5 DEF SessionStops
<1>6. ASSUME NEW c \in Clients, SessionEnds(c) PROVE ReadDropped'
  BY <1>6 DEF SessionEnds
<1>7. CASE \/ CaptureCheck \/ ReadFrame \/ ReadFails \/ AfterFailure
           \/ AfterBackoff \/ ReopenFails
  BY <1>7 DEF CaptureCheck, ReadFrame, ReadFails, AfterFailure, AfterBackoff,
       ReopenFails, CaptureGoes, StopSeen
<1>8. CASE Recover \/ RecoverFails
  BY <1>8 DEF Recover, RecoverFails, CaptureGoes
<1>9. CASE Arm \/ Disarm \/ Rearm \/ Leave
  BY <1>9 DEF Arm, Disarm, Rearm, Leave, CaptureGoes
<1>10. CASE Release
  BY <1>10 DEF Release, CaptureGoes
<1>11. CASE Reopen
  BY <1>11 DEF Reopen, OpenCapture, CaptureGoes
<1>12. CASE CaptureClosesQueue
  BY <1>12 DEF CaptureClosesQueue, CaptureGoes
<1>13. CASE AsrEnds
  BY <1>13 DEF AsrEnds
<1>14. ASSUME NEW reason \in {"signal", "run_ms"}, Ask(reason)
      PROVE  ReadDropped'
  BY <1>14 DEF Ask
<1>15. CASE ReadOptions \/ EndsEarly
  BY <1>15 DEF ReadOptions, EndsEarly, Begins
<1>16. CASE OpenDevice
  BY <1>16 DEF OpenDevice, OpenCapture, Begins
<1>17. CASE StartStore \/ Bind \/ StartAccept \/ StartCapture \/ StartAsr
  BY <1>17 DEF StartStore, Bind, StartAccept, StartCapture, StartAsr, Starts
<1>18. ASSUME NEW place \in StartPlaces, StartFails(place) PROVE ReadDropped'
  BY <1>18 DEF StartFails, StartPlaces, Starts
<1>19. CASE RunEnds \/ StopBegins
  BY <1>19 DEF RunEnds, StopBegins, MainWaits, MainGoes
<1>20. CASE CloseAcceptor
  BY <1>20 DEF CloseAcceptor, MainGoes
<1>21. CASE LoadPcm \/ DropPcm
  BY <1>21 DEF LoadPcm, DropPcm, MainGoes
<1>22. CASE TakeSnapshot
  BY <1>22 DEF TakeSnapshot, MainGoes
<1>23. ASSUME NEW c \in Clients, StopClient(c) PROVE ReadDropped'
  BY <1>23 DEF StopClient
<1>24. CASE ClientsStopped \/ JoinAccept \/ JoinCapture \/ JoinAsr
  BY <1>24 DEF ClientsStopped, JoinAccept, JoinCapture, JoinAsr, MainWaits,
       MainGoes
<1>25. CASE CloseQueue \/ StopStore
  BY <1>25 DEF CloseQueue, StopStore, MainGoes
<1>26. CASE JoinClients
  BY <1>26 DEF JoinClients, MainWaits, MainGoes
<1> QED
  BY <1>0, <1>1, <1>2, <1>3, <1>4, <1>5, <1>6, <1>7, <1>8, <1>9, <1>10, <1>11,
       <1>12, <1>13, <1>14, <1>15, <1>16, <1>17, <1>18, <1>19, <1>20, <1>21,
       <1>22, <1>23, <1>24, <1>25, <1>26 DEF Next, AcceptStep, CaptureStep,
       MainStep

\* A thread that has ended is never started again, and stop() passes a join
\* only when its thread is there.
LEMMA JoinsStep ==
    ASSUME TypeOK, ClientsKnown, HandleOwned, JoinsHold, [Next]_vars
    PROVE  JoinsHold'
<1> USE DEF clientVars, deviceVars, workerVars, stopVars, TypeOK,
        ClientsKnown, HandleOwned, BeforeAccept, BeforeCapture, JoinsHold,
        AcceptJoined, CaptureJoined, QueueClosed, AsrJoined
<1>0. CASE UNCHANGED vars
  BY <1>0 DEF vars
<1>1. CASE AcceptCheck \/ AcceptNothing
  BY <1>1 DEF AcceptCheck, AcceptNothing, AcceptGoes
<1>2. ASSUME NEW c \in Clients, AcceptSocket(c) PROVE JoinsHold'
  BY <1>2 DEF AcceptSocket, AcceptGoes
<1>3. ASSUME NEW c \in Clients, Register(c) PROVE JoinsHold'
  BY <1>3 DEF Register, AcceptGoes
<1>4. ASSUME NEW c \in Clients, TurnAway(c) \/ StartClient(c) PROVE JoinsHold'
  BY <1>4 DEF TurnAway, StartClient, AcceptGoes
<1>5. ASSUME NEW c \in Clients, SessionStops(c) PROVE JoinsHold'
  BY <1>5 DEF SessionStops
<1>6. ASSUME NEW c \in Clients, SessionEnds(c) PROVE JoinsHold'
  BY <1>6 DEF SessionEnds
<1>7. CASE \/ CaptureCheck \/ ReadFrame \/ ReadFails \/ AfterFailure
           \/ AfterBackoff \/ ReopenFails
  BY <1>7 DEF CaptureCheck, ReadFrame, ReadFails, AfterFailure, AfterBackoff,
       ReopenFails, CaptureGoes
<1>8. CASE Recover \/ RecoverFails
  BY <1>8 DEF Recover, RecoverFails, CaptureGoes
<1>9. CASE Arm \/ Disarm \/ Rearm \/ Leave
  BY <1>9 DEF Arm, Disarm, Rearm, Leave, CaptureGoes
<1>10. CASE Release
  BY <1>10 DEF Release, CaptureGoes
<1>11. CASE Reopen
  BY <1>11 DEF Reopen, OpenCapture, CaptureGoes
<1>12. CASE CaptureClosesQueue
  BY <1>12 DEF CaptureClosesQueue, CaptureGoes
<1>13. CASE AsrEnds
  BY <1>13 DEF AsrEnds
<1>14. ASSUME NEW reason \in {"signal", "run_ms"}, Ask(reason) PROVE JoinsHold'
  BY <1>14 DEF Ask
<1>15. CASE ReadOptions \/ EndsEarly
  BY <1>15 DEF ReadOptions, EndsEarly, Begins
<1>16. CASE OpenDevice
  BY <1>16 DEF OpenDevice, OpenCapture, Begins
<1>17. CASE StartStore \/ Bind \/ StartAccept \/ StartCapture \/ StartAsr
  BY <1>17 DEF StartStore, Bind, StartAccept, StartCapture, StartAsr, Starts
<1>18. ASSUME NEW place \in StartPlaces, StartFails(place) PROVE JoinsHold'
  BY <1>18 DEF StartFails, StartPlaces, Starts
<1>19. CASE RunEnds \/ StopBegins
  BY <1>19 DEF RunEnds, StopBegins, MainWaits, MainGoes
<1>20. CASE CloseAcceptor
  BY <1>20 DEF CloseAcceptor, MainGoes
<1>21. CASE LoadPcm \/ DropPcm
  BY <1>21 DEF LoadPcm, DropPcm, MainGoes
<1>22. CASE TakeSnapshot
  BY <1>22 DEF TakeSnapshot, MainGoes
<1>23. ASSUME NEW c \in Clients, StopClient(c) PROVE JoinsHold'
  BY <1>23 DEF StopClient
<1>24. CASE ClientsStopped \/ JoinAccept \/ JoinCapture \/ JoinAsr
  BY <1>24 DEF ClientsStopped, JoinAccept, JoinCapture, JoinAsr, MainWaits,
       MainGoes
<1>25. CASE CloseQueue \/ StopStore
  BY <1>25 DEF CloseQueue, StopStore, MainGoes
<1>26. CASE JoinClients
  BY <1>26 DEF JoinClients, MainWaits, MainGoes
<1> QED
  BY <1>0, <1>1, <1>2, <1>3, <1>4, <1>5, <1>6, <1>7, <1>8, <1>9, <1>10, <1>11,
       <1>12, <1>13, <1>14, <1>15, <1>16, <1>17, <1>18, <1>19, <1>20, <1>21,
       <1>22, <1>23, <1>24, <1>25, <1>26 DEF Next, AcceptStep, CaptureStep,
       MainStep

\* Active clients are counted and added under one lock, and nobody but the
\* accept thread adds one.
LEMMA LimitStep ==
    ASSUME TypeOK, [Next]_vars
    PROVE  Cardinality(Active') <= MaxClients
<1>1. /\ IsFiniteSet(Active) /\ Cardinality(Active) \in Nat
      /\ Cardinality(Active) <= MaxClients
  <2>1. Active \in SUBSET Clients
    BY DEF TypeOK, Active
  <2> QED
    BY <2>1, FS_Subset, FS_CardinalityType DEF TypeOK
<1>2. ASSUME NEW c \in Clients, Register(c)
      PROVE  Cardinality(Active') <= MaxClients
  <2>1. Active' = Active \cup {c} \/ Active' = Active
    BY <1>2 DEF Register, AcceptGoes, Active
  <2>2. Cardinality(Active) < MaxClients
    BY <1>2 DEF Register, HasRoom
  <2>3. Cardinality(Active \cup {c}) =
           IF c \in Active THEN Cardinality(Active) ELSE Cardinality(Active) + 1
    BY <1>1, FS_AddElement, Zenon
  <2>4. Cardinality(Active \cup {c}) <= MaxClients
    BY <1>1, <2>2, <2>3
  <2>5. CASE Active' = Active
    BY <1>1, <2>5
  <2>6. CASE Active' = Active \cup {c}
    BY <2>4, <2>6
  <2> QED
    BY <2>1, <2>5, <2>6
<1>3. CASE listed' = listed /\ halted \subseteq halted'
  <2>1. Active' \in SUBSET Active
    BY <1>3 DEF Active
  <2>2. /\ Cardinality(Active') \in Nat
        /\ Cardinality(Active') <= Cardinality(Active)
    BY <1>1, <2>1, FS_Subset, FS_CardinalityType
  <2> QED
    BY <1>1, <2>2
<1>4. \/ \E c \in Clients : Register(c)
      \/ listed' = listed /\ halted \subseteq halted'
  BY DEF clientVars, deviceVars, workerVars, stopVars, vars, AcceptCheck,
       AcceptNothing, AcceptGoes, AcceptSocket, TurnAway, StartClient,
       SessionStops, SessionEnds, CaptureCheck, ReadFrame, ReadFails,
       AfterFailure, AfterBackoff, ReopenFails, CaptureGoes, Recover,
       RecoverFails, Arm, Disarm, Rearm, Leave, Release, Reopen, OpenCapture,
       CaptureClosesQueue, AsrEnds, Ask, ReadOptions, EndsEarly, Begins,
       OpenDevice, StartStore, Bind, StartAccept, StartCapture, StartAsr,
       Starts, StartFails, StartPlaces, RunEnds, StopBegins, MainWaits,
       MainGoes, CloseAcceptor, LoadPcm, DropPcm, TakeSnapshot, StopClient,
       ClientsStopped, JoinAccept, JoinCapture, JoinAsr, CloseQueue,
       StopStore, JoinClients, Next, AcceptStep, CaptureStep, MainStep
<1> QED
  BY <1>2, <1>3, <1>4

\* The other members keep their types; a handle has its number from OpenCapture.
LEMMA TypeStep ==
    ASSUME TypeOK, ClientsKnown, [Next]_vars
    PROVE  TypeOK'
<1>a. Cardinality(Active') <= MaxClients
  BY LimitStep
<1> USE <1>a DEF clientVars, deviceVars, workerVars, stopVars, TypeOK,
        ClientsKnown, StartPlaces
<1>0. CASE UNCHANGED vars
  BY <1>0 DEF vars
<1>1. CASE AcceptCheck \/ AcceptNothing
  BY <1>1 DEF AcceptCheck, AcceptNothing, AcceptGoes
<1>2. ASSUME NEW c \in Clients, AcceptSocket(c) PROVE TypeOK'
  BY <1>2 DEF AcceptSocket, AcceptGoes
<1>3. ASSUME NEW c \in Clients, Register(c) PROVE TypeOK'
  BY <1>3 DEF Register, AcceptGoes
<1>4. ASSUME NEW c \in Clients, TurnAway(c) \/ StartClient(c) PROVE TypeOK'
  BY <1>4 DEF TurnAway, StartClient, AcceptGoes
<1>5. ASSUME NEW c \in Clients, SessionStops(c) PROVE TypeOK'
  BY <1>5 DEF SessionStops
<1>6. ASSUME NEW c \in Clients, SessionEnds(c) PROVE TypeOK'
  BY <1>6 DEF SessionEnds
<1>7. CASE \/ CaptureCheck \/ ReadFrame \/ ReadFails \/ AfterFailure
           \/ AfterBackoff \/ ReopenFails
  BY <1>7 DEF CaptureCheck, ReadFrame, ReadFails, AfterFailure, AfterBackoff,
       ReopenFails, CaptureGoes
<1>8. CASE Recover \/ RecoverFails
  <2>1. CASE Recover
    BY <2>1 DEF Recover, CaptureGoes
  <2>2. CASE RecoverFails
    BY <2>2 DEF RecoverFails, CaptureGoes
  <2> QED
    BY <1>8, <2>1, <2>2
<1>9. CASE Arm \/ Disarm \/ Rearm \/ Leave
  BY <1>9 DEF Arm, Disarm, Rearm, Leave, CaptureGoes
<1>10. CASE Release
  BY <1>10 DEF Release, CaptureGoes
<1>11. CASE Reopen
  BY <1>11 DEF Reopen, OpenCapture, CaptureGoes
<1>12. CASE CaptureClosesQueue
  BY <1>12 DEF CaptureClosesQueue, CaptureGoes
<1>13. CASE AsrEnds
  BY <1>13 DEF AsrEnds
<1>14. ASSUME NEW reason \in {"signal", "run_ms"}, Ask(reason) PROVE TypeOK'
  BY <1>14 DEF Ask
<1>15. CASE ReadOptions \/ EndsEarly
  BY <1>15 DEF ReadOptions, EndsEarly, Begins
<1>16. CASE OpenDevice
  BY <1>16 DEF OpenDevice, OpenCapture, Begins
<1>17. CASE StartStore \/ Bind \/ StartAccept \/ StartCapture \/ StartAsr
  <2>1. CASE StartStore
    BY <2>1 DEF StartStore, Starts
  <2>2. CASE Bind
    BY <2>2 DEF Bind, Starts
  <2>3. CASE StartAccept
    BY <2>3 DEF StartAccept, Starts
  <2>4. CASE StartCapture
    BY <2>4 DEF StartCapture, Starts
  <2>5. CASE StartAsr
    BY <2>5 DEF StartAsr, Starts
  <2> QED
    BY <1>17, <2>1, <2>2, <2>3, <2>4, <2>5
<1>18. ASSUME NEW place \in StartPlaces, StartFails(place) PROVE TypeOK'
  BY <1>18 DEF StartFails, StartPlaces, Starts
<1>19. CASE RunEnds \/ StopBegins
  <2>1. CASE RunEnds
    BY <2>1 DEF RunEnds, MainWaits, MainGoes
  <2>2. CASE StopBegins
    BY <2>2 DEF StopBegins, MainGoes
  <2> QED
    BY <1>19, <2>1, <2>2
<1>20. CASE CloseAcceptor
  <2>1. main' = "load_pcm" /\ acceptorOpen' = FALSE
    BY <1>20 DEF CloseAcceptor, MainGoes
  <2>2. UNCHANGED <<asked, accept, thread, listed, capture, halted, deviceVars,
                    workerVars, stopping, snapshot, target>>
    BY <1>20 DEF CloseAcceptor, MainGoes
  <2> QED
    BY <2>1, <2>2, ZenonT(30)
<1>21. CASE LoadPcm \/ DropPcm
  BY <1>21 DEF LoadPcm, DropPcm, MainGoes
<1>22. CASE TakeSnapshot
  BY <1>22 DEF TakeSnapshot, MainGoes
<1>23. ASSUME NEW c \in Clients, StopClient(c) PROVE TypeOK'
  BY <1>23 DEF StopClient
<1>24. CASE ClientsStopped \/ JoinAccept \/ JoinCapture \/ JoinAsr
  BY <1>24 DEF ClientsStopped, JoinAccept, JoinCapture, JoinAsr, MainWaits,
       MainGoes
<1>25. CASE CloseQueue \/ StopStore
  <2>1. CASE CloseQueue
    BY <2>1 DEF CloseQueue, MainGoes
  <2>2. CASE StopStore
    BY <2>2, ZenonT(30) DEF StopStore, MainGoes
  <2> QED
    BY <1>25, <2>1, <2>2
<1>26. CASE JoinClients
  BY <1>26 DEF JoinClients, MainWaits, MainGoes
<1> QED
  BY <1>0, <1>1, <1>2, <1>3, <1>4, <1>5, <1>6, <1>7, <1>8, <1>9, <1>10, <1>11,
       <1>12, <1>13, <1>14, <1>15, <1>16, <1>17, <1>18, <1>19, <1>20, <1>21,
       <1>22, <1>23, <1>24, <1>25, <1>26 DEF Next, AcceptStep, CaptureStep,
       MainStep

\* Before main() has read its options there is nothing to be wrong.
LEMMA InitInv == Init => IInv
<1> SUFFICES ASSUME Init PROVE IInv
  OBVIOUS
<1> USE DEF Init
<1>1. TypeOK
  <2>1. {stopping, acceptorOpen, readErrors, asrClosed, storeOpen}
           \subseteq BOOLEAN
    OBVIOUS
  <2>2. Cardinality(Active) <= MaxClients
    <3>1. Active = {}
      BY DEF Active
    <3> QED
      BY <3>1, FS_EmptySet
  <2>3. opens \in 0 .. MaxOpens
        /\ {pcm, pcmForStop, target, interrupted} \subseteq 0 .. opens
    OBVIOUS
  <2> QED
    BY <2>1, <2>2, <2>3 DEF TypeOK
<1>2. ClientsKnown /\ OneLateClient /\ HandleOwned
  BY DEF ClientsKnown, OneLateClient, BehindSnapshot, HandleOwned
<1>3. JoinsHold
  BY DEF JoinsHold, AcceptJoined, CaptureJoined, QueueClosed, AsrJoined
<1>4. ReadDropped
  BY DEF ReadDropped, BehindDrop, BehindSnapshot, Stopping, StartPlaces
<1> QED
  BY <1>1, <1>2, <1>3, <1>4 DEF IInv

\* The parts carry each other through a step.
LEMMA StepInv == IInv /\ [Next]_vars => IInv'
  BY TypeStep, ClientsStep, LateStep, HandleStep, ReadStep, JoinsStep DEF IInv

-----------------------------------------------------------------------------
(* The theorems.                                                           *)

\* Every run of the server keeps the inductive invariant.
THEOREM Invariance == Spec => []IInv
  BY InitInv, StepInv, PTL DEF Spec

\* The members of ServerRuntime keep their types, and max_clients holds
\* whatever clients come, go and are stopped while accept_loop counts.
THEOREM TypeCorrect == Spec => []TypeOK
<1>1. IInv => TypeOK
  BY DEF IInv
<1> QED
  BY <1>1, Invariance, PTL

\* What stop() loads from pcm_for_stop_ is the open handle, however often
\* reopen_capture closes and opens the device, and the read in progress is on it.
THEOREM StopLoadsOpenHandle == Spec => []StopFindsTheHandle
<1>1. IInv => StopFindsTheHandle
  BY DEF IInv, HandleOwned, ReadDropped, StopFindsTheHandle, BehindDrop,
         BehindSnapshot
<1> QED
  BY <1>1, Invariance, PTL

\* stop() takes the threads away in the order of the data flow, also when
\* start() failed half-way, and leaves at most the client that accept_loop
\* had in hand.
THEOREM ThreadsEndInOrder == Spec => []ShutdownInOrder
<1>1. IInv => ShutdownInOrder
  <2> SUFFICES ASSUME IInv PROVE ShutdownInOrder
    OBVIOUS
  <2>1. /\ asrClosed => capture \in {"unborn", "done"}
        /\ ~storeOpen => asr # "running"
        /\ main = "done" => /\ accept \in {"unborn", "done"}
                            /\ \A c \in snapshot : thread[c] = "ended"
    BY DEF IInv, JoinsHold, AcceptJoined, CaptureJoined, QueueClosed
  <2>2. ASSUME main = "done" PROVE Cardinality(listed \ snapshot) <= 1
    <3>1. \A c, d \in listed \ snapshot : c = d
      BY <2>2 DEF IInv, OneLateClient, BehindSnapshot
    <3>2. listed \ snapshot = {} \/ \E c : listed \ snapshot = {c}
      BY <3>1
    <3>3. Cardinality(listed \ snapshot) \in {0, 1}
      BY <3>2, FS_EmptySet, FS_Singleton, Zenon
    <3> QED
      BY <3>3
  <2> QED
    BY <2>1, <2>2 DEF ShutdownInOrder
<1> QED
  BY <1>1, Invariance, PTL
=============================================================================
