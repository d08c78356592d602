--------------------------- MODULE ClientSession ---------------------------
(***************************************************************************)
(* class ClientSession of src/board/ws_server.cpp: one WebSocket client of *)
(* the server, from its first byte to the join of its two threads.         *)
(*                                                                         *)
(* The session thread (run) opens the WebSocket, starts the writer and     *)
(* reads until the connection ends; the writer (writer_loop) sends what    *)
(* the threads of the server put into the queue with enqueue(); and any of *)
(* the server, the session thread and the writer may call stop(), whose    *)
(* three parts (the exchange of stopped_, notify_all, closing the socket)  *)
(* are steps of their own. queue_mutex_ protects the queue but not         *)
(* stopped_: the writer holds it between the evaluation of its predicate   *)
(* and going to sleep (place "blocking"), and stop() does not take it.     *)
(*                                                                         *)
(* An operator followed by the definition it misstates (WakeNobody,        *)
(* JoinNothing, ...) is a mutation that a property is tried against.       *)
(***************************************************************************)
EXTENDS Naturals, Sequences

CONSTANTS Broadcasters,   \* server threads that call enqueue()
          QueueCapacity,  \* queue_capacity_
          MaxMessages     \* bound of the model: messages enqueued

ASSUME CapacityAssumption == QueueCapacity \in Nat \ {0}
ASSUME MaxMessagesAssumption == MaxMessages \in Nat

VARIABLES
    queue,         \* queue_; a message is the number of its enqueue()
    dropped,       \* dropped_messages_
    stopped,       \* stopped_
    socketOpen,    \* FALSE once stop() has shut the socket down
    peerUp,        \* FALSE once the client has gone or the network failed
    at,            \* where "server", "session" and "writer" are
    notifying,     \* broadcasters between the push and notify_one
    enqueued,      \* messages accepted by enqueue() so far
    raced          \* notify_all hit the writer in "blocking"

vars == <<queue, dropped, stopped, socketOpen, peerUp, at, notifying,
          enqueued, raced>>
connection == <<socketOpen, peerUp>>
contents   == <<queue, dropped, enqueued>>

Places == [server  : {"running", "stop", "notify", "close", "joining", "done"},
           session : {"opening", "reading", "stop", "notify", "close",
                      "joining", "done"},
           writer  : {"none", "locking", "blocking", "waiting", "writing",
                      "stop", "notify", "close", "done"}]

Init ==
    /\ queue = <<>> /\ dropped = 0 /\ enqueued = 0
    /\ stopped = FALSE
    /\ socketOpen = TRUE /\ peerUp = TRUE
    /\ at = [server |-> "running", session |-> "opening", writer |-> "none"]
    /\ notifying = {}
    /\ raced = FALSE

Go(thread, place) == [at EXCEPT ![thread] = place]

\* Reads and writes of the socket fail.
Broken == ~socketOpen \/ ~peerUp

NoMutex == TRUE

\* queue_mutex_ is held across steps only by the writer about to sleep.
MutexFree == at.writer # "blocking"

-----------------------------------------------------------------------------
(* enqueue(), called by the broadcasting threads of the server.            *)

EnqueueUnbounded(b) ==
    /\ b \notin notifying
    /\ MutexFree
    /\ ~stopped
    /\ enqueued < MaxMessages
    /\ enqueued' = enqueued + 1
    /\ queue' = Append(queue, enqueued')
    /\ notifying' = notifying \cup {b}
    /\ UNCHANGED <<dropped, stopped, connection, at, raced>>

\* On a stopped session enqueue() returns and nothing changes.
Enqueue(b) ==
    /\ b \notin notifying
    /\ MutexFree
    /\ ~stopped
    /\ enqueued < MaxMessages
    /\ enqueued' = enqueued + 1
    /\ \/ /\ Len(queue) < QueueCapacity
          /\ queue' = Append(queue, enqueued')
          /\ UNCHANGED dropped
       \/ /\ Len(queue) >= QueueCapacity
          /\ queue' = Append(Tail(queue), enqueued')
          /\ dropped' = dropped + 1
    /\ notifying' = notifying \cup {b}
    /\ UNCHANGED <<stopped, connection, at, raced>>

WakeNobody(places) == places

\* A notification reaches the writer only while it sleeps.
Wake(places) ==
    IF places.writer = "waiting"
    THEN [places EXCEPT !.writer = "locking"]
    ELSE places

NotifyOne(b) ==
    /\ b \in notifying
    /\ notifying' = notifying \ {b}
    /\ at' = Wake(at)
    /\ UNCHANGED <<contents, stopped, connection, raced>>

-----------------------------------------------------------------------------
(* stop(), by thread a: "stop" before the exchange, then "notify" and      *)
(* "close". The writer returns after it, the two others go on to a join.   *)

AfterStop(a) == IF a = "writer" THEN "done" ELSE "joining"

Exchange(a) ==
    /\ at[a] = "stop"
    /\ stopped' = TRUE
    /\ at' = Go(a, IF stopped THEN AfterStop(a) ELSE "notify")
    /\ UNCHANGED <<contents, connection, notifying, raced>>

NotifyAll(a) ==
    /\ at[a] = "notify"
    /\ at' = Wake(Go(a, "close"))
    /\ raced' = (raced \/ at.writer = "blocking")
    /\ UNCHANGED <<contents, stopped, connection, notifying>>

\* cancel, shutdown and close of the TCP socket.
CloseSocket(a) ==
    /\ at[a] = "close"
    /\ socketOpen' = FALSE
    /\ at' = Go(a, AfterStop(a))
    /\ UNCHANGED <<contents, stopped, peerUp, notifying, raced>>

Stopping(a) == Exchange(a) \/ NotifyAll(a) \/ CloseSocket(a)

Moves(thread, from, to) ==
    /\ at[thread] = from
    /\ at' = Go(thread, to)
    /\ UNCHANGED <<contents, stopped, connection, notifying, raced>>

-----------------------------------------------------------------------------
(* The session thread.                                                     *)

\* Request read, path right, handshake done: the writer is started.
Open ==
    /\ ~Broken
    /\ at.session = "opening"
    /\ at' = [at EXCEPT !.session = "reading", !.writer = "locking"]
    /\ UNCHANGED <<contents, stopped, connection, notifying, raced>>

\* A request that is malformed, asks for another path (404) or is no
\* handshake; a connection that breaks before the handshake is done.
OpenRefused == Moves("session", "opening", "stop")

OpenFails == Broken /\ Moves("session", "opening", "stop")

\* A message was read and the loop condition sees stopped_.
LoopEnds == ~Broken /\ stopped /\ Moves("session", "reading", "stop")

ReadFailsUnstopped == Broken /\ Moves("session", "reading", "joining")

ReadFails == Broken /\ Moves("session", "reading", "stop")

JoinNothing == Moves("session", "joining", "done")

JoinWriter ==
    /\ at.writer \in {"none", "done"}
    /\ Moves("session", "joining", "done")

-----------------------------------------------------------------------------
(* The writer thread.                                                      *)

\* The predicate is false; queue_mutex_ stays held until Sleep.
CheckPredicate ==
    /\ ~stopped /\ queue = <<>>
    /\ Moves("writer", "locking", "blocking")

\* The condition variable releases the mutex and blocks in one step.
Sleep == Moves("writer", "blocking", "waiting")

SpuriousWakeup == Moves("writer", "waiting", "locking")

WriterReturns ==
    /\ stopped /\ queue = <<>>
    /\ Moves("writer", "locking", "done")

Take ==
    /\ at.writer = "locking"
    /\ queue # <<>>
    /\ queue' = Tail(queue)
    /\ at' = Go("writer", "writing")
    /\ UNCHANGED <<dropped, enqueued, stopped, connection, notifying, raced>>

\* A write lasts as long as the client takes to read.
WriteDone == ~Broken /\ Moves("writer", "writing", "locking")

WriteFailsUnstopped == Broken /\ Moves("writer", "writing", "done")

WriteFails == Broken /\ Moves("writer", "writing", "stop")

-----------------------------------------------------------------------------
(* ServerRuntime::stop and the client at the other end.                    *)

ServerStops == Moves("server", "running", "stop")

JoinSession ==
    /\ at.session = "done"
    /\ Moves("server", "joining", "done")

PeerLeaves ==
    /\ peerUp
    /\ peerUp' = FALSE
    /\ UNCHANGED <<contents, stopped, socketOpen, at, notifying, raced>>

-----------------------------------------------------------------------------
SessionStep == OpenFails \/ ReadFails \/ JoinWriter \/ Stopping("session")

WriterStep == CheckPredicate \/ Sleep \/ WriterReturns \/ Take \/ WriteFails
              \/ Stopping("writer")

ServerStep == JoinSession \/ Stopping("server")

Next ==
    \/ SessionStep
    \/ WriterStep
    \/ ServerStep
    \/ Open
    \/ OpenRefused
    \/ LoopEnds
    \/ WriteDone
    \/ SpuriousWakeup
    \/ ServerStops
    \/ PeerLeaves
    \/ \E b \in Broadcasters : Enqueue(b) \/ NotifyOne(b)

Spec == Init /\ [][Next]_vars

\* Threads that can run are run. Nothing is assumed of the client (it may
\* never send a request or a message and never read), of the server (it need
\* not stop nor enqueue) and of spurious wakeups.
FairSpec ==
    /\ Spec
    /\ WF_vars(SessionStep)
    /\ WF_vars(WriterStep)
    /\ WF_vars(ServerStep)
    /\ \A b \in Broadcasters : WF_vars(NotifyOne(b))

-----------------------------------------------------------------------------
(* Properties.                                                             *)

\* The variables keep their types (members of class ClientSession), and
\* queue_ never exceeds queue_capacity_, however slow the client is.
TypeOK ==
    /\ queue \in Seq(1 .. MaxMessages)
    /\ Len(queue) <= QueueCapacity
    /\ dropped \in Nat
    /\ enqueued \in 0 .. MaxMessages
    /\ {stopped, socketOpen, peerUp, raced} \subseteq BOOLEAN
    /\ at \in Places
    /\ notifying \subseteq Broadcasters

\* The writer never sleeps on a message unless its notification is still to
\* come: enqueue() pushes under queue_mutex_, so the push cannot fall between
\* the writer's predicate and its sleep.
NoMissedMessage ==
    at.writer = "waiting" /\ queue # <<>> =>
        \/ notifying # {}
        \/ "notify" \in {at.server, at.session}

\* ServerRuntime::stop joins the session in the end, except when notify_all
\* fell between the writer's predicate and its sleep: this is the only way in
\* which the shutdown of a client can hang.
JoinEndsUnlessRaced == at.server = "joining" ~> at.server = "done" \/ raced

\* A client that has gone is noticed and both its threads end, with the same
\* exception.
GoneClientIsCleanedUp == ~peerUp ~> at.session = "done" \/ raced

\* README, coding rules: every thread must be able to exit normally and
\* Ctrl+C must release devices and threads; so a join of the server returns.
JoinEnds == at.server = "joining" ~> at.server = "done"

\* The client's queue keeps the promises of LossyFifo; the writer is its
\* consumer. (It may stay in one write for ever, so only safety is claimed.)
Fifo == INSTANCE LossyFifo WITH
            Capacity <- QueueCapacity,
            Item <- 1 .. MaxMessages,
            content <- queue,
            evicted <- dropped,
            open <- ~stopped,
            attended <- at.writer # "done"

FifoSpec == Fifo!Spec
=============================================================================
