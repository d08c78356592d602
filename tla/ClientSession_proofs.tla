------------------------ MODULE ClientSession_proofs ------------------------
(***************************************************************************)
(* Theorems about ClientSession for any number of broadcasting threads and *)
(* every capacity of the queue: the writer never sleeps on a message, it   *)
(* misses a stop only in the window before its sleep, and the queue of the *)
(* client implements the safety part of LossyFifo.                         *)
(***************************************************************************)
EXTENDS ClientSession, SequenceTheorems, TLAPS

USE CapacityAssumption, MaxMessagesAssumption

\* The threads that call stop().
Stoppers == {"server", "session", "writer"}

\* The writer goes to sleep with queue_mutex_ held since it saw the queue
\* empty.
SleepsOnEmpty == at.writer = "blocking" => queue = <<>>

\* The writer begins once, after the handshake, and only stop() sends it
\* away: it calls it itself, or it sees stopped_.
WriterKnown ==
    /\ at.session = "opening" => at.writer = "none"
    /\ at.writer \in {"notify", "close", "done"} => stopped

\* A writer that sleeps on a stopped session is woken by the thread that
\* stopped it, unless the notification came too early.
WokenUnlessRaced ==
    stopped /\ at.writer \in {"blocking", "waiting"} =>
        raced \/ "notify" \in {at.server, at.session}

\* The inductive invariant.
IInv == TypeOK /\ SleepsOnEmpty /\ WriterKnown /\ NoMissedMessage
        /\ WokenUnlessRaced

-----------------------------------------------------------------------------
(* The queue.                                                              *)

\* The writer takes the oldest message.
LEMMA TailFacts ==
    ASSUME NEW S, NEW s \in Seq(S), s # <<>>
    PROVE  /\ Tail(s) \in Seq(S)
           /\ Len(s) \in Nat \ {0}
           /\ Len(Tail(s)) = Len(s) - 1
  BY EmptySeq, HeadTailProperties

\* enqueue() accepts a message, and one goes for it if the queue is full: the
\* capacity is not 0, so a full queue has one to give up.
LEMMA EnqueueFacts ==
    ASSUME TypeOK, NEW b \in Broadcasters, Enqueue(b)
    PROVE  /\ queue' \in Seq(1 .. MaxMessages) /\ Len(queue') <= QueueCapacity
           /\ enqueued' \in 1 .. MaxMessages
           /\ \/ /\ Len(queue) < QueueCapacity
                 /\ queue' = Append(queue, enqueued') /\ dropped' = dropped
              \/ /\ Len(queue) = QueueCapacity
                 /\ queue' = Append(Tail(queue), enqueued')
                 /\ dropped' = dropped + 1
<1>1. /\ queue \in Seq(1 .. MaxMessages) /\ Len(queue) \in Nat
      /\ Len(queue) <= QueueCapacity
  BY LenProperties DEF TypeOK
<1>2. enqueued' \in 1 .. MaxMessages
  BY DEF Enqueue, TypeOK
<1>3. CASE /\ Len(queue) < QueueCapacity
           /\ queue' = Append(queue, enqueued') /\ dropped' = dropped
  <2>1. /\ Append(queue, enqueued') \in Seq(1 .. MaxMessages)
        /\ Len(Append(queue, enqueued')) = Len(queue) + 1
    BY <1>1, <1>2, AppendProperties
  <2> QED
    BY <1>1, <1>2, <1>3, <2>1
<1>4. CASE /\ Len(queue) >= QueueCapacity
           /\ queue' = Append(Tail(queue), enqueued')
           /\ dropped' = dropped + 1
  <2>1. Len(queue) = QueueCapacity
    BY <1>1, <1>4
  <2>2. queue # <<>>
    BY <2>1, EmptySeq
  <2>3. /\ Tail(queue) \in Seq(1 .. MaxMessages)
        /\ Len(Tail(queue)) = Len(queue) - 1
    BY <1>1, <2>2, TailFacts
  <2>4. /\ Append(Tail(queue), enqueued') \in Seq(1 .. MaxMessages)
        /\ Len(Append(Tail(queue), enqueued')) = Len(Tail(queue)) + 1
    BY <1>2, <2>3, AppendProperties
  <2> QED
    BY <1>1, <1>2, <1>4, <2>1, <2>3, <2>4
<1> QED
  BY <1>3, <1>4 DEF Enqueue

-----------------------------------------------------------------------------
(* One step of the session.                                                *)

\* Members keep their types, and enqueue() keeps the capacity.
LEMMA TypeStep ==
    ASSUME TypeOK, [Next]_vars
    PROVE  TypeOK'
<1> USE DEF contents, connection, TypeOK, Places, Stoppers
<1>0. CASE UNCHANGED vars
  BY <1>0 DEF vars
<1>1. CASE \/ OpenFails \/ OpenRefused \/ ReadFails \/ LoopEnds
           \/ JoinWriter
  BY <1>1 DEF OpenFails, OpenRefused, ReadFails, LoopEnds, JoinWriter, Moves,
       Go
<1>2. CASE Open
  BY <1>2 DEF Open
<1>3. CASE CheckPredicate \/ Sleep \/ SpuriousWakeup
  BY <1>3 DEF CheckPredicate, Sleep, SpuriousWakeup, Moves, Go
<1>4. CASE Take
  <2>1. /\ queue \in Seq(1 .. MaxMessages) /\ queue # <<>>
        /\ Len(queue) <= QueueCapacity
    BY <1>4 DEF Take
  <2>2. /\ Tail(queue) \in Seq(1 .. MaxMessages)
        /\ Len(Tail(queue)) <= QueueCapacity
    BY <2>1, TailFacts
  <2> QED
    BY <1>4, <2>1, <2>2 DEF Take, Go
<1>5. CASE WriterReturns \/ WriteDone \/ WriteFails
  BY <1>5 DEF WriterReturns, WriteDone, WriteFails, Moves, Go
<1>6. CASE ServerStops \/ JoinSession \/ PeerLeaves
  BY <1>6 DEF ServerStops, JoinSession, PeerLeaves, Moves, Go
<1>7. ASSUME NEW a \in Stoppers, Exchange(a) PROVE TypeOK'
  BY <1>7 DEF Exchange, Go, AfterStop
<1>8. ASSUME NEW a \in Stoppers, NotifyAll(a) PROVE TypeOK'
  BY <1>8 DEF NotifyAll, Go, Wake
<1>9. ASSUME NEW a \in Stoppers, CloseSocket(a) PROVE TypeOK'
  BY <1>9 DEF CloseSocket, Go, AfterStop
<1>10. ASSUME NEW b \in Broadcasters, Enqueue(b) PROVE TypeOK'
  BY <1>10, EnqueueFacts DEF Enqueue
<1>11. ASSUME NEW b \in Broadcasters, NotifyOne(b) PROVE TypeOK'
  BY <1>11 DEF NotifyOne, Wake
<1> QED
  BY <1>0, <1>1, <1>2, <1>3, <1>4, <1>5, <1>6, <1>7, <1>8, <1>9, <1>10, <1>11
       DEF Next, SessionStep, WriterStep, ServerStep, Stopping, Stoppers

\* The writer is the only one that moves itself, but for its start and its
\* wakeup, and nobody pushes while it holds the mutex.
LEMMA SleepStep ==
    ASSUME TypeOK, SleepsOnEmpty, WriterKnown, [Next]_vars
    PROVE  (SleepsOnEmpty /\ WriterKnown)'
<1> USE DEF contents, connection, TypeOK, Places, Stoppers, SleepsOnEmpty,
        WriterKnown, MutexFree
<1>0. CASE UNCHANGED vars
  BY <1>0 DEF vars
<1>1. CASE \/ OpenFails \/ OpenRefused \/ ReadFails \/ LoopEnds
           \/ JoinWriter
  BY <1>1 DEF OpenFails, OpenRefused, ReadFails, LoopEnds, JoinWriter, Moves,
       Go
<1>2. CASE Open
  BY <1>2 DEF Open
<1>3. CASE CheckPredicate \/ Sleep \/ SpuriousWakeup
  BY <1>3 DEF CheckPredicate, Sleep, SpuriousWakeup, Moves, Go
<1>4. CASE Take
  BY <1>4 DEF Take, Go
<1>5. CASE WriterReturns \/ WriteDone \/ WriteFails
  BY <1>5 DEF WriterReturns, WriteDone, WriteFails, Moves, Go
<1>6. CASE ServerStops \/ JoinSession \/ PeerLeaves
  BY <1>6 DEF ServerStops, JoinSession, PeerLeaves, Moves, Go
<1>7. ASSUME NEW a \in Stoppers, Exchange(a)
      PROVE  (SleepsOnEmpty /\ WriterKnown)'
  BY <1>7 DEF Exchange, Go, AfterStop
<1>8. ASSUME NEW a \in Stoppers, NotifyAll(a)
      PROVE  (SleepsOnEmpty /\ WriterKnown)'
  BY <1>8 DEF NotifyAll, Go, Wake
<1>9. ASSUME NEW a \in Stoppers, CloseSocket(a)
      PROVE  (SleepsOnEmpty /\ WriterKnown)'
  BY <1>9 DEF CloseSocket, Go, AfterStop
<1>10. ASSUME NEW b \in Broadcasters, Enqueue(b)
      PROVE  (SleepsOnEmpty /\ WriterKnown)'
  BY <1>10 DEF Enqueue
<1>11. ASSUME NEW b \in Broadcasters, NotifyOne(b)
      PROVE  (SleepsOnEmpty /\ WriterKnown)'
  BY <1>11 DEF NotifyOne, Wake
<1> QED
  BY <1>0, <1>1, <1>2, <1>3, <1>4, <1>5, <1>6, <1>7, <1>8, <1>9, <1>10, <1>11
       DEF Next, SessionStep, WriterStep, ServerStep, Stopping, Stoppers

\* A push and an exchange of stopped_ have their notification before them; it
\* wakes a writer that sleeps, and hits one that is about to only in stop().
LEMMA WakeStep ==
    ASSUME TypeOK, SleepsOnEmpty, NoMissedMessage, WokenUnlessRaced, [Next]_vars
    PROVE  (NoMissedMessage /\ WokenUnlessRaced)'
<1> USE DEF contents, connection, TypeOK, Places, Stoppers, SleepsOnEmpty,
        NoMissedMessage, WokenUnlessRaced, MutexFree
<1>0. CASE UNCHANGED vars
  BY <1>0 DEF vars
<1>1. CASE \/ OpenFails \/ OpenRefused \/ ReadFails \/ LoopEnds
           \/ JoinWriter
  BY <1>1 DEF OpenFails, OpenRefused, ReadFails, LoopEnds, JoinWriter, Moves,
       Go
<1>2. CASE Open
  BY <1>2 DEF Open
<1>3. CASE CheckPredicate \/ Sleep \/ SpuriousWakeup
  BY <1>3 DEF CheckPredicate, Sleep, SpuriousWakeup, Moves, Go
<1>4. CASE Take
  BY <1>4 DEF Take, Go
<1>5. CASE WriterReturns \/ WriteDone \/ WriteFails
  BY <1>5 DEF WriterReturns, WriteDone, WriteFails, Moves, Go
<1>6. CASE ServerStops \/ JoinSession \/ PeerLeaves
  BY <1>6 DEF ServerStops, JoinSession, PeerLeaves, Moves, Go
<1>7. ASSUME NEW a \in Stoppers, Exchange(a)
      PROVE  (NoMissedMessage /\ WokenUnlessRaced)'
  BY <1>7 DEF Exchange, Go, AfterStop
<1>8. ASSUME NEW a \in Stoppers, NotifyAll(a)
      PROVE  (NoMissedMessage /\ WokenUnlessRaced)'
  BY <1>8 DEF NotifyAll, Go, Wake
<1>9. ASSUME NEW a \in Stoppers, CloseSocket(a)
      PROVE  (NoMissedMessage /\ WokenUnlessRaced)'
  BY <1>9 DEF CloseSocket, Go, AfterStop
<1>10. ASSUME NEW b \in Broadcasters, Enqueue(b)
      PROVE  (NoMissedMessage /\ WokenUnlessRaced)'
  BY <1>10 DEF Enqueue
<1>11. ASSUME NEW b \in Broadcasters, NotifyOne(b)
      PROVE  (NoMissedMessage /\ WokenUnlessRaced)'
  BY <1>11 DEF NotifyOne, Wake
<1> QED
  BY <1>0, <1>1, <1>2, <1>3, <1>4, <1>5, <1>6, <1>7, <1>8, <1>9, <1>10, <1>11
       DEF Next, SessionStep, WriterStep, ServerStep, Stopping, Stoppers

\* A session begins running, with an empty queue and no writer.
LEMMA InitInv == Init => IInv
<1> SUFFICES ASSUME Init PROVE IInv
  OBVIOUS
<1> USE DEF Init
<1>1. TypeOK
  <2>1. queue \in Seq(1 .. MaxMessages) /\ Len(queue) = 0
    BY EmptySeq
  <2>2. Len(queue) <= QueueCapacity /\ enqueued \in 0 .. MaxMessages
    BY <2>1
  <2>3. {stopped, socketOpen, peerUp, raced} \subseteq BOOLEAN
    OBVIOUS
  <2>4. at \in Places
    BY DEF Places
  <2> QED
    BY <2>1, <2>2, <2>3, <2>4 DEF TypeOK
<1>2. SleepsOnEmpty /\ WriterKnown /\ NoMissedMessage /\ WokenUnlessRaced
  BY DEF SleepsOnEmpty, WriterKnown, NoMissedMessage, WokenUnlessRaced
<1> QED
  BY <1>1, <1>2 DEF IInv

\* The parts carry each other through a step.
LEMMA StepInv == IInv /\ [Next]_vars => IInv'
  BY TypeStep, SleepStep, WakeStep DEF IInv

-----------------------------------------------------------------------------
(* The theorems.                                                           *)

\* Every run of the session keeps the inductive invariant.
THEOREM Invariance == Spec => []IInv
  BY InitInv, StepInv, PTL DEF Spec

\* Members keep their types and queue_ its capacity, however slow the client.
THEOREM TypeCorrect == Spec => []TypeOK
<1>1. IInv => TypeOK
  BY DEF IInv
<1> QED
  BY <1>1, Invariance, PTL

\* The writer sleeps on a message only while its notification is to come.
THEOREM MessagesWakeTheWriter == Spec => []NoMissedMessage
<1>1. IInv => NoMissedMessage
  BY DEF IInv
<1> QED
  BY <1>1, Invariance, PTL

\* The writer sleeps through a stop only if notify_all fell between its
\* predicate and its sleep: the safety core of JoinEndsUnlessRaced.
THEOREM StopWakesTheWriter == Spec => []WokenUnlessRaced
<1>1. IInv => WokenUnlessRaced
  BY DEF IInv
<1> QED
  BY <1>1, Invariance, PTL

\* enqueue() and writer_loop implement LossyFifo: order, capacity and losses.
THEOREM ImplementsLossyFifo == Spec => FifoSpec
<1>1. Init => Fifo!Init
  BY DEF Init, Fifo!Init
<1>2. ASSUME IInv, [Next]_vars PROVE [Fifo!Next]_Fifo!vars
  <2> USE DEF Fifo!vars, contents, connection
  <2>1. TypeOK /\ WriterKnown
    BY <1>2 DEF IInv
  <2>2. at \in Places /\ stopped \in BOOLEAN
    BY <2>1 DEF TypeOK
  <2>3. CASE UNCHANGED vars
    BY <2>3 DEF vars
  <2>4. ASSUME NEW b \in Broadcasters, Enqueue(b)
        PROVE  [Fifo!Next]_Fifo!vars
    <3>1. /\ enqueued' \in 1 .. MaxMessages
          /\ ~stopped /\ UNCHANGED <<stopped, at>>
      BY <2>4, <2>1, EnqueueFacts DEF Enqueue
    <3>2. Fifo!Accept(enqueued') \/ Fifo!Overwrite(enqueued')
      BY <2>1, <2>4, <3>1, EnqueueFacts DEF Fifo!Accept, Fifo!Overwrite
    <3> QED
      BY <3>1, <3>2 DEF Fifo!Next
  <2>5. CASE Take
    <3>1. Fifo!Deliver
      BY <2>2, <2>5 DEF Take, Go, Places, Fifo!Deliver
    <3> QED
      BY <3>1 DEF Fifo!Next
  <2>6. ASSUME NEW a \in Stoppers, Exchange(a)
        PROVE  [Fifo!Next]_Fifo!vars
    <3>1. stopped' = TRUE /\ UNCHANGED <<queue, dropped>>
      BY <2>6 DEF Exchange
    <3>2. CASE stopped
      <4>1. (at.writer # "done" <=> at'.writer # "done")
            \/ (at.writer # "done" /\ at'.writer = "done")
        BY <2>2, <2>6, <3>2 DEF Exchange, Go, AfterStop, Stoppers, Places
      <4> QED
        BY <3>1, <3>2, <4>1 DEF Fifo!Abandon, Fifo!Next
    <3>3. CASE ~stopped
      <4>1. at.writer # "done" /\ at'.writer # "done"
        BY <2>1, <2>2, <2>6, <3>3
           DEF Exchange, Go, WriterKnown, Stoppers, Places
      <4>2. Fifo!Close
        BY <3>1, <3>3, <4>1 DEF Fifo!Close
      <4> QED
        BY <4>2 DEF Fifo!Next
    <3> QED
      BY <3>2, <3>3
  <2>7. ASSUME NEW a \in Stoppers, NotifyAll(a) \/ CloseSocket(a)
        PROVE  [Fifo!Next]_Fifo!vars
    <3>1. UNCHANGED <<queue, dropped, stopped>>
      BY <2>7 DEF NotifyAll, CloseSocket
    <3>2. \/ at.writer # "done" <=> at'.writer # "done"
          \/ at.writer # "done" /\ at'.writer = "done" /\ stopped
      BY <2>1, <2>2, <2>7 DEF NotifyAll, CloseSocket, Go, Wake, AfterStop,
         WriterKnown, Stoppers, Places
    <3> QED
      BY <3>1, <3>2 DEF Fifo!Abandon, Fifo!Next
  <2>8. CASE WriterReturns
    <3>1. /\ stopped /\ at.writer # "done" /\ at'.writer = "done"
          /\ UNCHANGED <<queue, dropped, stopped>>
      BY <2>2, <2>8 DEF WriterReturns, Moves, Go, Places
    <3> QED
      BY <3>1 DEF Fifo!Abandon, Fifo!Next
  <2>9. CASE \/ OpenFails \/ OpenRefused \/ ReadFails \/ LoopEnds
             \/ JoinWriter \/ ServerStops \/ JoinSession \/ PeerLeaves
    <3>1. UNCHANGED <<queue, dropped, stopped>> /\ at'.writer = at.writer
      BY <2>2, <2>9 DEF OpenFails, OpenRefused, ReadFails, LoopEnds,
         JoinWriter, ServerStops, JoinSession, PeerLeaves, Moves, Go, Places
    <3> QED
      BY <3>1
  <2>10. CASE \/ Open \/ CheckPredicate \/ Sleep \/ SpuriousWakeup
              \/ WriteDone \/ WriteFails
    <3>1. /\ UNCHANGED <<queue, dropped, stopped>>
          /\ at.writer # "done" /\ at'.writer # "done"
      BY <2>1, <2>2, <2>10 DEF Open, CheckPredicate, Sleep, SpuriousWakeup,
         WriteDone, WriteFails, Moves, Go, Places, WriterKnown
    <3> QED
      BY <3>1
  <2>11. ASSUME NEW b \in Broadcasters, NotifyOne(b)
         PROVE  [Fifo!Next]_Fifo!vars
    <3>1. /\ UNCHANGED <<queue, dropped, stopped>>
          /\ at.writer # "done" <=> at'.writer # "done"
      BY <2>2, <2>11 DEF NotifyOne, Wake, Places
    <3> QED
      BY <3>1
  <2> QED
    BY <1>2, <2>3, <2>4, <2>5, <2>6, <2>7, <2>8, <2>9, <2>10, <2>11
       DEF Next, SessionStep, WriterStep, ServerStep, Stopping, Stoppers
<1> QED
  BY <1>1, <1>2, Invariance, PTL DEF Spec, FifoSpec, Fifo!Spec
=============================================================================
