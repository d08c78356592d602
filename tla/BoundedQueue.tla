---------------------------- MODULE BoundedQueue ----------------------------
(***************************************************************************)
(* src/board/bounded_queue.hpp: the mutex and condition-variable queue     *)
(* between the threads of every program of the project, together with the  *)
(* loop all its consumers run (processing_worker, monitor_worker and       *)
(* asr_worker of pipeline_probe.cpp, asr_loop of ws_server.cpp and         *)
(* RecordingStore::worker_loop):                                           *)
(*                                                                         *)
(*     if (!queue.pop_for(item, 100ms)) {                                  *)
(*       if (queue.closed()) break; else continue;                         *)
(*     }                                                                   *)
(*     handle(item);                                                       *)
(*                                                                         *)
(* A critical section of mutex_ is one step; what a thread does after it   *)
(* unlocks (the notification, the second call to closed()) is another, so  *)
(* every interleaving the mutex allows is a behaviour.                     *)
(***************************************************************************)
EXTENDS Naturals, Sequences

CONSTANTS Threads,     \* the threads that push into the queue or close it
          Capacity,    \* capacity_
          MaxPushes    \* bound of the model: how many pushes are tried

ASSUME ThreadsAssumption  == Threads # {}
ASSUME CapacityAssumption == Capacity \in Nat \ {0}
ASSUME MaxPushesAssumption == MaxPushes \in Nat

VARIABLES
    items,         \* queue_; an item is the number of the push that brought it
    droppedItems,  \* dropped_items_
    isClosed,      \* closed_
    caller,        \* per thread: "idle", or "notifying" after it unlocked
    worker,        \* where the consumer is in its loop
    sent,          \* pushes tried so far
    rejected,      \* pushes that stored nothing
    taken,         \* items the consumer has popped
    lastTaken,     \* the newest of them, 0 before the first
    sawClosed      \* the last pop_for returned false on a closed queue

queueVars == <<items, droppedItems, isClosed>>
history   == <<sent, rejected, taken, lastTaken>>
vars == <<items, droppedItems, isClosed, caller, worker,
          sent, rejected, taken, lastTaken, sawClosed>>

Init ==
    /\ items = <<>>
    /\ droppedItems = 0
    /\ isClosed = FALSE
    /\ caller = [t \in Threads |-> "idle"]
    /\ worker = "calling"
    /\ sent = 0
    /\ rejected = 0
    /\ taken = 0
    /\ lastTaken = 0
    /\ sawClosed = FALSE

-----------------------------------------------------------------------------
(* The producers and the threads that close the queue.                     *)

FullTooLate == Len(items) > Capacity
Full == Len(items) >= Capacity

\* One push begins: the item gets the next number.
Offer(t) ==
    /\ caller[t] = "idle"
    /\ sent < MaxPushes
    /\ sent' = sent + 1
    /\ UNCHANGED <<isClosed, worker, taken, lastTaken, sawClosed>>

UnlockOnly(t) == UNCHANGED caller

\* Every successful push or close unlocks and then notifies.
Unlock(t) == caller' = [caller EXCEPT ![t] = "notifying"]

Refuse ==
    /\ rejected' = rejected + 1
    /\ UNCHANGED <<items, droppedItems, caller>>

\* try_push: a closed or full queue returns false before any notification.
TryPush(t) ==
    /\ Offer(t)
    /\ \/ /\ isClosed \/ Full
          /\ Refuse
       \/ /\ ~isClosed /\ ~Full
          /\ items' = Append(items, sent')
          /\ Unlock(t)
          /\ UNCHANGED <<droppedItems, rejected>>

PushDropUncounted(t) ==
    /\ Offer(t)
    /\ ~isClosed
    /\ items' = Append(IF Full THEN Tail(items) ELSE items, sent')
    /\ Unlock(t)
    /\ UNCHANGED <<droppedItems, rejected>>

\* push_drop_oldest: a full queue loses its front to make room.
PushDropOldest(t) ==
    /\ Offer(t)
    /\ \/ /\ isClosed
          /\ Refuse
       \/ /\ ~isClosed
          /\ items' = Append(IF Full THEN Tail(items) ELSE items, sent')
          /\ droppedItems' = IF Full THEN droppedItems + 1 ELSE droppedItems
          /\ Unlock(t)
          /\ UNCHANGED rejected

CloseSilently(t) ==
    /\ caller[t] = "idle"
    /\ isClosed' = TRUE
    /\ UNCHANGED <<items, droppedItems, caller, worker, history, sawClosed>>

\* close may be called by several threads and more than once.
Close(t) ==
    /\ caller[t] = "idle"
    /\ isClosed' = TRUE
    /\ Unlock(t)
    /\ UNCHANGED <<items, droppedItems, worker, history, sawClosed>>

\* notify_one and notify_all: there is one consumer, so both wake it if it
\* waits at this moment, and are lost otherwise.
Notify(t) ==
    /\ caller[t] = "notifying"
    /\ caller' = [caller EXCEPT ![t] = "idle"]
    /\ worker' = IF worker = "waiting" THEN "woken" ELSE worker
    /\ UNCHANGED <<queueVars, history, sawClosed>>

-----------------------------------------------------------------------------
(* The consumer. It holds mutex_ in the steps it takes from "calling",     *)
(* "woken" and "expired"; pop() is pop_for() whose wait never expires. An  *)
(* operator named after a mistake (PopNewest, UnlockOnly, ...) belongs to  *)
(* no specification: it is the mutation a property is tried against.       *)

CanLock == worker \in {"calling", "woken", "expired"}

\* The predicate is false: wait_for releases the mutex and blocks.
Block ==
    /\ worker \in {"calling", "woken"}
    /\ items = <<>> /\ ~isClosed
    /\ worker' = "waiting"
    /\ UNCHANGED <<queueVars, caller, history, sawClosed>>

\* The 100 ms pass, or the implementation wakes the thread for no reason.
TimeOut ==
    /\ worker = "waiting"
    /\ worker' = "expired"
    /\ UNCHANGED <<queueVars, caller, history, sawClosed>>

SpuriousWakeup ==
    /\ worker = "waiting"
    /\ worker' = "woken"
    /\ UNCHANGED <<queueVars, caller, history, sawClosed>>

PopNewest ==
    /\ CanLock
    /\ items # <<>>
    /\ items' = SubSeq(items, 1, Len(items) - 1)
    /\ taken' = taken + 1
    /\ lastTaken' = items[Len(items)]
    /\ worker' = "handling"
    /\ UNCHANGED <<droppedItems, isClosed, caller, sent, rejected, sawClosed>>

\* pop_for returns true.
Pop ==
    /\ CanLock
    /\ items # <<>>
    /\ items' = Tail(items)
    /\ taken' = taken + 1
    /\ lastTaken' = Head(items)
    /\ worker' = "handling"
    /\ UNCHANGED <<droppedItems, isClosed, caller, sent, rejected, sawClosed>>

PopNothingOnceClosed ==
    /\ CanLock
    /\ isClosed \/ (items = <<>> /\ worker = "expired")
    /\ worker' = "probing"
    /\ sawClosed' = isClosed
    /\ UNCHANGED <<queueVars, caller, history>>

\* pop_for returns false: the queue is empty and either closed or timed out.
PopNothing ==
    /\ CanLock
    /\ items = <<>>
    /\ isClosed \/ worker = "expired"
    /\ worker' = "probing"
    /\ sawClosed' = isClosed
    /\ UNCHANGED <<queueVars, caller, history>>

ProbeNothing ==
    /\ worker = "probing"
    /\ worker' = "done"
    /\ UNCHANGED <<queueVars, caller, history, sawClosed>>

\* The loop asks closed() in a critical section of its own.
Probe ==
    /\ worker = "probing"
    /\ worker' = IF isClosed THEN "done" ELSE "calling"
    /\ UNCHANGED <<queueVars, caller, history, sawClosed>>

Handle ==
    /\ worker = "handling"
    /\ worker' = "calling"
    /\ UNCHANGED <<queueVars, caller, history, sawClosed>>

-----------------------------------------------------------------------------
Consume == Block \/ Pop \/ PopNothing \/ Probe \/ Handle

Next ==
    \/ \E t \in Threads :
          TryPush(t) \/ PushDropOldest(t) \/ Close(t) \/ Notify(t)
    \/ Consume
    \/ TimeOut
    \/ SpuriousWakeup

Spec == Init /\ [][Next]_vars

\* The operating system runs a thread that can run. Nobody has to push or
\* close, and a wait may last as long as it likes before it expires.
FairSpec ==
    /\ Spec
    /\ WF_vars(Consume)
    /\ \A t \in Threads : WF_vars(Notify(t))

-----------------------------------------------------------------------------
(* Properties.                                                             *)

WorkerPlaces == {"calling", "waiting", "woken", "expired", "probing",
                 "handling", "done"}

\* The variables keep their types (members of class BoundedQueue), and
\* neither push discipline makes queue_ longer than capacity_.
TypeOK ==
    /\ items \in Seq(1 .. MaxPushes)
    /\ Len(items) <= Capacity
    /\ droppedItems \in Nat
    /\ isClosed \in BOOLEAN
    /\ caller \in [Threads -> {"idle", "notifying"}]
    /\ worker \in WorkerPlaces
    /\ sent \in 0 .. MaxPushes
    /\ rejected \in Nat
    /\ taken \in Nat
    /\ lastTaken \in 0 .. MaxPushes
    /\ sawClosed \in BOOLEAN

\* What is queued was pushed in this order, after everything the consumer
\* already got: nothing is reordered or delivered twice, even when
\* push_drop_oldest takes the front away under the consumer.
InOrder ==
    /\ \A i, j \in DOMAIN items : i < j => items[i] < items[j]
    /\ \A i \in DOMAIN items : lastTaken < items[i] /\ items[i] <= sent

\* Every push ends in exactly one of four ways: refused, overwritten (and
\* counted by dropped_items_), delivered, or still queued.
Accounting == sent = rejected + droppedItems + taken + Len(items)

\* The consumer never sleeps while there is something for it to see unless
\* some thread is still about to notify it, although every notification is
\* sent after the mutex was released.
NoLostWakeup ==
    worker = "waiting" /\ (items # <<>> \/ isClosed)
        => \E t \in Threads : caller[t] = "notifying"

\* When pop_for returns false because the queue was closed, the consumer
\* leaves nothing behind: close() and the last push cannot be seen in the
\* wrong order.
DrainedWhenSeenClosed ==
    sawClosed /\ worker \in {"probing", "done"} => items = <<>>

\* The promise the tests state: recording_store_test.cpp enqueues one
\* record, stops the store and expects that record on disk, so a consumer
\* that has left leaves no accepted item behind.
DrainedBeforeDone == worker = "done" => items = <<>>

\* The consumer of a closed queue leaves its loop, so the thread that joins
\* it (run_pipeline, ServerRuntime::stop, RecordingStore::stop) goes on.
CloseStopsWorker == isClosed ~> worker = "done"

\* The queue and the loop of its consumer implement LossyFifo.
Fifo == INSTANCE LossyFifo WITH
            Item <- 1 .. MaxPushes,
            content <- items,
            evicted <- droppedItems,
            open <- ~isClosed,
            attended <- worker # "done"

FifoSpec == Fifo!FairSpec
=============================================================================
