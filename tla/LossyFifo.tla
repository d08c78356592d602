----------------------------- MODULE LossyFifo -----------------------------
(***************************************************************************)
(* What a bounded queue between two threads of VoiceEdgeMonitor promises,  *)
(* whatever the mutex, the condition variable and the threads do inside:   *)
(* items leave in the order they were accepted, at most Capacity of them   *)
(* are held, an item is lost only by being overwritten by a newer one      *)
(* while the queue is full (and then it is counted) or because the         *)
(* consumer has left a queue that was closed before.                       *)
(*                                                                         *)
(* BoundedQueue.tla and ClientSession.tla implement it.                    *)
(***************************************************************************)
EXTENDS Naturals, Sequences

CONSTANTS Capacity,    \* the most items the queue may hold, at least one
          Item         \* what can be put into the queue

VARIABLES content,     \* the accepted items not delivered yet, oldest first
          evicted,     \* how many accepted items were overwritten
          open,        \* FALSE once the queue is closed
          attended     \* FALSE once the consumer has left

vars == <<content, evicted, open, attended>>

Init ==
    /\ content = <<>>
    /\ evicted = 0
    /\ open = TRUE
    /\ attended = TRUE

Accept(x) ==
    /\ open
    /\ Len(content) < Capacity
    /\ content' = Append(content, x)
    /\ UNCHANGED <<evicted, open, attended>>

Overwrite(x) ==
    /\ open
    /\ Len(content) = Capacity
    /\ content' = Append(Tail(content), x)
    /\ evicted' = evicted + 1
    /\ UNCHANGED <<open, attended>>

Deliver ==
    /\ attended
    /\ content # <<>>
    /\ content' = Tail(content)
    /\ UNCHANGED <<evicted, open, attended>>

Close ==
    /\ open
    /\ open' = FALSE
    /\ UNCHANGED <<content, evicted, attended>>

\* The consumer may leave only a closed queue; what is left stays behind.
Abandon ==
    /\ attended
    /\ ~open
    /\ attended' = FALSE
    /\ UNCHANGED <<content, evicted, open>>

Next ==
    \/ \E x \in Item : Accept(x) \/ Overwrite(x)
    \/ Deliver
    \/ Close
    \/ Abandon

Spec == Init /\ [][Next]_vars

\* An attended queue is emptied, and a closed one is left in the end.
FairSpec == Spec /\ WF_vars(Deliver) /\ WF_vars(Abandon)
============================================================================
