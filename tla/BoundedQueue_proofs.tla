------------------------ MODULE BoundedQueue_proofs ------------------------
(***************************************************************************)
(* Theorems about BoundedQueue for every number of threads and pushes and  *)
(* every capacity: the safety invariants, and that the queue with its      *)
(* consumer implements the safety part of LossyFifo.                       *)
(***************************************************************************)
EXTENDS BoundedQueue, SequenceTheorems, TLAPS

USE ThreadsAssumption, CapacityAssumption, MaxPushesAssumption
    DEF ThreadsAssumption, CapacityAssumption, MaxPushesAssumption

\* One step of the queue, as the disjuncts of Next.
LEMMA StepCases ==
    ASSUME [Next]_vars
    PROVE  \/ \E t \in Threads : TryPush(t)
           \/ \E t \in Threads : PushDropOldest(t)
           \/ \E t \in Threads : Close(t)
           \/ \E t \in Threads : Notify(t)
           \/ Block \/ Pop \/ PopNothing \/ Probe \/ Handle
           \/ TimeOut \/ SpuriousWakeup
           \/ UNCHANGED vars
  BY DEF Next, Consume

-----------------------------------------------------------------------------
(* Facts about the end and the front of a sequence.                        *)

\* The front of a non-empty sequence is taken away.
LEMMA TailFacts ==
    ASSUME NEW S, NEW s \in Seq(S), s # <<>>
    PROVE  /\ Tail(s) \in Seq(S)
           /\ Head(s) \in S /\ Head(s) = s[1]
           /\ Len(s) \in Nat \ {0}
           /\ Len(Tail(s)) = Len(s) - 1
           /\ \A i \in 1 .. Len(Tail(s)) : Tail(s)[i] = s[i + 1]
  BY EmptySeq, HeadTailProperties

\* A new item is put at the end.
LEMMA AppendFacts ==
    ASSUME NEW S, NEW s \in Seq(S), NEW x \in S
    PROVE  /\ Append(s, x) \in Seq(S)
           /\ Len(Append(s, x)) = Len(s) + 1
           /\ Append(s, x) # <<>>
           /\ \A i \in 1 .. Len(s) : Append(s, x)[i] = s[i]
           /\ Append(s, x)[Len(s) + 1] = x
  BY AppendProperties

-----------------------------------------------------------------------------
\* TypeOK is inductive: members of class BoundedQueue keep their types and
\* queue_ its capacity.
LEMMA TypeStep == TypeOK /\ [Next]_vars => TypeOK'
<1> SUFFICES ASSUME TypeOK, [Next]_vars PROVE TypeOK'
  OBVIOUS
<1> USE DEF TypeOK, WorkerPlaces
<1>0. Len(items) \in Nat
  BY LenProperties
<1>1. ASSUME NEW t \in Threads, TryPush(t) PROVE TypeOK'
  <2>1. sent' \in 1 .. MaxPushes
    BY <1>1 DEF TryPush, Offer
  <2>2. CASE Refuse
    BY <1>1, <2>1, <2>2 DEF TryPush, Offer, Refuse
  <2>3. CASE ~isClosed /\ ~Full /\ items' = Append(items, sent')
             /\ Unlock(t) /\ UNCHANGED <<droppedItems, rejected>>
    <3>1. items' \in Seq(1 .. MaxPushes) /\ Len(items') = Len(items) + 1
      BY <2>1, <2>3, AppendFacts
    <3>2. Len(items) < Capacity
      BY <1>0, <2>3 DEF Full
    <3> QED
      BY <1>0, <1>1, <2>1, <2>3, <3>1, <3>2 DEF TryPush, Offer, Unlock
  <2> QED
    BY <1>1, <2>2, <2>3 DEF TryPush
<1>2. ASSUME NEW t \in Threads, PushDropOldest(t) PROVE TypeOK'
  <2>1. sent' \in 1 .. MaxPushes
    BY <1>2 DEF PushDropOldest, Offer
  <2>2. CASE Refuse
    BY <1>2, <2>1, <2>2 DEF PushDropOldest, Offer, Refuse
  <2>3. CASE ~Refuse
    <3> DEFINE kept == IF Full THEN Tail(items) ELSE items
    <3>1. items' = Append(kept, sent') /\ Unlock(t) /\ UNCHANGED rejected
          /\ droppedItems' = IF Full THEN droppedItems + 1 ELSE droppedItems
      BY <1>2, <2>3 DEF PushDropOldest
    <3>2. kept \in Seq(1 .. MaxPushes) /\ Len(kept) \in Nat
          /\ Len(kept) < Capacity
      <4>1. CASE Full
        <5>1. items # <<>>
          BY <4>1, EmptySeq DEF Full
        <5> QED
          BY <1>0, <4>1, <5>1, TailFacts
      <4>2. CASE ~Full
        BY <1>0, <4>2 DEF Full
      <4> QED
        BY <4>1, <4>2
    <3>3. items' \in Seq(1 .. MaxPushes) /\ Len(items') = Len(kept) + 1
      BY <2>1, <3>1, <3>2, AppendFacts
    <3> HIDE DEF kept
    <3> QED
      BY <1>2, <2>1, <3>1, <3>2, <3>3 DEF PushDropOldest, Offer, Unlock
  <2> QED
    BY <2>2, <2>3
<1>3. ASSUME NEW t \in Threads, Close(t) PROVE TypeOK'
  BY <1>3 DEF Close, Unlock, history
<1>4. ASSUME NEW t \in Threads, Notify(t) PROVE TypeOK'
  BY <1>4 DEF Notify, queueVars, history
<1>5. CASE Pop
  <2>1. /\ Tail(items) \in Seq(1 .. MaxPushes)
        /\ Head(items) \in 1 .. MaxPushes
        /\ Len(Tail(items)) <= Capacity
    BY <1>0, <1>5, TailFacts DEF Pop
  <2> QED
    BY <1>5, <2>1 DEF Pop
<1>6. CASE Block \/ PopNothing \/ Probe \/ Handle \/ TimeOut \/ SpuriousWakeup
  BY <1>6 DEF Block, PopNothing, Probe, Handle, TimeOut, SpuriousWakeup,
              queueVars, history
<1>7. CASE UNCHANGED vars
  BY <1>7 DEF vars
<1> QED
  BY <1>1, <1>2, <1>3, <1>4, <1>5, <1>6, <1>7, StepCases

\* An empty queue whose consumer has not begun is well typed.
LEMMA InitTypeOK == Init => TypeOK
<1> SUFFICES ASSUME Init PROVE TypeOK
  OBVIOUS
<1>1. items \in Seq(1 .. MaxPushes) /\ Len(items) = 0
  BY DEF Init
<1>2. caller \in [Threads -> {"idle", "notifying"}]
  BY DEF Init
<1>3. /\ sent = 0 /\ rejected = 0 /\ taken = 0 /\ lastTaken = 0
      /\ droppedItems = 0
      /\ isClosed = FALSE /\ sawClosed = FALSE /\ worker = "calling"
  BY DEF Init
<1>4. Len(items) <= Capacity
  BY <1>1
<1>5. sent \in 0 .. MaxPushes /\ lastTaken \in 0 .. MaxPushes
  BY <1>3
<1>6. worker \in WorkerPlaces
  BY <1>3 DEF WorkerPlaces
<1> QED
  BY <1>1, <1>2, <1>3, <1>4, <1>5, <1>6 DEF TypeOK

\* Type correctness of the queue and its consumer.
THEOREM TypeCorrect == Spec => []TypeOK
  BY InitTypeOK, TypeStep, PTL DEF Spec

-----------------------------------------------------------------------------
(* InOrder is inductive once lastTaken is known not to be from the future. *)

Order == InOrder /\ lastTaken <= sent

\* A push keeps the order: the new item is newer than all others.
LEMMA AppendKeepsOrder ==
    ASSUME TypeOK, TypeOK',
           NEW kept \in Seq(1 .. MaxPushes),
           \A i, j \in DOMAIN kept : i < j => kept[i] < kept[j],
           \A i \in DOMAIN kept : lastTaken < kept[i] /\ kept[i] <= sent,
           lastTaken <= sent,
           sent' = sent + 1,
           lastTaken' = lastTaken,
           items' = Append(kept, sent')
    PROVE  Order'
<1>1. sent' \in 1 .. MaxPushes /\ lastTaken \in Nat /\ sent \in Nat
  BY DEF TypeOK
<1>2. /\ Len(kept) \in Nat /\ DOMAIN kept = 1 .. Len(kept)
      /\ DOMAIN items' = 1 .. Len(kept) + 1
      /\ \A i \in 1 .. Len(kept) : items'[i] = kept[i] /\ kept[i] \in Nat
      /\ items'[Len(kept) + 1] = sent'
  <2>1. items' \in Seq(1 .. MaxPushes) /\ Len(items') = Len(kept) + 1
    BY <1>1, AppendFacts
  <2>2. /\ \A i \in 1 .. Len(kept) : items'[i] = kept[i]
        /\ items'[Len(kept) + 1] = sent'
    BY <1>1, AppendFacts
  <2> QED
    BY <2>1, <2>2, LenProperties, ElementOfSeq
<1>3. ASSUME NEW i \in DOMAIN items', NEW j \in DOMAIN items', i < j
      PROVE  items'[i] < items'[j]
  <2>1. i \in 1 .. Len(kept)
    BY <1>2, <1>3
  <2>2. CASE j \in 1 .. Len(kept)
    BY <1>2, <1>3, <2>1, <2>2
  <2>3. CASE j = Len(kept) + 1
    BY <1>1, <1>2, <2>1, <2>3
  <2> QED
    BY <1>2, <2>2, <2>3
<1>4. ASSUME NEW i \in DOMAIN items'
      PROVE  lastTaken' < items'[i] /\ items'[i] <= sent'
  <2>1. CASE i \in 1 .. Len(kept)
    BY <1>1, <1>2, <2>1
  <2>2. CASE i = Len(kept) + 1
    BY <1>1, <1>2, <2>2
  <2> QED
    BY <1>2, <2>1, <2>2
<1>5. lastTaken' <= sent'
  BY <1>1
<1> HIDE DEF TypeOK
<1> QED
  BY <1>3, <1>4, <1>5 DEF Order, InOrder

\* Taking the front away keeps the order of the rest.
LEMMA TailKeepsOrder ==
    ASSUME TypeOK, Order, items # <<>>
    PROVE  /\ \A i, j \in DOMAIN Tail(items) :
                i < j => Tail(items)[i] < Tail(items)[j]
           /\ \A i \in DOMAIN Tail(items) :
                /\ lastTaken < Tail(items)[i] /\ Tail(items)[i] <= sent
                /\ Head(items) < Tail(items)[i]
           /\ lastTaken < Head(items) /\ Head(items) <= sent
<1> items \in Seq(1 .. MaxPushes)
  BY DEF TypeOK
<1>1. /\ Len(items) \in Nat \ {0} /\ DOMAIN items = 1 .. Len(items)
      /\ DOMAIN Tail(items) = 1 .. Len(items) - 1
      /\ \A i \in 1 .. Len(items) - 1 : Tail(items)[i] = items[i + 1]
      /\ Head(items) = items[1]
  BY TailFacts, LenProperties
<1>2. /\ \A i, j \in 1 .. Len(items) : i < j => items[i] < items[j]
      /\ \A i \in 1 .. Len(items) : lastTaken < items[i] /\ items[i] <= sent
  BY <1>1 DEF Order, InOrder
<1>3. \A i \in 1 .. Len(items) - 1 :
        i + 1 \in 1 .. Len(items) /\ 1 \in 1 .. Len(items) /\ 1 < i + 1
  BY <1>1
<1>4. ASSUME NEW i \in DOMAIN Tail(items), NEW j \in DOMAIN Tail(items), i < j
      PROVE  Tail(items)[i] < Tail(items)[j]
  <2>1. i + 1 < j + 1
    BY <1>1, <1>4
  <2> QED
    BY <1>1, <1>2, <1>3, <2>1
<1> QED
  BY <1>1, <1>2, <1>3, <1>4

\* Each step keeps the items in the order of their pushes.
LEMMA OrderStep == TypeOK /\ Order /\ [Next]_vars => Order'
<1> SUFFICES ASSUME TypeOK, Order, [Next]_vars PROVE Order'
  OBVIOUS
<1>0. TypeOK'
  BY TypeStep
<1>1. /\ items \in Seq(1 .. MaxPushes)
      /\ sent \in Nat /\ lastTaken \in Nat /\ lastTaken <= sent
      /\ \A i \in DOMAIN items : items[i] \in Nat
      /\ \A i, j \in DOMAIN items : i < j => items[i] < items[j]
      /\ \A i \in DOMAIN items : lastTaken < items[i] /\ items[i] <= sent
  BY LenProperties, ElementOfSeq DEF TypeOK, Order, InOrder
<1>2. CASE UNCHANGED items /\ sent' = sent + 1 /\ UNCHANGED lastTaken
  BY <1>1, <1>2 DEF Order, InOrder
<1>3. CASE UNCHANGED <<items, sent, lastTaken>>
  BY <1>1, <1>3 DEF Order, InOrder
<1>4. ASSUME NEW t \in Threads, TryPush(t) PROVE Order'
  <2>1. sent' = sent + 1 /\ UNCHANGED lastTaken
    BY <1>4 DEF TryPush, Offer
  <2>2. UNCHANGED items \/ items' = Append(items, sent')
    BY <1>4 DEF TryPush, Refuse
  <2>3. CASE items' = Append(items, sent')
    BY <1>0, <1>1, <2>1, <2>3, AppendKeepsOrder
  <2> QED
    BY <1>2, <2>1, <2>2, <2>3
<1>5. ASSUME NEW t \in Threads, PushDropOldest(t) PROVE Order'
  <2>1. sent' = sent + 1 /\ UNCHANGED lastTaken
    BY <1>5 DEF PushDropOldest, Offer
  <2>2. \/ UNCHANGED items
        \/ items' = Append(items, sent')
        \/ Full /\ items' = Append(Tail(items), sent')
    BY <1>5 DEF PushDropOldest, Refuse
  <2>3. CASE items' = Append(items, sent')
    BY <1>0, <1>1, <2>1, <2>3, AppendKeepsOrder
  <2>4. CASE Full /\ items' = Append(Tail(items), sent')
    <3>1. items # <<>>
      BY <2>4, EmptySeq DEF Full
    <3>2. Tail(items) \in Seq(1 .. MaxPushes)
      BY <1>1, <3>1, TailFacts
    <3> QED
      BY <1>0, <1>1, <2>1, <2>4, <3>1, <3>2, TailKeepsOrder, AppendKeepsOrder
  <2> QED
    BY <1>2, <2>1, <2>2, <2>3, <2>4
<1>6. CASE Pop
  <2>1. items # <<>> /\ items' = Tail(items) /\ UNCHANGED sent
        /\ lastTaken' = Head(items)
    BY <1>6 DEF Pop
  <2> QED
    BY <2>1, TailKeepsOrder DEF Order, InOrder
<1>7. ASSUME NEW t \in Threads, Close(t) \/ Notify(t) PROVE Order'
  BY <1>3, <1>7 DEF Close, Notify, queueVars, history
<1>8. CASE \/ Block \/ PopNothing \/ Probe \/ Handle \/ TimeOut
           \/ SpuriousWakeup \/ UNCHANGED vars
  BY <1>3, <1>8 DEF Block, PopNothing, Probe, Handle, TimeOut,
                    SpuriousWakeup, queueVars, history, vars
<1> QED
  BY <1>4, <1>5, <1>6, <1>7, <1>8, StepCases

-----------------------------------------------------------------------------
\* Every push is refused, overwritten, delivered or still queued.
LEMMA AccountingStep == TypeOK /\ Accounting /\ [Next]_vars => Accounting'
<1> SUFFICES ASSUME TypeOK, Accounting, [Next]_vars PROVE Accounting'
  OBVIOUS
<1>1. /\ items \in Seq(1 .. MaxPushes) /\ Len(items) \in Nat
      /\ sent \in Nat /\ rejected \in Nat /\ droppedItems \in Nat
      /\ taken \in Nat
  BY LenProperties DEF TypeOK
<1>2. CASE UNCHANGED <<items, droppedItems, sent, rejected, taken>>
  BY <1>2 DEF Accounting
<1>3. ASSUME NEW t \in Threads, TryPush(t) \/ PushDropOldest(t)
      PROVE  Accounting'
  <2>1. sent' = sent + 1 /\ taken' = taken /\ sent' \in 1 .. MaxPushes
    BY <1>1, <1>3 DEF TryPush, PushDropOldest, Offer
  <2>2. CASE Refuse
    BY <1>1, <2>1, <2>2 DEF Refuse, Accounting
  <2>3. CASE /\ items' = Append(items, sent')
             /\ UNCHANGED <<droppedItems, rejected>>
    <3>1. Len(items') = Len(items) + 1
      BY <1>1, <2>1, <2>3, AppendFacts
    <3> QED
      BY <1>1, <2>1, <2>3, <3>1 DEF Accounting
  <2>4. CASE /\ Full /\ items' = Append(Tail(items), sent')
             /\ droppedItems' = droppedItems + 1 /\ UNCHANGED rejected
    <3>1. items # <<>>
      BY <2>4, EmptySeq DEF Full
    <3>2. Tail(items) \in Seq(1 .. MaxPushes)
          /\ Len(Tail(items)) = Len(items) - 1
      BY <1>1, <3>1, TailFacts
    <3>3. Len(items') = Len(items)
      BY <1>1, <2>1, <2>4, <3>2, AppendFacts
    <3>4. droppedItems' = droppedItems + 1 /\ rejected' = rejected
      BY <2>4
    <3>5. sent = rejected + droppedItems + taken + Len(items)
      BY DEF Accounting
    <3>6. sent' = rejected' + droppedItems' + taken' + Len(items')
      BY <1>1, <2>1, <3>3, <3>4, <3>5
    <3> QED
      BY <3>6 DEF Accounting
  <2> QED
    BY <1>3, <2>2, <2>3, <2>4 DEF TryPush, PushDropOldest
<1>4. CASE Pop
  <2>1. Len(items') = Len(items) - 1 /\ taken' = taken + 1
        /\ UNCHANGED <<droppedItems, sent, rejected>>
    BY <1>1, <1>4, TailFacts DEF Pop
  <2> QED
    BY <1>1, <2>1 DEF Accounting
<1>5. ASSUME NEW t \in Threads, Close(t) \/ Notify(t) PROVE Accounting'
  BY <1>2, <1>5 DEF Close, Notify, queueVars, history
<1>6. CASE \/ Block \/ PopNothing \/ Probe \/ Handle \/ TimeOut
           \/ SpuriousWakeup \/ UNCHANGED vars
  BY <1>2, <1>6 DEF Block, PopNothing, Probe, Handle, TimeOut,
                    SpuriousWakeup, queueVars, history, vars
<1> QED
  BY <1>3, <1>4, <1>5, <1>6, StepCases

-----------------------------------------------------------------------------
\* A sleeping consumer is owed a notification: the predicate is evaluated
\* and the sleep begun in one critical section, and every change that makes
\* the predicate true leaves a caller that is about to notify.
LEMMA WakeupStep == TypeOK /\ NoLostWakeup /\ [Next]_vars => NoLostWakeup'
<1> SUFFICES ASSUME TypeOK, NoLostWakeup, [Next]_vars PROVE NoLostWakeup'
  OBVIOUS
<1>0. caller \in [Threads -> {"idle", "notifying"}]
  BY DEF TypeOK
<1>1. ASSUME NEW t \in Threads, Unlock(t) PROVE NoLostWakeup'
  BY <1>0, <1>1 DEF Unlock, NoLostWakeup
<1>2. CASE UNCHANGED <<items, isClosed, caller, worker>>
  BY <1>2 DEF NoLostWakeup
<1>3. CASE worker' # "waiting"
  BY <1>3 DEF NoLostWakeup
<1>4. ASSUME NEW t \in Threads, TryPush(t) PROVE NoLostWakeup'
  BY <1>1, <1>2, <1>4 DEF TryPush, Refuse, Offer
<1>5. ASSUME NEW t \in Threads, PushDropOldest(t) PROVE NoLostWakeup'
  BY <1>1, <1>2, <1>5 DEF PushDropOldest, Refuse, Offer
<1>6. ASSUME NEW t \in Threads, Close(t) PROVE NoLostWakeup'
  BY <1>1, <1>6 DEF Close
<1>7. ASSUME NEW t \in Threads, Notify(t) PROVE NoLostWakeup'
  BY <1>3, <1>7 DEF Notify
<1>8. CASE Block
  BY <1>8 DEF Block, queueVars, NoLostWakeup
<1>9. CASE Pop \/ PopNothing \/ Probe \/ Handle \/ TimeOut \/ SpuriousWakeup
  BY <1>3, <1>9 DEF Pop, PopNothing, Probe, Handle, TimeOut, SpuriousWakeup
<1>10. CASE UNCHANGED vars
  BY <1>2, <1>10 DEF vars
<1> QED
  BY <1>4, <1>5, <1>6, <1>7, <1>8, <1>9, <1>10, StepCases

-----------------------------------------------------------------------------
\* A queue seen closed and empty stays so: nothing is accepted any more.
Drained ==
    /\ DrainedWhenSeenClosed
    /\ sawClosed => isClosed

\* Each step keeps what was seen closed and empty that way.
LEMMA DrainedStep == Drained /\ [Next]_vars => Drained'
<1> SUFFICES ASSUME Drained, [Next]_vars PROVE Drained'
  OBVIOUS
<1> USE DEF Drained, DrainedWhenSeenClosed
<1>1. ASSUME NEW t \in Threads, TryPush(t) PROVE Drained'
  BY <1>1 DEF TryPush, Refuse, Offer
<1>2. ASSUME NEW t \in Threads, PushDropOldest(t) PROVE Drained'
  BY <1>2 DEF PushDropOldest, Refuse, Offer
<1>3. ASSUME NEW t \in Threads, Close(t) PROVE Drained'
  BY <1>3 DEF Close, history
<1>4. ASSUME NEW t \in Threads, Notify(t) PROVE Drained'
  BY <1>4 DEF Notify, queueVars, history
<1>5. CASE Pop
  BY <1>5 DEF Pop
<1>6. CASE PopNothing
  BY <1>6 DEF PopNothing, queueVars
<1>7. CASE Probe
  BY <1>7 DEF Probe, queueVars
<1>8. CASE Block \/ Handle \/ TimeOut \/ SpuriousWakeup
  BY <1>8 DEF Block, Handle, TimeOut, SpuriousWakeup, queueVars
<1>9. CASE UNCHANGED vars
  BY <1>9 DEF vars
<1> QED
  BY <1>1, <1>2, <1>3, <1>4, <1>5, <1>6, <1>7, <1>8, <1>9, StepCases

-----------------------------------------------------------------------------
\* The inductive invariant of the queue and its consumer.
IInv == TypeOK /\ Order /\ Accounting /\ NoLostWakeup /\ Drained

\* The invariant holds of a new queue.
LEMMA InitIInv == Init => IInv
<1> SUFFICES ASSUME Init PROVE IInv
  OBVIOUS
<1>1. /\ items = <<>> /\ Len(items) = 0 /\ DOMAIN items = 1 .. 0
      /\ sent = 0 /\ rejected = 0 /\ taken = 0 /\ lastTaken = 0
      /\ droppedItems = 0
  BY DEF Init
<1>2. isClosed = FALSE /\ sawClosed = FALSE /\ worker = "calling"
  BY DEF Init
<1>3. Order
  BY <1>1 DEF Order, InOrder
<1>4. Accounting
  BY <1>1 DEF Accounting
<1>5. NoLostWakeup /\ Drained
  BY <1>1, <1>2 DEF NoLostWakeup, Drained, DrainedWhenSeenClosed
<1> QED
  BY <1>3, <1>4, <1>5, InitTypeOK DEF IInv

\* Every step preserves each of the five parts.
LEMMA InvariantHolds == Spec => []IInv
<1>1. IInv /\ [Next]_vars => IInv'
  BY TypeStep, OrderStep, AccountingStep, WakeupStep, DrainedStep DEF IInv
<1> QED
  BY <1>1, InitIInv, PTL DEF Spec

\* Items leave in the order in which they were accepted, none twice.
THEOREM OrderKept == Spec => []InOrder
<1>1. IInv => InOrder
  BY DEF IInv, Order
<1> QED
  BY <1>1, InvariantHolds, PTL

\* No push disappears uncounted.
THEOREM PushesAccounted == Spec => []Accounting
<1>1. IInv => Accounting
  BY DEF IInv
<1> QED
  BY <1>1, InvariantHolds, PTL

\* The consumer never sleeps on an item or on a close.
THEOREM WakeupsNotLost == Spec => []NoLostWakeup
<1>1. IInv => NoLostWakeup
  BY DEF IInv
<1> QED
  BY <1>1, InvariantHolds, PTL

\* A consumer that saw the queue closed leaves nothing behind.
THEOREM ClosedMeansDrained == Spec => []DrainedWhenSeenClosed
<1>1. IInv => DrainedWhenSeenClosed
  BY DEF IInv, Drained
<1> QED
  BY <1>1, InvariantHolds, PTL

-----------------------------------------------------------------------------
\* The queue with its consumer implements LossyFifo: each of its steps is an
\* acceptance, an overwriting, a delivery, a close, a departure, or none.
THEOREM ImplementsLossyFifo == Spec => Fifo!Spec
<1>1. Init => Fifo!Init
  BY DEF Init, Fifo!Init
<1>2. ASSUME TypeOK, [Next]_vars PROVE [Fifo!Next]_Fifo!vars
  <2> USE DEF Fifo!vars
  <2>0. /\ items \in Seq(1 .. MaxPushes) /\ Len(items) \in Nat
        /\ Len(items) <= Capacity
    BY <1>2, LenProperties DEF TypeOK
  <2>1. ASSUME NEW t \in Threads, TryPush(t) \/ PushDropOldest(t)
        PROVE  [Fifo!Next]_Fifo!vars
    <3>1. sent' \in 1 .. MaxPushes /\ UNCHANGED <<isClosed, worker>>
      BY <1>2, <2>1 DEF TryPush, PushDropOldest, Offer, TypeOK
    <3>2. CASE Refuse
      BY <3>1, <3>2 DEF Refuse
    <3>3. CASE /\ ~isClosed /\ ~Full /\ items' = Append(items, sent')
               /\ UNCHANGED droppedItems
      <4>1. Fifo!Accept(sent')
        BY <2>0, <3>1, <3>3 DEF Fifo!Accept, Full
      <4> QED
        BY <3>1, <4>1 DEF Fifo!Next
    <3>4. CASE /\ ~isClosed /\ Full /\ items' = Append(Tail(items), sent')
               /\ droppedItems' = droppedItems + 1
      <4>1. Fifo!Overwrite(sent')
        BY <2>0, <3>1, <3>4 DEF Fifo!Overwrite, Full
      <4> QED
        BY <3>1, <4>1 DEF Fifo!Next
    <3> QED
      BY <2>1, <3>2, <3>3, <3>4 DEF TryPush, PushDropOldest
  <2>2. ASSUME NEW t \in Threads, Close(t) PROVE [Fifo!Next]_Fifo!vars
    <3>1. isClosed' = TRUE /\ UNCHANGED <<items, droppedItems, worker>>
      BY <2>2 DEF Close
    <3>2. CASE isClosed
      BY <1>2, <3>1, <3>2 DEF TypeOK
    <3>3. CASE ~isClosed
      BY <3>1, <3>3 DEF Fifo!Close, Fifo!Next
    <3> QED
      BY <3>2, <3>3
  <2>3. ASSUME NEW t \in Threads, Notify(t) PROVE [Fifo!Next]_Fifo!vars
    BY <2>3 DEF Notify, queueVars
  <2>4. CASE Pop
    BY <2>4 DEF Pop, CanLock, Fifo!Deliver, Fifo!Next
  <2>5. CASE Probe
    BY <2>5 DEF Probe, queueVars, Fifo!Abandon, Fifo!Next
  <2>6. CASE PopNothing
    BY <2>6 DEF PopNothing, CanLock, queueVars
  <2>7. CASE Block \/ Handle \/ TimeOut \/ SpuriousWakeup
    BY <2>7 DEF Block, Handle, TimeOut, SpuriousWakeup, queueVars
  <2>8. CASE UNCHANGED vars
    BY <2>8 DEF vars
  <2> QED
    BY <1>2, <2>1, <2>2, <2>3, <2>4, <2>5, <2>6, <2>7, <2>8, StepCases
<1> QED
  BY <1>1, <1>2, TypeCorrect, PTL DEF Spec, Fifo!Spec
=============================================================================
