--------------------------- MODULE WebPage_proofs ---------------------------
(***************************************************************************)
(* Theorems about the browser's page. First what it hears of the server    *)
(* (StatusFeed), for any capacities and any number of frames: the story of *)
(* a segment comes in order, and the numbers of the packets show how many  *)
(* were lost. Then its connection and its audio output (WebClient), for    *)
(* any number of sockets and audio contexts: one connection at a time, and *)
(* sound as the buttons say.                                               *)
(***************************************************************************)
EXTENDS StatusFeed, WebClient, Integers, SequenceTheorems, FunctionTheorems,
        FiniteSetTheorems, TLAPS

USE CapacityAssumption, MaxFramesAssumption
    DEF CapacityAssumption, MaxFramesAssumption

\* What is put into the client's queue.
Message ==
    [kind : {"packet"}, n : 1 .. MaxFrames]
      \cup [kind : {"vad"}, event : {"started", "ended"}, n : 1 .. MaxFrames]
      \cup [kind : {"asr"}, event : {"started", "final", "failed"},
            n : 1 .. MaxFrames]
      \cup [kind : {"state"}, vad : {"idle", "speaking"}, asr : BOOLEAN]
      \cup {Note}

\* What TypeOK does not say: the types of messages, and when an event waits.
QueueTyped ==
    /\ queue \in Seq(Message)
    /\ capture = "event" <=> event \in {"started", "ended"}

\* A segment ends with a frame of its own, so frames bound the segments.
SegmentsBounded ==
    /\ nextId <= sequence + 1
    /\ capture \in {"event", "segment"} => nextId <= sequence
    /\ capture # "read" => sequence >= 1

\* The segments in the order of their numbers: the one the recogniser has,
\* the queued ones, the next one.
SegmentsInOrder ==
    /\ asr = "pop" <=> segment = 0
    /\ segment < nextId
    /\ \A i \in DOMAIN asrQueue :
          /\ segment < asrQueue[i] /\ asrQueue[i] < nextId
          /\ \A j \in 1 .. i - 1 : asrQueue[j] < asrQueue[i]

IsAsr(m) == m.kind = "asr"

IsEnd(m) == m.kind = "vad" /\ m.event = "ended"

\* With news of rank h heard, the news heard or waiting before place k of the
\* messages q is of ranks below b.
OlderThan(q, h, b, k) ==
    h < b /\ \A j \in 1 .. k - 1 : IsAsr(q[j]) => Rank(q[j]) < b

\* StoryInOrder, place by place.
Story(q, h) ==
    \A k \in DOMAIN q :
        /\ IsAsr(q[k]) => OlderThan(q, h, Rank(q[k]), k)
        /\ IsEnd(q[k]) => OlderThan(q, h, 2 * q[k].n, k)

NewsBelow(b) == OlderThan(queue, heard, b, Len(queue) + 1)

\* All the news so far is older than what the recogniser says next.
NewsToCome ==
    /\ asr = "begin" => NewsBelow(2 * segment)
    /\ asr = "transcribe" => NewsBelow(2 * segment + 1)
    /\ asr = "end" => NewsBelow(2 * segment + 2)
    /\ \A i \in DOMAIN asrQueue : NewsBelow(2 * asrQueue[i])
    /\ NewsBelow(2 * nextId)

\* The packets in q have the numbers from lo to hi, in order and without a gap.
PacketsIn(q, lo, hi) ==
    /\ \A k \in DOMAIN q : IsPacket(q[k]) =>
          /\ q[k].n \in lo .. hi
          /\ \A j \in 1 .. k - 1 : IsPacket(q[j]) => q[j].n < q[k].n
    /\ \A n \in lo .. hi : \E k \in DOMAIN q : IsPacket(q[k]) /\ q[k].n = n

\* The number behind those heard and lost.
NextPacket == page.packet + 1 + lost - missed

\* The packets in the queue are the last ones sent. Behind the first one heard,
\* those missed and those overwritten lately fill the gap to them.
PacketsKept ==
    /\ client # "started" => page.packet = 0
    /\ client = "unknown" => queue = <<>>
    /\ page.packet = 0 =>
          /\ lost = 0 /\ missed = 0
          /\ \E lo \in 1 .. Sent + 1 : PacketsIn(queue, lo, Sent)
    /\ page.packet # 0 =>
          /\ missed <= lost /\ missed <= page.packet
          /\ NextPacket <= Sent + 1
          /\ PacketsIn(queue, NextPacket, Sent)

\* The inductive invariant.
IInv ==
    /\ TypeOK /\ QueueTyped /\ SegmentsBounded /\ SegmentsInOrder
    /\ NewsToCome /\ Story(queue, heard) /\ PacketsKept

-----------------------------------------------------------------------------
(* Sequences of messages.                                                  *)

\* r is what is left of q without the d oldest messages, up to place Len(q) - d.
Continues(q, r, d) ==
    /\ Len(q) \in Nat /\ d <= Len(q)
    /\ \A k \in 1 .. Len(q) - d : r[k] = q[k + d]

\* r is q with m put in, for which the d oldest messages have made room.
Extends(q, r, d, m) ==
    /\ Continues(q, r, d)
    /\ Len(r) = Len(q) - d + 1 /\ r[Len(r)] = m

\* r is q without its oldest message.
Follows(q, r) == Continues(q, r, 1) /\ Len(r) = Len(q) - 1

\* Numbers and ranks are numbers.
LEMMA MessageFacts ==
    ASSUME NEW m \in Message
    PROVE  /\ IsPacket(m) => m.n \in 1 .. MaxFrames /\ ~IsAsr(m) /\ ~IsEnd(m)
           /\ IsAsr(m) => m.n \in 1 .. MaxFrames /\ Rank(m) \in Nat
                           /\ ~IsPacket(m) /\ ~IsEnd(m)
           /\ IsEnd(m) => m.n \in 1 .. MaxFrames /\ ~IsAsr(m) /\ ~IsPacket(m)
  BY DEF Message, IsPacket, IsAsr, IsEnd, Rank, Note

\* What has come in is the newest, and the older news moves to the front.
LEMMA OlderExtended ==
    ASSUME NEW q \in Seq(Message), NEW r \in Seq(Message), NEW d \in {0, 1},
           NEW m \in Message, Extends(q, r, d, m), NEW h \in Nat, NEW b \in Int,
           OlderThan(q, h, b, Len(q) + 1), IsAsr(m) => Rank(m) < b
    PROVE  OlderThan(r, h, b, Len(r) + 1)
<1> SUFFICES ASSUME NEW j \in 1 .. Len(r), IsAsr(r[j]) PROVE Rank(r[j]) < b
  BY DEF OlderThan, Extends, Continues
<1>1. CASE j = Len(r)
  BY <1>1 DEF Extends
<1>2. CASE j # Len(r)
  <2>1. /\ Len(r) = Len(q) - d + 1 /\ Len(q) \in Nat /\ d <= Len(q)
        /\ \A k \in 1 .. Len(q) - d : r[k] = q[k + d]
    BY DEF Extends, Continues
  <2>2. j \in 1 .. Len(q) - d /\ j + d \in 1 .. Len(q)
    BY <1>2, <2>1
  <2>3. r[j] = q[j + d]
    BY <2>1, <2>2
  <2> QED
    BY <2>2, <2>3 DEF OlderThan
<1> QED
  BY <1>1, <1>2

\* The story goes on with something newer than all before it.
LEMMA StoryExtended ==
    ASSUME NEW q \in Seq(Message), NEW r \in Seq(Message), NEW d \in {0, 1},
           NEW m \in Message, Extends(q, r, d, m), NEW h \in Nat, Story(q, h),
           IsAsr(m) => OlderThan(q, h, Rank(m), Len(q) + 1),
           IsEnd(m) => OlderThan(q, h, 2 * m.n, Len(q) + 1)
    PROVE  Story(r, h)
<1>a. /\ Len(r) = Len(q) - d + 1 /\ Len(q) \in Nat /\ d <= Len(q)
      /\ \A k \in 1 .. Len(q) - d : r[k] = q[k + d]
  BY DEF Extends, Continues
<1>1. ASSUME NEW k \in 1 .. Len(q) - d + 1, NEW b \in Int,
             OlderThan(q, h, b, k + d)
      PROVE  OlderThan(r, h, b, k)
  <2> SUFFICES ASSUME NEW j \in 1 .. k - 1, IsAsr(r[j]) PROVE Rank(r[j]) < b
    BY <1>1 DEF OlderThan
  <2>1. r[j] = q[j + d] /\ j + d \in 1 .. k + d - 1
    BY <1>a
  <2> QED
    BY <1>1, <2>1 DEF OlderThan
<1>2. ASSUME NEW b \in Int, OlderThan(q, h, b, Len(q) + 1)
      PROVE  OlderThan(r, h, b, Len(r))
  <2>1. Len(r) \in 1 .. Len(q) - d + 1 /\ Len(r) + d = Len(q) + 1
    BY <1>a
  <2> QED
    BY <1>1, <1>2, <2>1
<1>3. DOMAIN r = 1 .. Len(r) /\ DOMAIN q = 1 .. Len(q)
  BY LenProperties
<1> SUFFICES ASSUME NEW k \in 1 .. Len(r)
             PROVE  /\ IsAsr(r[k]) => OlderThan(r, h, Rank(r[k]), k)
                    /\ IsEnd(r[k]) => OlderThan(r, h, 2 * r[k].n, k)
  BY <1>3 DEF Story
<1>4. r[k] \in Message
  BY <1>3
<1>5. /\ IsAsr(r[k]) => Rank(r[k]) \in Int
      /\ IsEnd(r[k]) => 2 * r[k].n \in Int
  BY <1>4, MessageFacts
<1>6. CASE k = Len(r)
  BY <1>2, <1>5, <1>6 DEF Extends
<1>7. CASE k # Len(r)
  <2>1. r[k] = q[k + d] /\ k + d \in DOMAIN q /\ k \in 1 .. Len(q) - d
    BY <1>a, <1>3, <1>7
  <2>2. /\ IsAsr(r[k]) => OlderThan(q, h, Rank(r[k]), k + d)
        /\ IsEnd(r[k]) => OlderThan(q, h, 2 * r[k].n, k + d)
    BY <2>1 DEF Story
  <2> QED
    BY <1>1, <1>5, <2>1, <2>2
<1> QED
  BY <1>6, <1>7

\* News that is heard was in the queue before.
LEMMA OlderFollows ==
    ASSUME NEW q \in Seq(Message), NEW r \in Seq(Message), Follows(q, r),
           NEW h \in Nat, NEW g \in Nat,
           \/ g = h
           \/ IsAsr(q[1]) /\ g = Rank(q[1]),
           NEW b \in Int, NEW k \in 1 .. Len(q), OlderThan(q, h, b, k + 1)
    PROVE  OlderThan(r, g, b, k)
<1>1. g < b
  BY DEF OlderThan
<1>2. ASSUME NEW j \in 1 .. k - 1, IsAsr(r[j]) PROVE Rank(r[j]) < b
  <2>0. /\ Len(q) \in Nat
        /\ \A i \in 1 .. Len(q) - 1 : r[i] = q[i + 1]
    BY DEF Follows, Continues
  <2>1. r[j] = q[j + 1] /\ j + 1 \in 1 .. k + 1 - 1
    BY <2>0
  <2> QED
    BY <1>2, <2>1 DEF OlderThan
<1> QED
  BY <1>1, <1>2 DEF OlderThan

\* Hearing the oldest message keeps the order of the others.
LEMMA StoryFollows ==
    ASSUME NEW q \in Seq(Message), NEW r \in Seq(Message), Follows(q, r),
           NEW h \in Nat, NEW g \in Nat,
           \/ g = h
           \/ IsAsr(q[1]) /\ g = Rank(q[1]),
           Story(q, h)
    PROVE  Story(r, g)
<1>1. DOMAIN r = 1 .. Len(r) /\ DOMAIN q = 1 .. Len(q)
  BY LenProperties
<1> SUFFICES ASSUME NEW k \in 1 .. Len(r)
             PROVE  /\ IsAsr(r[k]) => OlderThan(r, g, Rank(r[k]), k)
                    /\ IsEnd(r[k]) => OlderThan(r, g, 2 * r[k].n, k)
  BY <1>1 DEF Story
<1>2. r[k] = q[k + 1] /\ k + 1 \in DOMAIN q /\ k \in 1 .. Len(q)
  BY <1>1 DEF Follows, Continues
<1>3. /\ IsAsr(r[k]) => Rank(r[k]) \in Int
      /\ IsEnd(r[k]) => 2 * r[k].n \in Int
  <2>1. r[k] \in Message
    BY <1>1
  <2> QED
    BY <2>1, MessageFacts
<1>4. /\ IsAsr(r[k]) => OlderThan(q, h, Rank(r[k]), k + 1)
      /\ IsEnd(r[k]) => OlderThan(q, h, 2 * r[k].n, k + 1)
  BY <1>2 DEF Story
<1> QED
  BY <1>2, <1>3, <1>4, OlderFollows

\* The oldest packet is the one with the lowest number.
LEMMA OldestPacket ==
    ASSUME NEW q \in Seq(Message), Len(q) >= 1, IsPacket(q[1]),
           NEW lo \in Int, NEW hi \in Int, PacketsIn(q, lo, hi)
    PROVE  q[1].n = lo /\ lo <= hi
<1>1. DOMAIN q = 1 .. Len(q) /\ Len(q) \in Nat /\ 1 \in DOMAIN q
  BY LenProperties
<1>2. q[1].n \in lo .. hi
  BY <1>1 DEF PacketsIn
<1>3. PICK k \in DOMAIN q : IsPacket(q[k]) /\ q[k].n = lo
  BY <1>2 DEF PacketsIn
<1>4. k # 1 => q[1].n < q[k].n
  <2>1. k # 1 => 1 \in 1 .. k - 1
    BY <1>1
  <2> QED
    BY <1>3, <2>1 DEF PacketsIn
<1> QED
  BY <1>2, <1>3, <1>4

\* PacketsIn for the first k messages.
PacketsUpTo(q, last, lo, hi) ==
    /\ \A k \in 1 .. last : IsPacket(q[k]) =>
          /\ q[k].n \in lo .. hi
          /\ \A j \in 1 .. k - 1 : IsPacket(q[j]) => q[j].n < q[k].n
    /\ \A n \in lo .. hi : \E k \in 1 .. last : IsPacket(q[k]) /\ q[k].n = n

\* If the oldest message goes, at most the lowest number goes with it.
LEMMA PacketsContinue ==
    ASSUME NEW q \in Seq(Message), NEW r, NEW d \in {0, 1},
           Continues(q, r, d),
           NEW lo \in Int, NEW hi \in Int, PacketsIn(q, lo, hi),
           NEW new \in Int,
           new = IF d = 1 /\ IsPacket(q[1]) THEN lo + 1 ELSE lo
    PROVE  PacketsUpTo(r, Len(q) - d, new, hi)
<1>1. DOMAIN q = 1 .. Len(q) /\ Len(q) \in Nat
  BY LenProperties
<1>2. d = 1 /\ IsPacket(q[1]) => q[1].n = lo
  BY <1>1, OldestPacket DEF Continues
<1>3. ASSUME NEW k \in 1 .. Len(q) - d, IsPacket(r[k])
      PROVE  /\ r[k].n \in new .. hi
             /\ \A j \in 1 .. k - 1 : IsPacket(r[j]) => r[j].n < r[k].n
  <2>1. r[k] = q[k + d] /\ k + d \in DOMAIN q
    <3>1. r[k] = q[k + d]
      BY DEF Continues
    <3>2. k + d \in 1 .. Len(q)
      BY <1>1
    <3> QED
      BY <1>1, <3>1, <3>2
  <2>2. /\ q[k + d].n \in lo .. hi
        /\ \A j \in 1 .. k + d - 1 : IsPacket(q[j]) => q[j].n < q[k + d].n
    BY <1>3, <2>1 DEF PacketsIn
  <2>3. r[k].n \in new .. hi
    <3>1. CASE d = 1 /\ IsPacket(q[1])
      <4>1. 1 \in 1 .. k + d - 1
        BY <3>1
      <4>2. q[k + d].n > lo
        BY <1>2, <2>2, <3>1, <4>1
      <4> QED
        BY <2>1, <2>2, <3>1, <4>2
    <3>2. CASE ~(d = 1 /\ IsPacket(q[1]))
      BY <2>1, <2>2, <3>2
    <3> QED
      BY <3>1, <3>2
  <2>4. ASSUME NEW j \in 1 .. k - 1
        PROVE  r[j] = q[j + d] /\ j + d \in 1 .. k + d - 1
    <3>1. j \in 1 .. Len(q) - d
      BY <1>1
    <3>2. r[j] = q[j + d]
      BY <3>1 DEF Continues
    <3> QED
      BY <3>2
  <2>5. \A j \in 1 .. k - 1 : IsPacket(r[j]) => r[j].n < r[k].n
    BY <2>1, <2>2, <2>4
  <2> QED
    BY <2>3, <2>5
<1>4. ASSUME NEW n \in new .. hi
      PROVE  \E k \in 1 .. Len(q) - d : IsPacket(r[k]) /\ r[k].n = n
  <2>1. PICK k \in DOMAIN q : IsPacket(q[k]) /\ q[k].n = n
    BY DEF PacketsIn
  <2>2. ~(d = 1 /\ k = 1)
    BY <1>2, <2>1
  <2>3. k - d \in 1 .. Len(q) - d /\ (k - d) + d = k
    BY <1>1, <2>2
  <2>4. r[k - d] = q[k]
    BY <2>3 DEF Continues
  <2> QED
    BY <2>1, <2>3, <2>4
<1> QED
  BY <1>3, <1>4 DEF PacketsUpTo

\* A packet that comes in has the next number.
LEMMA PacketsExtended ==
    ASSUME NEW q \in Seq(Message), NEW r \in Seq(Message), NEW d \in {0, 1},
           NEW m \in Message, Extends(q, r, d, m),
           NEW lo \in Int, NEW hi \in Int, PacketsIn(q, lo, hi), lo <= hi + 1,
           NEW newLo \in Int, NEW newHi \in Int,
           newLo = IF d = 1 /\ IsPacket(q[1]) THEN lo + 1 ELSE lo,
           \/ IsPacket(m) /\ m.n = hi + 1 /\ newHi = hi + 1
           \/ ~IsPacket(m) /\ newHi = hi
    PROVE  PacketsIn(r, newLo, newHi) /\ newLo <= newHi + 1
<1>1. /\ DOMAIN r = 1 .. Len(r) /\ Len(r) = Len(q) - d + 1
      /\ Len(q) \in Nat /\ d <= Len(q) /\ r[Len(r)] = m
  BY LenProperties DEF Extends, Continues
<1>2. PacketsUpTo(r, Len(q) - d, newLo, hi)
  BY PacketsContinue DEF Extends
<1>3. newLo <= hi + 1
  BY <1>1, OldestPacket
<1>4. ASSUME NEW k \in DOMAIN r, IsPacket(r[k])
      PROVE  /\ r[k].n \in newLo .. newHi
             /\ \A j \in 1 .. k - 1 : IsPacket(r[j]) => r[j].n < r[k].n
  <2>1. CASE k = Len(r)
    <3>1. r[k].n = hi + 1 /\ newHi = hi + 1
      BY <1>1, <1>4, <2>1
    <3>2. \A j \in 1 .. k - 1 : j \in 1 .. Len(q) - d
      BY <1>1, <2>1
    <3>3. \A j \in 1 .. k - 1 : IsPacket(r[j]) => r[j].n \in newLo .. hi
      BY <1>2, <3>2 DEF PacketsUpTo
    <3> QED
      BY <1>3, <3>1, <3>3
  <2>2. CASE k # Len(r)
    <3>1. k \in 1 .. Len(q) - d
      BY <1>1, <2>2
    <3> QED
      <4>1. /\ r[k].n \in newLo .. hi
            /\ \A j \in 1 .. k - 1 : IsPacket(r[j]) => r[j].n < r[k].n
        BY <1>2, <1>4, <3>1 DEF PacketsUpTo
      <4>2. hi <= newHi
        OBVIOUS
      <4> QED
        BY <4>1, <4>2
  <2> QED
    BY <2>1, <2>2
<1>5. ASSUME NEW n \in newLo .. newHi
      PROVE  \E k \in DOMAIN r : IsPacket(r[k]) /\ r[k].n = n
  <2>1. CASE n \in newLo .. hi
    <3>1. PICK k \in 1 .. Len(q) - d : IsPacket(r[k]) /\ r[k].n = n
      BY <1>2, <2>1 DEF PacketsUpTo
    <3>2. k \in DOMAIN r
      BY <1>1
    <3> QED
      BY <3>1, <3>2
  <2>2. CASE n \notin newLo .. hi
    <3>1. IsPacket(m) /\ n = m.n
      BY <2>2
    <3>2. Len(r) \in DOMAIN r
      BY <1>1
    <3> QED
      BY <1>1, <3>1, <3>2
  <2> QED
    BY <2>1, <2>2
<1> QED
  BY <1>3, <1>4, <1>5 DEF PacketsIn

\* The numbers from lo to hi are as many as the packets.
LEMMA PacketsCounted ==
    ASSUME NEW q \in Seq(Message), NEW lo \in Int, NEW hi \in Int,
           lo <= hi + 1, PacketsIn(q, lo, hi)
    PROVE  Cardinality({k \in DOMAIN q : IsPacket(q[k])}) = hi - lo + 1
<1> DEFINE packets == {k \in DOMAIN q : IsPacket(q[k])}
           place == [n \in lo .. hi |-> CHOOSE k \in packets : q[k].n = n]
<1>1. DOMAIN q = 1 .. Len(q) /\ Len(q) \in Nat
  BY LenProperties
<1>2. ASSUME NEW n \in lo .. hi PROVE place[n] \in packets /\ q[place[n]].n = n
  <2>1. \E k \in packets : q[k].n = n
    BY DEF PacketsIn
  <2> QED
    BY <2>1
<1>3. ASSUME NEW k \in packets PROVE q[k].n \in lo .. hi /\ place[q[k].n] = k
  <2>1. q[k].n \in lo .. hi
    BY DEF PacketsIn
  <2>2. place[q[k].n] \in packets /\ q[place[q[k].n]].n = q[k].n
    BY <1>2, <2>1
  <2>3. ASSUME NEW i \in packets, NEW j \in packets, i < j
        PROVE  q[i].n < q[j].n
    <3>1. i \in 1 .. j - 1
      BY <1>1, <2>3
    <3> QED
      BY <3>1 DEF PacketsIn
  <2>4. packets \subseteq Nat
    BY <1>1
  <2> HIDE DEF place, packets
  <2> DEFINE i == place[q[k].n]
  <2>5. i \in packets /\ i \in Nat /\ k \in Nat /\ q[i].n = q[k].n
    BY <2>2, <2>4
  <2>6. ~(i < k) /\ ~(k < i)
    BY <2>1, <2>3, <2>5
  <2> QED
    BY <2>1, <2>5, <2>6
<1>4. place \in [lo .. hi -> packets]
  BY <1>2
<1> HIDE DEF place
<1>5. place \in Bijection(lo .. hi, packets)
  <2>1. \A a, b \in lo .. hi : place[a] = place[b] => a = b
    BY <1>2
  <2>2. \A k \in packets : \E n \in lo .. hi : place[n] = k
    BY <1>3
  <2> HIDE DEF packets
  <2> QED
    BY <1>4, <2>1, <2>2, Fun_IsBij
<1>6. ExistsBijection(lo .. hi, packets)
  BY <1>5 DEF ExistsBijection
<1> QED
  BY <1>6, FS_Interval, FS_Bijection

-----------------------------------------------------------------------------
(* One step of the feed.                                                   *)

\* enqueue() puts the message at the end; the capacity is not 0, so a full
\* queue has an oldest one to give up.
LEMMA BroadcastFacts ==
    ASSUME TypeOK, QueueTyped, NEW m \in Message, Broadcast(m)
    PROVE  \/ client = "unknown" /\ UNCHANGED feedVars
           \/ /\ client # "unknown"
              /\ queue' \in Seq(Message) /\ Len(queue') <= QueueCapacity
              /\ \E d \in {0, 1} :
                    /\ Extends(queue, queue', d, m)
                    /\ lost' = IF d = 1 /\ IsPacket(queue[1]) /\ page.packet # 0
                               THEN lost + 1 ELSE lost
<1>1. CASE client = "unknown"
  BY <1>1 DEF Broadcast
<1>2. CASE client # "unknown"
  <2>1. /\ queue' = Append(IF Full THEN Tail(queue) ELSE queue, m)
        /\ lost' = IF Full /\ IsPacket(Head(queue)) /\ page.packet # 0
                   THEN lost + 1 ELSE lost
    BY <1>2 DEF Broadcast
  <2>2. /\ queue \in Seq(Message) /\ Len(queue) \in Nat
        /\ Len(queue) <= QueueCapacity
    BY LenProperties DEF TypeOK, QueueTyped
  <2>3. CASE Full
    <3> DEFINE tail == Tail(queue)
    <3>1. queue # <<>> /\ Len(queue) = QueueCapacity
      BY <2>2, <2>3, EmptySeq DEF Full
    <3>2. /\ tail \in Seq(Message) /\ Len(tail) = Len(queue) - 1
          /\ \A k \in 1 .. Len(tail) : tail[k] = queue[k + 1]
      BY <2>2, <3>1, HeadTailProperties
    <3>3. queue' = Append(tail, m) /\ Head(queue) = queue[1]
      BY <2>1, <2>3
    <3> HIDE DEF tail
    <3>4. /\ queue' \in Seq(Message) /\ Len(queue') = Len(tail) + 1
          /\ \A k \in 1 .. Len(tail) : queue'[k] = tail[k]
          /\ queue'[Len(tail) + 1] = m
      BY <3>2, <3>3, AppendProperties
    <3>5. Extends(queue, queue', 1, m)
      BY <2>2, <3>1, <3>2, <3>4 DEF Extends, Continues
    <3>6. Len(queue') <= QueueCapacity
      BY <2>1, <2>2, <2>3, <3>1, <3>2, <3>4 DEF Full
    <3> QED
      BY <1>2, <2>1, <2>3, <3>3, <3>4, <3>5, <3>6
  <2>4. CASE ~Full
    <3>1. queue' = Append(queue, m) /\ Len(queue) < QueueCapacity
      BY <2>1, <2>2, <2>4 DEF Full
    <3>2. /\ queue' \in Seq(Message) /\ Len(queue') = Len(queue) + 1
          /\ \A k \in 1 .. Len(queue) : queue'[k] = queue[k]
          /\ queue'[Len(queue) + 1] = m
      BY <2>2, <3>1, AppendProperties
    <3>3. Extends(queue, queue', 0, m)
      BY <2>2, <3>2 DEF Extends, Continues
    <3>4. Len(queue') <= QueueCapacity
      BY <2>1, <2>2, <2>4, <3>1, <3>2 DEF Full
    <3> QED
      BY <1>2, <2>1, <2>4, <3>2, <3>3, <3>4
  <2> QED
    BY <2>3, <2>4
<1> QED
  BY <1>1, <1>2

\* The page gets the oldest message.
LEMMA ArrivalFacts ==
    ASSUME TypeOK, QueueTyped, NEW m, Arrives(m)
    PROVE  /\ m = queue[1] /\ m \in Message /\ Len(queue) \in Nat \ {0}
           /\ queue' \in Seq(Message) /\ Len(queue') <= QueueCapacity
           /\ Follows(queue, queue')
<1>1. queue \in Seq(Message) /\ queue # <<>> /\ Len(queue) <= QueueCapacity
  BY DEF TypeOK, QueueTyped, Arrives
<1>2. m = queue[1] /\ m \in Message /\ queue' = Tail(queue)
  BY <1>1, HeadTailProperties DEF Arrives
<1>3. /\ Tail(queue) \in Seq(Message) /\ Len(Tail(queue)) = Len(queue) - 1
      /\ \A k \in 1 .. Len(Tail(queue)) : Tail(queue)[k] = queue[k + 1]
  BY <1>1, HeadTailProperties
<1>4. Len(queue) \in Nat \ {0}
  BY <1>1, EmptySeq, LenProperties
<1> QED
  BY <1>1, <1>2, <1>3, <1>4 DEF Follows, Continues

\* What a message says of packets, recogniser and detector when it is sent.
Truthful(m) ==
    /\ \/ IsPacket(m) /\ m.n = Sent + 1 /\ Sent' = Sent + 1
       \/ ~IsPacket(m) /\ Sent' = Sent
    /\ IsAsr(m) => \/ TellStarted /\ Rank(m) = 2 * segment
                   \/ TellResult /\ Rank(m) = 2 * segment + 1
    /\ IsEnd(m) => m.n = nextId

\* A step leaves the queue alone, sends one message or delivers one.
LEMMA FeedStep ==
    ASSUME TypeOK, QueueTyped, SegmentsBounded, SegmentsInOrder, [Next]_vars
    PROVE  /\ client' = "unknown" => client = "unknown"
           /\ client' # "started" => client # "started"
           /\ \/ UNCHANGED <<queue, lost, page, missed, heard>>
                 /\ Sent' = Sent
              \/ \E m \in Message :
                    /\ Broadcast(m) /\ UNCHANGED <<page, missed, heard>>
                    /\ Truthful(m)
              \/ Received /\ Sent' = Sent
<1> USE DEF captureVars, asrVars, feedVars, pageVars, Sent
<1>0. CASE UNCHANGED vars
  BY <1>0 DEF vars
<1>1. CASE Frame \/ SpeechStarts \/ SpeechEnds \/ SpeechOverflows \/
           FrameAfterReset
  <2>1. sequence \in Nat
    BY DEF TypeOK
  <2>2. /\ capture = "read" /\ capture' # "read" /\ sequence' = sequence + 1
        /\ UNCHANGED <<queue, lost, client, page, missed, heard>>
    BY <1>1 DEF Frame, SpeechStarts, SpeechEnds, SpeechOverflows,
         FrameAfterReset, Numbered, CaptureGoes
  <2> QED
    BY <2>1, <2>2
<1>2. CASE SubmitSegment
  BY <1>2 DEF SubmitSegment, CaptureGoes
<1>3. CASE PopSegment \/ EndProcessing
  BY <1>3 DEF PopSegment, EndProcessing, AsrGoes
<1>4. CASE ReadVad \/ ReadAsr \/ ListClient
  BY <1>4 DEF ReadVad, ReadAsr, ListClient, MainGoes, Accepts
<1>5. CASE TellVadEvent
  <2> DEFINE m == VadEvent(event, nextId)
  <2>1. event \in {"started", "ended"} /\ nextId \in 1 .. MaxFrames
    BY <1>5 DEF TellVadEvent, CaptureGoes, QueueTyped, SegmentsBounded, TypeOK
  <2>2. m \in Message /\ ~IsPacket(m) /\ ~IsAsr(m) /\ m.n = nextId
    BY <2>1 DEF Message, VadEvent, IsPacket, IsAsr
  <2>3. /\ Broadcast(m) /\ UNCHANGED <<client, page, missed, heard>>
        /\ Sent' = Sent
    BY <1>5 DEF TellVadEvent, CaptureGoes
  <2> QED
    BY <2>2, <2>3 DEF Truthful
<1>6. CASE DropSegment \/ Overflow
  <2>1. Note \in Message /\ ~IsPacket(Note) /\ ~IsAsr(Note) /\ ~IsEnd(Note)
    BY DEF Message, Note, IsPacket, IsAsr, IsEnd
  <2>2. /\ Broadcast(Note) /\ UNCHANGED <<client, page, missed, heard>>
        /\ Sent' = Sent
    BY <1>6 DEF DropSegment, Overflow, CaptureGoes
  <2> QED
    BY <2>1, <2>2 DEF Truthful
<1>7. CASE StartClient
  <2>1. Note \in Message /\ ~IsPacket(Note) /\ ~IsAsr(Note) /\ ~IsEnd(Note)
    BY DEF Message, Note, IsPacket, IsAsr, IsEnd
  <2>2. /\ Broadcast(Note) /\ UNCHANGED <<page, missed, heard>>
        /\ Sent' = Sent /\ client' = "started"
    BY <1>7 DEF StartClient, Accepts
  <2> QED
    BY <2>1, <2>2 DEF Truthful
<1>8. CASE SendPacket
  <2> DEFINE m == Packet(sequence)
  <2>1. sequence \in 1 .. MaxFrames
    BY <1>8 DEF SendPacket, CaptureGoes, SegmentsBounded, TypeOK
  <2>2. m \in Message /\ IsPacket(m) /\ ~IsAsr(m) /\ ~IsEnd(m)
    BY <2>1 DEF Message, Packet, IsPacket, IsAsr, IsEnd
  <2>3. m.n = Sent + 1 /\ Sent' = Sent + 1
    BY <1>8, <2>1 DEF SendPacket, CaptureGoes, Packet
  <2>4. Broadcast(m) /\ UNCHANGED <<client, page, missed, heard>>
    BY <1>8 DEF SendPacket, CaptureGoes
  <2> QED
    BY <2>2, <2>3, <2>4 DEF Truthful
<1>9. ASSUME TellStarted \/ TellResult,
             NEW m, Broadcast(m), m.n = segment,
             \/ TellStarted /\ m = AsrEvent("started", segment)
             \/ TellResult /\ m = AsrEvent("final", segment)
             \/ TellResult /\ m = AsrEvent("failed", segment)
      PROVE  \E x \in Message : Broadcast(x) /\ Truthful(x)
  <2>1. segment \in 1 .. MaxFrames
    BY <1>9 DEF TellStarted, TellResult, AsrGoes, SegmentsInOrder, TypeOK
  <2>2. m \in Message /\ ~IsPacket(m) /\ ~IsEnd(m)
    BY <1>9, <2>1 DEF Message, AsrEvent, IsPacket, IsEnd
  <2>3. \/ TellStarted /\ Rank(m) = 2 * segment
        \/ TellResult /\ Rank(m) = 2 * segment + 1
    BY <1>9 DEF AsrEvent, Rank
  <2>4. Sent' = Sent
    BY <1>9 DEF TellStarted, TellResult, AsrGoes
  <2> QED
    BY <1>9, <2>2, <2>3, <2>4 DEF Truthful
<1>10. CASE TellStarted \/ TellResult
  <2>1. UNCHANGED <<client, page, missed, heard>>
    BY <1>10 DEF TellStarted, TellResult, AsrGoes
  <2>2. CASE TellStarted
    BY <1>9, <2>1, <2>2 DEF TellStarted, AsrEvent
  <2>3. CASE TellResult
    BY <1>9, <2>1, <2>3 DEF TellResult, AsrEvent
  <2> QED
    BY <1>10, <2>2, <2>3
<1>11. CASE SendState
  <2> DEFINE m == StateMessage(fields)
  <2>1. m \in Message /\ ~IsPacket(m) /\ ~IsAsr(m) /\ ~IsEnd(m)
    BY DEF StateMessage, Message, IsPacket, IsAsr, IsEnd, TypeOK
  <2>2. /\ Broadcast(m) /\ UNCHANGED <<client, page, missed, heard>>
        /\ Sent' = Sent
    BY <1>11 DEF SendState, MainGoes
  <2> QED
    BY <2>1, <2>2 DEF Truthful
<1>12. CASE Received
  BY <1>12 DEF Received, OnPacket, OnVadEvent, OnAsrEvent, OnState, OnNote,
       Arrives
<1> QED
  BY <1>0, <1>1, <1>2, <1>3, <1>4, <1>5, <1>6, <1>7, <1>8, <1>10, <1>11, <1>12
     DEF Next, CaptureStep, AsrStep, MainStep


\* Messages are typed, and an event waits from the frame until it is told.
LEMMA QueueStep ==
    ASSUME TypeOK, QueueTyped, SegmentsBounded, SegmentsInOrder, [Next]_vars
    PROVE  QueueTyped'
<1>1. queue' \in Seq(Message)
  <2>1. CASE \E m \in Message : Broadcast(m)
    BY <2>1, BroadcastFacts DEF QueueTyped, feedVars
  <2>2. CASE Received
    BY <2>2, ArrivalFacts DEF Received, OnPacket, OnVadEvent, OnAsrEvent,
         OnState, OnNote
  <2> QED
    BY <2>1, <2>2, FeedStep DEF QueueTyped
<1>2. (capture = "event" <=> event \in {"started", "ended"})'
  <2> USE DEF captureVars, QueueTyped
  <2>1. CASE CaptureStep
    BY <2>1 DEF CaptureStep, TellVadEvent, SubmitSegment, DropSegment, Overflow,
         SendPacket, CaptureGoes
  <2>2. CASE AsrStep \/ MainStep \/ ListClient \/ StartClient
    BY <2>2 DEF AsrStep, MainStep, PopSegment, TellStarted, TellResult,
         EndProcessing, ReadVad, ReadAsr, SendState, ListClient,
         StartClient, AsrGoes, MainGoes, Accepts
  <2>3. CASE Received
    BY <2>3 DEF Received, OnPacket, OnVadEvent, OnAsrEvent, OnState, OnNote,
         Arrives
  <2>4. CASE \/ Frame \/ SpeechStarts \/ SpeechEnds \/ SpeechOverflows
             \/ FrameAfterReset
    BY <2>4 DEF Frame, SpeechStarts, SpeechEnds, SpeechOverflows,
         FrameAfterReset, Numbered, CaptureGoes
  <2> QED
    BY <2>1, <2>2, <2>3, <2>4 DEF Next, vars
<1> QED
  BY <1>1, <1>2 DEF QueueTyped

\* A segment gets its number behind its last frame.
LEMMA BoundStep ==
    ASSUME TypeOK, QueueTyped, SegmentsBounded, [Next]_vars
    PROVE  SegmentsBounded'
<1> USE DEF captureVars, SegmentsBounded
<1>1. sequence \in Nat /\ nextId \in Nat
  BY DEF TypeOK
<1>2. CASE CaptureStep
  BY <1>1, <1>2 DEF CaptureStep, TellVadEvent, SubmitSegment, DropSegment,
     Overflow, SendPacket, CaptureGoes
<1>3. CASE AsrStep \/ MainStep \/ ListClient \/ StartClient
  BY <1>3 DEF AsrStep, MainStep, PopSegment, TellStarted, TellResult,
       EndProcessing, ReadVad, ReadAsr, SendState, ListClient,
       StartClient, AsrGoes, MainGoes, Accepts
<1>4. CASE Received
  BY <1>4 DEF Received, OnPacket, OnVadEvent, OnAsrEvent, OnState, OnNote,
       Arrives
<1>5. CASE \/ Frame \/ SpeechStarts \/ SpeechEnds \/ SpeechOverflows
           \/ FrameAfterReset
  <2>1. /\ capture = "read" /\ sequence' = sequence + 1 /\ nextId' = nextId
        /\ capture' \in {"packet", "event", "segment"}
    BY <1>5 DEF Frame, SpeechStarts, SpeechEnds, SpeechOverflows,
         FrameAfterReset, Numbered, CaptureGoes
  <2> QED
    BY <1>1, <2>1
<1> QED
  BY <1>2, <1>3, <1>4, <1>5 DEF Next, vars

\* The capture thread numbers segments upwards, the recogniser takes the oldest.
LEMMA OrderStep ==
    ASSUME TypeOK, SegmentsInOrder, [Next]_vars
    PROVE  SegmentsInOrder'
<1> USE DEF captureVars, asrVars, SegmentsInOrder
<1>1. /\ asrQueue \in Seq(1 .. MaxFrames) /\ Len(asrQueue) \in Nat
      /\ DOMAIN asrQueue = 1 .. Len(asrQueue)
      /\ nextId \in Nat \ {0} /\ segment \in Nat
  BY LenProperties DEF TypeOK
<1>2. CASE SubmitSegment
  <2>1. /\ asrQueue' = Append(asrQueue, nextId) /\ nextId' = nextId + 1
        /\ UNCHANGED <<asr, segment>> /\ nextId \in Nat
    BY <1>1, <1>2 DEF SubmitSegment, CaptureGoes
  <2>2. asrQueue \in Seq(Nat)
    BY <1>1, SeqMonotonic
  <2>3. /\ Len(asrQueue') = Len(asrQueue) + 1
        /\ DOMAIN asrQueue' = 1 .. Len(asrQueue) + 1
        /\ \A i \in 1 .. Len(asrQueue) : asrQueue'[i] = asrQueue[i]
        /\ asrQueue'[Len(asrQueue) + 1] = nextId
    BY <2>1, <2>2, AppendProperties, LenProperties
  <2>4. ASSUME NEW i \in DOMAIN asrQueue'
        PROVE  /\ segment < asrQueue'[i] /\ asrQueue'[i] < nextId + 1
               /\ \A j \in 1 .. i - 1 : asrQueue'[j] < asrQueue'[i]
    <3>1. CASE i \in DOMAIN asrQueue
      <4>1. asrQueue[i] \in Nat
        BY <2>2, <3>1
      <4> QED
        BY <1>1, <2>3, <3>1, <4>1
    <3>2. CASE i = Len(asrQueue) + 1
      <4>1. asrQueue'[i] = nextId
        BY <2>3, <3>2
      <4>2. \A j \in 1 .. i - 1 :
               asrQueue'[j] = asrQueue[j] /\ j \in DOMAIN asrQueue
        BY <1>1, <2>3, <3>2
      <4> QED
        BY <1>1, <4>1, <4>2
    <3> QED
      BY <1>1, <2>3, <3>1, <3>2
  <2> QED
    BY <1>1, <2>1, <2>4
<1>3. CASE PopSegment
  <2>1. /\ asrQueue # <<>> /\ asrQueue' = Tail(asrQueue)
        /\ segment' = asrQueue[1] /\ asr' = "begin" /\ nextId' = nextId
    BY <1>1, <1>3 DEF PopSegment, AsrGoes
  <2>2. /\ DOMAIN asrQueue' = 1 .. Len(asrQueue) - 1
        /\ \A i \in 1 .. Len(asrQueue) - 1 : asrQueue'[i] = asrQueue[i + 1]
        /\ 1 \in DOMAIN asrQueue
    BY <1>1, <2>1, HeadTailProperties, LenProperties, EmptySeq
  <2>3. segment' # 0 /\ segment' < nextId'
    BY <1>1, <2>1, <2>2
  <2>4. ASSUME NEW i \in DOMAIN asrQueue'
        PROVE  /\ asrQueue[1] < asrQueue'[i] /\ asrQueue'[i] < nextId
               /\ \A j \in 1 .. i - 1 : asrQueue'[j] < asrQueue'[i]
    <3>1. /\ asrQueue'[i] = asrQueue[i + 1] /\ i + 1 \in DOMAIN asrQueue
          /\ 1 \in 1 .. i + 1 - 1
      BY <1>1, <2>2
    <3>2. \A j \in 1 .. i - 1 : /\ asrQueue'[j] = asrQueue[j + 1]
                                /\ j + 1 \in 1 .. i + 1 - 1
      BY <1>1, <2>2
    <3>6. \A k \in 1 .. Len(asrQueue) :
             /\ asrQueue[k] < nextId
             /\ \A j \in 1 .. k - 1 : asrQueue[j] < asrQueue[k]
      BY <1>1
    <3>7. i + 1 \in 1 .. Len(asrQueue) /\ i \in Nat
      BY <1>1, <2>2
    <3> HIDE DEF SegmentsInOrder
    <3>3. /\ asrQueue[i + 1] < nextId
          /\ \A j \in 1 .. i + 1 - 1 : asrQueue[j] < asrQueue[i + 1]
      BY <3>6, <3>7
    <3>4. asrQueue[1] < asrQueue[i + 1]
      BY <3>1, <3>3
    <3>5. \A j \in 1 .. i - 1 : asrQueue'[j] < asrQueue[i + 1]
      BY <3>2, <3>3
    <3> QED
      BY <3>1, <3>3, <3>4, <3>5
  <2> QED
    BY <2>1, <2>3, <2>4
<1>4. CASE DropSegment
  <2>1. nextId' = nextId + 1 /\ UNCHANGED <<asrQueue, asr, segment>>
    BY <1>4 DEF DropSegment, CaptureGoes
  <2>2. \A i \in DOMAIN asrQueue : asrQueue[i] \in Nat
    BY <1>1
  <2> QED
    BY <1>1, <2>1, <2>2
<1>5. CASE EndProcessing
  <2>1. /\ asr' = "pop" /\ segment' = 0 /\ UNCHANGED <<asrQueue, nextId>>
    BY <1>5 DEF EndProcessing, AsrGoes
  <2>2. \A i \in DOMAIN asrQueue : asrQueue[i] \in Nat \ {0}
    BY <1>1
  <2> QED
    BY <1>1, <2>1, <2>2
<1>6. CASE TellStarted \/ TellResult
  BY <1>6 DEF TellStarted, TellResult, AsrGoes
<1>7. CASE \/ TellVadEvent \/ Overflow \/ SendPacket \/ Frame
           \/ SpeechStarts \/ SpeechEnds \/ SpeechOverflows \/ FrameAfterReset
  BY <1>7 DEF TellVadEvent, Overflow, SendPacket, CaptureGoes, Frame,
       SpeechStarts, SpeechEnds, SpeechOverflows, FrameAfterReset, Numbered
<1>8. CASE MainStep \/ ListClient \/ StartClient
  BY <1>8 DEF MainStep, ReadVad, ReadAsr, SendState, ListClient,
     StartClient, MainGoes, Accepts
<1>9. CASE Received
  BY <1>9 DEF Received, OnPacket, OnVadEvent, OnAsrEvent, OnState, OnNote,
       Arrives
<1> QED
  BY <1>2, <1>3, <1>4, <1>5, <1>6, <1>7, <1>8, <1>9 DEF Next, CaptureStep,
     AsrStep, vars


-----------------------------------------------------------------------------
(* The story of the segments.                                              *)

\* After the step all news is older than b.
NewsBelowThen(b) == OlderThan(queue', heard', b, Len(queue') + 1)

\* What is neither heard nor in the queue comes in by a broadcast.
LEMMA NewsSent ==
    ASSUME TypeOK, QueueTyped, NEW m \in Message, Broadcast(m),
           UNCHANGED heard, NEW b \in Int, NewsBelow(b),
           IsAsr(m) => Rank(m) < b
    PROVE  NewsBelowThen(b)
<1>1. queue \in Seq(Message) /\ heard \in Nat /\ heard' = heard
  BY DEF TypeOK, QueueTyped
<1>2. CASE UNCHANGED feedVars
  BY <1>1, <1>2 DEF feedVars, NewsBelow, NewsBelowThen
<1>3. CASE /\ queue' \in Seq(Message)
           /\ \E d \in {0, 1} : Extends(queue, queue', d, m)
  BY <1>1, <1>3, OlderExtended DEF NewsBelow, NewsBelowThen
<1> QED
  BY <1>2, <1>3, BroadcastFacts

\* What the page hears of the recogniser is the message it gets.
LEMMA HeardStep ==
    ASSUME TypeOK, QueueTyped, Received
    PROVE  /\ Len(queue) \in Nat \ {0} /\ Follows(queue, queue')
           /\ queue \in Seq(Message) /\ queue' \in Seq(Message)
           /\ heard \in Nat /\ heard' \in Nat
           /\ \/ heard' = heard
              \/ IsAsr(queue[1]) /\ heard' = Rank(queue[1])
<1> DEFINE m == Head(queue)
<1>1. /\ Arrives(m)
      /\ \/ UNCHANGED heard
         \/ IsAsr(m) /\ heard' = Rank(m)
  <2>1. OnPacket(m) \/ OnVadEvent(m) \/ OnState(m) \/ OnNote(m) =>
          Arrives(m) /\ UNCHANGED heard
    BY DEF OnPacket, OnVadEvent, OnState, OnNote, pageVars
  <2>2. OnAsrEvent(m) => Arrives(m) /\ IsAsr(m) /\ heard' = Rank(m)
    BY DEF OnAsrEvent, IsAsr
  <2> QED
    BY <2>1, <2>2 DEF Received
<1>2. heard \in Nat /\ queue \in Seq(Message)
  BY DEF TypeOK, QueueTyped
<1> QED
  BY <1>1, <1>2, ArrivalFacts, MessageFacts

\* Only the recogniser brings news.
LEMMA NewsStays ==
    ASSUME TypeOK, QueueTyped, SegmentsBounded, SegmentsInOrder, [Next]_vars,
           NEW b \in Int, NewsBelow(b),
           TellStarted => 2 * segment < b, TellResult => 2 * segment + 1 < b
    PROVE  NewsBelowThen(b)
<1>1. CASE UNCHANGED <<queue, heard>>
  BY <1>1 DEF NewsBelow, NewsBelowThen
<1>2. CASE \E m \in Message : Broadcast(m) /\ UNCHANGED heard /\ Truthful(m)
  BY <1>2, NewsSent DEF Truthful
<1>3. CASE Received
  <2>1. Len(queue) \in 1 .. Len(queue) /\ Len(queue') + 1 = Len(queue)
    BY <1>3, HeardStep DEF Follows
  <2> QED
    BY <1>3, <2>1, HeardStep, OlderFollows DEF NewsBelow, NewsBelowThen
<1> QED
  BY <1>1, <1>2, <1>3, FeedStep

\* What is older than a is older than what comes after a.
LEMMA NewsLater ==
    ASSUME TypeOK, QueueTyped
    PROVE  \A a, b \in Int : a <= b /\ NewsBelow(a) => NewsBelow(b)
<1>1. ASSUME NEW q \in Seq(Message), NEW h \in Nat,
             NEW a \in Int, NEW b \in Int,
             a <= b, OlderThan(q, h, a, Len(q) + 1)
      PROVE  OlderThan(q, h, b, Len(q) + 1)
  <2> SUFFICES ASSUME NEW j \in 1 .. Len(q), IsAsr(q[j]) PROVE Rank(q[j]) < b
    BY <1>1, LenProperties DEF OlderThan
  <2>1. Rank(q[j]) \in Nat
    BY LenProperties, MessageFacts
  <2>2. Rank(q[j]) < a
    BY <1>1, LenProperties DEF OlderThan
  <2> QED
    BY <1>1, <2>1, <2>2
<1> QED
  BY <1>1 DEF NewsBelow, TypeOK, QueueTyped

\* Who has to do with the segments.
LEMMA QuietSteps ==
    ASSUME [Next]_vars
    PROVE  \/ UNCHANGED <<asr, segment, asrQueue, nextId>>
           \/ DropSegment /\ UNCHANGED <<asr, segment, asrQueue>>
           \/ SubmitSegment \/ AsrStep
<1> USE DEF captureVars, asrVars
<1>1. CASE \/ TellVadEvent \/ Overflow \/ SendPacket \/ Frame
           \/ SpeechStarts \/ SpeechEnds \/ SpeechOverflows \/ FrameAfterReset
  BY <1>1 DEF TellVadEvent, Overflow, SendPacket, CaptureGoes, Frame,
       SpeechStarts, SpeechEnds, SpeechOverflows, FrameAfterReset, Numbered
<1>2. CASE MainStep \/ ListClient \/ StartClient
  BY <1>2 DEF MainStep, ReadVad, ReadAsr, SendState, ListClient,
     StartClient, MainGoes, Accepts
<1>3. CASE Received
  BY <1>3 DEF Received, OnPacket, OnVadEvent, OnAsrEvent, OnState, OnNote,
       Arrives
<1>4. CASE DropSegment
  BY <1>4 DEF DropSegment, CaptureGoes
<1> QED
  BY <1>1, <1>2, <1>3, <1>4 DEF Next, CaptureStep, vars

\* The recogniser speaks of one segment after the other, in its order.
LEMMA NewsStep ==
    ASSUME TypeOK, QueueTyped, SegmentsBounded, SegmentsInOrder, NewsToCome,
           [Next]_vars
    PROVE  NewsToCome'
<1>1. /\ segment \in Nat /\ nextId \in Nat
      /\ \A i \in DOMAIN asrQueue : asrQueue[i] \in Nat
  BY DEF TypeOK
<1>2. SUFFICES
        /\ asr' = "begin" => NewsBelowThen(2 * segment')
        /\ asr' = "transcribe" => NewsBelowThen(2 * segment' + 1)
        /\ asr' = "end" => NewsBelowThen(2 * segment' + 2)
        /\ \A i \in DOMAIN asrQueue' : NewsBelowThen(2 * asrQueue'[i])
        /\ NewsBelowThen(2 * nextId')
  BY DEF NewsToCome, NewsBelow, NewsBelowThen
<1>3. CASE ~(TellStarted \/ TellResult)
  <2>1. \A b \in Int : NewsBelow(b) => NewsBelowThen(b)
    BY <1>3, NewsStays
  <2>2. CASE \/ UNCHANGED <<asr, segment, asrQueue, nextId>>
             \/ DropSegment /\ UNCHANGED <<asr, segment, asrQueue>>
    <3>1. nextId' = nextId \/ nextId' = nextId + 1
      BY <2>2 DEF DropSegment
    <3>2. NewsBelowThen(2 * nextId')
      BY <1>1, <2>1, <3>1, NewsLater DEF NewsToCome
    <3> QED
      BY <1>1, <2>1, <2>2, <3>2 DEF NewsToCome
  <2>3. CASE SubmitSegment
    <3>1. /\ asrQueue' = Append(asrQueue, nextId) /\ nextId' = nextId + 1
          /\ UNCHANGED <<asr, segment>>
      BY <2>3 DEF SubmitSegment, CaptureGoes, asrVars
    <3>2. /\ asrQueue \in Seq(Nat) /\ nextId \in Nat
          /\ DOMAIN asrQueue = 1 .. Len(asrQueue) /\ Len(asrQueue) \in Nat
      BY <1>1, SeqMonotonic, LenProperties DEF TypeOK
    <3>3. \A i \in DOMAIN asrQueue' :
             \/ i \in DOMAIN asrQueue /\ asrQueue'[i] = asrQueue[i]
             \/ asrQueue'[i] = nextId
      BY <3>1, <3>2, AppendProperties, LenProperties
    <3>4. NewsBelowThen(2 * nextId) /\ NewsBelowThen(2 * nextId')
      BY <1>1, <2>1, <3>1, NewsLater DEF NewsToCome
    <3>5. \A i \in DOMAIN asrQueue' : NewsBelowThen(2 * asrQueue'[i])
      BY <1>1, <2>1, <3>3, <3>4 DEF NewsToCome
    <3> QED
      BY <1>1, <2>1, <3>1, <3>4, <3>5 DEF NewsToCome
  <2>4. CASE PopSegment
    <3>1. /\ asrQueue # <<>> /\ asrQueue' = Tail(asrQueue) /\ asr' = "begin"
          /\ segment' = Head(asrQueue) /\ nextId' = nextId
      BY <2>4 DEF PopSegment, AsrGoes, captureVars
    <3>2. /\ \A i \in DOMAIN asrQueue' :
                i + 1 \in DOMAIN asrQueue /\ asrQueue'[i] = asrQueue[i + 1]
          /\ 1 \in DOMAIN asrQueue /\ segment' = asrQueue[1]
      BY <3>1, HeadTailProperties, LenProperties, EmptySeq DEF TypeOK
    <3>3. NewsBelowThen(2 * segment') /\ NewsBelowThen(2 * nextId')
      BY <1>1, <2>1, <3>1, <3>2 DEF NewsToCome
    <3>4. \A i \in DOMAIN asrQueue' : NewsBelowThen(2 * asrQueue'[i])
      BY <1>1, <2>1, <3>2 DEF NewsToCome
    <3> QED
      BY <3>1, <3>3, <3>4
  <2>5. CASE EndProcessing
    <3>1. asr' = "pop" /\ UNCHANGED <<asrQueue, nextId>>
      BY <2>5 DEF EndProcessing, AsrGoes, captureVars
    <3> QED
      BY <1>1, <2>1, <3>1 DEF NewsToCome
  <2> QED
    BY <1>3, <2>2, <2>3, <2>4, <2>5, QuietSteps DEF AsrStep
<1>4. CASE TellStarted \/ TellResult
  <2>1. /\ UNCHANGED <<segment, asrQueue, nextId>>
        /\ \/ TellStarted /\ asr = "begin" /\ asr' = "transcribe"
           \/ TellResult /\ asr = "transcribe" /\ asr' = "end"
    <3>1. TellStarted => /\ UNCHANGED <<segment, asrQueue, nextId>>
                         /\ asr = "begin" /\ asr' = "transcribe"
      BY DEF TellStarted, AsrGoes, captureVars
    <3>2. TellResult => /\ UNCHANGED <<segment, asrQueue, nextId>>
                        /\ asr = "transcribe" /\ asr' = "end"
      BY DEF TellResult, AsrGoes, captureVars
    <3> QED
      BY <1>4, <3>1, <3>2
  <2>2. ~(TellStarted /\ TellResult)
    BY <2>1 DEF TellStarted, TellResult, AsrGoes
  <2>3. \A i \in DOMAIN asrQueue : NewsBelowThen(2 * asrQueue[i])
    BY <1>1, <2>1, NewsStays DEF NewsToCome, SegmentsInOrder
  <2>4. NewsBelowThen(2 * nextId)
    BY <1>1, <2>1, NewsStays DEF NewsToCome, SegmentsInOrder
  <2>5. CASE TellStarted
    <3>1. NewsBelow(2 * segment + 1)
      BY <1>1, <2>1, <2>2, <2>5, NewsLater DEF NewsToCome
    <3>2. NewsBelowThen(2 * segment + 1)
      BY <1>1, <2>2, <2>5, <3>1, NewsStays
    <3> QED
      BY <2>1, <2>2, <2>3, <2>4, <2>5, <3>2
  <2>6. CASE TellResult
    <3>1. NewsBelow(2 * segment + 2)
      BY <1>1, <2>1, <2>2, <2>6, NewsLater DEF NewsToCome
    <3>2. NewsBelowThen(2 * segment + 2)
      BY <1>1, <2>2, <2>6, <3>1, NewsStays
    <3> QED
      BY <2>1, <2>2, <2>3, <2>4, <2>6, <3>2
  <2> QED
    BY <1>4, <2>5, <2>6
<1> QED
  BY <1>3, <1>4

\* A client hears nothing out of order, because nothing is sent out of order.
LEMMA StoryStep ==
    ASSUME TypeOK, QueueTyped, SegmentsBounded, SegmentsInOrder, NewsToCome,
           Story(queue, heard), [Next]_vars
    PROVE  Story(queue', heard')
<1>1. CASE UNCHANGED <<queue, heard>>
  BY <1>1
<1>2. ASSUME NEW m \in Message, Broadcast(m), UNCHANGED heard, Truthful(m)
      PROVE  Story(queue', heard')
  <2>1. /\ IsAsr(m) => OlderThan(queue, heard, Rank(m), Len(queue) + 1)
        /\ IsEnd(m) => OlderThan(queue, heard, 2 * m.n, Len(queue) + 1)
    BY <1>2 DEF Truthful, TellStarted, TellResult, AsrGoes, NewsToCome,
         NewsBelow
  <2>2. queue \in Seq(Message) /\ heard \in Nat /\ heard' = heard
    BY <1>2 DEF TypeOK, QueueTyped
  <2>3. CASE UNCHANGED feedVars
    BY <2>2, <2>3 DEF feedVars
  <2>4. CASE queue' \in Seq(Message)
             /\ \E d \in {0, 1} : Extends(queue, queue', d, m)
    BY <2>1, <2>2, <2>4, StoryExtended
  <2> QED
    BY <1>2, <2>3, <2>4, BroadcastFacts
<1>3. CASE Received
  BY <1>3, HeardStep, StoryFollows
<1> QED
  BY <1>1, <1>2, <1>3, FeedStep


-----------------------------------------------------------------------------
(* The packets.                                                            *)

\* Where the packets in the queue begin.
PacketsBegin(lo) ==
    /\ PacketsIn(queue, lo, Sent) /\ lo <= Sent + 1
    /\ page.packet = 0 => lo \in Nat \ {0} /\ lost = 0 /\ missed = 0
    /\ page.packet # 0 => lo = NextPacket /\ missed <= lost
                            /\ missed <= page.packet

\* PacketsKept says so for any queue of a client.
LEMMA PacketsPlaced ==
    ASSUME TypeOK, QueueTyped, SegmentsBounded, PacketsKept
    PROVE  /\ Sent \in Nat /\ Sent <= MaxFrames
           /\ lost \in Nat /\ missed \in Nat /\ page.packet \in Nat
           /\ \E lo \in Int : PacketsBegin(lo)
<1>1. Sent \in Nat /\ Sent <= MaxFrames
  BY DEF Sent, SegmentsBounded, TypeOK
<1>2. lost \in Nat /\ missed \in Nat /\ page.packet \in Nat
  BY DEF TypeOK
<1>3. CASE page.packet = 0
  <2>1. PICK lo \in 1 .. Sent + 1 : PacketsIn(queue, lo, Sent)
    BY <1>3 DEF PacketsKept
  <2>2. PacketsBegin(lo) /\ lo \in Int
    BY <1>1, <1>3, <2>1 DEF PacketsBegin, PacketsKept
  <2> QED
    BY <1>1, <1>2, <2>2
<1>4. CASE page.packet # 0
  <2>1. NextPacket \in Int
    BY <1>2 DEF NextPacket
  <2>2. PacketsBegin(NextPacket)
    BY <1>4 DEF PacketsBegin, PacketsKept
  <2> QED
    BY <1>1, <1>2, <2>1, <2>2
<1> QED
  BY <1>3, <1>4

\* Nothing is in an empty queue.
LEMMA NoPackets == \A n \in Nat : PacketsIn(<<>>, n + 1, n)
<1> SUFFICES ASSUME NEW n \in Nat PROVE PacketsIn(<<>>, n + 1, n)
  OBVIOUS
<1> QED
  BY DEF PacketsIn

\* A packet that is overwritten is one more to be missed.
LEMMA PacketsSent ==
    ASSUME TypeOK, QueueTyped, SegmentsBounded, PacketsKept,
           NEW m \in Message, Broadcast(m), Truthful(m),
           UNCHANGED <<page, missed, heard>>,
           client' = "unknown" => client = "unknown",
           client' # "started" => client # "started"
    PROVE  PacketsKept' /\ lost' \in Nat
<1>1. /\ Sent \in Nat /\ lost \in Nat /\ missed \in Nat /\ page.packet \in Nat
      /\ queue \in Seq(Message)
  BY PacketsPlaced DEF QueueTyped
<1>2. /\ \/ IsPacket(m) /\ m.n = Sent + 1 /\ Sent' = Sent + 1
         \/ ~IsPacket(m) /\ Sent' = Sent
      /\ UNCHANGED <<page, missed>>
  BY DEF Truthful
<1>3. CASE client = "unknown"
  <2>1. queue = <<>> /\ queue' = queue /\ lost' = lost
    BY <1>3, BroadcastFacts DEF PacketsKept, feedVars
  <2>2. page.packet = 0 /\ lost = 0 /\ missed = 0
    BY <1>3 DEF PacketsKept
  <2>3. Sent' \in Nat /\ Sent' + 1 \in 1 .. Sent' + 1
    BY <1>1, <1>2
  <2>4. PacketsIn(queue', Sent' + 1, Sent')
    BY <2>1, <2>3, NoPackets
  <2> QED
    BY <1>2, <2>1, <2>2, <2>3, <2>4 DEF PacketsKept
<1>4. CASE client # "unknown"
  <2>1. PICK d \in {0, 1} :
           /\ Extends(queue, queue', d, m)
           /\ lost' = IF d = 1 /\ IsPacket(queue[1]) /\ page.packet # 0
                      THEN lost + 1 ELSE lost
    BY <1>4, BroadcastFacts
  <2>2. queue' \in Seq(Message)
    BY <1>4, BroadcastFacts
  <2>3. PICK lo \in Int : PacketsBegin(lo)
    BY PacketsPlaced
  <2> DEFINE new == IF d = 1 /\ IsPacket(queue[1]) THEN lo + 1 ELSE lo
  <2>4. PacketsIn(queue', new, Sent') /\ new <= Sent' + 1
    <3>1. PacketsIn(queue, lo, Sent) /\ lo <= Sent + 1
      BY <2>3 DEF PacketsBegin
    <3>2. new \in Int /\ Sent' \in Int /\ Sent \in Int
      BY <1>1, <1>2
    <3>3. new = IF d = 1 /\ IsPacket(queue[1]) THEN lo + 1 ELSE lo
      OBVIOUS
    <3> HIDE DEF new
    <3>4. Extends(queue, queue', d, m)
      BY <2>1
    <3>5. ASSUME NEW hi \in Int,
                 \/ IsPacket(m) /\ m.n = Sent + 1 /\ hi = Sent + 1
                 \/ ~IsPacket(m) /\ hi = Sent
          PROVE  PacketsIn(queue', new, hi) /\ new <= hi + 1
      <4>1. queue \in Seq(Message)
        BY <1>1
      <4> QED
        BY <2>2, <3>1, <3>2, <3>3, <3>4, <3>5, <4>1, PacketsExtended
    <3> QED
      BY <1>2, <3>2, <3>5
  <2>5. CASE page.packet = 0
    <3>1. lost' = 0 /\ missed' = 0 /\ page'.packet = 0
      BY <1>2, <2>1, <2>3, <2>5 DEF PacketsBegin
    <3>2. new \in 1 .. Sent' + 1
      BY <1>1, <1>2, <2>3, <2>4, <2>5 DEF PacketsBegin
    <3> QED
      BY <1>4, <2>4, <3>1, <3>2 DEF PacketsKept
  <2>6. CASE page.packet # 0
    <3>1. lo = NextPacket /\ missed <= lost /\ missed <= page.packet
      BY <2>3, <2>6 DEF PacketsBegin
    <3>2. /\ lost' \in Nat /\ missed' <= lost' /\ missed' <= page'.packet
          /\ new = page'.packet + 1 + lost' - missed'
      <4>1. NextPacket = page.packet + 1 + lost - missed
        BY DEF NextPacket
      <4>2. page'.packet = page.packet /\ missed' = missed
        BY <1>2
      <4>3. CASE d = 1 /\ IsPacket(queue[1])
        BY <1>1, <2>1, <2>6, <3>1, <4>1, <4>2, <4>3
      <4>4. CASE ~(d = 1 /\ IsPacket(queue[1]))
        BY <1>1, <2>1, <2>6, <3>1, <4>1, <4>2, <4>4
      <4> QED
        BY <4>3, <4>4
    <3>3. client' = "started" /\ page'.packet # 0
      BY <1>2, <2>6 DEF PacketsKept
    <3> HIDE DEF new
    <3> QED
      BY <2>4, <3>2, <3>3 DEF PacketsKept, NextPacket
  <2> QED
    BY <2>5, <2>6
<1> QED
  BY <1>3, <1>4

\* A packet is heard in its turn, and the page counts those that were lost.
LEMMA PacketsHeard ==
    ASSUME TypeOK, QueueTyped, SegmentsBounded, PacketsKept, Received,
           Sent' = Sent
    PROVE  /\ PacketsKept'
           /\ (lost \in Nat /\ missed \in Nat /\ page.packet \in Nat)'
<1> DEFINE m == Head(queue)
<1>1. /\ Sent \in Nat /\ lost \in Nat /\ missed \in Nat /\ page.packet \in Nat
      /\ queue \in Seq(Message) /\ lost' = lost
      /\ client = "started" /\ client' = "started"
  BY PacketsPlaced DEF QueueTyped, Received, OnPacket, OnVadEvent, OnAsrEvent,
     OnState, OnNote, Arrives
<1>2. /\ m = queue[1] /\ m \in Message /\ Len(queue) \in Nat \ {0}
      /\ queue' \in Seq(Message) /\ Follows(queue, queue')
  BY ArrivalFacts DEF Received, OnPacket, OnVadEvent, OnAsrEvent, OnState,
     OnNote
<1>3. PICK lo \in Int : PacketsBegin(lo)
  BY PacketsPlaced
<1>4. PacketsIn(queue, lo, Sent) /\ lo <= Sent + 1
  BY <1>3 DEF PacketsBegin
<1> DEFINE new == IF IsPacket(m) THEN lo + 1 ELSE lo
<1>5. PacketsIn(queue', new, Sent)
  <2>1. PacketsUpTo(queue', Len(queue) - 1, new, Sent)
    BY <1>1, <1>2, <1>4, PacketsContinue DEF Follows
  <2>2. DOMAIN queue' = 1 .. Len(queue) - 1
    BY <1>2, LenProperties DEF Follows
  <2> QED
    BY <2>1, <2>2 DEF PacketsUpTo, PacketsIn
<1>6. CASE IsPacket(m)
  <2>1. m.n = lo /\ lo <= Sent /\ m.n \in Nat \ {0}
    BY <1>1, <1>2, <1>4, <1>6, OldestPacket, MessageFacts
  <2>2. /\ page'.packet = m.n
        /\ missed' = IF page.packet = 0 THEN 0
                     ELSE missed + m.n - page.packet - 1
    BY <1>6 DEF Received, OnPacket, OnVadEvent, OnAsrEvent, OnState, OnNote,
       IsPacket, TypeOK
  <2>3. missed' = lost /\ lost <= m.n
    <3>1. CASE page.packet = 0
      BY <1>1, <1>3, <2>1, <2>2, <3>1 DEF PacketsBegin
    <3>2. CASE page.packet # 0
      <4>1. /\ lo = page.packet + 1 + lost - missed
            /\ missed <= lost /\ missed <= page.packet
        BY <1>3, <3>2 DEF PacketsBegin, NextPacket
      <4>2. m.n = page.packet + 1 + lost - missed
        BY <2>1, <4>1
      <4>3. missed' = missed + m.n - page.packet - 1
        BY <2>2, <3>2
      <4>4. m.n \in Nat /\ lost \in Nat /\ missed \in Nat /\ page.packet \in Nat
        BY <1>1, <2>1
      <4> HIDE DEF m
      <4>5. missed' = lost
        BY <4>2, <4>3, <4>4
      <4>6. lost <= m.n
        BY <4>1, <4>2, <4>4
      <4> QED
        BY <4>5, <4>6
    <3> QED
      BY <3>1, <3>2
  <2>4. new = page'.packet + 1 + lost' - missed' /\ new <= Sent + 1
    BY <1>1, <1>6, <2>1, <2>2, <2>3
  <2> QED
    <3>1. /\ page'.packet \in Nat \ {0} /\ lost' \in Nat /\ missed' \in Nat
          /\ missed' <= lost' /\ missed' <= page'.packet
      BY <1>1, <2>1, <2>2, <2>3
    <3> HIDE DEF m, new
    <3> QED
      BY <1>1, <1>5, <2>4, <3>1 DEF PacketsKept, NextPacket
<1>7. CASE ~IsPacket(m)
  <2>1. page'.packet = page.packet /\ missed' = missed
    BY <1>7 DEF Received, OnPacket, OnVadEvent, OnAsrEvent, OnState, OnNote,
       pageVars, TypeOK
  <2> QED
    BY <1>1, <1>3, <1>4, <1>5, <1>7, <2>1 DEF PacketsBegin, PacketsKept,
       NextPacket
<1> QED
  BY <1>6, <1>7

\* Every step keeps the account of the packets.
LEMMA PacketStep ==
    ASSUME TypeOK, QueueTyped, SegmentsBounded, SegmentsInOrder, PacketsKept,
           [Next]_vars
    PROVE  /\ PacketsKept'
           /\ lost' \in 0 .. MaxFrames /\ missed' \in 0 .. MaxFrames
           /\ page'.packet \in 0 .. MaxFrames
<1>1. /\ client' = "unknown" => client = "unknown"
      /\ client' # "started" => client # "started"
  BY FeedStep
<1>2. PacketsKept' /\ (lost \in Nat /\ missed \in Nat /\ page.packet \in Nat)'
  <2>1. lost \in Nat /\ missed \in Nat /\ page.packet \in Nat
    BY PacketsPlaced
  <2>2. CASE /\ UNCHANGED <<queue, lost, page, missed, heard>>
             /\ Sent' = Sent
    BY <1>1, <2>1, <2>2 DEF PacketsKept, NextPacket
  <2>3. CASE \E m \in Message :
                /\ Broadcast(m) /\ UNCHANGED <<page, missed, heard>>
                /\ Truthful(m)
    BY <1>1, <2>1, <2>3, PacketsSent
  <2>4. CASE Received /\ Sent' = Sent
    BY <2>4, PacketsHeard
  <2> QED
    BY <2>2, <2>3, <2>4, FeedStep
<1>3. Sent' <= MaxFrames /\ Sent' \in Nat
  <2>1. Sent \in Nat /\ Sent <= MaxFrames
    BY PacketsPlaced
  <2>2. \A m \in Message : IsPacket(m) => m.n \in 1 .. MaxFrames
    BY MessageFacts
  <2>3. \/ Sent' = Sent
        \/ \E m \in Message : Truthful(m)
    BY FeedStep
  <2> QED
    BY <2>1, <2>2, <2>3 DEF Truthful
<1>4. CASE page'.packet = 0
  <2>1. lost' = 0 /\ missed' = 0
    BY <1>2, <1>4 DEF PacketsKept
  <2> QED
    BY <1>2, <1>4, <2>1
<1>5. CASE page'.packet # 0
  <2>1. /\ missed' <= lost' /\ missed' <= page'.packet
        /\ page'.packet + 1 + lost' - missed' <= Sent' + 1
    BY <1>2, <1>5 DEF PacketsKept, NextPacket
  <2> QED
    BY <1>2, <1>3, <2>1
<1> QED
  BY <1>2, <1>4, <1>5

-----------------------------------------------------------------------------
(* Types.                                                                  *)

\* The numbers are bounded as PacketStep and SegmentsBounded say, the queues
\* by their capacities.
LEMMA TypeStep ==
    ASSUME TypeOK, QueueTyped, SegmentsBounded, SegmentsInOrder, PacketsKept,
           [Next]_vars
    PROVE  TypeOK'
<1>1. /\ capture' \in {"read", "event", "segment", "packet"}
      /\ sequence' \in 0 .. MaxFrames
      /\ event' \in {"none", "started", "ended", "reset"}
      /\ vadState' \in {"idle", "speaking"}
      /\ nextId' \in 1 .. MaxFrames + 1
  <2> USE DEF captureVars, TypeOK
  <2>1. CASE TellVadEvent \/ Overflow \/ SendPacket
    BY <2>1 DEF TellVadEvent, Overflow, SendPacket, CaptureGoes
  <2>2. CASE SubmitSegment \/ DropSegment
    <3>1. nextId <= sequence /\ sequence \in 0 .. MaxFrames
      BY <2>2 DEF SubmitSegment, DropSegment, CaptureGoes, SegmentsBounded
    <3>2. /\ capture' = "packet" /\ nextId' = nextId + 1
          /\ UNCHANGED <<sequence, event, vadState>>
      BY <2>2 DEF SubmitSegment, DropSegment, CaptureGoes
    <3>3. nextId + 1 \in 1 .. MaxFrames + 1
      BY <3>1
    <3> QED
      BY <3>2, <3>3
  <2>3. CASE \/ Frame \/ SpeechStarts \/ SpeechEnds \/ SpeechOverflows
             \/ FrameAfterReset
    <3>1. sequence' = sequence + 1 /\ sequence < MaxFrames /\ nextId' = nextId
      BY <2>3 DEF Frame, SpeechStarts, SpeechEnds, SpeechOverflows,
           FrameAfterReset, Numbered
    <3>2. sequence' \in 0 .. MaxFrames
      BY <3>1
    <3>3. capture' \in {"event", "segment", "packet"}
      BY <2>3 DEF Frame, SpeechStarts, SpeechEnds, SpeechOverflows,
           FrameAfterReset, CaptureGoes
    <3>4. /\ event' \in {"none", "started", "ended", "reset"}
          /\ vadState' \in {"idle", "speaking"}
      BY <2>3 DEF Frame, SpeechStarts, SpeechEnds, SpeechOverflows,
           FrameAfterReset
    <3> QED
      BY <3>1, <3>2, <3>3, <3>4
  <2>4. CASE AsrStep \/ MainStep \/ ListClient \/ StartClient
    BY <2>4 DEF AsrStep, MainStep, PopSegment, TellStarted, TellResult,
         EndProcessing, ReadVad, ReadAsr, SendState, ListClient,
         StartClient, AsrGoes, MainGoes, Accepts
  <2>5. CASE Received
    BY <2>5 DEF Received, OnPacket, OnVadEvent, OnAsrEvent, OnState, OnNote,
         Arrives
  <2> QED
    BY <2>1, <2>2, <2>3, <2>4, <2>5 DEF Next, CaptureStep, vars
<1>2. /\ segment' \in 0 .. MaxFrames /\ processing' \in BOOLEAN
      /\ asrQueue' \in Seq(1 .. MaxFrames) /\ Len(asrQueue') <= AsrCapacity
      /\ asr' \in {"pop", "begin", "transcribe", "end"}
  <2>1. CASE SubmitSegment
    <3>1. nextId \in 1 .. MaxFrames
      BY <2>1 DEF SubmitSegment, CaptureGoes, SegmentsBounded, TypeOK
    <3>2. /\ asrQueue \in Seq(1 .. MaxFrames) /\ Len(asrQueue) < AsrCapacity
          /\ asrQueue' = Append(asrQueue, nextId)
          /\ UNCHANGED <<asr, segment, processing>>
      BY <2>1 DEF SubmitSegment, CaptureGoes, asrVars, TypeOK
    <3>3. /\ asrQueue' \in Seq(1 .. MaxFrames)
          /\ Len(asrQueue') = Len(asrQueue) + 1
      BY <3>1, <3>2, AppendProperties
    <3> QED
      BY <3>2, <3>3, LenProperties DEF TypeOK
  <2>2. CASE PopSegment
    <3>1. /\ asrQueue \in Seq(1 .. MaxFrames) /\ asrQueue # <<>>
          /\ segment' = Head(asrQueue) /\ asrQueue' = Tail(asrQueue)
          /\ processing' = TRUE /\ asr' = "begin" /\ Len(asrQueue) \in Nat
      BY <2>2, LenProperties DEF PopSegment, AsrGoes, TypeOK
    <3> QED
      BY <3>1, HeadTailProperties DEF TypeOK
  <2>3. CASE TellStarted \/ TellResult
    <3>1. UNCHANGED <<segment, asrQueue, processing>>
      BY <2>3 DEF TellStarted, TellResult
    <3>2. asr' \in {"transcribe", "end"}
      BY <2>3 DEF TellStarted, TellResult, AsrGoes
    <3>3. /\ segment \in 0 .. MaxFrames /\ processing \in BOOLEAN
          /\ asrQueue \in Seq(1 .. MaxFrames) /\ Len(asrQueue) <= AsrCapacity
      BY DEF TypeOK
    <3> QED
      BY <3>1, <3>2, <3>3
  <2>7. CASE EndProcessing
    <3>1. UNCHANGED asrQueue /\ segment' = 0 /\ processing' = FALSE
      BY <2>7 DEF EndProcessing
    <3>2. asr' = "pop"
      BY <2>7 DEF EndProcessing, AsrGoes
    <3>3. asrQueue' \in Seq(1 .. MaxFrames) /\ Len(asrQueue') <= AsrCapacity
      BY <3>1 DEF TypeOK
    <3>4. processing' \in BOOLEAN
      BY <3>1
    <3>5. segment' \in 0 .. MaxFrames
      BY <3>1
    <3> QED
      BY <3>2, <3>3, <3>4, <3>5
  <2>4. CASE UNCHANGED <<asr, segment, asrQueue, processing>>
    BY <2>4 DEF TypeOK
  <2>5. CASE \/ TellVadEvent \/ DropSegment \/ Overflow \/ SendPacket \/ Frame
             \/ SpeechStarts \/ SpeechEnds \/ SpeechOverflows \/ FrameAfterReset
    BY <2>4, <2>5 DEF TellVadEvent, DropSegment, Overflow, SendPacket,
       CaptureGoes, asrVars, Frame, SpeechStarts, SpeechEnds, SpeechOverflows,
       FrameAfterReset, Numbered
  <2>6. CASE MainStep \/ ListClient \/ StartClient \/ Received
    BY <2>4, <2>6 DEF MainStep, ReadVad, ReadAsr, SendState, ListClient,
       StartClient, MainGoes, Accepts, asrVars, Received, OnPacket,
       OnVadEvent, OnAsrEvent, OnState, OnNote, Arrives
  <2> QED
    BY <2>1, <2>2, <2>3, <2>4, <2>5, <2>6, <2>7
       DEF Next, CaptureStep, AsrStep, vars
<1>3. /\ main' \in {"wait", "reading", "send"}
      /\ fields' \in [vad : {"idle", "speaking"}, asr : BOOLEAN]
      /\ client' \in {"unknown", "listed", "started"}
  <2> USE DEF TypeOK
  <2>1. CASE ReadVad \/ ReadAsr
    <3>1. main' \in {"reading", "send"} /\ UNCHANGED client
      BY <2>1 DEF ReadVad, ReadAsr, MainGoes
    <3>2. \/ fields' = [fields EXCEPT !.vad = vadState]
          \/ fields' = [fields EXCEPT !.asr = processing]
      BY <2>1 DEF ReadVad, ReadAsr
    <3>3. processing \in BOOLEAN /\ vadState \in {"idle", "speaking"}
      OBVIOUS
    <3>4. fields' \in [vad : {"idle", "speaking"}, asr : BOOLEAN]
      BY <3>2, <3>3
    <3> QED
      BY <3>1, <3>4
  <2>7. CASE SendState
    <3>1. main' = "wait" /\ UNCHANGED client /\ fields' = NoFields
      BY <2>7 DEF SendState, MainGoes
    <3>2. NoFields \in [vad : {"idle", "speaking"}, asr : BOOLEAN]
      BY DEF NoFields
    <3> QED
      BY <3>1, <3>2
  <2>2. CASE ListClient \/ StartClient
    BY <2>2 DEF ListClient, StartClient, Accepts
  <2>3. CASE CaptureStep
    BY <2>3 DEF CaptureStep, TellVadEvent, SubmitSegment, DropSegment, Overflow,
         SendPacket, CaptureGoes
  <2>4. CASE \/ Frame \/ SpeechStarts \/ SpeechEnds \/ SpeechOverflows
             \/ FrameAfterReset
    BY <2>4 DEF Frame, SpeechStarts, SpeechEnds, SpeechOverflows,
         FrameAfterReset, Numbered, CaptureGoes
  <2>5. CASE AsrStep
    BY <2>5 DEF AsrStep, PopSegment, TellStarted, TellResult, EndProcessing,
         AsrGoes
  <2>6. CASE Received
    BY <2>6 DEF Received, OnPacket, OnVadEvent, OnAsrEvent, OnState, OnNote,
         Arrives
  <2> QED
    BY <2>1, <2>2, <2>3, <2>4, <2>5, <2>6, <2>7 DEF Next, MainStep, vars
<1>4. Len(queue') <= QueueCapacity
  <2>1. CASE UNCHANGED queue
    BY <2>1 DEF TypeOK
  <2>2. CASE \E m \in Message : Broadcast(m)
    BY <2>1, <2>2, BroadcastFacts DEF feedVars
  <2>3. CASE Received
    BY <2>3, ArrivalFacts DEF TypeOK, Received, OnPacket, OnVadEvent,
       OnAsrEvent, OnState, OnNote
  <2> QED
    BY <2>1, <2>2, <2>3, FeedStep
<1>5. /\ lost' \in 0 .. MaxFrames /\ missed' \in 0 .. MaxFrames
      /\ page'.packet \in 0 .. MaxFrames
  BY PacketStep
<1>6. /\ heard' \in Nat
      /\ page' \in [vad : {"none", "idle", "speaking", "started", "ended"},
                    asr : {"none", "idle", "processing", "error"},
                    packet : 0 .. MaxFrames]
  <2>1. CASE UNCHANGED <<page, heard>>
    BY <2>1 DEF TypeOK
  <2>2. CASE Received
    <3> DEFINE m == Head(queue)
    <3>1. heard' \in Nat
      BY <2>2, HeardStep
    <3>2. m \in Message
      BY <2>2, ArrivalFacts DEF Received, OnPacket, OnVadEvent, OnAsrEvent,
         OnState, OnNote
    <3>3. CASE OnPacket(m) \/ OnNote(m)
      BY <1>5, <3>1, <3>3 DEF OnPacket, OnNote, pageVars, TypeOK
    <3>4. CASE OnVadEvent(m)
      <4>1. m.event \in {"started", "ended"}
        BY <3>2, <3>4 DEF OnVadEvent, Message, Note
      <4> QED
        BY <3>1, <3>4, <4>1 DEF OnVadEvent, TypeOK
    <3>5. CASE OnAsrEvent(m)
      <4>1. m.event \in {"started", "final", "failed"}
        BY <3>2, <3>5 DEF OnAsrEvent, Message, Note
      <4> QED
        BY <3>1, <3>5, <4>1 DEF OnAsrEvent, TypeOK
    <3>6. CASE OnState(m)
      <4>1. m.vad \in {"idle", "speaking"}
        BY <3>2, <3>6 DEF OnState, Message, Note
      <4> QED
        BY <3>1, <3>6, <4>1 DEF OnState, AsrShown, TypeOK
    <3> QED
      BY <2>2, <3>3, <3>4, <3>5, <3>6 DEF Received
  <2> QED
    BY <2>1, <2>2, FeedStep
<1> QED
  BY <1>1, <1>2, <1>3, <1>4, <1>5, <1>6 DEF TypeOK

\* Nothing is sent yet, so there is nothing to be late or lost.
LEMMA InitInv == Init => IInv
<1> SUFFICES ASSUME Init PROVE IInv
  OBVIOUS
<1> USE DEF Init
<1>1. TypeOK
  <2>1. queue = <<>> /\ asrQueue = <<>> /\ Len(queue) = 0 /\ Len(asrQueue) = 0
    OBVIOUS
  <2>2. asrQueue \in Seq(1 .. MaxFrames)
    BY <2>1
  <2>3. {sequence, lost, missed} \subseteq 0 .. MaxFrames
    OBVIOUS
  <2>4. page \in [vad : {"none", "idle", "speaking", "started", "ended"},
                  asr : {"none", "idle", "processing", "error"},
                  packet : 0 .. MaxFrames]
    OBVIOUS
  <2>5. NoFields \in [vad : {"idle", "speaking"}, asr : BOOLEAN]
    BY DEF NoFields
  <2>6. processing \in BOOLEAN
    OBVIOUS
  <2>7. fields \in [vad : {"idle", "speaking"}, asr : BOOLEAN]
    BY <2>5
  <2>8. /\ nextId \in 1 .. MaxFrames + 1 /\ segment \in 0 .. MaxFrames
        /\ Len(asrQueue) <= AsrCapacity /\ Len(queue) <= QueueCapacity
        /\ heard \in Nat
    BY <2>1
  <2>9. /\ capture \in {"read", "event", "segment", "packet"}
        /\ event \in {"none", "started", "ended", "reset"}
        /\ vadState \in {"idle", "speaking"}
        /\ asr \in {"pop", "begin", "transcribe", "end"}
        /\ main \in {"wait", "reading", "send"}
        /\ client \in {"unknown", "listed", "started"}
    OBVIOUS
  <2> HIDE DEF Init
  <2> QED
    BY <2>2, <2>3, <2>4, <2>6, <2>7, <2>8, <2>9 DEF TypeOK
<1>2. QueueTyped /\ SegmentsBounded /\ SegmentsInOrder
  BY DEF QueueTyped, SegmentsBounded, SegmentsInOrder
<1>3. NewsToCome /\ Story(queue, heard)
  BY DEF NewsToCome, NewsBelow, OlderThan, Story
<1>4. PacketsKept
  <2>1. PacketsIn(queue, 1, 0)
    BY NoPackets
  <2> QED
    BY <2>1 DEF PacketsKept, Sent
<1> QED
  BY <1>1, <1>2, <1>3, <1>4 DEF IInv

\* The parts carry each other through a step.
LEMMA StepInv == IInv /\ [Next]_vars => IInv'
  BY TypeStep, QueueStep, BoundStep, OrderStep, NewsStep, StoryStep, PacketStep
     DEF IInv

-----------------------------------------------------------------------------
(* The theorems.                                                           *)

\* Every run of the feed keeps the inductive invariant.
THEOREM Invariance == Spec => []IInv
  BY InitInv, StepInv, PTL DEF Spec

\* The variables keep their types, and no queue exceeds its capacity.
THEOREM TypeCorrect == Spec => []TypeOK
<1>1. IInv => TypeOK
  BY DEF IInv
<1> QED
  BY <1>1, Invariance, PTL

\* Whatever is lost, a client hears of segments in the order of their numbers,
\* and of each one that it has ended, is recognised, and what was said.
THEOREM StoryTold == Spec => []StoryInOrder
<1>1. IInv => StoryInOrder
  <2> SUFFICES ASSUME IInv, NEW k \in DOMAIN queue
               PROVE  LET m == queue[k]
                          heardBefore == {heard} \cup
                            {Rank(queue[j]) :
                               j \in {i \in 1 .. k - 1 : queue[i].kind = "asr"}}
                      IN  /\ m.kind = "asr" =>
                                \A r \in heardBefore : r < Rank(m)
                          /\ m.kind = "vad" /\ m.event = "ended" =>
                                \A r \in heardBefore : r < 2 * m.n
    BY DEF StoryInOrder
  <2> DEFINE heardBefore == {heard} \cup
               {Rank(queue[j]) :
                  j \in {i \in 1 .. k - 1 : queue[i].kind = "asr"}}
  <2>1. ASSUME NEW b, OlderThan(queue, heard, b, k), NEW r \in heardBefore
        PROVE  r < b
    BY <2>1 DEF OlderThan, IsAsr
  <2> HIDE DEF heardBefore
  <2>2. /\ IsAsr(queue[k]) => OlderThan(queue, heard, Rank(queue[k]), k)
        /\ IsEnd(queue[k]) => OlderThan(queue, heard, 2 * queue[k].n, k)
    BY DEF IInv, Story
  <2>3. queue[k].kind = "asr" => \A r \in heardBefore : r < Rank(queue[k])
    BY <2>1, <2>2 DEF IsAsr
  <2>4. queue[k].kind = "vad" /\ queue[k].event = "ended" =>
           \A r \in heardBefore : r < 2 * queue[k].n
    BY <2>1, <2>2 DEF IsEnd
  <2> QED
    BY <2>3, <2>4 DEF heardBefore
<1> QED
  BY <1>1, Invariance, PTL

\* The gap a client finds in the numbers of the packets is what was overwritten.
THEOREM LossesFound == Spec => []LossesShow
<1>1. IInv => LossesShow
  <2> SUFFICES ASSUME IInv, page.packet # 0
               PROVE  missed + Sent - page.packet =
                        lost + Cardinality({k \in DOMAIN queue :
                                              IsPacket(queue[k])})
    BY DEF LossesShow
  <2>1. /\ Sent \in Nat /\ lost \in Nat /\ missed \in Nat /\ page.packet \in Nat
        /\ queue \in Seq(Message)
    BY PacketsPlaced DEF IInv, QueueTyped
  <2>2. /\ NextPacket <= Sent + 1 /\ NextPacket \in Int
        /\ PacketsIn(queue, NextPacket, Sent)
    BY <2>1 DEF IInv, PacketsKept, NextPacket
  <2>3. Cardinality({k \in DOMAIN queue : IsPacket(queue[k])})
          = Sent - NextPacket + 1
    BY <2>1, <2>2, PacketsCounted
  <2> QED
    BY <2>1, <2>3 DEF NextPacket
<1> QED
  BY <1>1, Invariance, PTL

-----------------------------------------------------------------------------
(* WebClient: the connection and the audio output of the page.             *)

USE SocketsAssumption

\* The four places of toggleListening, as long as clicks do not overlap.
Silent    == /\ ~listening /\ context = 0
             /\ audible = {} /\ resuming = {} /\ closing = {}
Starting  == /\ ~listening /\ context # 0
             /\ audible = {context} /\ resuming = {context} /\ closing = {}
Listening == /\ listening /\ context # 0 /\ gain = context
             /\ audible = {context} /\ resuming = {} /\ closing = {}
Stopping  == /\ ~listening /\ context # 0
             /\ audible = {context} /\ resuming = {} /\ closing = {context}

\* Gain node and context go together, and start and stop alternate.
OneContext == ~overlapped => Silent \/ Starting \/ Listening \/ Stopping

\* The level is that of the buttons, or the start while muted shows.
LevelShown ==
    ~overlapped /\ listening =>
        /\ ~muted => level = "shown"
        /\ muted /\ ~startedMuted => level = "silent"

\* As long as the user has not given it up, a connection is there, is sought,
\* or will be: some socket is yet to have its close event, or the timer is set.
Sought == ~manual => timer \/ \E s \in Sockets : phase[s] # "dead"

\* The inductive invariant.
WebInv == WebTypeOK /\ OneConnection /\ Sought /\ OneContext /\ LevelShown

-----------------------------------------------------------------------------
(* One step of the page.                                                   *)

\* The fields of state keep their types; what waits for a context waits for one
\* that exists.
LEMMA WebTypeStep ==
    ASSUME WebTypeOK, [WebNext]_webVars
    PROVE  WebTypeOK'
<1> USE DEF netVars, audioVars, levelVars, WebTypeOK, Levels
<1>0. CASE UNCHANGED webVars
  BY <1>0 DEF webVars
<1>1. CASE ClickConnect
  BY <1>1 DEF ClickConnect, Connect, SetConnection, CloseCurrent
<1>2. CASE TimerFires
  BY <1>2 DEF TimerFires, Connect, SetConnection, CloseCurrent
<1>3. CASE Disconnect
  BY <1>3 DEF Disconnect, SetConnection, CloseCurrent
<1>4. ASSUME NEW s \in Sockets, Opened(s) PROVE WebTypeOK'
  BY <1>4 DEF Opened, SetConnection
<1>5. ASSUME NEW s \in Sockets, Closed(s) \/ Lost(s) PROVE WebTypeOK'
  BY <1>5 DEF Closed, Lost, Dies, OnClose, SetConnection
<1>6. CASE StartListening
  BY <1>6 DEF StartListening, Click
<1>7. CASE StopListening
  BY <1>7 DEF StopListening, Click
<1>8. CASE ToggleMute
  BY <1>8 DEF ToggleMute, SetLevel
<1>9. CASE UpdateVolume
  BY <1>9 DEF UpdateVolume, SetLevel
<1>10. ASSUME NEW c \in Contexts, Resumed(c) PROVE WebTypeOK'
  BY <1>10 DEF Resumed
<1>11. ASSUME NEW c \in Contexts, ContextClosed(c) PROVE WebTypeOK'
  BY <1>11 DEF ContextClosed
<1> QED
  BY <1>0, <1>1, <1>2, <1>3, <1>4, <1>5, <1>6, <1>7, <1>8, <1>9, <1>10, <1>11
       DEF WebNext

\* connect() closes the socket it replaces, and disconnect() the last one.
LEMMA ConnectionStep ==
    ASSUME WebTypeOK, OneConnection, [WebNext]_webVars
    PROVE  OneConnection'
<1> USE DEF netVars, audioVars, levelVars, WebTypeOK, OneConnection
<1>0. CASE UNCHANGED webVars
  BY <1>0 DEF webVars
<1>1. CASE ClickConnect
  BY <1>1 DEF ClickConnect, Connect, SetConnection, CloseCurrent
<1>2. CASE TimerFires
  BY <1>2 DEF TimerFires, Connect, SetConnection, CloseCurrent
<1>3. CASE Disconnect
  BY <1>3 DEF Disconnect, SetConnection, CloseCurrent
<1>4. ASSUME NEW s \in Sockets, Opened(s) PROVE OneConnection'
  BY <1>4 DEF Opened, SetConnection
<1>5. ASSUME NEW s \in Sockets, Closed(s) \/ Lost(s) PROVE OneConnection'
  BY <1>5 DEF Closed, Lost, Dies, OnClose, SetConnection
<1>6. CASE StartListening
  BY <1>6 DEF StartListening, Click
<1>7. CASE StopListening
  BY <1>7 DEF StopListening, Click
<1>8. CASE ToggleMute
  BY <1>8 DEF ToggleMute, SetLevel
<1>9. CASE UpdateVolume
  BY <1>9 DEF UpdateVolume, SetLevel
<1>10. ASSUME NEW c \in Contexts, Resumed(c) PROVE OneConnection'
  BY <1>10 DEF Resumed
<1>11. ASSUME NEW c \in Contexts, ContextClosed(c) PROVE OneConnection'
  BY <1>11 DEF ContextClosed
<1> QED
  BY <1>0, <1>1, <1>2, <1>3, <1>4, <1>5, <1>6, <1>7, <1>8, <1>9, <1>10, <1>11
       DEF WebNext

\* The last close event sets the timer, and only connect() takes it away.
LEMMA SoughtStep ==
    ASSUME WebTypeOK, Sought, [WebNext]_webVars
    PROVE  Sought'
<1> USE DEF netVars, audioVars, levelVars, WebTypeOK, Sought
<1>0. CASE UNCHANGED webVars
  BY <1>0 DEF webVars
<1>1. CASE ClickConnect
  BY <1>1 DEF ClickConnect, Connect, SetConnection, CloseCurrent
<1>2. CASE TimerFires
  BY <1>2 DEF TimerFires, Connect, SetConnection, CloseCurrent
<1>3. CASE Disconnect
  BY <1>3 DEF Disconnect, SetConnection, CloseCurrent
<1>4. ASSUME NEW s \in Sockets, Opened(s) PROVE Sought'
  BY <1>4 DEF Opened, SetConnection
<1>5. ASSUME NEW s \in Sockets, Closed(s) \/ Lost(s) PROVE Sought'
  <2>1. manual' = manual /\ (timer' <=> timer \/ ~manual)
    BY <1>5, Zenon DEF Closed, Lost, Dies, OnClose, SetConnection
  <2> QED
    BY <2>1, Zenon
<1>6. CASE StartListening
  BY <1>6 DEF StartListening, Click
<1>7. CASE StopListening
  BY <1>7 DEF StopListening, Click
<1>8. CASE ToggleMute
  BY <1>8 DEF ToggleMute, SetLevel
<1>9. CASE UpdateVolume
  BY <1>9 DEF UpdateVolume, SetLevel
<1>10. ASSUME NEW c \in Contexts, Resumed(c) PROVE Sought'
  BY <1>10 DEF Resumed
<1>11. ASSUME NEW c \in Contexts, ContextClosed(c) PROVE Sought'
  BY <1>11 DEF ContextClosed
<1> QED
  BY <1>0, <1>1, <1>2, <1>3, <1>4, <1>5, <1>6, <1>7, <1>8, <1>9, <1>10, <1>11
       DEF WebNext

\* A click in time finds toggleListening at its end.
LEMMA ContextStep ==
    ASSUME WebTypeOK, OneContext, [WebNext]_webVars
    PROVE  OneContext'
<1> USE DEF netVars, audioVars, levelVars, WebTypeOK, OneContext, Silent,
        Starting, Listening, Stopping
<1>0. CASE UNCHANGED webVars
  BY <1>0 DEF webVars
<1>1. CASE ClickConnect
  BY <1>1 DEF ClickConnect, Connect, SetConnection, CloseCurrent
<1>2. CASE TimerFires
  BY <1>2 DEF TimerFires, Connect, SetConnection, CloseCurrent
<1>3. CASE Disconnect
  BY <1>3 DEF Disconnect, SetConnection, CloseCurrent
<1>4. ASSUME NEW s \in Sockets, Opened(s) PROVE OneContext'
  BY <1>4 DEF Opened, SetConnection
<1>5. ASSUME NEW s \in Sockets, Closed(s) \/ Lost(s) PROVE OneContext'
  BY <1>5 DEF Closed, Lost, Dies, OnClose, SetConnection
<1>6. CASE StartListening
  BY <1>6 DEF StartListening, Click
<1>7. CASE StopListening
  BY <1>7 DEF StopListening, Click
<1>8. CASE ToggleMute
  BY <1>8 DEF ToggleMute, SetLevel
<1>9. CASE UpdateVolume
  BY <1>9 DEF UpdateVolume, SetLevel
<1>10. ASSUME NEW c \in Contexts, Resumed(c) PROVE OneContext'
  BY <1>10 DEF Resumed
<1>11. ASSUME NEW c \in Contexts, ContextClosed(c) PROVE OneContext'
  BY <1>11 DEF ContextClosed
<1> QED
  BY <1>0, <1>1, <1>2, <1>3, <1>4, <1>5, <1>6, <1>7, <1>8, <1>9, <1>10, <1>11
       DEF WebNext

\* Whoever changes the gain while listening looks at state.muted, but the start.
LEMMA LevelStep ==
    ASSUME WebTypeOK, OneContext, LevelShown, [WebNext]_webVars
    PROVE  LevelShown'
<1> USE DEF netVars, audioVars, levelVars, WebTypeOK, OneContext, LevelShown,
        Silent, Starting, Listening, Stopping, Levels
<1>0. CASE UNCHANGED webVars
  BY <1>0 DEF webVars
<1>1. CASE ClickConnect
  BY <1>1 DEF ClickConnect, Connect, SetConnection, CloseCurrent
<1>2. CASE TimerFires
  BY <1>2 DEF TimerFires, Connect, SetConnection, CloseCurrent
<1>3. CASE Disconnect
  BY <1>3 DEF Disconnect, SetConnection, CloseCurrent
<1>4. ASSUME NEW s \in Sockets, Opened(s) PROVE LevelShown'
  BY <1>4 DEF Opened, SetConnection
<1>5. ASSUME NEW s \in Sockets, Closed(s) \/ Lost(s) PROVE LevelShown'
  BY <1>5 DEF Closed, Lost, Dies, OnClose, SetConnection
<1>6. CASE StartListening
  BY <1>6 DEF StartListening, Click
<1>7. CASE StopListening
  BY <1>7 DEF StopListening, Click
<1>8. CASE ToggleMute
  BY <1>8 DEF ToggleMute, SetLevel
<1>9. CASE UpdateVolume
  BY <1>9 DEF UpdateVolume, SetLevel
<1>10. ASSUME NEW c \in Contexts, Resumed(c) PROVE LevelShown'
  BY <1>10 DEF Resumed
<1>11. ASSUME NEW c \in Contexts, ContextClosed(c) PROVE LevelShown'
  BY <1>11 DEF ContextClosed
<1> QED
  BY <1>0, <1>1, <1>2, <1>3, <1>4, <1>5, <1>6, <1>7, <1>8, <1>9, <1>10, <1>11
       DEF WebNext

\* The script has run: a connection is sought and nothing is heard.
LEMMA WebInitInv == WebInit => WebInv
<1> SUFFICES ASSUME WebInit PROVE WebInv
  OBVIOUS
<1> USE DEF WebInit
<1>1. WebTypeOK
  <2>1. phase \in [Sockets -> {"dead", "connecting", "open", "closing"}]
    OBVIOUS
  <2>2. {manual, timer, listening, overlapped, muted, controls, startedMuted}
           \subseteq BOOLEAN
    OBVIOUS
  <2> QED
    BY <2>1, <2>2 DEF WebTypeOK, Levels
<1>2. OneConnection /\ Sought
  BY DEF OneConnection, Sought
<1>3. OneContext /\ LevelShown
  BY DEF OneContext, Silent, LevelShown
<1> QED
  BY <1>1, <1>2, <1>3 DEF WebInv

\* The parts carry each other through a step.
LEMMA WebStepInv == WebInv /\ [WebNext]_webVars => WebInv'
  BY WebTypeStep, ConnectionStep, SoughtStep, ContextStep, LevelStep DEF WebInv

-----------------------------------------------------------------------------
(* The theorems about WebClient.                                           *)

\* Every run of the page keeps the inductive invariant.
THEOREM WebInvariance == WebSpec => []WebInv
  BY WebInitInv, WebStepInv, PTL DEF WebSpec

\* The fields of state keep their types.
THEOREM WebTypeCorrect == WebSpec => []WebTypeOK
<1>1. WebInv => WebTypeOK
  BY DEF WebInv
<1> QED
  BY <1>1, WebInvariance, PTL

\* No order of clicks, timers and late close events leaves two live sockets,
\* or a timer behind after disconnect().
THEOREM OneConnectionAtATime == WebSpec => []OneConnection
<1>1. WebInv => OneConnection
  BY DEF WebInv
<1> QED
  BY <1>1, WebInvariance, PTL

\* No order of events leaves the page without a connection and without a timer,
\* unless the user asked for it: what is left of SeeksConnection is that the
\* browser delivers close events and fires timers.
THEOREM NeverForgotten == WebSpec => []Sought
<1>1. WebInv => Sought
  BY DEF WebInv
<1> QED
  BY <1>1, WebInvariance, PTL

\* Clicks that wait for toggleListening leave one open context with its gain
\* node, at the level of mute button and range.
THEOREM SoundAsShown == WebSpec => []ListeningWorks
<1>1. WebInv => ListeningWorks
  BY DEF WebInv, OneContext, Silent, Starting, Listening, Stopping, LevelShown,
         ListeningWorks
<1> QED
  BY <1>1, WebInvariance, PTL
=============================================================================
