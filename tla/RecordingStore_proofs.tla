------------------------ MODULE RecordingStore_proofs ------------------------
(***************************************************************************)
(* Theorems about RecordingStore for every capacity of its queue and any   *)
(* number of records, runs and days: no line of transcripts.jsonl is ahead *)
(* of the audio it names, and every record given to the store is accounted *)
(* for.                                                                    *)
(***************************************************************************)
EXTENDS RecordingStore, SequenceTheorems, TLAPS

USE CapacityAssumption, BoundsAssumption

InHand == worker \in {"opening", "writing", "renaming", "line"}

\* A WAV file is complete when the line that names it is due, and a day is in
\* the hand only if there is a WAV to write.
AudioBeforeLine ==
    /\ worker = "line" /\ hand.day # NoDay =>
          \E w \in wavs : w.day = hand.day /\ w.id = hand.id /\ w.run = run
    /\ \A i \in DOMAIN lines : lines[i].run <= run

\* Finished, in hand, waiting: the numbers ascend, below the next one.
NumbersAscend ==
    /\ \A i, j \in DOMAIN queue : i < j => queue[i] < queue[j]
    /\ \A i \in DOMAIN queue : queue[i] < enqueued
    /\ \A i \in DOMAIN finished :
          /\ finished[i] < enqueued
          /\ InHand => finished[i] < hand.id
          /\ \A j \in DOMAIN queue : finished[i] < queue[j]
    /\ InHand => /\ hand.id < enqueued
                 /\ \A j \in DOMAIN queue : hand.id < queue[j]

\* A piece of a line at the end of the file is of an earlier run, as long as
\* this one can write.
TornByOthers ==
    conf.transcript /\ ~broken /\ torn /\ program # "down" => finished = <<>>

\* The inductive invariant.
IInv == TypeOK /\ AudioBeforeLine /\ LinesNameTheirAudio /\ NumbersAscend
        /\ TornByOthers /\ RecordsAccounted

Line == [run : Nat, id : Nat, day : Nat, whole : BOOLEAN]

-----------------------------------------------------------------------------
(* What the queue and the two lists gain and lose.                         *)

\* An item at the end of a list.
LEMMA AppendFacts ==
    ASSUME NEW S, NEW s \in Seq(S), NEW x \in S
    PROVE  /\ Append(s, x) \in Seq(S)
           /\ Len(s) \in Nat /\ Len(Append(s, x)) = Len(s) + 1
           /\ DOMAIN s = 1 .. Len(s)
           /\ DOMAIN Append(s, x) = 1 .. Len(s) + 1
           /\ \A i \in DOMAIN s : Append(s, x)[i] = s[i]
           /\ Append(s, x)[Len(s) + 1] = x
  BY AppendProperties, LenProperties

\* enqueue() adds the next number or leaves the queue alone.
LEMMA EnqueueFacts ==
    ASSUME TypeOK, Enqueue
    PROVE  /\ queue' \in Seq(Nat) /\ Len(queue') <= QueueCapacity
           /\ enqueued' = enqueued + 1 /\ enqueued' \in Nat
           /\ dropped' \in Nat
           /\ \/ queue' = queue /\ dropped' = dropped + 1
              \/ queue' = Append(queue, enqueued) /\ dropped' = dropped
<1>1. /\ queue \in Seq(Nat) /\ Len(queue) \in Nat
      /\ Len(queue) <= QueueCapacity /\ enqueued \in Nat /\ dropped \in Nat
  BY LenProperties DEF TypeOK
<1>2. /\ Append(queue, enqueued) \in Seq(Nat)
      /\ Len(Append(queue, enqueued)) = Len(queue) + 1
  BY <1>1, AppendFacts
<1>3. CASE Full
  BY <1>1, <1>3 DEF Enqueue
<1>4. CASE ~Full
  <2>1. /\ queue' = Append(queue, enqueued) /\ dropped' = dropped
        /\ enqueued' = enqueued + 1
    BY <1>4 DEF Enqueue
  <2>2. Len(queue') <= QueueCapacity
    BY <1>1, <1>2, <1>4, <2>1 DEF Full
  <2> QED
    BY <1>1, <1>2, <2>1, <2>2
<1> QED
  BY <1>3, <1>4

\* The worker takes the oldest number.
LEMMA TailFacts ==
    ASSUME TypeOK, queue # <<>>
    PROVE  /\ Tail(queue) \in Seq(Nat)
           /\ Head(queue) \in Nat /\ Head(queue) = queue[1]
           /\ Len(queue) \in Nat \ {0}
           /\ Len(Tail(queue)) = Len(queue) - 1
           /\ Len(Tail(queue)) <= QueueCapacity
           /\ DOMAIN queue = 1 .. Len(queue)
           /\ DOMAIN Tail(queue) = 1 .. Len(queue) - 1
           /\ \A i \in DOMAIN Tail(queue) : Tail(queue)[i] = queue[i + 1]
<1>1. queue \in Seq(Nat) /\ Len(queue) <= QueueCapacity
  BY DEF TypeOK
<1>2. /\ Tail(queue) \in Seq(Nat) /\ Head(queue) \in Nat
      /\ Len(Tail(queue)) = Len(queue) - 1
      /\ \A i \in 1 .. Len(Tail(queue)) : Tail(queue)[i] = queue[i + 1]
      /\ Len(queue) \in Nat \ {0} /\ DOMAIN queue = 1 .. Len(queue)
      /\ Head(queue) = queue[1]
  BY <1>1, EmptySeq, LenProperties, HeadTailProperties
<1>3. DOMAIN Tail(queue) = 1 .. Len(queue) - 1
  BY <1>2, LenProperties
<1>4. Len(Tail(queue)) <= QueueCapacity
  BY <1>1, <1>2
<1> QED
  BY <1>2, <1>3, <1>4

\* persist() returns for the record in hand.
LEMMA FinishedFacts ==
    ASSUME TypeOK
    PROVE  /\ Append(finished, hand.id) \in Seq(Nat)
           /\ hand.id \in Nat
           /\ Len(finished) \in Nat
           /\ Len(Append(finished, hand.id)) = Len(finished) + 1
           /\ DOMAIN finished = 1 .. Len(finished)
           /\ DOMAIN Append(finished, hand.id) = 1 .. Len(finished) + 1
           /\ \A i \in DOMAIN finished :
                 Append(finished, hand.id)[i] = finished[i]
           /\ Append(finished, hand.id)[Len(finished) + 1] = hand.id
<1>1. finished \in Seq(Nat) /\ hand.id \in Nat
  BY DEF TypeOK
<1> QED
  BY <1>1, AppendFacts

\* A line is written.
LEMMA LineFacts ==
    ASSUME TypeOK
    PROVE  /\ NewLine \in Line
           /\ Append(lines, NewLine) \in Seq(Line)
           /\ Len(lines) \in Nat
           /\ Len(Append(lines, NewLine)) = Len(lines) + 1
           /\ DOMAIN lines = 1 .. Len(lines)
           /\ DOMAIN Append(lines, NewLine) = 1 .. Len(lines) + 1
           /\ \A i \in DOMAIN lines : Append(lines, NewLine)[i] = lines[i]
           /\ Append(lines, NewLine)[Len(lines) + 1] = NewLine
<1>1. /\ lines \in Seq(Line) /\ run \in Nat /\ torn \in BOOLEAN
      /\ hand.id \in Nat /\ hand.day \in Nat
  BY DEF TypeOK, Line
<1>2. NewLine \in Line
  BY <1>1 DEF NewLine, Line
<1> QED
  BY <1>1, <1>2, AppendFacts

\* The runs that lines are of.
LEMMA LineTypes ==
    ASSUME TypeOK
    PROVE  run \in Nat /\ \A i \in DOMAIN lines : lines[i].run \in Nat
<1>1. run \in Nat /\ lines \in Seq(Line)
  BY DEF TypeOK, Line
<1>2. ASSUME NEW i \in DOMAIN lines PROVE lines[i].run \in Nat
  <2>1. lines[i] \in Line
    BY <1>1, <1>2, LenProperties
  <2> QED
    BY <2>1 DEF Line
<1> QED
  BY <1>1, <1>2

-----------------------------------------------------------------------------
(* One step of the program, or of the day.                                 *)

\* Members and files keep their types, and try_push the capacity.
LEMMA TypeStep ==
    ASSUME TypeOK, [Next]_vars
    PROVE  TypeOK'
<1> USE DEF fileVars, diskVars, countVars, TypeOK
<1>0. CASE UNCHANGED vars
  BY <1>0 DEF vars
<1>1. CASE Enqueue
  BY <1>1, EnqueueFacts DEF Enqueue, Full
<1>2. CASE Stop \/ Joined \/ Crash \/ Midnight
  <2>1. CASE Stop \/ Joined
    BY <2>1 DEF Stop, Joined
  <2>3. CASE Crash
    BY <2>3 DEF Crash, MayTear
  <2>2. CASE Midnight
    BY <2>2 DEF Stop, Joined, Crash, Midnight
  <2> QED
    BY <1>2, <2>1, <2>2, <2>3
<1>3. CASE Restart
  <2>1. run' \in Nat
    BY <1>3 DEF Restart
  <2>2. queue' \in Seq(Nat) /\ Len(queue') = 0 /\ finished' \in Seq(Nat)
    BY <1>3, EmptySeq DEF Restart
  <2>3. hand' \in [id : Nat, day : Nat]
    BY <1>3 DEF Restart, Nothing, NoDay
  <2> HIDE DEF TypeOK
  <2>4. Len(queue') <= QueueCapacity
    BY <2>2
  <2> QED
    BY <1>3, <2>1, <2>2, <2>3, <2>4 DEF Restart, TypeOK
<1>4. CASE Pop
  BY <1>4, TailFacts DEF Pop, WorkerGoes, NoDay
<1>5. CASE PopNothing \/ Probe \/ WriteSucceeds
  BY <1>5 DEF PopNothing, Probe, WriteSucceeds, WorkerGoes
<1>6. CASE OpenTemporary
  <2>1. day \in Nat /\ hand.id \in Nat
    OBVIOUS
  <2>2. hand' \in [id : Nat, day : Nat]
    BY <1>6, <2>1 DEF OpenTemporary
  <2>3. temporary' \subseteq [day : Nat, id : Nat]
    <3>1. temporary' = temporary \cup {[day |-> day, id |-> hand.id]}
      BY <1>6 DEF OpenTemporary
    <3>2. temporary \subseteq [day : Nat, id : Nat]
      OBVIOUS
    <3>3. [day |-> day, id |-> hand.id] \in [day : Nat, id : Nat]
      BY <2>1
    <3> HIDE DEF TypeOK
    <3> QED
      BY <3>1, <3>2, <3>3
  <2> QED
    BY <1>6, <2>2, <2>3 DEF OpenTemporary, WorkerGoes
<1>7. CASE OpenFails \/ WriteFails \/ RenameFails \/ PathFails
  <2>1. CASE OpenFails
    BY <2>1 DEF OpenFails, WriteFails, RenameFails, PathFails, Fails,
         WorkerGoes, Nothing, NoDay, Path
  <2>2. CASE WriteFails
    BY <2>2 DEF OpenFails, WriteFails, RenameFails, PathFails, Fails,
         WorkerGoes, Nothing, NoDay, Path
  <2>3. CASE RenameFails
    BY <2>3 DEF OpenFails, WriteFails, RenameFails, PathFails, Fails,
         WorkerGoes, Nothing, NoDay, Path
  <2>4. CASE PathFails
    BY <2>4 DEF OpenFails, WriteFails, RenameFails, PathFails, Fails,
         WorkerGoes, Nothing, NoDay, Path
  <2> QED
    BY <1>7, <2>1, <2>2, <2>3, <2>4
<1>8. CASE Rename
  BY <1>8 DEF Rename, WorkerGoes
<1>9. CASE AppendLine
  <2>1. finished' \in Seq(Nat)
    BY <1>9, FinishedFacts DEF AppendLine, Finishes
  <2>2. lines' \in Seq(Line)
    BY <1>9, LineFacts DEF AppendLine
  <2>3. hand' \in [id : Nat, day : Nat]
    BY <1>9 DEF AppendLine, Finishes, Nothing, NoDay
  <2> QED
    BY <1>9, <2>1, <2>2, <2>3 DEF AppendLine, Finishes, WorkerGoes, Line
<1>10. CASE LineLost \/ AudioOnly
  <2>1. finished' \in Seq(Nat)
    BY <1>10, FinishedFacts DEF LineLost, AudioOnly, Finishes
  <2>2. hand' \in [id : Nat, day : Nat]
    BY <1>10 DEF LineLost, AudioOnly, Finishes, Nothing, NoDay
  <2> QED
    BY <1>10, <2>1, <2>2 DEF LineLost, AudioOnly, Finishes, WorkerGoes
<1> QED
  BY <1>0, <1>1, <1>2, <1>3, <1>4, <1>5, <1>6, <1>7, <1>8, <1>9, <1>10 DEF
       Next, WorkerStep

\* rename() comes before the line, and replaces a file only by one of this run,
\* which is no older than any line.
LEMMA AudioStep ==
    ASSUME TypeOK, AudioBeforeLine, LinesNameTheirAudio, [Next]_vars
    PROVE  (AudioBeforeLine /\ LinesNameTheirAudio)'
<1> USE DEF fileVars, diskVars, countVars, AudioBeforeLine, LinesNameTheirAudio
<1>0. CASE UNCHANGED vars
  BY <1>0 DEF vars
<1>1. CASE Enqueue
  BY <1>1 DEF Enqueue, Full
<1>2. CASE Stop \/ Joined \/ Crash \/ Midnight
  BY <1>2 DEF Stop, Joined, Crash, Midnight
<1>3. CASE Restart
  <2>1. /\ run' = run + 1 /\ worker' = "popping"
        /\ UNCHANGED <<lines, wavs>>
    BY <1>3 DEF Restart
  <2>2. ASSUME NEW i \in DOMAIN lines PROVE lines[i].run <= run + 1
    <3>1. run \in Nat /\ lines[i].run \in Nat
      BY <2>2, LineTypes
    <3> QED
      BY <2>2, <3>1
  <2> QED
    BY <2>1, <2>2
<1>4. CASE Pop
  BY <1>4 DEF Pop, WorkerGoes, NoDay
<1>5. CASE PopNothing \/ Probe \/ WriteSucceeds
  BY <1>5 DEF PopNothing, Probe, WriteSucceeds, WorkerGoes
<1>6. CASE OpenTemporary
  BY <1>6 DEF OpenTemporary, WorkerGoes
<1>7. CASE OpenFails \/ WriteFails \/ RenameFails \/ PathFails
  BY <1>7 DEF OpenFails, WriteFails, RenameFails, PathFails, Fails,
       WorkerGoes, Nothing
<1>8. CASE Rename
  <2> DEFINE new == [day |-> hand.day, id |-> hand.id, run |-> run]
  <2>1. /\ UNCHANGED <<hand, run, lines>>
        /\ wavs' = {w \in wavs : w.day # hand.day \/ w.id # hand.id}
                      \cup {new}
    BY <1>8 DEF Rename, WorkerGoes
  <2>2. AudioBeforeLine'
    <3>1. new \in wavs'
      BY <2>1
    <3>2. \E w \in wavs' : w.day = hand'.day /\ w.id = hand'.id /\ w.run = run'
      BY <2>1, <3>1
    <3> QED
      BY <2>1, <3>2
  <2>3. ASSUME NEW i \in DOMAIN lines, lines[i].day # NoDay
        PROVE  \E w \in wavs' : /\ w.day = lines[i].day /\ w.id = lines[i].id
                                /\ w.run >= lines[i].run
    <3>1. PICK w \in wavs : /\ w.day = lines[i].day /\ w.id = lines[i].id
                            /\ w.run >= lines[i].run
      BY <2>3
    <3>2. CASE w \in wavs'
      BY <3>1, <3>2
    <3>3. CASE w \notin wavs'
      <4>1. lines[i].day = hand.day /\ lines[i].id = hand.id
        BY <2>1, <3>1, <3>3
      <4>2. new \in wavs' /\ new.run >= lines[i].run
        <5>1. lines[i].run <= run
          BY <2>3
        <5> QED
          BY <2>1, <2>3, <5>1, LineTypes
      <4> QED
        BY <4>1, <4>2
    <3> QED
      BY <3>2, <3>3
  <2> QED
    BY <2>1, <2>2, <2>3
<1>9. CASE AppendLine
  <2>1. /\ worker = "line" /\ wavs' = wavs /\ run' = run /\ worker' = "popping"
        /\ lines' = Append(lines, NewLine)
    BY <1>9 DEF AppendLine, Finishes, WorkerGoes
  <2>2. ASSUME NEW i \in DOMAIN lines'
        PROVE  /\ lines'[i].run <= run'
               /\ lines'[i].day # NoDay =>
                     \E w \in wavs' : /\ w.day = lines'[i].day
                                      /\ w.id = lines'[i].id
                                      /\ w.run >= lines'[i].run
    <3>1. i \in DOMAIN lines \/ i = Len(lines) + 1
      BY <2>1, <2>2, LineFacts
    <3>2. CASE i \in DOMAIN lines
      BY <2>1, <3>2, LineFacts
    <3>3. CASE i = Len(lines) + 1
      <4>1. /\ lines'[i].run = run /\ lines'[i].id = hand.id
            /\ lines'[i].day = hand.day
        BY <2>1, <3>3, LineFacts DEF NewLine
      <4>2. run \in Nat
        BY DEF TypeOK
      <4>3. hand.day # NoDay => \E w \in wavs' : /\ w.day = hand.day
                                                /\ w.id = hand.id
                                                /\ w.run = run
        BY <2>1
      <4> QED
        BY <2>1, <4>1, <4>2, <4>3
    <3> QED
      BY <3>1, <3>2, <3>3
  <2> QED
    BY <2>1, <2>2
<1>10. CASE LineLost \/ AudioOnly
  BY <1>10 DEF LineLost, AudioOnly, Finishes, WorkerGoes, Nothing
<1> QED
  BY <1>0, <1>1, <1>2, <1>3, <1>4, <1>5, <1>6, <1>7, <1>8, <1>9, <1>10 DEF
       Next, WorkerStep

\* What most steps do to the records: nothing, or move the one in hand on.
Quiet ==
    /\ UNCHANGED <<conf, run, queue, broken, enqueued, dropped, finished,
                   lines>>
    /\ \/ /\ failed' = failed
          /\ InHand' <=> InHand
          /\ InHand => hand'.id = hand.id
       \/ failed' = failed + 1 /\ InHand /\ ~InHand'

\* The steps that do more.
LEMMA QuietSteps ==
    ASSUME TypeOK, [Next]_vars
    PROVE  \/ Quiet \/ Enqueue \/ Restart \/ Pop
           \/ AppendLine \/ LineLost \/ AudioOnly
<1> USE DEF fileVars, diskVars, countVars, Quiet, InHand
<1>0. CASE UNCHANGED vars
  BY <1>0 DEF vars
<1>1. CASE Stop \/ Joined \/ Crash \/ Midnight
  BY <1>1 DEF Stop, Joined, Crash, Midnight
<1>2. CASE PopNothing \/ Probe \/ WriteSucceeds \/ Rename
  BY <1>2 DEF PopNothing, Probe, WriteSucceeds, Rename, WorkerGoes
<1>3. CASE OpenTemporary
  BY <1>3 DEF OpenTemporary, WorkerGoes, TypeOK
<1>4. CASE OpenFails \/ WriteFails \/ RenameFails \/ PathFails
  BY <1>4 DEF OpenFails, WriteFails, RenameFails, PathFails, Fails, WorkerGoes
<1> QED
  BY <1>0, <1>1, <1>2, <1>3, <1>4 DEF Next, WorkerStep

\* The members of the lists are numbers.
LEMMA ListTypes ==
    ASSUME TypeOK
    PROVE  /\ enqueued \in Nat /\ dropped \in Nat /\ failed \in Nat
           /\ run \in Nat /\ hand.id \in Nat
           /\ Len(queue) \in Nat /\ DOMAIN queue = 1 .. Len(queue)
           /\ \A i \in DOMAIN queue : queue[i] \in Nat
           /\ Len(finished) \in Nat /\ DOMAIN finished = 1 .. Len(finished)
           /\ \A i \in DOMAIN finished : finished[i] \in Nat
           /\ Len(lines) \in Nat /\ DOMAIN lines = 1 .. Len(lines)
<1>1. /\ queue \in Seq(Nat) /\ finished \in Seq(Nat) /\ lines \in Seq(Line)
      /\ enqueued \in Nat /\ dropped \in Nat /\ failed \in Nat
  BY DEF TypeOK, Line
<1>2. run \in Nat /\ hand.id \in Nat
  BY DEF TypeOK
<1> QED
  BY <1>1, <1>2, LenProperties

\* The queue hands the numbers on in order, and a finished one is the newest.
LEMMA AscendStep ==
    ASSUME TypeOK, NumbersAscend, [Next]_vars
    PROVE  NumbersAscend'
<1> USE DEF NumbersAscend
<1>1. CASE Quiet
  BY <1>1 DEF Quiet
<1>2. CASE Enqueue
  <2>1. UNCHANGED <<finished, worker, hand>>
    BY <1>2 DEF Enqueue
  <2>2. InHand' <=> InHand
    BY <2>1 DEF InHand
  <2>3. /\ enqueued' = enqueued + 1
        /\ queue' = queue \/ queue' = Append(queue, enqueued)
    BY <1>2, EnqueueFacts
  <2>4. ASSUME NEW i \in DOMAIN queue'
        PROVE  \/ i \in DOMAIN queue /\ queue'[i] = queue[i]
               \/ i = Len(queue) + 1 /\ queue'[i] = enqueued
    <3>1. queue \in Seq(Nat) /\ enqueued \in Nat
      BY DEF TypeOK
    <3>2. CASE queue' = queue
      BY <2>4, <3>2
    <3>3. CASE queue' = Append(queue, enqueued)
      BY <2>4, <3>1, <3>3, AppendFacts
    <3> QED
      BY <2>3, <3>2, <3>3
  <2>5. ASSUME NEW i \in DOMAIN queue' PROVE queue'[i] < enqueued'
    <3>1. enqueued \in Nat /\ enqueued' = enqueued + 1
      BY <2>3, ListTypes
    <3>2. CASE i \in DOMAIN queue /\ queue'[i] = queue[i]
      <4>1. queue[i] \in Nat /\ queue[i] < enqueued
        BY <3>2, ListTypes
      <4> QED
        BY <3>1, <3>2, <4>1
    <3>3. CASE queue'[i] = enqueued
      BY <3>1, <3>3
    <3> QED
      BY <2>4, <3>2, <3>3
  <2>6. ASSUME NEW i \in DOMAIN queue', NEW j \in DOMAIN queue', i < j
        PROVE  queue'[i] < queue'[j]
    BY <2>4, <2>6, ListTypes
  <2>7. ASSUME NEW i \in DOMAIN finished
        PROVE  /\ finished[i] < enqueued'
               /\ InHand => finished[i] < hand.id
               /\ \A j \in DOMAIN queue' : finished[i] < queue'[j]
    <3>1. finished[i] < enqueued /\ (InHand => finished[i] < hand.id)
      BY <2>7
    <3>2. finished[i] < enqueued'
      BY <2>3, <2>7, <3>1, ListTypes
    <3>3. ASSUME NEW j \in DOMAIN queue' PROVE finished[i] < queue'[j]
      BY <2>4, <2>7, <3>1, <3>3
    <3> QED
      BY <3>1, <3>2, <3>3
  <2>8. InHand => /\ hand.id < enqueued'
                  /\ \A j \in DOMAIN queue' : hand.id < queue'[j]
    BY <2>3, <2>4, ListTypes
  <2> QED
    BY <2>1, <2>2, <2>5, <2>6, <2>7, <2>8
<1>3. CASE Restart
  BY <1>3 DEF Restart, InHand
<1>4. CASE Pop
  <2>1. /\ queue # <<>> /\ queue' = Tail(queue) /\ ~InHand
        /\ UNCHANGED <<finished, enqueued>>
        /\ hand'.id = Head(queue)
    BY <1>4 DEF Pop, WorkerGoes, InHand
  <2>2. ASSUME NEW i \in DOMAIN queue'
        PROVE  /\ i + 1 \in DOMAIN queue /\ queue'[i] = queue[i + 1]
               /\ 1 \in DOMAIN queue /\ 1 < i + 1 /\ i \in Nat
    BY <2>1, TailFacts
  <2>3. 1 \in DOMAIN queue /\ hand'.id = queue[1]
    BY <2>1, TailFacts
  <2>4. \A i, j \in DOMAIN queue' : i < j => queue'[i] < queue'[j]
    BY <2>2
  <2>5. \A j \in DOMAIN queue' : queue'[j] < enqueued' /\ hand'.id < queue'[j]
    BY <2>1, <2>2, <2>3
  <2>6. hand'.id < enqueued'
    BY <2>1, <2>3
  <2>7. \A i \in DOMAIN finished' :
           /\ finished'[i] < enqueued' /\ finished'[i] < hand'.id
           /\ \A j \in DOMAIN queue' : finished'[i] < queue'[j]
    BY <2>1, <2>2, <2>3
  <2> QED
    BY <2>4, <2>5, <2>6, <2>7
<1>5. CASE AppendLine \/ LineLost \/ AudioOnly
  <2>1. /\ InHand /\ ~InHand' /\ UNCHANGED <<queue, enqueued>>
        /\ finished' = Append(finished, hand.id)
    BY <1>5 DEF AppendLine, LineLost, AudioOnly, Finishes, WorkerGoes, InHand
  <2>2. ASSUME NEW i \in DOMAIN finished'
        PROVE  \/ i \in DOMAIN finished /\ finished'[i] = finished[i]
               \/ finished'[i] = hand.id
    BY <2>1, FinishedFacts
  <2> QED
    BY <2>1, <2>2
<1> QED
  BY <1>1, <1>2, <1>3, <1>4, <1>5, QuietSteps

\* Who leaves a piece of a line behind is down, or writes no more.
LEMMA TornStep ==
    ASSUME TypeOK, TornByOthers, [Next]_vars
    PROVE  TornByOthers'
<1> USE DEF fileVars, diskVars, countVars, TornByOthers
<1>0. CASE UNCHANGED vars
  BY <1>0 DEF vars
<1>1. CASE Enqueue
  BY <1>1 DEF Enqueue
<1>2. CASE Stop \/ Joined \/ Midnight
  BY <1>2 DEF Stop, Joined, Midnight
<1>3. CASE Crash \/ Restart
  BY <1>3 DEF Crash, Restart
<1>4. CASE \/ Pop \/ PopNothing \/ Probe
           \/ OpenTemporary \/ WriteSucceeds \/ Rename
  BY <1>4 DEF Pop, PopNothing, Probe, WriteSucceeds, Rename, OpenTemporary,
     WorkerGoes
<1>5. CASE OpenFails \/ WriteFails \/ RenameFails \/ PathFails
  BY <1>5 DEF OpenFails, WriteFails, RenameFails, PathFails, Fails, WorkerGoes
<1>6. CASE AppendLine
  BY <1>6 DEF AppendLine
<1>7. CASE LineLost
  BY <1>7 DEF LineLost
<1>8. CASE AudioOnly
  BY <1>8 DEF AudioOnly, Finishes, WorkerGoes
<1> QED
  BY <1>0, <1>1, <1>2, <1>3, <1>4, <1>5, <1>6, <1>7, <1>8 DEF Next, WorkerStep

\* A record leaves each of its places for one other, and its line is the
\* newest when it is finished.
LEMMA AccountedStep ==
    ASSUME TypeOK, AudioBeforeLine, NumbersAscend, TornByOthers,
           RecordsAccounted, [Next]_vars
    PROVE  RecordsAccounted'
<1> DEFINE Held == IF InHand THEN 1 ELSE 0
           Sum == enqueued =
                     dropped + failed + Len(queue) + Held + Len(finished)
           Ascending == \A i, j \in DOMAIN finished :
                           i < j => finished[i] < finished[j]
           Written == conf.transcript /\ ~broken =>
              /\ Len(finished) <= Len(lines)
              /\ \A i \in 1 .. LinesBefore : lines[i].run < run
              /\ \A i \in DOMAIN finished :
                    /\ lines[LinesBefore + i].run = run
                    /\ lines[LinesBefore + i].id = finished[i]
                    /\ lines[LinesBefore + i].whole \/ i = 1
<1>1. Sum /\ Ascending /\ Written
  BY DEF RecordsAccounted, InHand
<1>2. ASSUME Sum', Ascending', Written' PROVE RecordsAccounted'
  BY <1>2 DEF RecordsAccounted, InHand
<1>3. CASE Quiet
  <2>1. Sum'
    BY <1>1, <1>3, ListTypes DEF Quiet
  <2>2. Ascending' /\ Written'
    BY <1>1, <1>3 DEF Quiet, LinesBefore
  <2> QED
    BY <1>2, <2>1, <2>2
<1>4. CASE Enqueue
  <2>1. /\ UNCHANGED <<finished, lines, run, conf, broken, failed, worker>>
        /\ enqueued' = enqueued + 1
        /\ \/ queue' = queue /\ dropped' = dropped + 1
           \/ queue' = Append(queue, enqueued) /\ dropped' = dropped
    BY <1>4, EnqueueFacts DEF Enqueue, fileVars, diskVars
  <2>2. Held' = Held
    BY <2>1 DEF InHand
  <2>3. \/ Len(queue') = Len(queue) /\ dropped' = dropped + 1
        \/ Len(queue') = Len(queue) + 1 /\ dropped' = dropped
    BY <2>1, AppendFacts DEF TypeOK
  <2>4. Sum'
    <3>1. dropped' + Len(queue') = dropped + Len(queue) + 1
      <4>1. dropped \in Nat /\ Len(queue) \in Nat
        BY ListTypes
      <4> QED
        BY <2>3, <4>1
    <3>2. dropped' \in Nat /\ Len(queue') \in Nat
      BY <2>3, ListTypes
    <3>3. \A d, q, h \in Nat :
             /\ enqueued = dropped + failed + Len(queue) + h + Len(finished)
             /\ d + q = dropped + Len(queue) + 1
             => enqueued + 1 = d + failed + q + h + Len(finished)
      <4>1. /\ enqueued \in Nat /\ dropped \in Nat /\ failed \in Nat
            /\ Len(queue) \in Nat /\ Len(finished) \in Nat
        BY ListTypes
      <4> QED
        BY <4>1
    <3>4. Held \in Nat
      OBVIOUS
    <3> HIDE DEF Held
    <3>5. enqueued + 1 =
             dropped' + failed + Len(queue') + Held + Len(finished)
      BY <1>1, <3>1, <3>2, <3>3, <3>4
    <3> QED
      BY <2>1, <2>2, <3>5
  <2>5. Ascending' /\ Written'
    BY <1>1, <2>1 DEF LinesBefore
  <2> QED
    BY <1>2, <2>4, <2>5
<1>5. CASE Restart
  <2>1. /\ run' = run + 1 /\ worker' = "popping" /\ lines' = lines
        /\ queue' = <<>> /\ finished' = <<>>
        /\ enqueued' = 0 /\ dropped' = 0 /\ failed' = 0
    BY <1>5 DEF Restart, fileVars, diskVars
  <2>2. Len(queue') = 0 /\ Len(finished') = 0 /\ DOMAIN finished' = {}
    BY <2>1, EmptySeq
  <2>3. LinesBefore' = Len(lines)
    BY <2>1, <2>2, ListTypes DEF LinesBefore
  <2>4. \A i \in 1 .. Len(lines) : lines[i].run < run + 1
    BY ListTypes, LineTypes DEF AudioBeforeLine
  <2>5. Sum' /\ Ascending'
    BY <2>1, <2>2 DEF InHand
  <2>6. Written'
    BY <2>1, <2>2, <2>3, <2>4, ListTypes
  <2> QED
    BY <1>2, <2>5, <2>6
<1>6. CASE Pop
  <2>1. /\ UNCHANGED <<finished, lines, run, conf, broken, failed, dropped,
                       enqueued>>
        /\ ~InHand /\ InHand'
        /\ queue # <<>> /\ queue' = Tail(queue)
    BY <1>6 DEF Pop, WorkerGoes, InHand, fileVars, diskVars
  <2>2. Sum'
    BY <1>1, <2>1, TailFacts, ListTypes
  <2>3. Ascending' /\ Written'
    BY <1>1, <2>1 DEF LinesBefore
  <2> QED
    BY <1>2, <2>2, <2>3
<1>7. CASE AppendLine \/ LineLost \/ AudioOnly
  <2>1. /\ UNCHANGED <<queue, run, conf, failed, dropped, enqueued>>
        /\ InHand /\ ~InHand'
        /\ finished' = Append(finished, hand.id)
    BY <1>7 DEF AppendLine, LineLost, AudioOnly, Finishes, WorkerGoes, InHand
  <2>2. Sum'
    BY <1>1, <2>1, FinishedFacts, ListTypes
  <2>3. Ascending'
    <3>1. ASSUME NEW i \in DOMAIN finished', NEW j \in DOMAIN finished', i < j
          PROVE  finished'[i] < finished'[j]
      <4>1. i \in DOMAIN finished /\ finished'[i] = finished[i]
        BY <2>1, <3>1, FinishedFacts
      <4>2. CASE j \in DOMAIN finished
        BY <1>1, <2>1, <3>1, <4>1, <4>2, FinishedFacts
      <4>3. CASE j = Len(finished) + 1
        BY <2>1, <4>1, <4>3, FinishedFacts DEF NumbersAscend
      <4> QED
        BY <2>1, <4>2, <4>3, FinishedFacts
    <3> QED
      BY <3>1
  <2>4. Written'
    <3>1. CASE LineLost \/ AudioOnly
      BY <3>1 DEF LineLost, AudioOnly, Finishes, WorkerGoes
    <3>2. CASE AppendLine
      <4>1. conf.transcript /\ ~broken /\ lines' = Append(lines, NewLine)
        BY <3>2 DEF AppendLine
      <4>2. /\ Len(lines') = Len(lines) + 1
            /\ Len(finished') = Len(finished) + 1
            /\ DOMAIN finished' = 1 .. Len(finished) + 1
        BY <2>1, <4>1, LineFacts, FinishedFacts
      <4>3. /\ LinesBefore' = LinesBefore
            /\ LinesBefore \in Nat /\ LinesBefore + Len(finished) = Len(lines)
        BY <1>1, <4>1, <4>2, ListTypes DEF LinesBefore
      <4>4. \A i \in 1 .. LinesBefore : lines'[i].run < run
        BY <1>1, <4>1, <4>3, LineFacts, ListTypes
      <4>5. ASSUME NEW i \in DOMAIN finished'
            PROVE  /\ lines'[LinesBefore + i].run = run
                   /\ lines'[LinesBefore + i].id = finished'[i]
                   /\ lines'[LinesBefore + i].whole \/ i = 1
        <5>1. CASE i \in DOMAIN finished
          <6>1. LinesBefore + i \in DOMAIN lines
            BY <4>3, <5>1, ListTypes
          <6>2. /\ lines'[LinesBefore + i] = lines[LinesBefore + i]
                /\ finished'[i] = finished[i]
            BY <2>1, <4>1, <5>1, <6>1, LineFacts, FinishedFacts
          <6> QED
            BY <1>1, <4>1, <5>1, <6>2
        <5>2. CASE i = Len(finished) + 1
          <6>1. LinesBefore + i = Len(lines) + 1
            <7>1. Len(finished) \in Nat /\ Len(lines) \in Nat
              BY ListTypes
            <7> QED
              BY <4>3, <5>2, <7>1
          <6>2. lines'[LinesBefore + i] = NewLine /\ finished'[i] = hand.id
            BY <2>1, <4>1, <5>2, <6>1, LineFacts, FinishedFacts
          <6>3. torn => i = 1
            <7>1. program # "down"
              BY <3>2 DEF AppendLine, Finishes, WorkerGoes
            <7>2. torn => Len(finished) = 0
              BY <4>1, <7>1, EmptySeq DEF TornByOthers
            <7> QED
              BY <5>2, <7>2
          <6>4. /\ NewLine.run = run /\ NewLine.id = hand.id
                /\ NewLine.whole = ~torn
            BY DEF NewLine
          <6>5. CASE torn
            BY <6>2, <6>3, <6>4, <6>5
          <6>6. CASE ~torn
            <7>1. NewLine.whole = TRUE
              BY <6>4, <6>6
            <7> QED
              BY <6>2, <6>4, <7>1
          <6> QED
            BY <6>5, <6>6
        <5> QED
          BY <4>2, <5>1, <5>2, ListTypes
      <4>6. Len(finished') <= Len(lines')
        BY <1>1, <4>1, <4>2, ListTypes
      <4> QED
        BY <2>1, <4>3, <4>4, <4>5, <4>6
    <3> QED
      BY <1>7, <3>1, <3>2
  <2> QED
    BY <1>2, <2>2, <2>3, <2>4
<1> QED
  BY <1>3, <1>4, <1>5, <1>6, <1>7, QuietSteps

\* No file, no line, and nothing enqueued.
LEMMA InitInv == Init => IInv
<1> SUFFICES ASSUME Init PROVE IInv
  OBVIOUS
<1> USE DEF Init
<1>1. TypeOK
  <2>1. /\ queue \in Seq(Nat) /\ Len(queue) = 0
        /\ finished \in Seq(Nat) /\ lines \in Seq(Line)
    BY EmptySeq
  <2>2. Len(queue) <= QueueCapacity /\ day \in 1 .. MaxDays
    BY <2>1
  <2>3. hand \in [id : Nat, day : Nat]
    BY DEF Nothing, NoDay
  <2> QED
    BY <2>1, <2>2, <2>3 DEF TypeOK, Line
<1>2. AudioBeforeLine /\ LinesNameTheirAudio
  BY DEF AudioBeforeLine, LinesNameTheirAudio
<1>3. NumbersAscend
  BY DEF NumbersAscend, InHand
<1>4. TornByOthers
  BY DEF TornByOthers
<1>5. RecordsAccounted
  BY EmptySeq DEF RecordsAccounted, LinesBefore
<1> QED
  BY <1>1, <1>2, <1>3, <1>4, <1>5 DEF IInv

\* The parts carry each other through a step.
LEMMA StepInv == IInv /\ [Next]_vars => IInv'
  BY TypeStep, AudioStep, AscendStep, TornStep, AccountedStep DEF IInv

-----------------------------------------------------------------------------
(* The theorems.                                                           *)

\* Every run of the store keeps the inductive invariant, through crashes and
\* restarts.
THEOREM Invariance == Spec => []IInv
  BY InitInv, StepInv, PTL DEF Spec

\* Members and files keep their types, and the queue its capacity.
THEOREM TypeCorrect == Spec => []TypeOK
<1>1. IInv => TypeOK
  BY DEF IInv
<1> QED
  BY <1>1, Invariance, PTL

\* A line is never ahead of the audio that it names.
THEOREM AudioIsThere == Spec => []LinesNameTheirAudio
<1>1. IInv => LinesNameTheirAudio
  BY DEF IInv
<1> QED
  BY <1>1, Invariance, PTL

\* Each record is counted once, and the lines are the finished records.
THEOREM RecordsCounted == Spec => []RecordsAccounted
<1>1. IInv => RecordsAccounted
  BY DEF IInv
<1> QED
  BY <1>1, Invariance, PTL
==============================================================================
