--------------------------- MODULE RecordingStore ---------------------------
(***************************************************************************)
(* class RecordingStore of src/board/recording_store.hpp and the files it  *)
(* leaves behind: one WAV file per speech segment and one line per segment *)
(* in transcripts.jsonl, written by a thread of its own, through crashes   *)
(* and restarts of the program.                                            *)
(*                                                                         *)
(* The program numbers its segments from 0 in every run, and the name of a *)
(* WAV file is made of the day and that number. What is on disk survives a *)
(* crash of the program; what is queued or in hand does not.               *)
(*                                                                         *)
(* An operator followed by the definition it misstates (RenameBeside, ...) *)
(* is a mutation that a property is tried against.                         *)
(***************************************************************************)
EXTENDS Naturals, Sequences

CONSTANTS QueueCapacity,  \* queue_capacity
          MaxRecords,     \* bound of the model: records per run
          MaxRuns,        \* bound of the model: runs of the program
          MaxDays         \* bound of the model: days that pass

ASSUME CapacityAssumption == QueueCapacity \in Nat \ {0}
ASSUME BoundsAssumption ==
    MaxRecords \in Nat /\ MaxRuns \in Nat /\ MaxDays \in Nat \ {0}

VARIABLES
    conf,       \* [audio, transcript]: save_audio, save_transcript
    run,        \* number of this run of the program
    program,    \* "up", "joining" (in stop()) or "down"
    queue,      \* numbers of the queued segments
    worker,     \* place in worker_loop, persist and write_wav
    hand,       \* the segment in hand and the day its path was made
    broken,     \* the failbit of transcript_
    enqueued,   \* records given to enqueue() in this run
    dropped,    \* dropped_records_
    failed,     \* failed_records_
    finished,   \* numbers persist() returned for in this run, in order
    day,        \* today
    temporary,  \* the *.wav.tmp files, as [day, id]
    wavs,       \* the *.wav files: [day, id, run], the run whose audio it is
    lines,      \* transcripts.jsonl: [run, id, day, whole], the day in
                \* audio_path; the line stands alone
    torn        \* transcripts.jsonl ends in the middle of a line

fileVars  == <<lines, torn>>
diskVars  == <<temporary, wavs, lines, torn>>
countVars == <<enqueued, dropped, failed, finished>>
vars == <<conf, run, program, queue, worker, hand, broken, enqueued, dropped,
          failed, finished, day, temporary, wavs, lines, torn>>

\* The day of a line without audio_path.
NoDay == 0

Nothing == [id |-> 0, day |-> NoDay]

Init ==
    /\ conf \in [audio : BOOLEAN, transcript : BOOLEAN]
    /\ conf.audio \/ conf.transcript
    /\ run = 1 /\ program = "up"
    /\ queue = <<>> /\ worker = "popping" /\ hand = Nothing
    /\ broken = FALSE
    /\ enqueued = 0 /\ dropped = 0 /\ failed = 0 /\ finished = <<>>
    /\ day = 1
    /\ temporary = {} /\ wavs = {} /\ lines = <<>> /\ torn = FALSE

-----------------------------------------------------------------------------
(* The thread of the recogniser, and the main thread.                      *)

FullTooLate == Len(queue) > QueueCapacity

Full == Len(queue) >= QueueCapacity

\* enqueue(): try_push, or the record is dropped and counted.
Enqueue ==
    /\ program = "up"
    /\ enqueued < MaxRecords
    /\ enqueued' = enqueued + 1
    /\ \/ /\ ~Full
          /\ queue' = Append(queue, enqueued)
          /\ UNCHANGED dropped
       \/ /\ Full
          /\ dropped' = dropped + 1
          /\ UNCHANGED queue
    /\ UNCHANGED <<conf, run, program, worker, hand, broken, failed, finished,
                   day, diskVars>>

\* stop(): the queue is closed, then the worker is joined. Nothing is
\* enqueued any more (ServerRuntime.tla, Pipeline.tla).
Stop ==
    /\ program = "up"
    /\ program' = "joining"
    /\ UNCHANGED <<conf, run, queue, worker, hand, broken, countVars, day,
                   diskVars>>

Joined ==
    /\ program = "joining"
    /\ worker = "done"
    /\ program' = "down"
    /\ UNCHANGED <<conf, run, queue, worker, hand, broken, countVars, day,
                   diskVars>>

\* The flush puts a line into the file in pieces.
MayTear == conf.transcript /\ ~broken /\ worker = "line"

\* The program is killed, or fails elsewhere.
Crash ==
    /\ program # "down"
    /\ program' = "down"
    /\ torn' \in {torn, torn \/ MayTear}
    /\ UNCHANGED <<conf, run, queue, worker, hand, broken, countVars, day,
                   temporary, wavs, lines>>

\* The next run: start() opens transcripts.jsonl to append to it.
Restart ==
    /\ program = "down"
    /\ run < MaxRuns
    /\ run' = run + 1 /\ program' = "up"
    /\ queue' = <<>> /\ worker' = "popping" /\ hand' = Nothing
    /\ broken' = FALSE
    /\ enqueued' = 0 /\ dropped' = 0 /\ failed' = 0 /\ finished' = <<>>
    /\ UNCHANGED <<conf, day, diskVars>>

Midnight ==
    /\ day < MaxDays
    /\ day' = day + 1
    /\ UNCHANGED <<conf, run, program, queue, worker, hand, broken, countVars,
                   diskVars>>

-----------------------------------------------------------------------------
(* The worker.                                                             *)

WorkerGoes(from, to) ==
    /\ program # "down"
    /\ worker = from
    /\ worker' = to
    /\ UNCHANGED <<conf, run, program, enqueued, dropped, day>>

\* With save_audio the WAV is written first.
Pop ==
    /\ queue # <<>>
    /\ WorkerGoes("popping", IF conf.audio THEN "opening" ELSE "line")
    /\ queue' = Tail(queue)
    /\ hand' = [id |-> Head(queue), day |-> NoDay]
    /\ UNCHANGED <<broken, failed, finished, diskVars>>

\* The wait expired on the empty queue, or the queue is closed.
PopNothing ==
    /\ queue = <<>>
    /\ WorkerGoes("popping", "probing")
    /\ UNCHANGED <<queue, hand, broken, failed, finished, diskVars>>

Probe ==
    /\ WorkerGoes("probing", IF program = "joining" THEN "done" ELSE "popping")
    /\ UNCHANGED <<queue, hand, broken, failed, finished, diskVars>>

Path == [day |-> hand.day, id |-> hand.id]

\* The path is made from today's date; an old *.tmp is truncated.
OpenTemporary ==
    /\ WorkerGoes("opening", "writing")
    /\ hand' = [hand EXCEPT !.day = day]
    /\ temporary' = temporary \cup {[day |-> day, id |-> hand.id]}
    /\ UNCHANGED <<queue, broken, failed, finished, wavs, fileVars>>

FailsUncounted(place) ==
    /\ WorkerGoes(place, "popping")
    /\ hand' = Nothing
    /\ UNCHANGED <<queue, broken, failed, finished, wavs, fileVars>>

\* An exception out of persist() is counted, and the loop goes on.
Fails(place) ==
    /\ WorkerGoes(place, "popping")
    /\ failed' = failed + 1
    /\ hand' = Nothing
    /\ UNCHANGED <<queue, broken, finished, wavs, fileVars>>

\* The segment is empty, or directory or file cannot be made.
OpenFails == Fails("opening") /\ UNCHANGED temporary

\* The disk is full: the temporary file is removed.
WriteFails == Fails("writing") /\ temporary' = temporary \ {Path}

WriteSucceeds ==
    /\ WorkerGoes("writing", "renaming")
    /\ UNCHANGED <<queue, hand, broken, failed, finished, diskVars>>

\* The temporary file stays when it cannot be renamed.
RenameFails == Fails("renaming") /\ UNCHANGED temporary

RenameBeside ==
    /\ WorkerGoes("renaming", "line")
    /\ wavs' = IF \E w \in wavs : w.day = hand.day /\ w.id = hand.id THEN wavs
               ELSE wavs \cup {[day |-> hand.day, id |-> hand.id, run |-> run]}
    /\ temporary' = temporary \ {Path}
    /\ UNCHANGED <<queue, hand, broken, failed, finished, fileVars>>

\* rename() replaces a file of that name in one step.
Rename ==
    /\ WorkerGoes("renaming", "line")
    /\ wavs' = {w \in wavs : w.day # hand.day \/ w.id # hand.id}
               \cup {[day |-> hand.day, id |-> hand.id, run |-> run]}
    /\ temporary' = temporary \ {Path}
    /\ UNCHANGED <<queue, hand, broken, failed, finished, fileVars>>

\* The path cannot be made relative.
PathFails == conf.audio /\ Fails("line") /\ UNCHANGED temporary

\* What follows half a line spoils it, and is spoiled: start() opens the file
\* to append to it and never looks at its end.
NewLine == [run |-> run, id |-> hand.id, day |-> hand.day, whole |-> ~torn]

\* persist() returns.
Finishes ==
    /\ WorkerGoes("line", "popping")
    /\ finished' = Append(finished, hand.id)
    /\ hand' = Nothing
    /\ UNCHANGED <<queue, failed, temporary, wavs>>

\* The newline at the end is forgotten.
AppendLineUnended ==
    /\ conf.transcript /\ ~broken
    /\ Finishes
    /\ lines' = Append(lines, NewLine)
    /\ torn' = TRUE
    /\ UNCHANGED broken

\* The line is written and flushed.
AppendLine ==
    /\ conf.transcript /\ ~broken
    /\ Finishes
    /\ lines' = Append(lines, NewLine)
    /\ torn' = FALSE
    /\ UNCHANGED broken

\* The disk is full: a piece of the line at most is written, and nobody looks
\* at the failbit. A stream that has it set takes nothing.
LineLost ==
    /\ conf.transcript
    /\ Finishes
    /\ broken' = TRUE
    /\ torn' \in {torn, torn \/ ~broken}
    /\ UNCHANGED lines

AudioOnly ==
    /\ ~conf.transcript
    /\ Finishes
    /\ UNCHANGED <<broken, fileVars>>

-----------------------------------------------------------------------------
WorkerStep ==
    \/ Pop \/ PopNothing \/ Probe
    \/ OpenTemporary \/ OpenFails \/ WriteSucceeds \/ WriteFails
    \/ Rename \/ RenameFails \/ PathFails
    \/ AppendLine \/ LineLost \/ AudioOnly

Next == Enqueue \/ Stop \/ Joined \/ Crash \/ Restart \/ Midnight \/ WorkerStep

Spec == Init /\ [][Next]_vars

-----------------------------------------------------------------------------
(* Properties.                                                             *)

\* The variables keep their types (members of class RecordingStore), and the
\* queue its capacity.
TypeOK ==
    /\ conf \in [audio : BOOLEAN, transcript : BOOLEAN]
    /\ run \in Nat /\ program \in {"up", "joining", "down"}
    /\ queue \in Seq(Nat) /\ Len(queue) <= QueueCapacity
    /\ worker \in {"popping", "probing", "opening", "writing", "renaming",
                   "line", "done"}
    /\ hand \in [id : Nat, day : Nat]
    /\ broken \in BOOLEAN
    /\ enqueued \in Nat /\ dropped \in Nat /\ failed \in Nat
    /\ finished \in Seq(Nat)
    /\ day \in 1 .. MaxDays
    /\ temporary \subseteq [day : Nat, id : Nat]
    /\ wavs \subseteq [day : Nat, id : Nat, run : Nat]
    /\ lines \in Seq([run : Nat, id : Nat, day : Nat, whole : BOOLEAN])
    /\ torn \in BOOLEAN

\* A line that names a WAV file is never ahead of it: the finished file is
\* there, through every failure and crash, and holds the audio of that line
\* or, when the number came again on the same day, of a later run, but never
\* of an earlier one.
LinesNameTheirAudio ==
    \A i \in DOMAIN lines : lines[i].day # NoDay =>
        \E w \in wavs : /\ w.day = lines[i].day /\ w.id = lines[i].id
                        /\ w.run >= lines[i].run

\* The lines of transcripts.jsonl that earlier runs have written.
LinesBefore == Len(lines) - Len(finished)

\* Every record given to the store is dropped or failed and counted, waits,
\* is in hand or was finished; and unless the stream has failed, what was
\* finished is what transcripts.jsonl has of this run: its last lines, in the
\* same order, behind those of earlier runs, and each but the first stands
\* on a line of its own. Half a line that a crash or a full disk has left in
\* the file spoils the first.
RecordsAccounted ==
    LET inHand == IF worker \in {"opening", "writing", "renaming", "line"}
                  THEN 1 ELSE 0
    IN  /\ enqueued = dropped + failed + Len(queue) + inHand + Len(finished)
        /\ \A i, j \in DOMAIN finished : i < j => finished[i] < finished[j]
        /\ conf.transcript /\ ~broken =>
              /\ Len(finished) <= Len(lines)
              /\ \A i \in 1 .. LinesBefore : lines[i].run < run
              /\ \A i \in DOMAIN finished :
                    LET line == lines[LinesBefore + i]
                    IN  /\ line.run = run /\ line.id = finished[i]
                        /\ line.whole \/ i = 1

\* docs: speech segments are saved as WAV files, and it is left to the
\* deployment to rotate and to remove them. So the WAV file that a line names
\* keeps the audio of that line.
EachLineKeepsItsAudio ==
    \A i \in DOMAIN lines : lines[i].day # NoDay =>
        \E w \in wavs : /\ w.day = lines[i].day /\ w.id = lines[i].id
                        /\ w.run = lines[i].run
=============================================================================
