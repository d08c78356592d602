---------------------------- MODULE CaptureProbe ----------------------------
(***************************************************************************)
(* src/board/capture_probe.cpp: run_capture and its WavWriter, from the    *)
(* options to the end of the process, and the program that takes the       *)
(* recording over, read_wave of src/board/asr_probe.cpp.                   *)
(*                                                                         *)
(* The sizes in the header of a WAV file are not known before its end.     *)
(* They are written as 0 and put right by close(), which the end of        *)
(* run_capture or the destructor calls; the reader may come at any moment  *)
(* before, after, and when the program was killed in between. Audio is     *)
(* counted in samples; a sample is one unit of the sizes.                  *)
(*                                                                         *)
(* Not in the model: a loss of power, after which the disk may miss what   *)
(* the system had accepted, and audio that reads like a chunk header (the  *)
(* reader takes what follows a data chunk of size 0 for more chunks).      *)
(*                                                                         *)
(* An operator followed by the definition it misstates (TooLongYet, ...)   *)
(* is a mutation that a property is tried against.                         *)
(***************************************************************************)
EXTENDS Naturals

CONSTANTS MaxSize,    \* the largest 32-bit number, scaled down
          HeaderSize, \* the 36 bytes of header that the RIFF size counts
          Period,     \* the most samples one read returns
          MaxFrames   \* bound of the model: samples captured in all

ASSUME SizesAssumption == {MaxSize, HeaderSize, Period} \subseteq Nat \ {0}
ASSUME MaxFramesAssumption == MaxFrames \in Nat /\ MaxFrames > MaxSize

VARIABLES
    place,      \* how far the process has come
    stop,       \* g_stop
    toFile,     \* options.wav_path is not empty
    frames,     \* stats.frames
    got,        \* samples of the last read
    readErrors, \* stats.read_errors # 0
    thrown,     \* an exception is on its way to main()
    exit,       \* the exit status, NoExit while there is none
    stream,     \* output_: "closed", "good", or "bad" after a failure
    dataBytes,  \* data_bytes_
    file,       \* the sizes in the file's header, the samples that follow
    diskFailed  \* history: the system has refused a write or a seek

wavVars  == <<stream, dataBytes, file, diskFailed>>
vars == <<place, stop, toFile, frames, got, readErrors, thrown, exit,
          stream, dataBytes, file, diskFailed>>

NoExit == 2

Init ==
    /\ place = "options" /\ stop = FALSE /\ toFile \in BOOLEAN
    /\ frames = 0 /\ got = 0 /\ readErrors = FALSE
    /\ thrown = FALSE /\ exit = NoExit
    /\ stream = "closed" /\ dataBytes = 0
    /\ file = [riff |-> 0, size |-> 0, audio |-> 0]
    /\ diskFailed = FALSE

\* SIGINT or SIGTERM; the loop looks at g_stop.
Signal ==
    /\ ~stop
    /\ stop' = TRUE
    /\ UNCHANGED <<place, toFile, frames, got, readErrors, thrown, exit, wavVars>>

\* SIGKILL; the open stream's buffer is lost, the file stays as it is.
Killed ==
    /\ place \notin {"done", "killed"}
    /\ place' = "killed"
    /\ UNCHANGED <<stop, toFile, frames, got, readErrors, thrown, exit, wavVars>>

Goes(from, to) ==
    /\ place = from
    /\ place' = to
    /\ UNCHANGED <<stop, toFile>>

-----------------------------------------------------------------------------
(* Options and device.                                                     *)

ParseOptions ==
    /\ Goes("options", "set_up")
    /\ UNCHANGED <<frames, got, readErrors, thrown, exit, wavVars>>

\* --help, or an option is refused.
LeaveAtOnce ==
    /\ Goes("options", "done")
    /\ exit' \in {0, 1}
    /\ UNCHANGED <<frames, got, readErrors, thrown, wavVars>>

\* A refusal of the device or of WavWriter::open leaves nothing to close.
SetUpFails ==
    /\ Goes("set_up", "end")
    /\ thrown' = TRUE
    /\ UNCHANGED <<frames, got, readErrors, exit, wavVars>>

\* The device is prepared and the file opened, with 0 for its sizes.
SetUp ==
    /\ Goes("set_up", "loop")
    /\ stream' = IF toFile THEN "good" ELSE "closed"
    /\ UNCHANGED <<frames, got, readErrors, thrown, exit, dataBytes, file,
                   diskFailed>>

-----------------------------------------------------------------------------
(* The loop of run_capture.                                                *)

Loops(from, to) ==
    /\ Goes(from, to)
    /\ UNCHANGED <<thrown, exit, wavVars>>

\* g_stop is seen, or run_ms is over.
LoopEnds ==
    /\ Loops("loop", "closing")
    /\ UNCHANGED <<frames, got, readErrors>>

LoopGoesOn ==
    /\ ~stop
    /\ Loops("loop", "reading")
    /\ UNCHANGED <<frames, got, readErrors>>

Read(n) ==
    /\ frames + n <= MaxFrames
    /\ Loops("reading", "saving")
    /\ got' = n
    /\ frames' = frames + n
    /\ UNCHANGED readErrors

\* No sample, or EAGAIN.
ReadNothing ==
    /\ Loops("reading", "loop")
    /\ UNCHANGED <<frames, got, readErrors>>

\* EINTR, and the signal was for us.
ReadInterrupted ==
    /\ stop
    /\ Loops("reading", "closing")
    /\ UNCHANGED <<frames, got, readErrors>>

\* Any other error, or a signal that is seen too late: snd_pcm_recover.
Recover ==
    /\ Loops("reading", "loop")
    /\ UNCHANGED <<frames, got, readErrors>>

RecoverFails ==
    /\ Loops("reading", "closing")
    /\ readErrors' = TRUE
    /\ UNCHANGED <<frames, got>>

-----------------------------------------------------------------------------
(* WavWriter.                                                              *)

Writes(from, to) ==
    /\ Goes(from, to)
    /\ UNCHANGED <<frames, got, readErrors, exit>>

TooLongYet(n) == dataBytes > MaxSize

TooLong(n) == dataBytes + n > MaxSize

\* Without a file there is nothing to write.
SaveNothing ==
    /\ ~toFile
    /\ Writes("saving", "loop")
    /\ UNCHANGED <<thrown, wavVars>>

\* What the stream accepts may stay in its buffer for a while.
Save ==
    /\ toFile /\ ~TooLong(got)
    /\ Writes("saving", "loop")
    /\ dataBytes' = dataBytes + got
    /\ \E n \in file.audio .. dataBytes' : file' = [file EXCEPT !.audio = n]
    /\ UNCHANGED <<thrown, stream, diskFailed>>

\* The stream fails, with a part of the samples in the file or none.
SaveFails ==
    /\ toFile /\ ~TooLong(got)
    /\ Writes("saving", "closing")
    /\ thrown' = TRUE
    /\ stream' = "bad" /\ diskFailed' = TRUE
    /\ \E n \in file.audio .. dataBytes + got : file' = [file EXCEPT !.audio = n]
    /\ UNCHANGED dataBytes

SaveTooMuchSkips ==
    /\ toFile /\ TooLong(got)
    /\ Writes("saving", "loop")
    /\ UNCHANGED <<thrown, wavVars>>

SaveTooMuchLeaves ==
    /\ toFile /\ TooLong(got)
    /\ Writes("saving", "end")
    /\ thrown' = TRUE
    /\ UNCHANGED wavVars

\* The exception destroys the WavWriter, which calls close().
SaveTooMuch ==
    /\ toFile /\ TooLong(got)
    /\ Writes("saving", "closing")
    /\ thrown' = TRUE
    /\ UNCHANGED wavVars

\* What was put into the stream reaches the file, or the system refuses it.
\* A stream that failed before does nothing any more.
Flush(patched) ==
    \/ /\ stream = "good"
       /\ file' = patched
       /\ UNCHANGED <<stream, diskFailed>>
    \/ /\ stream = "good"
       /\ stream' = "bad" /\ diskFailed' = TRUE
       /\ UNCHANGED file
    \/ /\ stream = "bad"
       /\ UNCHANGED <<stream, file, diskFailed>>

Word(n) == n % (MaxSize + 1)

\* close(): seekp(4) flushes the audio, seekp(40) the RIFF size, and the
\* closing of the stream the data size. Nobody looks at their success.
CloseNothing ==
    /\ stream = "closed"
    /\ Writes("closing", "end")
    /\ UNCHANGED <<thrown, wavVars>>

CloseAudio ==
    /\ Writes("closing", "closing_riff")
    /\ Flush([file EXCEPT !.audio = dataBytes])
    /\ UNCHANGED <<thrown, dataBytes>>

CloseRiff ==
    /\ Writes("closing_riff", "closing_size")
    /\ Flush([file EXCEPT !.riff = Word(HeaderSize + dataBytes)])
    /\ UNCHANGED <<thrown, dataBytes>>

CloseSize ==
    /\ Writes("closing_size", "end")
    /\ Flush([file EXCEPT !.size = Word(dataBytes)])
    /\ UNCHANGED <<thrown, dataBytes>>

\* The exit status: 1 from the handler of main() or after a read error.
End ==
    /\ Goes("end", "done")
    /\ exit' = IF thrown \/ readErrors THEN 1 ELSE 0
    /\ UNCHANGED <<frames, got, readErrors, thrown, wavVars>>

-----------------------------------------------------------------------------
Next ==
    \/ Signal \/ Killed
    \/ ParseOptions \/ LeaveAtOnce \/ SetUp \/ SetUpFails
    \/ LoopEnds \/ LoopGoesOn
    \/ \E n \in 1 .. Period : Read(n)
    \/ ReadNothing \/ ReadInterrupted \/ Recover \/ RecoverFails
    \/ SaveNothing \/ Save \/ SaveFails \/ SaveTooMuch
    \/ CloseNothing \/ CloseAudio \/ CloseRiff \/ CloseSize \/ End

Spec == Init /\ [][Next]_vars

-----------------------------------------------------------------------------
(* The reader, and the properties.                                         *)

\* read_wave of asr_probe takes the file: its data chunk is not empty and
\* does not reach beyond the end. The RIFF size is not looked at.
Readable == file.size # 0 /\ file.size <= file.audio

\* The variables keep their types; the data size fits in its 32 bits.
TypeOK ==
    /\ place \in {"options", "set_up", "loop", "reading", "saving", "closing",
                  "closing_riff", "closing_size", "end", "done", "killed"}
    /\ {stop, toFile, readErrors, thrown, diskFailed} \subseteq BOOLEAN
    /\ frames \in 0 .. MaxFrames /\ got \in 0 .. Period
    /\ exit \in {0, 1, NoExit} /\ stream \in {"closed", "good", "bad"}
    /\ dataBytes \in 0 .. MaxSize
    /\ file \in [riff : 0 .. MaxSize, size : 0 .. MaxSize, audio : 0 .. MaxFrames]

\* Whenever asr_probe comes, while the recording goes on, between the steps
\* of close(), after a kill or a full disk: a file it takes holds everything
\* that was captured, but for the one read that broke the size limit.
AcceptedIsWhole ==
    Readable => file.size = dataBytes
                /\ dataBytes = IF thrown THEN frames - got ELSE frames

\* A recording that ends by itself, whatever the reason (a signal, run_ms, a
\* lost device, the size limit), can be read afterwards, unless the disk
\* refused to take it.
EndLeavesReadableFile ==
    place = "done" /\ dataBytes > 0 /\ ~diskFailed => Readable
=============================================================================
