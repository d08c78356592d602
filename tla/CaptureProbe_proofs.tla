------------------------ MODULE CaptureProbe_proofs ------------------------
(***************************************************************************)
(* Theorems about CaptureProbe for every size limit, header, length of a   *)
(* read and number of samples: what a reader that comes at any moment may  *)
(* rely on, and what a recording that ended leaves behind.                 *)
(***************************************************************************)
EXTENDS CaptureProbe, TLAPS

USE SizesAssumption, MaxFramesAssumption

\* Places from which close() is still to come, while the loop runs.
Looping == {"loop", "reading", "saving"}

\* Places of close() behind its first step.
Patching == {"closing_riff", "closing_size"}

\* Places behind close().
Over == {"end", "done"}

\* What the samples in the stream have to do with the samples captured. The
\* only read that may be missing is the one in hand when write() threw.
Counted ==
    /\ place \in {"options", "set_up"} => frames = 0 /\ dataBytes = 0 /\ ~thrown
    /\ place \in {"loop", "reading"} =>
          ~thrown /\ (toFile => dataBytes = frames)
    /\ place = "saving" =>
          ~thrown /\ (toFile => dataBytes + got = frames)
    /\ place \in {"closing"} \cup Patching =>
          (toFile => dataBytes = IF thrown THEN frames - got ELSE frames)
    /\ stream # "closed" => toFile

\* The data size leaves 0 only with the last step of close(), after which
\* nothing is counted any more.
Sealed ==
    file.size # 0 =>
        /\ place \in Over \cup {"killed"}
        /\ file.size = dataBytes
        /\ dataBytes = IF thrown THEN frames - got ELSE frames

\* A disk that refuses nothing takes all audio before it takes the sizes.
Kept ==
    /\ stream = "bad" => diskFailed
    /\ stream = "closed" => dataBytes = 0
    /\ place \in Looping /\ toFile => stream # "closed"
    /\ place \in Patching /\ ~diskFailed => file.audio = dataBytes
    /\ place \in Over /\ ~diskFailed /\ dataBytes > 0 =>
          file.audio = dataBytes /\ file.size = dataBytes

\* The inductive invariant.
IInv == TypeOK /\ Counted /\ Sealed /\ Kept

-----------------------------------------------------------------------------
(* What close() writes.                                                    *)

\* The 32-bit field takes every size; one within the limit of write() is
\* taken as it is.
LEMMA WordFits ==
    ASSUME NEW n \in Nat
    PROVE  Word(n) \in 0 .. MaxSize /\ (n <= MaxSize => Word(n) = n)
  BY DEF Word

Files == [riff : 0 .. MaxSize, size : 0 .. MaxSize, audio : 0 .. MaxFrames]

\* Whether the system takes what the stream hands over or refuses it, file
\* and stream keep their types.
LEMMA FlushKeepsTypes ==
    ASSUME TypeOK, NEW patched \in Files, Flush(patched)
    PROVE  /\ file' \in Files /\ stream' \in {"closed", "good", "bad"}
           /\ diskFailed' \in BOOLEAN
  BY DEF TypeOK, Flush, Files

-----------------------------------------------------------------------------
(* One step of the program.                                                *)

\* A size never leaves its 32 bits, since write() asks before it adds.
LEMMA TypeStep ==
    ASSUME TypeOK, [Next]_vars
    PROVE  TypeOK'
<1> USE DEF Goes, Loops, Writes, wavVars, TypeOK
<1>0. CASE UNCHANGED vars
  BY <1>0 DEF vars
<1>1. CASE Signal
  BY <1>1 DEF Signal
<1>2. CASE Killed
  BY <1>2 DEF Killed
<1>3. CASE ParseOptions
  BY <1>3 DEF ParseOptions
<1>4. CASE LeaveAtOnce
  BY <1>4 DEF LeaveAtOnce
<1>5. CASE SetUp
  BY <1>5 DEF SetUp
<1>6. CASE SetUpFails
  BY <1>6 DEF SetUpFails
<1>7. CASE LoopEnds
  BY <1>7 DEF LoopEnds
<1>8. CASE LoopGoesOn
  BY <1>8 DEF LoopGoesOn
<1>9. ASSUME NEW n \in 1 .. Period, Read(n) PROVE TypeOK'
  BY <1>9 DEF Read
<1>10. CASE ReadNothing
  BY <1>10 DEF ReadNothing
<1>11. CASE ReadInterrupted
  BY <1>11 DEF ReadInterrupted
<1>12. CASE Recover
  BY <1>12 DEF Recover
<1>13. CASE RecoverFails
  BY <1>13 DEF RecoverFails
<1>14. CASE SaveNothing
  BY <1>14 DEF SaveNothing
<1>15. CASE Save
  BY <1>15 DEF Save, TooLong
<1>16. CASE SaveFails
  BY <1>16 DEF SaveFails, TooLong
<1>17. CASE SaveTooMuch
  BY <1>17 DEF SaveTooMuch, TooLong
<1>18. CASE CloseNothing
  BY <1>18 DEF CloseNothing
<1>19. CASE CloseAudio
  <2>1. [file EXCEPT !.audio = dataBytes] \in Files
    BY DEF Files
  <2>2. /\ file' \in Files /\ stream' \in {"closed", "good", "bad"}
        /\ diskFailed' \in BOOLEAN
    BY <1>19, <2>1, FlushKeepsTypes DEF CloseAudio
  <2> QED
    BY <1>19, <2>2 DEF CloseAudio, Files
<1>20. CASE CloseRiff
  <2>1. [file EXCEPT !.riff = Word(HeaderSize + dataBytes)] \in Files
    BY WordFits DEF Files
  <2>2. /\ file' \in Files /\ stream' \in {"closed", "good", "bad"}
        /\ diskFailed' \in BOOLEAN
    BY <1>20, <2>1, FlushKeepsTypes DEF CloseRiff
  <2> QED
    BY <1>20, <2>2 DEF CloseRiff, Files
<1>21. CASE CloseSize
  <2>1. [file EXCEPT !.size = Word(dataBytes)] \in Files
    BY WordFits DEF Files
  <2>2. /\ file' \in Files /\ stream' \in {"closed", "good", "bad"}
        /\ diskFailed' \in BOOLEAN
    BY <1>21, <2>1, FlushKeepsTypes DEF CloseSize
  <2> QED
    BY <1>21, <2>2 DEF CloseSize, Files
<1>22. CASE End
  BY <1>22 DEF End
<1> QED
  BY <1>0, <1>1, <1>2, <1>3, <1>4, <1>5, <1>6, <1>7, <1>8, <1>9, <1>10, <1>11,
     <1>12, <1>13, <1>14, <1>15, <1>16, <1>17, <1>18, <1>19, <1>20, <1>21, <1>22
     DEF Next

\* run_capture writes what it has read before it reads again, or leaves.
LEMMA CountedStep ==
    ASSUME TypeOK, Counted, [Next]_vars
    PROVE  Counted'
<1> USE DEF Goes, Loops, Writes, wavVars, TypeOK, Counted, Patching
<1>0. CASE UNCHANGED vars
  BY <1>0 DEF vars
<1>1. CASE Signal
  BY <1>1 DEF Signal
<1>2. CASE Killed
  BY <1>2 DEF Killed
<1>3. CASE ParseOptions
  BY <1>3 DEF ParseOptions
<1>4. CASE LeaveAtOnce
  BY <1>4 DEF LeaveAtOnce
<1>5. CASE SetUp
  BY <1>5 DEF SetUp
<1>6. CASE SetUpFails
  BY <1>6 DEF SetUpFails
<1>7. CASE LoopEnds
  BY <1>7 DEF LoopEnds
<1>8. CASE LoopGoesOn
  BY <1>8 DEF LoopGoesOn
<1>9. ASSUME NEW n \in 1 .. Period, Read(n) PROVE Counted'
  BY <1>9 DEF Read
<1>10. CASE ReadNothing
  BY <1>10 DEF ReadNothing
<1>11. CASE ReadInterrupted
  BY <1>11 DEF ReadInterrupted
<1>12. CASE Recover
  BY <1>12 DEF Recover
<1>13. CASE RecoverFails
  BY <1>13 DEF RecoverFails
<1>14. CASE SaveNothing
  BY <1>14 DEF SaveNothing
<1>15. CASE Save
  BY <1>15 DEF Save, TooLong
<1>16. CASE SaveFails
  BY <1>16 DEF SaveFails, TooLong
<1>17. CASE SaveTooMuch
  BY <1>17 DEF SaveTooMuch, TooLong
<1>18. CASE CloseNothing
  BY <1>18 DEF CloseNothing
<1>19. CASE CloseAudio
  BY <1>19 DEF CloseAudio, Flush
<1>20. CASE CloseRiff
  BY <1>20 DEF CloseRiff, Flush
<1>21. CASE CloseSize
  BY <1>21, WordFits DEF CloseSize, Flush
<1>22. CASE End
  BY <1>22 DEF End
<1> QED
  BY <1>0, <1>1, <1>2, <1>3, <1>4, <1>5, <1>6, <1>7, <1>8, <1>9, <1>10, <1>11,
     <1>12, <1>13, <1>14, <1>15, <1>16, <1>17, <1>18, <1>19, <1>20, <1>21, <1>22
     DEF Next

\* Only close() puts a size into the header, and nothing follows it.
LEMMA SealedStep ==
    ASSUME TypeOK, Counted, Sealed, Kept, [Next]_vars
    PROVE  Sealed'
<1> USE DEF Goes, Loops, Writes, wavVars, TypeOK, Counted,
           Sealed, Kept, Looping, Patching, Over
<1>0. CASE UNCHANGED vars
  BY <1>0 DEF vars
<1>1. CASE Signal
  BY <1>1 DEF Signal
<1>2. CASE Killed
  BY <1>2 DEF Killed
<1>3. CASE ParseOptions
  BY <1>3 DEF ParseOptions
<1>4. CASE LeaveAtOnce
  BY <1>4 DEF LeaveAtOnce
<1>5. CASE SetUp
  BY <1>5 DEF SetUp
<1>6. CASE SetUpFails
  BY <1>6 DEF SetUpFails
<1>7. CASE LoopEnds
  BY <1>7 DEF LoopEnds
<1>8. CASE LoopGoesOn
  BY <1>8 DEF LoopGoesOn
<1>9. ASSUME NEW n \in 1 .. Period, Read(n) PROVE Sealed'
  BY <1>9 DEF Read
<1>10. CASE ReadNothing
  BY <1>10 DEF ReadNothing
<1>11. CASE ReadInterrupted
  BY <1>11 DEF ReadInterrupted
<1>12. CASE Recover
  BY <1>12 DEF Recover
<1>13. CASE RecoverFails
  BY <1>13 DEF RecoverFails
<1>14. CASE SaveNothing
  BY <1>14 DEF SaveNothing
<1>15. CASE Save
  BY <1>15 DEF Save, TooLong
<1>16. CASE SaveFails
  BY <1>16 DEF SaveFails, TooLong
<1>17. CASE SaveTooMuch
  BY <1>17 DEF SaveTooMuch, TooLong
<1>18. CASE CloseNothing
  BY <1>18 DEF CloseNothing
<1>19. CASE CloseAudio
  BY <1>19 DEF CloseAudio, Flush
<1>20. CASE CloseRiff
  BY <1>20 DEF CloseRiff, Flush
<1>21. CASE CloseSize
  BY <1>21, WordFits DEF CloseSize, Flush
<1>22. CASE End
  BY <1>22 DEF End
<1> QED
  BY <1>0, <1>1, <1>2, <1>3, <1>4, <1>5, <1>6, <1>7, <1>8, <1>9, <1>10, <1>11,
     <1>12, <1>13, <1>14, <1>15, <1>16, <1>17, <1>18, <1>19, <1>20, <1>21, <1>22
     DEF Next

\* The audio is flushed before either size, and a failed stream stays failed.
LEMMA KeptStep ==
    ASSUME TypeOK, Counted, Sealed, Kept, [Next]_vars
    PROVE  Kept'
<1> USE DEF Goes, Loops, Writes, wavVars, TypeOK, Counted,
           Sealed, Kept, Looping, Patching, Over
<1>0. CASE UNCHANGED vars
  BY <1>0 DEF vars
<1>1. CASE Signal
  BY <1>1 DEF Signal
<1>2. CASE Killed
  BY <1>2 DEF Killed
<1>3. CASE ParseOptions
  BY <1>3 DEF ParseOptions
<1>4. CASE LeaveAtOnce
  BY <1>4 DEF LeaveAtOnce
<1>5. CASE SetUp
  BY <1>5 DEF SetUp
<1>6. CASE SetUpFails
  BY <1>6 DEF SetUpFails
<1>7. CASE LoopEnds
  BY <1>7 DEF LoopEnds
<1>8. CASE LoopGoesOn
  BY <1>8 DEF LoopGoesOn
<1>9. ASSUME NEW n \in 1 .. Period, Read(n) PROVE Kept'
  BY <1>9 DEF Read
<1>10. CASE ReadNothing
  BY <1>10 DEF ReadNothing
<1>11. CASE ReadInterrupted
  BY <1>11 DEF ReadInterrupted
<1>12. CASE Recover
  BY <1>12 DEF Recover
<1>13. CASE RecoverFails
  BY <1>13 DEF RecoverFails
<1>14. CASE SaveNothing
  BY <1>14 DEF SaveNothing
<1>15. CASE Save
  BY <1>15 DEF Save, TooLong
<1>16. CASE SaveFails
  BY <1>16 DEF SaveFails, TooLong
<1>17. CASE SaveTooMuch
  BY <1>17 DEF SaveTooMuch, TooLong
<1>18. CASE CloseNothing
  BY <1>18 DEF CloseNothing
<1>19. CASE CloseAudio
  BY <1>19 DEF CloseAudio, Flush
<1>20. CASE CloseRiff
  BY <1>20 DEF CloseRiff, Flush
<1>21. CASE CloseSize
  BY <1>21, WordFits DEF CloseSize, Flush
<1>22. CASE End
  BY <1>22 DEF End
<1> QED
  BY <1>0, <1>1, <1>2, <1>3, <1>4, <1>5, <1>6, <1>7, <1>8, <1>9, <1>10, <1>11,
     <1>12, <1>13, <1>14, <1>15, <1>16, <1>17, <1>18, <1>19, <1>20, <1>21, <1>22
     DEF Next

\* A program that has not read its options has captured and written nothing.
LEMMA InitInv == Init => IInv
<1> SUFFICES ASSUME Init PROVE IInv
  OBVIOUS
<1> USE DEF Init
<1>1. TypeOK
  <2>1. {stop, toFile, readErrors, thrown, diskFailed} \subseteq BOOLEAN
    OBVIOUS
  <2>2. /\ file \in Files /\ frames \in 0 .. MaxFrames /\ got \in 0 .. Period
        /\ exit \in {0, 1, NoExit} /\ dataBytes \in 0 .. MaxSize
    BY DEF Files, NoExit
  <2> QED
    BY <2>1, <2>2 DEF TypeOK, Files
<1>2. Counted
  BY DEF Counted, Patching
<1>3. Sealed /\ Kept
  BY DEF Sealed, Kept, Looping, Patching, Over
<1> QED
  BY <1>1, <1>2, <1>3 DEF IInv

\* The four parts carry each other through a step.
LEMMA StepInv == IInv /\ [Next]_vars => IInv'
  BY TypeStep, CountedStep, SealedStep, KeptStep DEF IInv

-----------------------------------------------------------------------------
(* The theorems.                                                           *)

\* Every run of capture_probe keeps the inductive invariant.
THEOREM Invariance == Spec => []IInv
  BY InitInv, StepInv, PTL DEF Spec

\* The counter data_bytes_ and the sizes in the header stay in 32 bits,
\* however long capture_probe records.
THEOREM TypeCorrect == Spec => []TypeOK
<1>1. IInv => TypeOK
  BY DEF IInv
<1> QED
  BY <1>1, Invariance, PTL

\* read_wave never takes a recording that is cut short: not while it goes on,
\* not between the steps of close(), not after a kill or a full disk.
THEOREM AcceptedFilesAreWhole == Spec => []AcceptedIsWhole
<1>1. IInv => AcceptedIsWhole
  BY DEF IInv, Sealed, AcceptedIsWhole, Readable
<1> QED
  BY <1>1, Invariance, PTL

\* Whatever ends run_capture, its destructor or its last lines close the file
\* so that read_wave takes it, unless the disk refused a write.
THEOREM EndedRecordingsAreReadable == Spec => []EndLeavesReadableFile
<1>1. IInv => EndLeavesReadableFile
  BY DEF IInv, TypeOK, Kept, Over, EndLeavesReadableFile, Readable
<1> QED
  BY <1>1, Invariance, PTL
=============================================================================
