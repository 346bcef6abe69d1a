-------------------------- MODULE ChangingFileProofs --------------------------
(***************************************************************************)
(* An input that is shortened while it is read, for every size of chunks,  *)
(* pages and files: when the process dies of it, and what becomes of a run *)
(* whose output is its input.                                              *)
(***************************************************************************)
EXTENDS ChangingFile, OutputProofs

(* What ParserStep copies from the chunk it fetches.                        *)
Copied ==
  IF pc = "refill" /\ currentOffset' # currentOffset /\ pc' = "data"
  THEN ChunkRead ELSE {}

(* Until the process dies of the file, the parser keeps its own invariant.  *)
ChangingInv ==
  /\ ChangingTypeOK
  /\ fileSize \in Nat /\ chunkUnprocessedSize \in Nat
  /\ signal = "none" => InputInv
  /\ signal = "SIGBUS" => pc = "crashed"
  /\ FaultOnlyIfShrunk

(* A run over its own input: nothing is read and nothing written between    *)
(* the truncation and the end, which a header that is too short may be.     *)
SameFileInv ==
  sameFile /\ fileSize > 0 =>
    \/ pc \in EarlyPhases /\ exception = "none" /\ outputFile = <<>>
         /\ (pc = "open" => chunkOffset.base = "chunk")
    \/ pc \in {"global", "loop", "header"} /\ exception = "none" /\ outputFile = <<>>
         /\ diskSize = 0 /\ chunkOffset.base = "chunk"
         /\ chunkUnprocessedSize = currentOffset /\ chunkUnprocessedSize > 0
         /\ (currentOffset < ChunkSize => currentOffset = fileSize)
         /\ (pc # "global" => chunkUnprocessedSize < GlobalHeaderSize)
    \/ pc \in {"destroy", "done"} /\ exception = "header" /\ fileSize < PacketHeaderSize
    \/ pc = "done" /\ exception # "none" /\ outputFile = <<>>
    \/ pc = "crashed" /\ outputFile = <<>>

-----------------------------------------------------------------------------
(* What is read lies inside the size taken first. *)

(* The bytes of a window in the first chunk are bytes of the file.          *)
LEMMA WindowReadInFile ==
  ASSUME InputInv
  PROVE  WindowRead \subseteq 0 .. fileSize - 1
<1>1. chunkOffset.base = "chunk" =>
        /\ chunkOffset.index + chunkUnprocessedSize = currentOffset
        /\ currentOffset <= fileSize
  BY DEF InputInv, WindowPlace, Control
<1>2. ASSUME NEW n \in Nat, n <= chunkUnprocessedSize
      PROVE  WindowMapped(n) \subseteq 0 .. fileSize - 1
  BY <1>1, <1>2, Basics DEF WindowMapped
<1> DEFINE wanted == CASE pc = "global" -> GlobalHeaderSize
                       [] pc = "header" -> PacketHeaderSize
                       [] pc = "data" -> inclLen
                       [] OTHER -> chunkUnprocessedSize + 1
<1>3. wanted \in Nat
  BY SizesAssumption, Basics
<1> HIDE DEF wanted
<1>4. WindowRead = IF wanted <= chunkUnprocessedSize THEN WindowMapped(wanted)
                   ELSE IF pc = "refill" /\ chunkUnprocessedSize < inclLen
                        THEN WindowMapped(chunkUnprocessedSize)
                        ELSE {}
  BY DEF WindowRead, wanted
<1>5. chunkUnprocessedSize \in Nat
  BY Basics
<1> QED
  BY <1>2, <1>3, <1>4, <1>5

(* So are those of a chunk that is fetched.                                 *)
LEMMA ChunkReadInFile ==
  ASSUME IOTypeOK, ~Exhausted
  PROVE  ChunkRead \subseteq 0 .. fileSize - 1
BY NextChunkFacts, ChunkSizeAssumption, FileSizesAssumption DEF ChunkRead, IOTypeOK

(* A file that has kept its size can be read.                               *)
LEMMA ReadableIfKept ==
  ASSUME NEW bytes, bytes \subseteq 0 .. fileSize - 1, fileSize \in Nat,
         diskSize = fileSize
  PROVE  Readable(bytes)
<1> SUFFICES ASSUME NEW b \in bytes
             PROVE  PageSize * (b \div PageSize) < diskSize
  BY DEF Readable
<1>1. b \in Nat /\ b < diskSize /\ PageSize \in Nat \ {0}
  BY PageSizeAssumption
<1>2. /\ b \div PageSize \in Nat /\ b % PageSize \in 0 .. PageSize - 1
      /\ b % PageSize = b - PageSize * (b \div PageSize)
  BY <1>1, Remainders
<1>3. PageSize * (b \div PageSize) \in Nat
  BY <1>1, <1>2
<1> QED
  BY <1>1, <1>2, <1>3

(* Of a file of which nothing is left, nothing can be.                      *)
LEMMA NothingReadable ==
  ASSUME NEW bytes, NEW b \in bytes, b \in Nat, diskSize = 0
  PROVE  ~Readable(bytes)
<1>1. b \div PageSize \in Nat /\ PageSize \in Nat \ {0}
  BY PageSizeAssumption, Remainders
<1>2. PageSize * (b \div PageSize) \in Nat
  BY <1>1
<1> QED
  BY <1>2 DEF Readable

-----------------------------------------------------------------------------
(* ChangingInv is inductive. *)

(* The invariant holds when the size of the file is taken.                  *)
LEMMA ChangingInitially == ChangingInit => ChangingInv
<1> SUFFICES ASSUME ChangingInit PROVE ChangingInv
  OBVIOUS
<1>1. InputInv
  BY InputInit DEF ChangingInit
<1>2. fileSize \in Nat /\ chunkUnprocessedSize \in Nat
  BY <1>1, Basics
<1> QED
  BY <1>1, <1>2 DEF ChangingInit, ChangingInv, ChangingTypeOK, FaultOnlyIfShrunk

(* When the program has ended, nothing is read.                             *)
LEMMA NothingReadAtEnd ==
  ASSUME pc \in {"open", "loop", "destroy", "done", "crashed"}, chunkUnprocessedSize \in Nat
  PROVE  WindowRead = {}
<1> DEFINE wanted == CASE pc = "global" -> GlobalHeaderSize
                       [] pc = "header" -> PacketHeaderSize
                       [] pc = "data" -> inclLen
                       [] OTHER -> chunkUnprocessedSize + 1
<1>1. wanted = chunkUnprocessedSize + 1
  OBVIOUS
<1>2. ~(wanted <= chunkUnprocessedSize)
  BY <1>1
<1> HIDE DEF wanted
<1>3. WindowRead = IF wanted <= chunkUnprocessedSize THEN WindowMapped(wanted)
                   ELSE IF pc = "refill" /\ chunkUnprocessedSize < inclLen
                        THEN WindowMapped(chunkUnprocessedSize)
                        ELSE {}
  BY DEF WindowRead, wanted
<1> QED
  BY <1>2, <1>3

(* After a signal nothing happens any more.                                 *)
LEMMA DeadStep ==
  ASSUME ChangingInv, signal = "SIGBUS", [ChangingNext]_allVars
  PROVE  UNCHANGED allVars
<1>1. pc = "crashed" /\ WindowRead = {}
  BY NothingReadAtEnd DEF ChangingInv
<1>2. CASE ParserStep
  <2>1. UNCHANGED vars
    BY <1>1, <1>2
    DEF ParserStep, Next, GetFileSize, FetchFirstChunk, OpenOutput, ParseGlobalHeader,
        TestLoop, ReadPacketHeader, ReadMoreInput, RefillNotNeeded, ReadPacketData,
        SkipPayload, ProcessPayload, Crash, FlushIfDue, Destroy, Halted
  <2>2. UNCHANGED <<diskSize, sameFile, signal>>
    BY <1>1, <1>2 DEF ParserStep
  <2>3. fabricated' = fabricated
    BY <1>1, <1>2 DEF ParserStep, BeyondEnd
  <2> QED
    BY <2>1, <2>2, <2>3 DEF allVars, fileVars
<1>3. CASE FaultInWindow
  BY <1>1, <1>3 DEF FaultInWindow, Readable
<1>4. CASE FaultInChunk
  BY <1>1, <1>4 DEF FaultInChunk
<1>5. CASE Shrink
  BY <1>1, <1>5 DEF Shrink
<1> QED
  BY <1>2, <1>3, <1>4, <1>5 DEF ChangingNext, Run

(* What a step of the parser reads lies in the file, as it was.             *)
LEMMA ParserReadsFile ==
  ASSUME InputInv, ParserStep
  PROVE  /\ WindowRead \cup Copied \subseteq 0 .. fileSize - 1
         /\ fileSize' = fileSize
<1>1. [IONext]_ioVars
  BY MapperCalls DEF ParserStep
<1>2. fileSize' = fileSize
  BY <1>1 DEF IONext, FetchReportsEnd, FetchMapsChunk, OpenFails, MapFails, ioVars
<1>3. CASE currentOffset' # currentOffset
  <2>1. ~Exhausted
    BY <1>1, <1>3
    DEF IONext, FetchReportsEnd, FetchMapsChunk, OpenFails, MapFails, ioVars
  <2> QED
    BY <1>2, <2>1, WindowReadInFile, ChunkReadInFile DEF InputInv, Copied
<1>4. CASE currentOffset' = currentOffset
  BY <1>2, <1>4, WindowReadInFile DEF Copied
<1> QED
  BY <1>3, <1>4

(* The parser's steps, its death and other processes keep the invariant.    *)
LEMMA ChangingStep ==
  ASSUME ChangingInv, [ChangingNext]_allVars
  PROVE  ChangingInv'
<1>1. /\ ChangingTypeOK /\ fileSize \in Nat /\ chunkUnprocessedSize \in Nat
      /\ diskSize \in Nat
  BY DEF ChangingInv, ChangingTypeOK
<1>2. CASE signal = "SIGBUS"
  <2>1. UNCHANGED <<vars, fileVars, fileSize, chunkUnprocessedSize, pc>>
    BY <1>2, DeadStep DEF allVars, vars, ioVars, windowVars
  <2> QED
    BY <1>1, <1>2, <2>1
    DEF ChangingInv, ChangingTypeOK, FaultOnlyIfShrunk, fileVars
<1>3. CASE signal = "none" /\ ParserStep
  <2>1. InputInv
    BY <1>3 DEF ChangingInv
  <2>2. InputInv'
    BY <1>3, <2>1, InputStep DEF ParserStep
  <2>3. /\ WindowRead \cup Copied \subseteq 0 .. fileSize - 1
        /\ fileSize' = fileSize
    BY <1>3, <2>1, ParserReadsFile
  <2>4. /\ fabricated' = fabricated \cup BeyondEnd(WindowRead \cup Copied)
        /\ diskSize' = IF pc = "open" /\ pc' = "global" THEN SizeAfterOpening ELSE diskSize
        /\ UNCHANGED <<sameFile, signal>>
    BY <1>3 DEF ParserStep, Copied
  <2>5. diskSize' \in 0 .. fileSize /\ diskSize' <= diskSize
    BY <1>1, <2>4 DEF SizeAfterOpening, ChangingTypeOK
  <2>6. BeyondEnd(WindowRead \cup Copied) \subseteq diskSize .. fileSize - 1
    BY <1>1, <2>3 DEF BeyondEnd
  <2>7. fabricated' \subseteq diskSize' .. fileSize - 1
    <3>1. fabricated' \subseteq diskSize .. fileSize - 1
      BY <1>1, <2>4, <2>6 DEF ChangingTypeOK
    <3>2. diskSize .. fileSize - 1 \subseteq diskSize' .. fileSize - 1
      BY <1>1, <2>5
    <3> QED
      BY <3>1, <3>2
  <2>8. chunkUnprocessedSize' \in Nat
    BY <2>2 DEF InputInv, InputTypeOK
  <2> QED
    BY <1>1, <1>3, <2>2, <2>3, <2>4, <2>5, <2>7, <2>8
    DEF ChangingInv, ChangingTypeOK, FaultOnlyIfShrunk
<1>4. CASE signal = "none" /\ (FaultInWindow \/ FaultInChunk)
  <2>1. InputInv
    BY <1>4 DEF ChangingInv
  <2>2. /\ signal' = "SIGBUS" /\ pc' = "crashed" /\ fileSize' = fileSize
        /\ UNCHANGED <<chunkUnprocessedSize, diskSize, sameFile, fabricated>>
    BY <1>4
    DEF FaultInWindow, FaultInChunk, FetchMapsChunk, Die, ioVars, windowVars
  <2>3. diskSize < fileSize
    <3>1. diskSize = fileSize => Readable(WindowRead)
      BY <1>1, <2>1, WindowReadInFile, ReadableIfKept
    <3>2. ASSUME FaultInChunk, diskSize = fileSize PROVE FALSE
      BY <1>1, <2>1, <3>2, ChunkReadInFile, ReadableIfKept
      DEF FaultInChunk, FetchMapsChunk, InputInv
    <3> QED
      BY <1>1, <1>4, <3>1, <3>2 DEF FaultInWindow, ChangingTypeOK
  <2> QED
    BY <1>1, <2>2, <2>3 DEF ChangingInv, ChangingTypeOK, FaultOnlyIfShrunk
<1>5. CASE signal = "none" /\ (Shrink \/ UNCHANGED allVars)
  <2>1. /\ UNCHANGED <<vars, sameFile, fabricated, signal>>
        /\ diskSize' \in 0 .. fileSize /\ diskSize' <= diskSize
    BY <1>1, <1>5 DEF Shrink, allVars, fileVars, ChangingTypeOK
  <2>2. UNCHANGED <<fileSize, chunkUnprocessedSize, pc>>
    BY <2>1 DEF vars, ioVars, windowVars
  <2>3. InputInv'
    BY <1>5, <2>1, InputStep DEF ChangingInv
  <2>4. fabricated' \subseteq diskSize' .. fileSize' - 1
    BY <1>1, <2>1, <2>2 DEF ChangingTypeOK
  <2> QED
    BY <1>1, <1>5, <2>1, <2>2, <2>3, <2>4
    DEF ChangingInv, ChangingTypeOK, FaultOnlyIfShrunk
<1> QED
  BY <1>1, <1>2, <1>3, <1>4, <1>5 DEF ChangingTypeOK, ChangingNext, Run

(* Over a file that shrinks, too, the parser keeps ChangingInv.             *)
THEOREM ChangingInvariant == ChangingSpec => []ChangingInv
BY ChangingInitially, ChangingStep, PTL DEF ChangingSpec

(* Zeros are read in place of the file only where it was cut off, never     *)
(* behind the size taken first.                                            *)
THEOREM ChangingTypeCorrect == ChangingSpec => []ChangingTypeOK
<1>1. ChangingInv => ChangingTypeOK
  BY DEF ChangingInv
<1> QED
  BY <1>1, ChangingInvariant, PTL

(* The process never dies of a mapping over a file nobody shortened.        *)
THEOREM FaultOnlyIfShrunkAlways == ChangingSpec => []FaultOnlyIfShrunk
<1>1. ChangingInv => FaultOnlyIfShrunk
  BY DEF ChangingInv
<1> QED
  BY <1>1, ChangingInvariant, PTL

-----------------------------------------------------------------------------
(* A run over its own input. *)

(* Nothing was read yet of an input that is the output as well.             *)
LEMMA SameFileInitially == ChangingInit => SameFileInv
BY DEF ChangingInit, Init, SameFileInv, EarlyPhases

(* Reading even one byte of a truncated file ends the process.              *)
LEMMA NothingToRead ==
  ASSUME InputInv, diskSize = 0, chunkOffset.base = "chunk",
         Readable(WindowRead), pc \in {"global", "header"}
  PROVE  /\ pc = "global" => chunkUnprocessedSize < GlobalHeaderSize
         /\ pc = "header" => chunkUnprocessedSize < PacketHeaderSize
<1> DEFINE wanted == CASE pc = "global" -> GlobalHeaderSize
                       [] pc = "header" -> PacketHeaderSize
                       [] pc = "data" -> inclLen
                       [] OTHER -> chunkUnprocessedSize + 1
<1>1. wanted = IF pc = "global" THEN GlobalHeaderSize ELSE PacketHeaderSize
  OBVIOUS
<1>2. /\ wanted \in Nat \ {0} /\ chunkOffset.index \in Nat
      /\ chunkUnprocessedSize \in Nat
  BY <1>1, SizesAssumption, Basics
<1> HIDE DEF wanted
<1>3. ASSUME wanted <= chunkUnprocessedSize
      PROVE  FALSE
  <2>1. WindowRead = WindowMapped(wanted)
    BY <1>3 DEF WindowRead, wanted
  <2>2. chunkOffset.index \in WindowRead
    BY <1>2, <2>1 DEF WindowMapped
  <2> QED
    BY <1>2, <2>2, NothingReadable
<1> QED
  BY <1>1, <1>2, <1>3, SizesAssumption

(* Whatever happens after the truncation keeps SameFileInv.                 *)
LEMMA SameFileStep ==
  ASSUME ChangingInv, SameFileInv, [ChangingNext]_allVars
  PROVE  SameFileInv'
<1> SUFFICES ASSUME sameFile', fileSize' > 0
             PROVE  SameFileInv'
  BY DEF SameFileInv
<1>1. CASE signal = "SIGBUS" \/ UNCHANGED allVars
  <2>1. UNCHANGED <<vars, fileVars, fileSize, currentOffset, chunkUnprocessedSize,
                    chunkOffset, pc, exception, outputFile>>
    BY <1>1, DeadStep DEF allVars, vars, ioVars, windowVars, outputVars
  <2> QED
    BY <2>1 DEF SameFileInv, fileVars
<1>2. CASE Shrink
  <2>1. /\ UNCHANGED <<sameFile, fileSize, currentOffset, chunkUnprocessedSize,
                       chunkOffset, pc, exception, outputFile>>
        /\ diskSize' \in 0 .. diskSize - 1
    BY <1>2 DEF Shrink, vars, ioVars, windowVars, outputVars
  <2>2. diskSize # 0
    BY <2>1
  <2> QED
    BY <2>1, <2>2 DEF SameFileInv
<1>3. CASE FaultInWindow \/ FaultInChunk
  <2>1. /\ pc' = "crashed" /\ UNCHANGED <<sameFile, fileSize>>
        /\ \E n \in 0 .. Len(outputFile) : outputFile' = SubSeq(outputFile, 1, n)
    BY <1>3 DEF FaultInWindow, FaultInChunk, FetchMapsChunk, Die, ioVars
  <2>2. pc \notin {"destroy", "done", "crashed"}
    BY <1>3, NothingReadAtEnd
    DEF FaultInWindow, FaultInChunk, Readable, ChangingInv
  <2>3. outputFile = <<>>
    BY <2>1, <2>2 DEF SameFileInv
  <2>4. outputFile' = <<>>
    BY <2>1, <2>3
  <2> QED
    BY <2>1, <2>4 DEF SameFileInv
<1>4. CASE ParserStep /\ signal = "none"
  <2>1. /\ InputInv /\ Next /\ Readable(WindowRead) /\ sameFile' = sameFile
        /\ diskSize' = IF pc = "open" /\ pc' = "global" THEN SizeAfterOpening ELSE diskSize
    BY <1>4 DEF ParserStep, ChangingInv
  <2>2. fileSize' = fileSize /\ sameFile /\ fileSize > 0
    BY <1>4, <2>1, ParserReadsFile
  <2>3. /\ fileSize \in Nat /\ currentOffset \in Nat /\ chunkUnprocessedSize \in Nat
        /\ ChunkSize \in Nat \ {0} /\ Control
    BY <2>1, Basics DEF InputInv
  <2>4. CASE pc = "stat"
    <3>1. GetFileSize
      BY <2>1, <2>4 DEF Next, FetchFirstChunk, OpenOutput, ParseGlobalHeader, TestLoop,
        ReadPacketHeader, ReadMoreInput, RefillNotNeeded, ReadPacketData, SkipPayload,
        ProcessPayload, Crash, FlushIfDue, Destroy, Halted
    <3>2. exception = "none" /\ outputFile = <<>>
      BY <2>2, <2>4 DEF SameFileInv
    <3> QED
      BY <2>2, <2>4, <3>1, <3>2
      DEF GetFileSize, ThrowFromConstructor, outputVars, SameFileInv, EarlyPhases
  <2>5. CASE pc = "fetch"
    <3>1. FetchFirstChunk
      BY <2>1, <2>5 DEF Next, GetFileSize, OpenOutput, ParseGlobalHeader, TestLoop,
        ReadPacketHeader, ReadMoreInput, RefillNotNeeded, ReadPacketData, SkipPayload,
        ProcessPayload, Crash, FlushIfDue, Destroy, Halted
    <3>2. exception = "none" /\ outputFile = <<>>
      BY <2>2, <2>5 DEF SameFileInv
    <3>3. ~Exhausted
      BY <2>2, <2>3, <2>5 DEF Control, Exhausted
    <3> QED
      BY <2>2, <2>5, <3>1, <3>2, <3>3
      DEF FetchFirstChunk, FetchReportsEnd, ThrowFromConstructor, outputVars,
          SameFileInv, EarlyPhases
  <2>6. CASE pc = "open"
    <3>1. OpenOutput
      BY <2>1, <2>6 DEF Next, GetFileSize, FetchFirstChunk, ParseGlobalHeader, TestLoop,
        ReadPacketHeader, ReadMoreInput, RefillNotNeeded, ReadPacketData, SkipPayload,
        ProcessPayload, Crash, FlushIfDue, Destroy, Halted
    <3>2. exception = "none" /\ outputFile = <<>> /\ chunkOffset.base = "chunk"
      BY <2>2, <2>6 DEF SameFileInv
    <3>3. UNCHANGED <<currentOffset, chunkUnprocessedSize, chunkOffset, outputFile>>
      BY <3>1 DEF OpenOutput, ioVars, windowVars
    <3>4. CASE pc' = "done" /\ exception' = "output"
      BY <3>2, <3>3, <3>4 DEF SameFileInv
    <3>5. CASE pc' = "global" /\ UNCHANGED exception
      <4>1. diskSize' = 0
        BY <2>1, <2>2, <2>6, <3>5 DEF SizeAfterOpening
      <4>2. /\ chunkUnprocessedSize = currentOffset /\ currentOffset > 0
            /\ currentOffset < ChunkSize => currentOffset = fileSize
        BY <2>2, <2>3, <2>6 DEF Control
      <4> QED
        BY <2>2, <3>2, <3>3, <3>5, <4>1, <4>2 DEF SameFileInv
    <3> QED
      BY <3>1, <3>4, <3>5 DEF OpenOutput, ThrowFromConstructor
  <2>7. CASE pc \in {"global", "loop", "header"}
    <3>1. /\ exception = "none" /\ outputFile = <<>> /\ diskSize = 0
          /\ chunkOffset.base = "chunk"
          /\ chunkUnprocessedSize = currentOffset /\ chunkUnprocessedSize > 0
          /\ currentOffset < ChunkSize => currentOffset = fileSize
          /\ pc # "global" => chunkUnprocessedSize < GlobalHeaderSize
      BY <2>2, <2>7 DEF SameFileInv, EarlyPhases
    <3>2. /\ pc = "global" => chunkUnprocessedSize < GlobalHeaderSize
          /\ pc = "header" => chunkUnprocessedSize < PacketHeaderSize
      BY <2>1, <2>7, <3>1, NothingToRead
    <3>3. ParseGlobalHeader \/ TestLoop \/ ReadPacketHeader
      BY <2>1, <2>7 DEF Next, GetFileSize, FetchFirstChunk, OpenOutput, ReadMoreInput,
        RefillNotNeeded, ReadPacketData, SkipPayload, ProcessPayload, Crash,
        FlushIfDue, Destroy, Halted
    <3>4. UNCHANGED <<currentOffset, outputFile, diskSize>>
      BY <2>1, <2>7, <3>3
      DEF ParseGlobalHeader, TestLoop, ReadPacketHeader, ioVars, outputVars
    <3>5. CASE ParseGlobalHeader \/ TestLoop
      <4>1. /\ UNCHANGED <<chunkOffset, chunkUnprocessedSize, exception>>
            /\ pc' \in {"loop", "header"}
        BY <2>3, <3>1, <3>2, <3>5, SizesAssumption
        DEF ParseGlobalHeader, TestLoop, windowVars
      <4> QED
        BY <2>2, <3>1, <3>2, <3>4, <3>5, <4>1 DEF SameFileInv
    <3>6. CASE ReadPacketHeader
      <4>1. pc = "header" /\ pc' = "destroy" /\ exception' = "header"
        BY <2>3, <3>2, <3>6, SizesAssumption DEF ReadPacketHeader, Throw
      <4>2. fileSize < PacketHeaderSize
        BY <2>3, <3>1, <3>2, <4>1, SizesAssumption
      <4> QED
        BY <2>2, <4>1, <4>2 DEF SameFileInv
    <3> QED
      BY <3>3, <3>5, <3>6
  <2>8. CASE pc = "destroy"
    <3>1. Destroy
      BY <2>1, <2>8 DEF Next, GetFileSize, FetchFirstChunk, OpenOutput,
        ParseGlobalHeader, TestLoop, ReadPacketHeader, ReadMoreInput, RefillNotNeeded,
        ReadPacketData, SkipPayload, ProcessPayload, Crash, FlushIfDue, Halted
    <3>2. exception = "header" /\ fileSize < PacketHeaderSize
      BY <2>2, <2>8 DEF SameFileInv, EarlyPhases
    <3> QED
      BY <2>2, <3>1, <3>2 DEF Destroy, SameFileInv
  <2>9. CASE pc \in {"done", "crashed"}
    <3>1. UNCHANGED vars
      BY <2>1, <2>9 DEF Next, GetFileSize, FetchFirstChunk, OpenOutput,
        ParseGlobalHeader, TestLoop, ReadPacketHeader, ReadMoreInput, RefillNotNeeded,
        ReadPacketData, SkipPayload, ProcessPayload, Crash, FlushIfDue, Destroy, Halted
    <3>2. UNCHANGED <<pc, exception, outputFile>>
      BY <3>1 DEF vars, outputVars
    <3> QED
      BY <2>2, <2>9, <3>2 DEF SameFileInv, EarlyPhases
  <2> QED
    BY <2>2, <2>4, <2>5, <2>6, <2>7, <2>8, <2>9 DEF SameFileInv, EarlyPhases
<1> QED
  BY <1>1, <1>2, <1>3, <1>4 DEF ChangingNext, Run, ChangingInv, ChangingTypeOK

(* A parser whose output is its input keeps SameFileInv.                    *)
THEOREM SameFileInvariant == ChangingSpec => []SameFileInv
BY ChangingInvariant, SameFileInitially, SameFileStep, PTL DEF ChangingSpec

(* A run whose output is its own input fails, and says so.                  *)
THEOREM SameFileNeverSucceedsAlways == ChangingSpec => []SameFileNeverSucceeds
<1>1. ChangingInv /\ SameFileInv => SameFileNeverSucceeds
  BY DEF ChangingInv, SameFileInv, SameFileNeverSucceeds, ExitSuccess, EarlyPhases
<1> QED
  BY <1>1, ChangingInvariant, SameFileInvariant, PTL

(* It leaves the file it truncated empty, unless that was too short anyway. *)
THEOREM SameFileWritesNothingAlways == ChangingSpec => []SameFileWritesNothing
<1>1. SameFileInv => SameFileWritesNothing
  BY DEF SameFileInv, SameFileWritesNothing
<1> QED
  BY <1>1, SameFileInvariant, PTL

-----------------------------------------------------------------------------
(* What is taken for the file in place of bytes that were cut off. *)

(* Every byte before the frontier was read through a mapping: copying a     *)
(* chunk to the buffer reads all of it, unless it is dropped.               *)
Frontier ==
  IF chunkOffset.base = "buffer" THEN currentOffset
  ELSE currentOffset - chunkUnprocessedSize

PageStart(b) == PageSize * (b \div PageSize)

(* The last byte read lies in a page that begins before whatever was        *)
(* fabricated; after a chunk was dropped, what is claimed of Position.      *)
FrontierInv ==
  signal = "none" =>
    IF exception = "buffer_too_small" THEN FabricatedInLastPage
    ELSE Frontier > 0 => \A b \in fabricated : PageStart(Frontier - 1) <= b

(* A page is the greatest multiple of the page size.                        *)
LEMMA PageFacts ==
  ASSUME NEW a \in Int, NEW b \in Int
  PROVE  /\ a \div PageSize \in Int
         /\ PageStart(a) \in Int /\ PageStart(a) <= a
         /\ PageStart(a) <= b => a \div PageSize <= b \div PageSize
<1> DEFINE p == PageSize
           q == a \div p
           r == b \div p
<1>1. p \in Nat \ {0}
  BY PageSizeAssumption
<1>2. /\ q \in Int /\ p * q \in Int /\ p * q <= a
      /\ r \in Int /\ p * r \in Int /\ b < p * r + p
  BY <1>1, SMTT(30)
<1> HIDE DEF p, q, r
<1>3. ASSUME p * q <= b, r < q PROVE FALSE
  <2>1. r + 1 <= q
    BY <1>2, <1>3
  <2>2. p * (r + 1) <= p * q
    BY <1>1, <1>2, <2>1, Z3
  <2>3. p * (r + 1) = p * r + p
    BY <1>1, <1>2, Z3
  <2> QED
    BY <1>1, <1>2, <1>3, <2>2, <2>3
<1>4. p * q <= b => q <= r
  BY <1>2, <1>3
<1> QED
  BY <1>2, <1>4 DEF p, q, r, PageStart

(* The position of the parser is never beyond the frontier.                 *)
LEMMA PositionBehindFrontier ==
  ASSUME InputInv, FrontierInv, signal = "none", fabricated \subseteq Nat
  PROVE  FabricatedInLastPage
<1>1. CASE exception = "buffer_too_small"
  BY <1>1 DEF FrontierInv
<1>2. CASE exception # "buffer_too_small"
  <2>1. /\ Position = currentOffset - chunkUnprocessedSize /\ Position \in Nat
        /\ Position <= Frontier /\ Frontier \in Nat
    BY <1>2, WindowBytes, Basics DEF Frontier
  <2>2. SUFFICES ASSUME NEW b \in fabricated
                 PROVE  (Position - 1) \div PageSize <= b \div PageSize
    <3>1. (Position - 1) \div PageSize \in Int /\ \A b \in fabricated : b \div PageSize \in Int
      BY <2>1, PageFacts
    <3> QED
      BY <2>2, <3>1 DEF FabricatedInLastPage
  <2>3. PageStart(Position - 1) <= Position - 1 /\ b \in Int /\ 0 <= b
    BY <2>1, PageFacts
  <2>4. CASE Frontier = 0
    BY <2>1, <2>3, <2>4, PageFacts
  <2>5. CASE Frontier > 0
    <3>1. PageStart(Frontier - 1) <= b
      BY <1>2, <2>5 DEF FrontierInv
    <3>2. /\ (Frontier - 1) \div PageSize <= b \div PageSize
          /\ (Position - 1) \div PageSize <= (Frontier - 1) \div PageSize
          /\ (Frontier - 1) \div PageSize \in Int /\ (Position - 1) \div PageSize \in Int
          /\ b \div PageSize \in Int
      <4>1. PageStart(Position - 1) <= Frontier - 1 /\ PageStart(Position - 1) \in Int
        BY <2>1, <2>3, PageFacts
      <4>2. Frontier - 1 \in Int /\ Position - 1 \in Int
        BY <2>1
      <4> QED
        BY <2>3, <3>1, <4>1, <4>2, PageFacts
    <3> QED
      BY <3>2
  <2> QED
    BY <2>1, <2>4, <2>5
<1> QED
  BY <1>1, <1>2

(* A parser that has still to read a header or a packet reads nothing yet.  *)
LEMMA NothingRead ==
  ASSUME chunkUnprocessedSize \in Nat,
         \/ pc \notin {"global", "header", "data", "refill"}
         \/ pc = "global" /\ chunkUnprocessedSize < GlobalHeaderSize
         \/ pc = "header" /\ chunkUnprocessedSize < PacketHeaderSize
         \/ pc = "data" /\ chunkUnprocessedSize < inclLen
         \/ pc = "refill" /\ chunkUnprocessedSize >= inclLen,
         inclLen \in Nat
  PROVE  WindowRead = {}
<1> DEFINE wanted == CASE pc = "global" -> GlobalHeaderSize
                       [] pc = "header" -> PacketHeaderSize
                       [] pc = "data" -> inclLen
                       [] OTHER -> chunkUnprocessedSize + 1
<1>1. ~(wanted <= chunkUnprocessedSize)
  <2>1. wanted \in Nat /\ wanted > chunkUnprocessedSize
    BY SizesAssumption
  <2> HIDE DEF wanted
  <2> QED
    BY <2>1
<1>2. ~(pc = "refill" /\ chunkUnprocessedSize < inclLen)
  OBVIOUS
<1> HIDE DEF wanted
<1>3. WindowRead = IF wanted <= chunkUnprocessedSize THEN WindowMapped(wanted)
                   ELSE IF pc = "refill" /\ chunkUnprocessedSize < inclLen
                        THEN WindowMapped(chunkUnprocessedSize)
                        ELSE {}
  BY DEF WindowRead, wanted
<1> QED
  BY <1>1, <1>2, <1>3

(* A step either reads nothing through a mapping and leaves the frontier,   *)
(* or reads up to its new frontier.                                        *)
ReadsUpToFrontier ==
  \/ WindowRead \cup Copied = {} /\ Frontier' = Frontier
  \/ Frontier' > 0 /\ Frontier' - 1 \in WindowRead \cup Copied

(* Taking n bytes of the window moves the frontier if they were mapped.     *)
LEMMA AdvanceReads ==
  ASSUME InputInv, NEW n \in Nat, n <= chunkUnprocessedSize,
         WindowRead = WindowMapped(n), Copied = {}, Advance(n), UNCHANGED ioVars
  PROVE  ReadsUpToFrontier
<1>1. /\ chunkOffset'.base = chunkOffset.base /\ currentOffset' = currentOffset
      /\ chunkUnprocessedSize' = chunkUnprocessedSize - n
  BY Basics DEF Advance, InputInv, InputTypeOK, ioVars
<1>2. CASE chunkOffset.base = "chunk" /\ n > 0
  <2>1. chunkOffset.index + chunkUnprocessedSize = currentOffset
    BY <1>2 DEF InputInv, WindowPlace
  <2>2. /\ Frontier' = chunkOffset.index + n
        /\ WindowMapped(n) = chunkOffset.index .. chunkOffset.index + n - 1
    BY <1>1, <1>2, <2>1, Basics DEF Frontier, WindowMapped
  <2> QED
    BY <1>2, <2>2, Basics DEF ReadsUpToFrontier
<1>3. CASE chunkOffset.base = "chunk" /\ n = 0
  BY <1>1, <1>3, Basics DEF ReadsUpToFrontier, Frontier, WindowMapped
<1>4. CASE chunkOffset.base = "buffer"
  BY <1>1, <1>4 DEF ReadsUpToFrontier, Frontier, WindowMapped
<1>5. CASE chunkOffset.base = "null"
  BY <1>1, <1>5, Basics DEF ReadsUpToFrontier, Frontier, WindowMapped, InputInv, WindowPlace
<1> QED
  BY <1>2, <1>3, <1>4, <1>5, Basics

(* A refill reads the leftover, and the chunk it copies.                    *)
LEMMA RefillReads ==
  ASSUME InputInv, ReadMoreInput, exception' # "buffer_too_small",
         exception # "buffer_too_small"
  PROVE  ReadsUpToFrontier
<1>1. WindowRead = WindowMapped(chunkUnprocessedSize)
  BY Basics DEF ReadMoreInput, WindowRead
<1>2. Frontier' = currentOffset' /\ pc = "refill"
  BY DEF ReadMoreInput, Frontier
<1>3. CASE pc' = "data"
  <2>1. FetchMapsChunk /\ NextChunkSize \in 1 .. ChunkSize
    BY <1>3, NextChunkFacts DEF ReadMoreInput, Throw, FetchMapsChunk, InputInv
  <2>2. currentOffset' = currentOffset + NextChunkSize
    BY <2>1 DEF FetchMapsChunk
  <2>3. Copied = currentOffset .. currentOffset + NextChunkSize - 1
    BY <1>2, <1>3, <2>1, <2>2, Basics DEF Copied, ChunkRead
  <2> QED
    BY <1>2, <2>1, <2>2, <2>3, Basics DEF ReadsUpToFrontier
<1>4. CASE pc' # "data"
  <2>1. currentOffset' = currentOffset /\ Copied = {}
    BY <1>4
    DEF ReadMoreInput, Throw, FetchReportsEnd, OpenFails, MapFails, ioVars, Copied
  <2>2. CASE chunkOffset.base = "chunk" /\ chunkUnprocessedSize > 0
    <3>1. chunkOffset.index + chunkUnprocessedSize = currentOffset
      BY <2>2 DEF InputInv, WindowPlace
    <3> QED
      BY <1>1, <1>2, <2>1, <2>2, <3>1, Basics DEF ReadsUpToFrontier, WindowMapped
  <2>3. CASE chunkOffset.base # "chunk" \/ chunkUnprocessedSize = 0
    <3>1. chunkOffset.base # "buffer" => chunkUnprocessedSize = 0
      BY <2>3, Basics DEF InputInv, WindowPlace
    <3>2. Frontier = currentOffset
      BY <3>1, Basics DEF Frontier
    <3>3. WindowRead = {}
      BY <1>1, <2>3, Basics DEF WindowMapped
    <3> QED
      BY <1>2, <2>1, <3>2, <3>3 DEF ReadsUpToFrontier
  <2> QED
    BY <2>2, <2>3, Basics
<1> QED
  BY <1>3, <1>4

(* So does every step that drops no chunk.                                  *)
LEMMA StepReads ==
  ASSUME InputInv, Next, exception' # "buffer_too_small",
         exception # "buffer_too_small"
  PROVE  ReadsUpToFrontier
<1>1. chunkUnprocessedSize \in Nat /\ inclLen \in Nat
  BY Basics
<1>2. ASSUME WindowRead = {}, UNCHANGED <<ioVars, windowVars>>
      PROVE  ReadsUpToFrontier
  BY <1>2 DEF ReadsUpToFrontier, Copied, Frontier, ioVars, windowVars
<1>3. CASE FetchFirstChunk
  <2>1. WindowRead = {} /\ Copied = {}
    BY <1>1, <1>3, NothingRead DEF FetchFirstChunk, Copied
  <2>2. Frontier = 0
    BY <1>3 DEF FetchFirstChunk, InputInv, Control, Frontier
  <2>3. Frontier' = 0
    BY <1>3, <2>2, Basics, NextChunkFacts
    DEF FetchFirstChunk, InputInv, Control, Frontier, FetchReportsEnd, FetchMapsChunk,
        OpenFails, MapFails, ioVars, windowVars
  <2> QED
    BY <2>1, <2>2, <2>3 DEF ReadsUpToFrontier
<1>4. CASE ParseGlobalHeader
  <2>1. CASE chunkUnprocessedSize < GlobalHeaderSize
    BY <1>1, <1>2, <1>4, <2>1, SizesAssumption, NothingRead DEF ParseGlobalHeader
  <2>2. CASE ~(chunkUnprocessedSize < GlobalHeaderSize)
    <3>1. /\ GlobalHeaderSize <= chunkUnprocessedSize /\ GlobalHeaderSize \in Nat
          /\ Advance(GlobalHeaderSize) /\ UNCHANGED ioVars /\ pc = "global"
      BY <1>1, <1>4, <2>2, SizesAssumption DEF ParseGlobalHeader
    <3>2. WindowRead = WindowMapped(GlobalHeaderSize) /\ Copied = {}
      BY <3>1 DEF WindowRead, Copied
    <3> QED
      BY <3>1, <3>2, AdvanceReads
  <2> QED
    BY <2>1, <2>2
<1>5. CASE ReadPacketHeader
  <2>1. CASE chunkUnprocessedSize < PacketHeaderSize
    BY <1>1, <1>2, <1>5, <2>1, SizesAssumption, NothingRead DEF ReadPacketHeader
  <2>2. CASE ~(chunkUnprocessedSize < PacketHeaderSize)
    <3>1. /\ PacketHeaderSize <= chunkUnprocessedSize /\ PacketHeaderSize \in Nat
          /\ Advance(PacketHeaderSize) /\ UNCHANGED ioVars /\ pc = "header"
      BY <1>1, <1>5, <2>2, SizesAssumption DEF ReadPacketHeader
    <3>2. WindowRead = WindowMapped(PacketHeaderSize) /\ Copied = {}
      BY <3>1 DEF WindowRead, Copied
    <3> QED
      BY <3>1, <3>2, AdvanceReads
  <2> QED
    BY <2>1, <2>2
<1>6. CASE ReadPacketData
  <2>1. CASE chunkUnprocessedSize < inclLen
    BY <1>1, <1>2, <1>6, <2>1, NothingRead DEF ReadPacketData
  <2>2. CASE ~(chunkUnprocessedSize < inclLen)
    <3>1. /\ inclLen <= chunkUnprocessedSize
          /\ Advance(inclLen) /\ UNCHANGED ioVars /\ pc = "data"
      BY <1>1, <1>6, <2>2 DEF ReadPacketData
    <3>2. WindowRead = WindowMapped(inclLen) /\ Copied = {}
      BY <3>1 DEF WindowRead, Copied
    <3> QED
      BY <1>1, <3>1, <3>2, AdvanceReads
  <2> QED
    BY <2>1, <2>2
<1>7. CASE ReadMoreInput
  BY <1>7, RefillReads
<1>8. CASE RefillNotNeeded
  BY <1>1, <1>2, <1>8, NothingRead DEF RefillNotNeeded
<1>9. CASE \/ GetFileSize \/ OpenOutput \/ TestLoop \/ SkipPayload \/ ProcessPayload
           \/ Crash \/ FlushIfDue \/ Destroy \/ Halted
  <2>1. /\ pc \notin {"global", "header", "data", "refill"}
        /\ UNCHANGED <<ioVars, windowVars>>
    BY <1>9
    DEF GetFileSize, OpenOutput, TestLoop, SkipPayload, ProcessPayload, Crash,
        FlushIfDue, Destroy, Halted, vars
  <2> QED
    BY <1>1, <1>2, <2>1, NothingRead
<1> QED
  BY <1>3, <1>4, <1>5, <1>6, <1>7, <1>8, <1>9 DEF Next

(* The page of the last byte read still has bytes of the file, which what   *)
(* was fabricated lies beyond.                                             *)
LEMMA ReadsBeforeFabricated ==
  ASSUME ChangingInv, FrontierInv, ParserStep, signal = "none",
         exception # "buffer_too_small", exception' # "buffer_too_small"
  PROVE  Frontier' > 0 => \A b \in fabricated' : PageStart(Frontier' - 1) <= b
<1>1. /\ InputInv /\ fabricated \subseteq diskSize .. fileSize - 1
      /\ diskSize \in Nat /\ fileSize \in Nat
  BY DEF ChangingInv, ChangingTypeOK
<1>2. /\ Next /\ Readable(WindowRead) /\ Readable(Copied)
      /\ fabricated' = fabricated \cup BeyondEnd(WindowRead \cup Copied)
  BY DEF ParserStep, Copied
<1>3. ReadsUpToFrontier
  BY <1>1, <1>2, StepReads
<1>4. CASE WindowRead \cup Copied = {} /\ Frontier' = Frontier
  <2>1. fabricated' = fabricated
    BY <1>2, <1>4 DEF BeyondEnd
  <2> QED
    BY <1>4, <2>1 DEF FrontierInv
<1>5. CASE Frontier' > 0 /\ Frontier' - 1 \in WindowRead \cup Copied
  <2> DEFINE last == Frontier' - 1
  <2>1. last \in Int /\ PageStart(last) < diskSize
    <3>1. last \in Int
      BY <1>1, <1>5, ParserReadsFile
    <3> HIDE DEF last
    <3> QED
      BY <1>2, <1>5, <3>1 DEF Readable, PageStart, last
  <2>2. \A b \in fabricated' : b \in Int /\ diskSize <= b
    <3>1. WindowRead \cup Copied \subseteq 0 .. fileSize - 1
      BY <1>1, ParserReadsFile
    <3>2. BeyondEnd(WindowRead \cup Copied) \subseteq diskSize .. fileSize - 1
      BY <1>1, <3>1 DEF BeyondEnd
    <3>3. fabricated' \subseteq diskSize .. fileSize - 1
      BY <1>1, <1>2, <3>2
    <3> QED
      BY <1>1, <3>3
  <2>3. PageStart(last) \in Int
    BY <2>1, PageFacts
  <2> QED
    <3> HIDE DEF last
    <3>1. \A b \in fabricated' : PageStart(last) <= b
      BY <1>1, <2>1, <2>2, <2>3
    <3> QED
      BY <3>1 DEF last
<1> QED
  BY <1>3, <1>4, <1>5 DEF ReadsUpToFrontier

(* Dropping a chunk leaves the position where it was, and the leftover that *)
(* was moved lies behind it.                                               *)
LEMMA DroppedChunk ==
  ASSUME ChangingInv, FrontierInv, ParserStep, signal = "none",
         exception # "buffer_too_small", exception' = "buffer_too_small"
  PROVE  FabricatedInLastPage'
<1>1. /\ InputInv /\ fabricated \subseteq diskSize .. fileSize - 1
      /\ diskSize \in Nat /\ fileSize \in Nat
  BY DEF ChangingInv, ChangingTypeOK
<1>2. /\ pc = "refill" /\ chunkUnprocessedSize < inclLen /\ BufferTooSmall
      /\ FetchMapsChunk /\ pc' = "destroy"
      /\ chunkOffset' = [base |-> "buffer", index |-> 0]
      /\ chunkDataBuffer' = LeftoverMoved
      /\ chunkUnprocessedSize' = chunkUnprocessedSize
  BY DEF ParserStep, Next, GetFileSize, FetchFirstChunk, OpenOutput, ParseGlobalHeader,
         TestLoop, ReadPacketHeader, ReadMoreInput, RefillNotNeeded, ReadPacketData,
         SkipPayload, ProcessPayload, Crash, FlushIfDue, Destroy, Halted, Throw,
         ThrowFromConstructor, vars
<1>3. chunkUnprocessedSize > 0
  BY <1>1, <1>2, Basics, NextChunkFacts DEF BufferTooSmall, FetchMapsChunk, InputInv
<1>4. Position' = Position /\ Position = currentOffset - chunkUnprocessedSize
      /\ Position \in Nat
  <2>1. /\ ByteAt(0) = Position /\ Position \in Nat
        /\ Position = currentOffset - chunkUnprocessedSize
    BY <1>1, <1>3, WindowBytes DEF Position
  <2>2. LeftoverMoved[0] = ByteAt(0)
    BY <1>1, <1>3, Basics DEF LeftoverMoved
  <2>3. Position' = chunkDataBuffer'[0 + 0]
    BY <1>2, <1>3, Basics DEF Position, ByteAt
  <2> QED
    BY <1>2, <2>1, <2>2, <2>3
<1>5. fabricated' = fabricated \cup BeyondEnd(WindowRead)
  BY <1>2 DEF ParserStep
<1>6. WindowRead \subseteq Position .. fileSize - 1
  <2>1. WindowRead = WindowMapped(chunkUnprocessedSize)
    BY <1>1, <1>2, Basics DEF WindowRead
  <2>2. chunkOffset.base = "chunk" => chunkOffset.index = Position
    BY <1>1, <1>4, Basics DEF InputInv, WindowPlace
  <2> QED
    BY <1>1, <1>4, <2>1, <2>2, WindowReadInFile, Basics DEF WindowMapped
<1>7. \A b \in fabricated : b \div PageSize >= (Position - 1) \div PageSize
  BY <1>1, PositionBehindFrontier DEF FabricatedInLastPage
<1>8. ASSUME NEW b \in WindowRead
      PROVE  b \div PageSize >= (Position - 1) \div PageSize
  <2>1. b \in Int /\ Position - 1 \in Int /\ Position - 1 <= b
    BY <1>1, <1>4, <1>6
  <2>2. /\ PageStart(Position - 1) \in Int /\ PageStart(Position - 1) <= Position - 1
        /\ (Position - 1) \div PageSize \in Int /\ b \div PageSize \in Int
    BY <2>1, PageFacts
  <2>3. PageStart(Position - 1) <= b
    BY <2>1, <2>2
  <2> QED
    BY <2>1, <2>2, <2>3, PageFacts
<1> QED
  BY <1>4, <1>5, <1>7, <1>8 DEF FabricatedInLastPage, BeyondEnd

(* After a chunk was dropped nothing is read any more.                      *)
LEMMA NothingAfterDrop ==
  ASSUME ChangingInv, FrontierInv, ParserStep, signal = "none",
         exception = "buffer_too_small"
  PROVE  FabricatedInLastPage' /\ exception' = "buffer_too_small"
<1>1. InputInv /\ pc \in {"destroy", "done"}
  BY DEF ChangingInv, InputInv, Control
<1>2. UNCHANGED <<ioVars, windowVars>> /\ exception' = "buffer_too_small"
  BY <1>1
  DEF ParserStep, Next, GetFileSize, FetchFirstChunk, OpenOutput, ParseGlobalHeader,
      TestLoop, ReadPacketHeader, ReadMoreInput, RefillNotNeeded, ReadPacketData,
      SkipPayload, ProcessPayload, Crash, FlushIfDue, Destroy, Halted, vars
<1>3. WindowRead = {}
  BY <1>1, Basics, NothingReadAtEnd
<1>4. fabricated' = fabricated /\ signal' = signal
  BY <1>1, <1>3 DEF ParserStep, BeyondEnd
<1>5. Position' = Position
  BY <1>2 DEF Position, ByteAt, ioVars, windowVars
<1> QED
  BY <1>2, <1>4, <1>5 DEF FrontierInv, FabricatedInLastPage

(* Each step keeps what was fabricated in the page of the frontier.         *)
LEMMA FrontierStep ==
  ASSUME ChangingInv, FrontierInv, [ChangingNext]_allVars
  PROVE  FrontierInv'
<1>1. CASE signal = "SIGBUS"
  <2>1. signal' = "SIGBUS"
    BY <1>1, DeadStep DEF allVars, fileVars
  <2> QED
    BY <2>1 DEF FrontierInv
<1>2. CASE signal = "none" /\ ParserStep
  BY <1>2, ReadsBeforeFabricated, DroppedChunk, NothingAfterDrop DEF FrontierInv
<1>3. CASE FaultInWindow \/ FaultInChunk
  BY <1>3 DEF FaultInWindow, FaultInChunk, Die, FrontierInv
<1>4. CASE Shrink \/ UNCHANGED allVars
  <2>1. UNCHANGED <<ioVars, windowVars, exception, fabricated, signal>>
    BY <1>4 DEF Shrink, allVars, fileVars, vars
  <2>2. Frontier' = Frontier /\ Position' = Position
    BY <2>1 DEF Frontier, Position, ByteAt, ioVars, windowVars
  <2>3. FabricatedInLastPage' <=> FabricatedInLastPage
    BY <2>1, <2>2 DEF FabricatedInLastPage
  <2> QED
    BY <2>1, <2>2, <2>3 DEF FrontierInv
<1> QED
  BY <1>1, <1>2, <1>3, <1>4 DEF ChangingInv, ChangingTypeOK, ChangingNext, Run

(* Nothing is fabricated before the file is read.                           *)
LEMMA FrontierInitially == ChangingInit => FrontierInv
BY DEF ChangingInit, Init, FrontierInv

(* A run that no signal ends has taken zeros for the file only in the page  *)
(* in which its reading stopped, whatever the sizes of pages and chunks and *)
(* however often the file is cut.                                          *)
THEOREM FabricatedInLastPageAlways == ChangingSpec => []FabricatedInLastPage
<1>1. ChangingSpec => []FrontierInv
  BY ChangingInvariant, FrontierInitially, FrontierStep, PTL DEF ChangingSpec
<1>2. ChangingInv /\ FrontierInv => FabricatedInLastPage
  <2> SUFFICES ASSUME ChangingInv, FrontierInv PROVE FabricatedInLastPage
    OBVIOUS
  <2>1. CASE signal = "none"
    <3>1. InputInv /\ fabricated \subseteq Nat
      BY <2>1 DEF ChangingInv, ChangingTypeOK
    <3> QED
      BY <2>1, <3>1, PositionBehindFrontier
  <2>2. CASE signal # "none"
    BY <2>2 DEF FabricatedInLastPage
  <2> QED
    BY <2>1, <2>2
<1> QED
  BY <1>1, <1>2, ChangingInvariant, PTL

-----------------------------------------------------------------------------
(* The run ends. *)

(* To die of the file is to stop: the calls left are lost, the bytes not     *)
(* consumed are not consumed.                                              *)
LEMMA DeathRunsDown ==
  ASSUME ChangingInv, signal = "none", FaultInWindow \/ FaultInChunk
  PROVE  StepsLeft' \in 0 .. StepsLeft - 1
<1>1. InputInv /\ UNCHANGED <<fileSize, chunkUnprocessedSize>> /\ pc' = "crashed"
  BY DEF ChangingInv, FaultInWindow, FaultInChunk, FetchMapsChunk, Die, ioVars, windowVars
<1>2. pc \notin {"open", "loop", "destroy", "done", "crashed"}
  <2>1. CASE FaultInWindow
    <3>1. WindowRead # {}
      BY <2>1 DEF FaultInWindow, Readable
    <3> QED
      BY <1>1, <3>1, Basics, NothingReadAtEnd
  <2>2. CASE FaultInChunk
    BY <2>2 DEF FaultInChunk
  <2> QED
    BY <2>1, <2>2
<1>3. /\ CallsLeft(pc') = 0
      /\ \/ CallsLeft(pc) = 2 \/ CallsLeft(pc) = 4 \/ CallsLeft(pc) = 5
         \/ CallsLeft(pc) = 6 \/ CallsLeft(pc) = 7
  BY <1>1, <1>2, CallsLeftIs DEF InputInv, InputTypeOK, Phases
<1>4. /\ currentOffset \in Nat /\ currentOffset' \in Nat
      /\ currentOffset <= currentOffset' /\ currentOffset' <= fileSize
  <2>1. CASE FaultInWindow
    BY <1>1, <2>1, Basics DEF FaultInWindow, ioVars, InputInv, Control
  <2>2. CASE FaultInChunk
    <3>1. currentOffset' = currentOffset + NextChunkSize /\ ~Exhausted
      BY <2>2 DEF FaultInChunk, FetchMapsChunk
    <3> QED
      BY <1>1, <3>1, Basics, NextChunkFacts, ChunkSizeAssumption DEF InputInv
  <2> QED
    BY <2>1, <2>2
<1>5. fileSize \in Nat /\ chunkUnprocessedSize \in Nat
  BY <1>1, Basics
<1> QED
  BY <1>1, <1>3, <1>4, <1>5 DEF StepsLeft

(* Cutting the file gives the parser nothing more to do: over a file that    *)
(* changes, too, it takes a bounded number of steps.                       *)
THEOREM ChangingRunsDownAlways == ChangingSpec => RunsDown
<1>1. ASSUME ChangingInv, ChangingInv', [ChangingNext]_allVars
      PROVE  StepsLeft' \in 0 .. StepsLeft - 1 \/ UNCHANGED vars
  <2>1. CASE signal = "SIGBUS"
    BY <1>1, <2>1, DeadStep DEF allVars
  <2>2. CASE signal = "none" /\ ParserStep
    <3>1. InputInv /\ InputInv' /\ Next
      BY <1>1, <2>2 DEF ChangingInv, ParserStep
    <3> QED
      BY <3>1, StepsLeftStep
  <2>3. CASE signal = "none" /\ (FaultInWindow \/ FaultInChunk)
    BY <1>1, <2>3, DeathRunsDown
  <2>4. CASE Shrink \/ UNCHANGED allVars
    BY <2>4 DEF Shrink, allVars
  <2> QED
    BY <1>1, <2>1, <2>2, <2>3, <2>4
    DEF ChangingInv, ChangingTypeOK, ChangingNext, Run
<1>2. ChangingInv /\ ChangingInv' /\ [ChangingNext]_allVars
        => [StepsLeft' \in 0 .. StepsLeft - 1]_vars
  BY <1>1
<1> QED
  BY <1>2, ChangingInvariant, PTL DEF ChangingSpec, RunsDown
===============================================================================
