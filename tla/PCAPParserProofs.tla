--------------------------- MODULE PCAPParserProofs ---------------------------
(***************************************************************************)
(* IOMapper and the input side of PCAPParser, for every chunk size, every  *)
(* file size and every captured length: the inductive invariants MapperInv *)
(* and InputInv, what follows from them of the chunks and of the window,   *)
(* and the implementation of PcapStream.                                   *)
(***************************************************************************)
EXTENDS PCAPParserProperties, SequenceTheorems, TLAPS

(***************************************************************************)
(* The chunks an IOMapper hands out, for every chunk size and file size:   *)
(* they partition the part of the file handed out so far, and each starts  *)
(* at a multiple of the chunk size.                                        *)
(***************************************************************************)
(* The next chunk starts at a multiple of the chunk size, or there is none. *)
OffsetAligned ==
  currentOffset = fileSize \/ \E q \in Nat : currentOffset = q * ChunkSize

MapperInv ==
  /\ IOTypeOK
  /\ ChunksPartitionPrefix
  /\ OffsetAligned
  /\ MappingsAligned

(* A whole number of chunks is a multiple of the chunk size.                *)
LEMMA MultipleIsAligned ==
  ASSUME NEW q \in Nat
  PROVE  (q * ChunkSize) % ChunkSize = 0
BY ChunkSizeAssumption, Z3

(* What FetchMapsChunk adds.                                                *)
LEMMA NextChunkSizeFacts ==
  ASSUME IOTypeOK, ~Exhausted
  PROVE  /\ fileSize \in Nat /\ currentOffset \in Nat
         /\ NextChunkSize \in 1 .. ChunkSize
         /\ NextChunkSize = ChunkSize \/ currentOffset + NextChunkSize = fileSize
BY ChunkSizeAssumption, FileSizesAssumption
DEF IOTypeOK, Exhausted, NextChunkSize

(* The invariant holds of a mapper just constructed.                        *)
LEMMA MapperInit == IOInit => MapperInv
<1> SUFFICES ASSUME IOInit PROVE MapperInv
  OBVIOUS
<1>1. IOTypeOK
  BY FileSizesAssumption DEF IOInit, IOTypeOK
<1>2. ChunksPartitionPrefix /\ MappingsAligned
  BY DEF IOInit, ChunksPartitionPrefix, MappingsAligned
<1>3. currentOffset = 0 * ChunkSize
  BY ChunkSizeAssumption DEF IOInit
<1> QED
  BY <1>1, <1>2, <1>3 DEF MapperInv, OffsetAligned

(* A chunk is mapped at the offset, and the offset moves to its end.        *)
LEMMA FetchMapsChunkStep ==
  ASSUME MapperInv, FetchMapsChunk
  PROVE  MapperInv'
<1> DEFINE new == [offset |-> currentOffset, size |-> NextChunkSize]
<1>1. /\ IOTypeOK /\ ChunksPartitionPrefix /\ OffsetAligned /\ MappingsAligned
      /\ ~Exhausted
      /\ fd' = "open" /\ fileSize' = fileSize
      /\ mapped' = mapped \cup {new}
      /\ currentOffset' = currentOffset + NextChunkSize
  BY DEF MapperInv, FetchMapsChunk
<1>2. /\ fileSize \in Nat /\ currentOffset \in Nat
      /\ NextChunkSize \in 1 .. ChunkSize
      /\ NextChunkSize = ChunkSize \/ currentOffset + NextChunkSize = fileSize
  BY <1>1, NextChunkSizeFacts
<1>3. /\ NextChunkSize \in Nat
      /\ currentOffset' \in Nat /\ currentOffset <= currentOffset'
      /\ new \in Chunk /\ new.offset = currentOffset
      /\ new.offset + new.size = currentOffset'
  BY <1>1, <1>2, ChunkSizeAssumption DEF Chunk
<1> HIDE DEF new
<1> DEFINE end == currentOffset'
<1>3a. currentOffset \in Nat /\ end \in Nat
  BY <1>2, <1>3
<1> HIDE DEF end
<1>4. \A c \in mapped : c.offset \in Nat /\ c.size \in Nat
  BY <1>1 DEF IOTypeOK, Chunk
<1>5. IOTypeOK'
  BY <1>1, <1>3 DEF IOTypeOK
<1>6. ChunksPartitionPrefix'
  <2>1. ASSUME NEW b \in 0 .. end - 1
        PROVE  \E c \in mapped' : c.offset <= b /\ b < c.offset + c.size
    <3>0. b \in Nat /\ b < end
      BY <1>3a
    <3>1. CASE b < currentOffset
      <4>1. b \in 0 .. currentOffset - 1
        BY <3>1, <1>2
      <4> QED
        BY <4>1, <1>1 DEF ChunksPartitionPrefix
    <3>2. CASE b >= currentOffset
      <4>1. currentOffset <= b /\ b < end
        BY <3>0, <3>2
      <4>2. new.offset <= b /\ b < new.offset + new.size
        BY <4>1, <1>3 DEF end
      <4> QED
        BY <4>2, <1>1
    <3> QED
      BY <3>1, <3>2, <1>2
  <2>2. ASSUME NEW c \in mapped
        PROVE  c.offset + c.size <= currentOffset
    BY <1>1 DEF ChunksPartitionPrefix
  <2>3. ASSUME NEW c \in mapped'
        PROVE  c.offset + c.size <= currentOffset'
    BY <1>1, <1>2, <1>3, <1>4, <2>2
  <2>4. ASSUME NEW c \in mapped', NEW d \in mapped', c # d
        PROVE  c.offset + c.size <= d.offset \/ d.offset + d.size <= c.offset
    <3>1. CASE c \in mapped /\ d \in mapped
      BY <3>1, <2>4, <1>1 DEF ChunksPartitionPrefix
    <3>2. CASE c = new
      BY <3>2, <2>2, <2>4, <1>1, <1>3
    <3>3. CASE d = new
      BY <3>3, <2>2, <2>4, <1>1, <1>3
    <3> QED
      BY <3>1, <3>2, <3>3, <1>1
  <2> QED
    BY <2>1, <2>3, <2>4 DEF ChunksPartitionPrefix, end
<1>7. PICK q \in Nat : currentOffset = q * ChunkSize
  BY <1>1, <1>2 DEF OffsetAligned, Exhausted
<1>8. OffsetAligned'
  <2>1. CASE NextChunkSize = ChunkSize
    <3>1. (q + 1) * ChunkSize = q * ChunkSize + ChunkSize /\ q + 1 \in Nat
      BY ChunkSizeAssumption
    <3> QED
      BY <2>1, <3>1, <1>1, <1>7 DEF OffsetAligned
  <2>2. CASE currentOffset + NextChunkSize = fileSize
    BY <2>2, <1>1 DEF OffsetAligned
  <2> QED
    BY <2>1, <2>2, <1>2
<1>9. MappingsAligned'
  <2>1. new.offset % ChunkSize = 0
    BY <1>3, <1>7, MultipleIsAligned
  <2> QED
    BY <2>1, <1>1 DEF MappingsAligned
<1> QED
  BY <1>5, <1>6, <1>8, <1>9 DEF MapperInv

(* The outcomes that map nothing leave the offset and the mappings alone.   *)
LEMMA MapperStep ==
  ASSUME MapperInv, [IONext]_ioVars
  PROVE  MapperInv'
<1>1. CASE FetchMapsChunk
  BY <1>1, FetchMapsChunkStep
<1>2. CASE FetchReportsEnd \/ OpenFails \/ MapFails \/ UNCHANGED ioVars
  <2>1. /\ UNCHANGED <<fileSize, currentOffset, mapped>>
        /\ fd' \in {"closed", "open"}
    BY <1>2 DEF FetchReportsEnd, OpenFails, MapFails, ioVars, MapperInv, IOTypeOK
  <2> QED
    BY <2>1
    DEF MapperInv, IOTypeOK, ChunksPartitionPrefix, OffsetAligned, MappingsAligned
<1> QED
  BY <1>1, <1>2 DEF IONext

(* fetchNextChunk: however often it is called and whichever calls fail, the *)
(* chunks handed out cover the file up to the mapper's offset without gap  *)
(* or overlap, and mmap is given offsets it accepts.                       *)
THEOREM ChunksPartition == IOSpec => [](ChunksPartitionPrefix /\ MappingsAligned)
<1>1. MapperInv => ChunksPartitionPrefix /\ MappingsAligned
  BY DEF MapperInv
<1> QED
  BY <1>1, MapperInit, MapperStep, PTL DEF IOSpec

(***************************************************************************)
(* The parser's window on those chunks.                                    *)
(***************************************************************************)

(* What the next call may rely on, by the point the program has reached.    *)
Control ==
  /\ currentOffset <= fileSize
  /\ chunkUnprocessedSize <= currentOffset
  /\ exception # "none" => pc \in {"destroy", "done"}
  /\ pc \in {"stat", "fetch"} =>
       /\ currentOffset = 0
       /\ chunkUnprocessedSize = 0
       /\ chunkOffset.base = "null"
  /\ pc \in {"open", "global"} =>
       /\ chunkUnprocessedSize = currentOffset
       /\ currentOffset < ChunkSize => currentOffset = fileSize
  /\ pc = "data" /\ chunkUnprocessedSize < inclLen /\ inclLen <= ChunkSize =>
       currentOffset = fileSize

(* Where the window lies. *)
WindowPlace ==
  /\ chunkOffset.base = "null" => chunkUnprocessedSize = 0
  /\ chunkOffset.base = "chunk" =>
       /\ chunkOffset.index + chunkUnprocessedSize = currentOffset
       /\ currentOffset <= ChunkSize
       /\ [offset |-> 0, size |-> currentOffset] \in mapped
  /\ chunkOffset.base = "buffer" =>
       chunkOffset.index + chunkUnprocessedSize <= BufferSize

(* What is in the buffer, until a fetched chunk is dropped. *)
WindowContents ==
  chunkOffset.base = "buffer" /\ exception # "buffer_too_small" =>
    \A k \in 0 .. chunkUnprocessedSize - 1 :
      chunkDataBuffer[chunkOffset.index + k]
        = currentOffset - chunkUnprocessedSize + k

InputInv ==
  /\ IOTypeOK
  /\ InputTypeOK
  /\ Control
  /\ WindowPlace
  /\ WindowContents
  /\ RefusedOnlyIfTruncated
  /\ TooSmallOnlyForHugePackets

-----------------------------------------------------------------------------
(* The buffer holds a whole chunk, and exactly the sums the capacity check  *)
(* of readMoreInput lets pass.                                             *)
LEMMA BufferSizeFacts ==
  /\ BufferSize \in Nat
  /\ ChunkSize <= BufferSize
  /\ \A n \in Nat : n <= BufferSize <=> 5 * n <= 6 * ChunkSize
BY ChunkSizeAssumption DEF BufferSize

(* A chunk fetched from a file that is not exhausted is neither empty nor   *)
(* longer than ChunkSize, and a shorter one is the file's last.            *)
LEMMA NextChunkFacts ==
  ASSUME IOTypeOK, ~Exhausted
  PROVE  /\ NextChunkSize \in 1 .. ChunkSize
         /\ currentOffset + NextChunkSize <= fileSize
         /\ NextChunkSize < ChunkSize => currentOffset + NextChunkSize = fileSize
BY ChunkSizeAssumption, FileSizesAssumption
DEF IOTypeOK, Exhausted, NextChunkSize

(* What the types say of the variables the input side computes with.        *)
LEMMA Basics ==
  ASSUME InputInv
  PROVE  /\ fileSize \in Nat /\ currentOffset \in Nat /\ inclLen \in Nat
         /\ chunkUnprocessedSize \in Nat
         /\ chunkOffset.base \in {"null", "chunk", "buffer"}
         /\ chunkOffset.index \in Nat
         /\ chunkDataBuffer \in [0 .. BufferSize - 1 -> Int]
         /\ ChunkSize \in Nat \ {0} /\ BufferSize \in Nat /\ ChunkSize <= BufferSize
BY ChunkSizeAssumption, FileSizesAssumption, InclLensAssumption, BufferSizeFacts
DEF InputInv, IOTypeOK, InputTypeOK

(* Unless a fetched chunk was dropped, the window is the part of the file   *)
(* just before the mapper's offset.                                        *)
LEMMA WindowBytes ==
  ASSUME InputInv, exception # "buffer_too_small"
  PROVE  /\ \A k \in 0 .. chunkUnprocessedSize - 1 :
              ByteAt(k) = currentOffset - chunkUnprocessedSize + k
         /\ Position = currentOffset - chunkUnprocessedSize
         /\ Position \in Nat
<1>1. WindowPlace /\ WindowContents
  BY DEF InputInv
<1>2. ASSUME NEW k \in 0 .. chunkUnprocessedSize - 1
      PROVE  ByteAt(k) = currentOffset - chunkUnprocessedSize + k
  <2>1. CASE chunkOffset.base = "null"
    BY <2>1, <1>1, Basics DEF WindowPlace
  <2>2. CASE chunkOffset.base = "chunk"
    BY <2>2, <1>1, Basics DEF WindowPlace, ByteAt
  <2>3. CASE chunkOffset.base = "buffer"
    BY <2>3, <1>1 DEF WindowContents, ByteAt
  <2> QED
    BY <2>1, <2>2, <2>3, Basics
<1>3. chunkUnprocessedSize <= currentOffset
  BY DEF InputInv, Control
<1>4. Position = currentOffset - chunkUnprocessedSize
  <2>1. CASE chunkUnprocessedSize = 0
    BY <2>1, Basics DEF Position
  <2>2. CASE chunkUnprocessedSize > 0
    <3>1. ByteAt(0) = currentOffset - chunkUnprocessedSize + 0
      BY <1>2, <2>2, Basics
    <3> QED
      BY <3>1, <2>2, Basics DEF Position
  <2> QED
    BY <2>1, <2>2, Basics
<1> QED
  BY <1>2, <1>3, <1>4, Basics

(* The same of the next state.                                              *)
LEMMA WindowBytesNext ==
  InputInv' /\ exception' # "buffer_too_small"
    => Position' = currentOffset' - chunkUnprocessedSize'
<1> DEFINE Intact == exception # "buffer_too_small"
           AtWindow == Position = currentOffset - chunkUnprocessedSize
<1>1. InputInv /\ Intact => AtWindow
  BY WindowBytes
<1>2. InputInv' /\ Intact' => AtWindow'
  <2> HIDE DEF Intact, AtWindow
  <2> QED
    BY <1>1, PTL
<1> QED
  BY <1>2

(* Whatever the window lies in, its bytes fit into the buffer.              *)
LEMMA LeftoverFits ==
  ASSUME InputInv
  PROVE  /\ chunkUnprocessedSize <= BufferSize
         /\ LeftoverMoved \in [0 .. BufferSize - 1 -> Int]
         /\ \A k \in 0 .. chunkUnprocessedSize - 1 : LeftoverMoved[k] = ByteAt(k)
<1>1. WindowPlace
  BY DEF InputInv
<1>2. chunkUnprocessedSize <= BufferSize
  BY <1>1, Basics DEF WindowPlace
<1>3. \A k \in 0 .. chunkUnprocessedSize - 1 : ByteAt(k) \in Int
  <2>1. CASE chunkOffset.base = "buffer"
    <3>1. \A k \in 0 .. chunkUnprocessedSize - 1 :
            chunkOffset.index + k \in 0 .. BufferSize - 1
      BY <2>1, <1>1, Basics DEF WindowPlace
    <3> QED
      BY <2>1, <3>1, Basics DEF ByteAt
  <2>2. CASE chunkOffset.base # "buffer"
    BY <2>2, Basics DEF ByteAt
  <2> QED
    BY <2>1, <2>2
<1>4. LeftoverMoved \in [0 .. BufferSize - 1 -> Int]
  BY <1>3, Basics DEF LeftoverMoved
<1>5. \A k \in 0 .. chunkUnprocessedSize - 1 : LeftoverMoved[k] = ByteAt(k)
  BY <1>2, Basics DEF LeftoverMoved
<1> QED
  BY <1>2, <1>4, <1>5

-----------------------------------------------------------------------------
(* InputInv is inductive: one lemma for each action that moves the window. *)

(* The invariant holds before the constructor runs.                         *)
LEMMA InputInit == Init => InputInv
<1> SUFFICES ASSUME Init PROVE InputInv
  OBVIOUS
<1>1. IOTypeOK
  BY FileSizesAssumption DEF Init, IOInit, IOTypeOK
<1>2. InputTypeOK
  BY BufferSizeFacts DEF Init, InputTypeOK, Phases, Exceptions, Unset
<1>3. Control
  BY FileSizesAssumption DEF Init, IOInit, Control
<1>4. WindowPlace /\ WindowContents
  BY DEF Init, WindowPlace, WindowContents
<1>5. RefusedOnlyIfTruncated /\ TooSmallOnlyForHugePackets
  BY DEF Init, RefusedOnlyIfTruncated, TooSmallOnlyForHugePackets
<1> QED
  BY <1>1, <1>2, <1>3, <1>4, <1>5 DEF InputInv

(* A step that touches neither the mapper nor the window, and throws none   *)
(* of the exceptions the invariant speaks of.                              *)
LEMMA QuietStep ==
  ASSUME InputInv, UNCHANGED <<ioVars, windowVars, inclLen>>,
         InputTypeOK', Control',
         \/ exception' = exception
         \/ /\ exception = "none"
            /\ exception' \notin {"no_more_data", "data", "buffer_too_small"}
  PROVE  InputInv'
<1>1. IOTypeOK'
  BY DEF InputInv, IOTypeOK, ioVars
<1>2. WindowPlace' /\ WindowContents'
  BY DEF InputInv, WindowPlace, WindowContents, ioVars, windowVars
<1>3. RefusedOnlyIfTruncated'
  BY DEF InputInv, RefusedOnlyIfTruncated, Position, ByteAt, ioVars, windowVars
<1>4. TooSmallOnlyForHugePackets'
  BY DEF InputInv, TooSmallOnlyForHugePackets
<1> QED
  BY <1>1, <1>2, <1>3, <1>4 DEF InputInv

(* A step that consumes the first n bytes of the window.                    *)
LEMMA AdvanceStep ==
  ASSUME InputInv, exception = "none", UNCHANGED <<ioVars, exception>>,
         NEW n \in Nat, n <= chunkUnprocessedSize, Advance(n)
  PROVE  /\ IOTypeOK'
         /\ chunkDataBuffer' \in [0 .. BufferSize - 1 -> Int]
         /\ chunkOffset' \in [base : {"null", "chunk", "buffer"}, index : Nat]
         /\ chunkUnprocessedSize' \in Nat
         /\ chunkUnprocessedSize' <= currentOffset
         /\ WindowPlace' /\ WindowContents'
         /\ RefusedOnlyIfTruncated' /\ TooSmallOnlyForHugePackets'
<1>1. IOTypeOK'
  BY DEF InputInv, IOTypeOK, ioVars
<1>2. /\ chunkOffset' \in [base : {"null", "chunk", "buffer"}, index : Nat]
      /\ chunkOffset'.base = chunkOffset.base
      /\ chunkOffset'.index = chunkOffset.index + n
  BY DEF InputInv, InputTypeOK, Advance
<1>3. /\ chunkUnprocessedSize' = chunkUnprocessedSize - n
      /\ chunkUnprocessedSize' \in Nat
      /\ chunkUnprocessedSize' <= currentOffset
      /\ chunkDataBuffer' = chunkDataBuffer
  BY Basics DEF Advance, InputInv, Control
<1>4. WindowPlace'
  <2>1. WindowPlace /\ UNCHANGED <<currentOffset, mapped>>
    BY DEF InputInv, ioVars
  <2>2. /\ n <= chunkUnprocessedSize /\ chunkUnprocessedSize \in Nat
        /\ chunkOffset.index \in Nat
    BY Basics
  <2>3. chunkUnprocessedSize = 0 => chunkUnprocessedSize' = 0
    BY <1>3, <2>2
  <2>4. chunkOffset'.index + chunkUnprocessedSize'
          = chunkOffset.index + chunkUnprocessedSize
    BY <1>2, <1>3, <2>2
  <2> QED
    BY <1>2, <2>1, <2>3, <2>4 DEF WindowPlace
<1>5. WindowContents'
  <2> SUFFICES ASSUME chunkOffset.base = "buffer",
                      NEW k \in 0 .. chunkUnprocessedSize' - 1
               PROVE  chunkDataBuffer[chunkOffset.index + n + k]
                        = currentOffset - (chunkUnprocessedSize - n) + k
    BY <1>2, <1>3 DEF WindowContents, ioVars
  <2>1. n + k \in 0 .. chunkUnprocessedSize - 1
    BY <1>3, Basics
  <2>2. chunkDataBuffer[chunkOffset.index + (n + k)]
          = currentOffset - chunkUnprocessedSize + (n + k)
    BY <2>1 DEF InputInv, WindowContents
  <2>3. chunkOffset.index + (n + k) = chunkOffset.index + n + k
    BY Basics
  <2>4. currentOffset - chunkUnprocessedSize + (n + k)
          = currentOffset - (chunkUnprocessedSize - n) + k
    BY Basics
  <2> QED
    BY <2>2, <2>3, <2>4
<1>6. RefusedOnlyIfTruncated' /\ TooSmallOnlyForHugePackets'
  BY DEF RefusedOnlyIfTruncated, TooSmallOnlyForHugePackets
<1> QED
  BY <1>1, <1>2, <1>3, <1>4, <1>5, <1>6, Basics

(* The constructor's fetch.                                                 *)
LEMMA FetchFirstChunkStep ==
  ASSUME InputInv, FetchFirstChunk
  PROVE  InputInv'
<1>1. /\ pc = "fetch" /\ exception = "none"
      /\ currentOffset = 0 /\ chunkUnprocessedSize = 0
      /\ chunkOffset.base = "null"
  BY DEF InputInv, Control, FetchFirstChunk
<1>2. CASE FetchReportsEnd /\ pc' = "open" /\ UNCHANGED <<windowVars, exception>>
  <2>1. UNCHANGED <<ioVars, windowVars, inclLen, network, i, exception>>
    BY <1>2 DEF FetchFirstChunk, FetchReportsEnd
  <2>2. InputTypeOK'
    BY <1>2, <2>1 DEF InputInv, InputTypeOK, windowVars, Phases
  <2>3. fileSize = 0
    BY <1>1, <1>2, Basics DEF FetchReportsEnd, Exhausted
  <2>4. Control'
    BY <1>1, <1>2, <2>1, <2>3, Basics DEF Control, ioVars, windowVars
  <2> QED
    BY <2>1, <2>2, <2>4, QuietStep
<1>3. CASE /\ FetchMapsChunk
           /\ chunkOffset' = [base |-> "chunk", index |-> 0]
           /\ chunkUnprocessedSize' = NextChunkSize
           /\ pc' = "open"
           /\ UNCHANGED <<chunkDataBuffer, exception>>
  <2>1. /\ NextChunkSize \in 1 .. ChunkSize
        /\ NextChunkSize <= fileSize
        /\ NextChunkSize < ChunkSize => NextChunkSize = fileSize
    BY <1>1, <1>3, NextChunkFacts, Basics DEF FetchMapsChunk, InputInv
  <2>2. /\ currentOffset' = NextChunkSize /\ fileSize' = fileSize
        /\ fd' = "open"
        /\ mapped' = mapped \cup {[offset |-> 0, size |-> NextChunkSize]}
    BY <1>1, <1>3, <2>1, Basics DEF FetchMapsChunk
  <2>3. IOTypeOK'
    BY <2>1, <2>2, Basics DEF InputInv, IOTypeOK, Chunk
  <2>4. InputTypeOK'
    BY <1>3, <2>1, Basics DEF InputInv, InputTypeOK, FetchFirstChunk, Phases
  <2>5. Control'
    BY <1>1, <1>3, <2>1, <2>2, Basics DEF Control
  <2>6. WindowPlace' /\ WindowContents'
    BY <1>3, <2>1, <2>2, Basics DEF WindowPlace, WindowContents
  <2>7. RefusedOnlyIfTruncated' /\ TooSmallOnlyForHugePackets'
    BY <1>1, <1>3 DEF RefusedOnlyIfTruncated, TooSmallOnlyForHugePackets
  <2> QED
    BY <2>3, <2>4, <2>5, <2>6, <2>7 DEF InputInv
<1>4. CASE /\ OpenFails \/ MapFails
           /\ ThrowFromConstructor("map")
           /\ UNCHANGED windowVars
  <2>1. /\ UNCHANGED <<fileSize, currentOffset, mapped, windowVars, inclLen, network, i>>
        /\ fd' \in {"closed", "open"}
    BY <1>4 DEF FetchFirstChunk, OpenFails, MapFails, ioVars, InputInv, IOTypeOK
  <2>2. IOTypeOK'
    BY <2>1 DEF InputInv, IOTypeOK
  <2>3. InputTypeOK'
    BY <1>4, <2>1
    DEF InputInv, InputTypeOK, windowVars, ThrowFromConstructor, Phases, Exceptions
  <2>4. Control'
    BY <1>1, <1>4, <2>1, Basics
    DEF InputInv, Control, windowVars, ThrowFromConstructor
  <2>5. WindowPlace' /\ WindowContents'
    BY <1>1, <2>1 DEF WindowPlace, WindowContents, windowVars
  <2>6. RefusedOnlyIfTruncated' /\ TooSmallOnlyForHugePackets'
    BY <1>4
    DEF RefusedOnlyIfTruncated, TooSmallOnlyForHugePackets, ThrowFromConstructor
  <2> QED
    BY <2>2, <2>3, <2>4, <2>5, <2>6 DEF InputInv
<1> QED
  BY <1>2, <1>3, <1>4 DEF FetchFirstChunk

(* parseGlobalHeader, whether or not the window holds a whole header.       *)
LEMMA ParseGlobalHeaderStep ==
  ASSUME InputInv, ParseGlobalHeader
  PROVE  InputInv'
<1>1. /\ pc = "global" /\ exception = "none" /\ pc' = "loop"
      /\ UNCHANGED <<ioVars, inclLen, i, exception>>
  BY DEF InputInv, Control, ParseGlobalHeader
<1>2. CASE UNCHANGED <<windowVars, network>>
  <2>1. InputTypeOK'
    BY <1>1, <1>2 DEF InputInv, InputTypeOK, windowVars, Phases
  <2>2. Control'
    BY <1>1, <1>2 DEF InputInv, Control, ioVars, windowVars
  <2> QED
    BY <1>1, <1>2, <2>1, <2>2, QuietStep
<1>3. CASE /\ chunkUnprocessedSize >= GlobalHeaderSize
           /\ network' \in LinkTypes
           /\ Advance(GlobalHeaderSize)
  <2>1. /\ IOTypeOK'
        /\ chunkDataBuffer' \in [0 .. BufferSize - 1 -> Int]
        /\ chunkOffset' \in [base : {"null", "chunk", "buffer"}, index : Nat]
        /\ chunkUnprocessedSize' \in Nat
        /\ chunkUnprocessedSize' <= currentOffset
        /\ WindowPlace' /\ WindowContents'
        /\ RefusedOnlyIfTruncated' /\ TooSmallOnlyForHugePackets'
    <3>1. GlobalHeaderSize \in Nat /\ GlobalHeaderSize <= chunkUnprocessedSize
      BY <1>3, SizesAssumption, Basics
    <3> QED
      BY <1>1, <1>3, <3>1, AdvanceStep
  <2>2. InputTypeOK'
    BY <1>1, <1>3, <2>1 DEF InputInv, InputTypeOK, Phases
  <2>3. Control'
    BY <1>1, <2>1 DEF InputInv, Control, ioVars
  <2> QED
    BY <2>1, <2>2, <2>3 DEF InputInv
<1> QED
  BY <1>2, <1>3 DEF ParseGlobalHeader

(* parseGenericHeader: the header is refused, or consumed.                  *)
LEMMA ReadPacketHeaderStep ==
  ASSUME InputInv, ReadPacketHeader
  PROVE  InputInv'
<1>1. /\ pc = "header" /\ exception = "none"
      /\ UNCHANGED <<ioVars, network, i>>
  BY DEF InputInv, Control, ReadPacketHeader
<1>2. CASE Throw("header") /\ UNCHANGED <<windowVars, inclLen>>
  <2>1. InputTypeOK'
    BY <1>1, <1>2 DEF InputInv, InputTypeOK, windowVars, Throw, Phases, Exceptions
  <2>2. Control'
    BY <1>1, <1>2 DEF InputInv, Control, ioVars, windowVars, Throw
  <2> QED
    BY <1>1, <1>2, <2>1, <2>2, QuietStep DEF Throw
<1>3. CASE /\ chunkUnprocessedSize >= PacketHeaderSize
           /\ inclLen' \in InclLens
           /\ Advance(PacketHeaderSize)
           /\ pc' = "refill"
           /\ UNCHANGED exception
  <2>1. /\ IOTypeOK'
        /\ chunkDataBuffer' \in [0 .. BufferSize - 1 -> Int]
        /\ chunkOffset' \in [base : {"null", "chunk", "buffer"}, index : Nat]
        /\ chunkUnprocessedSize' \in Nat
        /\ chunkUnprocessedSize' <= currentOffset
        /\ WindowPlace' /\ WindowContents'
        /\ RefusedOnlyIfTruncated' /\ TooSmallOnlyForHugePackets'
    <3>1. PacketHeaderSize \in Nat /\ PacketHeaderSize <= chunkUnprocessedSize
      BY <1>3, SizesAssumption, Basics
    <3> QED
      BY <1>1, <1>3, <3>1, AdvanceStep
  <2>2. InputTypeOK'
    BY <1>1, <1>3, <2>1 DEF InputInv, InputTypeOK, Phases
  <2>3. Control'
    BY <1>1, <1>3, <2>1 DEF InputInv, Control, ioVars
  <2> QED
    BY <2>1, <2>2, <2>3 DEF InputInv
<1> QED
  BY <1>2, <1>3 DEF ReadPacketHeader

(* readMoreInput when it throws: the leftover is at the front of the buffer. *)
LEMMA LeftoverOnlyStep ==
  ASSUME InputInv, pc = "refill", exception = "none",
         chunkUnprocessedSize < inclLen,
         chunkOffset' = [base |-> "buffer", index |-> 0],
         chunkDataBuffer' = LeftoverMoved,
         UNCHANGED <<fileSize, chunkUnprocessedSize, network, inclLen, i>>,
         IOTypeOK',
         currentOffset <= currentOffset', currentOffset' <= fileSize,
         pc' = "destroy",
         \/ exception' \in {"no_more_data", "map"} /\ UNCHANGED currentOffset
         \/ exception' = "buffer_too_small" /\ 5 * inclLen > ChunkSize,
         exception' = "no_more_data" => currentOffset = fileSize
  PROVE  InputInv'
<1>1. /\ LeftoverMoved \in [0 .. BufferSize - 1 -> Int]
      /\ chunkUnprocessedSize <= BufferSize
      /\ \A k \in 0 .. chunkUnprocessedSize - 1 :
           LeftoverMoved[k] = currentOffset - chunkUnprocessedSize + k
  BY LeftoverFits, WindowBytes
<1>2. InputTypeOK'
  BY <1>1, Basics DEF InputInv, InputTypeOK, Phases, Exceptions
<1>3. Control'
  <2>1. chunkUnprocessedSize' <= currentOffset'
    <3>1. currentOffset' \in Nat /\ chunkUnprocessedSize <= currentOffset
      BY DEF InputInv, Control, IOTypeOK
    <3> QED
      BY <3>1, Basics
  <2> QED
    BY <2>1 DEF Control
<1>4. WindowPlace'
  BY <1>1, Basics DEF WindowPlace
<1>5. WindowContents'
  BY <1>1, Basics DEF WindowContents
<1>6. RefusedOnlyIfTruncated'
  <2> SUFFICES ASSUME exception' = "no_more_data"
               PROVE  Position' + inclLen > fileSize
    BY DEF RefusedOnlyIfTruncated
  <2>1. currentOffset' = currentOffset /\ currentOffset = fileSize
    OBVIOUS
  <2>2. CASE chunkUnprocessedSize = 0
    BY <2>1, <2>2, Basics DEF Position
  <2>3. CASE chunkUnprocessedSize > 0
    <3>1. ByteAt(0)' = LeftoverMoved[0]
      BY <1>1, Basics DEF ByteAt
    <3>2. LeftoverMoved[0] = currentOffset - chunkUnprocessedSize + 0
      BY <1>1, <2>3, Basics
    <3> QED
      BY <2>1, <2>3, <3>1, <3>2, Basics DEF Position
  <2> QED
    BY <2>2, <2>3, Basics
<1>7. TooSmallOnlyForHugePackets'
  BY DEF TooSmallOnlyForHugePackets
<1> QED
  BY <1>2, <1>3, <1>4, <1>5, <1>6, <1>7 DEF InputInv

(* readMoreInput when it succeeds: the chunk lies behind the leftover.      *)
LEMMA RefilledStep ==
  ASSUME InputInv, pc = "refill", exception = "none",
         chunkUnprocessedSize < inclLen,
         chunkOffset' = [base |-> "buffer", index |-> 0],
         FetchMapsChunk,
         5 * (chunkUnprocessedSize + NextChunkSize) <= 6 * ChunkSize,
         chunkDataBuffer' = ChunkCopied(LeftoverMoved, currentOffset, NextChunkSize),
         chunkUnprocessedSize' = chunkUnprocessedSize + NextChunkSize,
         pc' = "data",
         UNCHANGED <<exception, network, inclLen, i>>
  PROVE  InputInv'
<1>1. /\ LeftoverMoved \in [0 .. BufferSize - 1 -> Int]
      /\ \A k \in 0 .. chunkUnprocessedSize - 1 :
           LeftoverMoved[k] = currentOffset - chunkUnprocessedSize + k
  BY LeftoverFits, WindowBytes
<1>2. /\ NextChunkSize \in 1 .. ChunkSize
      /\ currentOffset + NextChunkSize <= fileSize
      /\ NextChunkSize < ChunkSize => currentOffset + NextChunkSize = fileSize
  BY NextChunkFacts DEF FetchMapsChunk, InputInv
<1>3. /\ currentOffset' = currentOffset + NextChunkSize /\ fileSize' = fileSize
      /\ fd' = "open"
      /\ mapped' = mapped \cup {[offset |-> currentOffset, size |-> NextChunkSize]}
  BY DEF FetchMapsChunk
<1>4. chunkUnprocessedSize + NextChunkSize <= BufferSize
  BY <1>2, BufferSizeFacts, Basics
<1>5. \A k \in 0 .. BufferSize - 1 :
        chunkDataBuffer'[k] =
          IF chunkUnprocessedSize <= k /\ k < chunkUnprocessedSize + NextChunkSize
          THEN currentOffset + (k - chunkUnprocessedSize)
          ELSE LeftoverMoved[k]
  BY DEF ChunkCopied
<1>6. chunkDataBuffer' \in [0 .. BufferSize - 1 -> Int]
  BY <1>1, <1>2, Basics DEF ChunkCopied
<1>7. IOTypeOK'
  <2>1. IOTypeOK
    BY DEF InputInv
  <2>2. [offset |-> currentOffset, size |-> NextChunkSize] \in Chunk
    BY <1>2, Basics DEF Chunk
  <2>3. currentOffset' \in Nat
    BY <1>2, <1>3, Basics
  <2> QED
    BY <1>3, <2>1, <2>2, <2>3 DEF IOTypeOK
<1>8. InputTypeOK'
  <2>1. InputTypeOK
    BY DEF InputInv
  <2>2. chunkUnprocessedSize' \in Nat
    BY <1>2, Basics
  <2>3. chunkOffset' \in [base : {"null", "chunk", "buffer"}, index : Nat]
    OBVIOUS
  <2> QED
    BY <1>6, <2>1, <2>2, <2>3 DEF InputTypeOK, Phases
<1>9. Control'
  BY <1>2, <1>3, Basics DEF InputInv, Control
<1>10. WindowPlace'
  BY <1>2, <1>4, Basics DEF WindowPlace
<1>11. WindowContents'
  <2> SUFFICES ASSUME NEW k \in 0 .. chunkUnprocessedSize' - 1
               PROVE  chunkDataBuffer'[k] = currentOffset' - chunkUnprocessedSize' + k
    <3>1. \A k \in 0 .. chunkUnprocessedSize' - 1 : chunkOffset'.index + k = k
      OBVIOUS
    <3> QED
      BY <3>1 DEF WindowContents
  <2>1. k \in Nat /\ k \in 0 .. BufferSize - 1 /\ k < chunkUnprocessedSize + NextChunkSize
    <3>1. NextChunkSize \in Nat /\ k \in 0 .. (chunkUnprocessedSize + NextChunkSize) - 1
      BY <1>2, Basics
    <3> QED
      BY ONLY <3>1, <1>4, Basics, InputInv
  <2>2. currentOffset' - chunkUnprocessedSize' + k
          = currentOffset - chunkUnprocessedSize + k
    BY <1>2, <1>3, Basics
  <2>3. CASE k < chunkUnprocessedSize
    <3>1. k \in 0 .. chunkUnprocessedSize - 1
      BY <2>1, <2>3, Basics
    <3>2. chunkDataBuffer'[k] = LeftoverMoved[k]
      BY <1>5, <2>1, <2>3, Basics
    <3> QED
      BY <1>1, <2>2, <3>1, <3>2
  <2>4. CASE chunkUnprocessedSize <= k
    BY <1>5, <2>1, <2>2, <2>4, Basics
  <2> QED
    BY <2>1, <2>3, <2>4, Basics
<1>12. RefusedOnlyIfTruncated' /\ TooSmallOnlyForHugePackets'
  BY DEF RefusedOnlyIfTruncated, TooSmallOnlyForHugePackets
<1> QED
  BY <1>7, <1>8, <1>9, <1>10, <1>11, <1>12 DEF InputInv

(* readMoreInput: its four outcomes.                                        *)
LEMMA ReadMoreInputStep ==
  ASSUME InputInv, ReadMoreInput
  PROVE  InputInv'
<1>1. /\ pc = "refill" /\ exception = "none"
      /\ chunkUnprocessedSize < inclLen
      /\ chunkOffset' = [base |-> "buffer", index |-> 0]
      /\ UNCHANGED <<network, inclLen, i>>
      /\ currentOffset <= fileSize
      /\ IOTypeOK
  BY DEF InputInv, Control, ReadMoreInput
<1>2. CASE /\ FetchReportsEnd
           /\ Throw("no_more_data")
           /\ chunkDataBuffer' = LeftoverMoved
           /\ UNCHANGED chunkUnprocessedSize
  <2>1. UNCHANGED ioVars /\ currentOffset = fileSize
    BY <1>1, <1>2, Basics DEF FetchReportsEnd, Exhausted
  <2>2. IOTypeOK'
    BY <1>1, <2>1 DEF IOTypeOK, ioVars
  <2> QED
    BY <1>1, <1>2, <2>1, <2>2, Basics, LeftoverOnlyStep DEF Throw, ioVars
<1>3. CASE /\ OpenFails \/ MapFails
           /\ Throw("map")
           /\ chunkDataBuffer' = LeftoverMoved
           /\ UNCHANGED chunkUnprocessedSize
  <2>1. /\ UNCHANGED <<fileSize, currentOffset, mapped>>
        /\ fd' \in {"closed", "open"}
    BY <1>1, <1>3 DEF OpenFails, MapFails, ioVars, IOTypeOK
  <2>2. IOTypeOK'
    BY <1>1, <2>1 DEF IOTypeOK
  <2> QED
    BY <1>1, <1>3, <2>1, <2>2, Basics, LeftoverOnlyStep DEF Throw
<1>4. CASE /\ FetchMapsChunk
           /\ BufferTooSmall
           /\ Throw("buffer_too_small")
           /\ chunkDataBuffer' = LeftoverMoved
           /\ UNCHANGED chunkUnprocessedSize
  <2>1. /\ NextChunkSize \in 1 .. ChunkSize
        /\ currentOffset + NextChunkSize <= fileSize
    BY <1>1, <1>4, NextChunkFacts DEF FetchMapsChunk
  <2>2. /\ currentOffset' = currentOffset + NextChunkSize /\ fileSize' = fileSize
        /\ fd' = "open"
        /\ mapped' = mapped \cup {[offset |-> currentOffset, size |-> NextChunkSize]}
    BY <1>4 DEF FetchMapsChunk
  <2>3. IOTypeOK'
    BY <1>1, <2>1, <2>2, Basics DEF IOTypeOK, Chunk
  <2>4. 5 * inclLen > ChunkSize
    BY <1>1, <1>4, <2>1, Basics DEF BufferTooSmall
  <2>5. currentOffset <= currentOffset' /\ currentOffset' <= fileSize
    BY <2>1, <2>2, Basics
  <2> QED
    BY <1>1, <1>4, <2>2, <2>3, <2>4, <2>5, LeftoverOnlyStep DEF Throw
<1>5. CASE /\ FetchMapsChunk
           /\ ~BufferTooSmall
           /\ chunkDataBuffer' = ChunkCopied(LeftoverMoved, currentOffset, NextChunkSize)
           /\ chunkUnprocessedSize' = chunkUnprocessedSize + NextChunkSize
           /\ pc' = "data"
           /\ UNCHANGED exception
  <2>1. 5 * (chunkUnprocessedSize + NextChunkSize) <= 6 * ChunkSize
    BY <1>1, <1>5, NextChunkFacts, Basics DEF BufferTooSmall, FetchMapsChunk
  <2> QED
    BY <1>1, <1>5, <2>1, RefilledStep
<1> QED
  BY <1>2, <1>3, <1>4, <1>5 DEF ReadMoreInput

(* readPacketData.  A packet refused here has had its refill, so that the   *)
(* file ended or the packet is longer than a chunk.                         *)
LEMMA ReadPacketDataStep ==
  ASSUME InputInv, ReadPacketData
  PROVE  InputInv'
<1>1. /\ pc = "data" /\ exception = "none"
      /\ UNCHANGED <<ioVars, network, inclLen, i>>
  BY DEF InputInv, Control, ReadPacketData
<1>2. CASE /\ chunkUnprocessedSize < inclLen
           /\ Throw("data")
           /\ UNCHANGED <<windowVars, packetData>>
  <2>1. IOTypeOK'
    BY <1>1 DEF InputInv, IOTypeOK, ioVars
  <2>2. InputTypeOK'
    BY <1>1, <1>2 DEF InputInv, InputTypeOK, windowVars, Throw, Phases, Exceptions
  <2>3. Control'
    BY <1>1, <1>2 DEF InputInv, Control, ioVars, windowVars, Throw
  <2>4. WindowPlace' /\ WindowContents'
    BY <1>1, <1>2 DEF InputInv, WindowPlace, WindowContents, ioVars, windowVars
  <2>5. RefusedOnlyIfTruncated'
    <3> SUFFICES ASSUME inclLen <= ChunkSize
                 PROVE  Position + inclLen > fileSize
      BY <1>1, <1>2 DEF RefusedOnlyIfTruncated, Position, ByteAt, ioVars, windowVars
    <3>1. currentOffset = fileSize
      BY <1>1, <1>2 DEF InputInv, Control
    <3>2. Position = currentOffset - chunkUnprocessedSize
      BY <1>1, WindowBytes
    <3> QED
      BY <1>2, <3>1, <3>2, Basics
  <2>6. TooSmallOnlyForHugePackets'
    BY <1>2 DEF TooSmallOnlyForHugePackets, Throw
  <2> QED
    BY <2>1, <2>2, <2>3, <2>4, <2>5, <2>6 DEF InputInv
<1>3. CASE /\ chunkUnprocessedSize >= inclLen
           /\ Advance(inclLen)
           /\ pc' = "payload"
           /\ UNCHANGED exception
  <2>1. /\ IOTypeOK'
        /\ chunkDataBuffer' \in [0 .. BufferSize - 1 -> Int]
        /\ chunkOffset' \in [base : {"null", "chunk", "buffer"}, index : Nat]
        /\ chunkUnprocessedSize' \in Nat
        /\ chunkUnprocessedSize' <= currentOffset
        /\ WindowPlace' /\ WindowContents'
        /\ RefusedOnlyIfTruncated' /\ TooSmallOnlyForHugePackets'
    <3>1. inclLen \in Nat /\ inclLen <= chunkUnprocessedSize
      BY <1>3, Basics
    <3> QED
      BY <1>1, <1>3, <3>1, AdvanceStep
  <2>2. InputTypeOK'
    BY <1>1, <1>3, <2>1 DEF InputInv, InputTypeOK, Phases
  <2>3. Control'
    BY <1>1, <1>3, <2>1 DEF InputInv, Control, ioVars
  <2> QED
    BY <2>1, <2>2, <2>3 DEF InputInv
<1> QED
  BY <1>2, <1>3 DEF ReadPacketData

(* The actions that leave the input side alone.                             *)
LEMMA OtherSteps ==
  ASSUME InputInv,
         \/ GetFileSize \/ OpenOutput \/ TestLoop \/ RefillNotNeeded
         \/ SkipPayload \/ ProcessPayload \/ Crash \/ FlushIfDue \/ Destroy
         \/ UNCHANGED vars
  PROVE  InputInv'
<1>1. InputTypeOK /\ Control
  BY DEF InputInv
<1>2. CASE GetFileSize
  <2>1. /\ pc = "stat" /\ exception = "none"
        /\ UNCHANGED <<ioVars, windowVars, inclLen, network, i>>
    BY <1>1, <1>2 DEF Control, GetFileSize
  <2>2. \/ pc' = "fetch" /\ exception' = "none"
        \/ pc' = "done" /\ exception' \in {"stat", "bad_alloc"}
    BY <1>2, <2>1 DEF GetFileSize, ThrowFromConstructor
  <2>3. InputTypeOK' /\ Control'
    BY <1>1, <2>1, <2>2
    DEF InputTypeOK, Control, ioVars, windowVars, Phases, Exceptions
  <2> QED
    BY <2>1, <2>2, <2>3, QuietStep
<1>3. CASE OpenOutput
  <2>1. /\ pc = "open" /\ exception = "none"
        /\ UNCHANGED <<ioVars, windowVars, inclLen, network, i>>
    BY <1>1, <1>3 DEF Control, OpenOutput
  <2>2. \/ pc' = "global" /\ exception' = "none"
        \/ pc' = "done" /\ exception' = "output"
    BY <1>3, <2>1 DEF OpenOutput, ThrowFromConstructor
  <2>3. InputTypeOK' /\ Control'
    BY <1>1, <2>1, <2>2
    DEF InputTypeOK, Control, ioVars, windowVars, Phases, Exceptions
  <2> QED
    BY <2>1, <2>2, <2>3, QuietStep
<1>4. CASE TestLoop \/ RefillNotNeeded \/ SkipPayload \/ Crash
  <2>1. UNCHANGED <<ioVars, windowVars, inclLen, network, i, exception>>
    BY <1>4 DEF TestLoop, RefillNotNeeded, SkipPayload, Crash
  <2>2. /\ exception = "none"
        /\ pc' \in {"header", "destroy", "data", "flush", "crashed"}
        /\ pc' = "data" => chunkUnprocessedSize >= inclLen
    BY <1>1, <1>4 DEF Control, TestLoop, RefillNotNeeded, SkipPayload, Crash
  <2>3. InputTypeOK'
    BY <1>1, <2>1, <2>2 DEF InputTypeOK, windowVars, Phases
  <2>4. Control'
    BY <1>1, <2>1, <2>2, Basics DEF Control, ioVars, windowVars
  <2> QED
    BY <2>1, <2>3, <2>4, QuietStep
<1>5. CASE ProcessPayload
  <2>1. /\ exception = "none"
        /\ UNCHANGED <<ioVars, windowVars, inclLen, network, i>>
    BY <1>1, <1>5 DEF Control, ProcessPayload
  <2>2. \/ pc' = "flush" /\ exception' = "none"
        \/ pc' = "destroy" /\ exception' \in {"ethernet", "ipv4"}
    BY <1>5, <2>1 DEF ProcessPayload, Throw
  <2>3. InputTypeOK' /\ Control'
    BY <1>1, <2>1, <2>2
    DEF InputTypeOK, Control, ioVars, windowVars, Phases, Exceptions
  <2> QED
    BY <2>1, <2>2, <2>3, QuietStep
<1>6. CASE FlushIfDue
  <2>1. /\ exception = "none" /\ pc' = "loop" /\ i' = i + 1
        /\ UNCHANGED <<ioVars, windowVars, inclLen, network, exception>>
    BY <1>1, <1>6 DEF Control, FlushIfDue
  <2>2. InputTypeOK' /\ Control'
    BY <1>1, <2>1 DEF InputTypeOK, Control, ioVars, windowVars, Phases
  <2> QED
    BY <2>1, <2>2, QuietStep
<1>7. CASE Destroy
  <2>1. /\ pc = "destroy" /\ pc' = "done"
        /\ UNCHANGED <<ioVars, windowVars, inclLen, network, i, exception>>
    BY <1>7 DEF Destroy
  <2>2. InputTypeOK' /\ Control'
    BY <1>1, <2>1 DEF InputTypeOK, Control, ioVars, windowVars, Phases
  <2> QED
    BY <2>1, <2>2, QuietStep
<1>8. CASE UNCHANGED vars
  <2>1. UNCHANGED <<ioVars, windowVars, inclLen, network, i, exception, pc>>
    BY <1>8 DEF vars
  <2>2. InputTypeOK' /\ Control'
    BY <1>1, <2>1 DEF InputTypeOK, Control, ioVars, windowVars
  <2> QED
    BY <2>1, <2>2, QuietStep
<1> QED
  BY <1>2, <1>3, <1>4, <1>5, <1>6, <1>7, <1>8

(* Every step keeps the invariant.                                          *)
LEMMA InputStep == InputInv /\ [Next]_vars => InputInv'
<1> SUFFICES ASSUME InputInv, [Next]_vars PROVE InputInv'
  OBVIOUS
<1>1. CASE FetchFirstChunk
  BY <1>1, FetchFirstChunkStep
<1>2. CASE ParseGlobalHeader
  BY <1>2, ParseGlobalHeaderStep
<1>3. CASE ReadPacketHeader
  BY <1>3, ReadPacketHeaderStep
<1>4. CASE ReadMoreInput
  BY <1>4, ReadMoreInputStep
<1>5. CASE ReadPacketData
  BY <1>5, ReadPacketDataStep
<1>6. CASE \/ GetFileSize \/ OpenOutput \/ TestLoop \/ RefillNotNeeded
           \/ SkipPayload \/ ProcessPayload \/ Crash \/ FlushIfDue \/ Destroy
           \/ UNCHANGED vars
  BY <1>6, OtherSteps
<1> QED
  BY <1>1, <1>2, <1>3, <1>4, <1>5, <1>6 DEF Next, Halted

(* The invariant holds in every reachable state.                            *)
THEOREM InputInvariant == Spec => []InputInv
  BY InputInit, InputStep, PTL DEF Spec

-----------------------------------------------------------------------------
(* What follows from the invariant. *)

(* The unprocessed window is the part of the file before the mapper's       *)
(* offset, wherever readMoreInput has moved it.                            *)
THEOREM WindowIsFileAlways == Spec => []WindowIsFile
<1>1. InputInv => WindowIsFile
  BY WindowBytes DEF WindowIsFile
<1> QED
  BY <1>1, InputInvariant, PTL

(* No access through the window leaves the first chunk or the buffer.       *)
THEOREM WindowInBoundsAlways == Spec => []WindowInBounds
<1>1. InputInv => WindowInBounds
  <2> SUFFICES ASSUME InputInv PROVE WindowInBounds
    OBVIOUS
  <2>1. WindowPlace
    BY DEF InputInv
  <2>2. CASE chunkOffset.base = "chunk"
    <3> DEFINE c == [offset |-> 0, size |-> currentOffset]
    <3>1. c \in mapped /\ chunkOffset.index + chunkUnprocessedSize <= c.size
      BY <2>1, <2>2, Basics DEF WindowPlace
    <3>2. c.offset = 0
      OBVIOUS
    <3> QED
      BY <2>2, <3>1, <3>2 DEF WindowInBounds
  <2>3. CASE chunkOffset.base # "chunk"
    BY <2>1, <2>3 DEF WindowPlace, WindowInBounds
  <2> QED
    BY <2>2, <2>3
<1> QED
  BY <1>1, InputInvariant, PTL

(* A packet of at most a chunk is refused only where the file ends.         *)
THEOREM RefusedOnlyIfTruncatedAlways == Spec => []RefusedOnlyIfTruncated
<1>1. InputInv => RefusedOnlyIfTruncated
  BY DEF InputInv
<1> QED
  BY <1>1, InputInvariant, PTL

(* A packet of at most a fifth of a chunk never overflows the buffer.       *)
THEOREM TooSmallOnlyForHugePacketsAlways == Spec => []TooSmallOnlyForHugePackets
<1>1. InputInv => TooSmallOnlyForHugePackets
  BY DEF InputInv
<1> QED
  BY <1>1, InputInvariant, PTL

-----------------------------------------------------------------------------
(* PCAPParser implements PcapStream. *)

(* The parser starts at the front of the stream.                            *)
LEMMA StreamInitially == InputInv /\ Init => Stream!StreamInit
<1> SUFFICES ASSUME InputInv, Init PROVE Stream!StreamInit
  OBVIOUS
<1>1. Position = 0
  BY DEF Init, IOInit, Position
<1>2. Phase = "start"
  BY DEF Init, Phase
<1> QED
  BY <1>1, <1>2, Basics DEF Init, Stream!StreamInit

(* A step that moves neither the window nor the mapper's offset is a stutter *)
(* of the stream, or stops it.                                             *)
LEMMA StreamQuietStep ==
  ASSUME InputInv, UNCHANGED <<fileSize, currentOffset, windowVars, inclLen, packetData>>,
         Phase' = Phase \/ Phase' = "end"
  PROVE  [Stream!StreamNext]_Stream!streamVars
<1>1. Position' = Position
  BY DEF Position, ByteAt, windowVars
<1> QED
  BY <1>1 DEF Stream!StreamNext, Stream!Stop, Stream!streamVars

(* Every step of the parser is a step of the stream or a stutter.           *)
LEMMA StreamStep ==
  InputInv /\ InputInv' /\ [Next]_vars => [Stream!StreamNext]_Stream!streamVars
<1> SUFFICES ASSUME InputInv, InputInv', [Next]_vars
             PROVE  [Stream!StreamNext]_Stream!streamVars
  OBVIOUS
<1> USE DEF windowVars, ioVars
<1>1. CASE GetFileSize
  BY <1>1, StreamQuietStep DEF GetFileSize, ThrowFromConstructor, Phase
<1>2. CASE FetchFirstChunk
  <2>1. pc = "fetch" /\ UNCHANGED <<inclLen, packetData>>
    BY <1>2 DEF FetchFirstChunk
  <2>2. CASE /\ FetchMapsChunk
             /\ chunkOffset' = [base |-> "chunk", index |-> 0]
             /\ chunkUnprocessedSize' = NextChunkSize
             /\ pc' = "open"
    <3>1. Position = 0
      BY <2>1, Basics DEF InputInv, Control, Position
    <3>2. Position' = 0
      BY <2>2, NextChunkFacts DEF Position, ByteAt, FetchMapsChunk, InputInv
    <3>3. Phase = "start" /\ Phase' = "start"
      BY <2>1, <2>2 DEF Phase
    <3> QED
      BY <2>1, <2>2, <3>1, <3>2, <3>3 DEF FetchMapsChunk, Stream!streamVars
  <2>3. CASE FetchReportsEnd /\ pc' = "open" /\ UNCHANGED windowVars
    BY <2>1, <2>3, StreamQuietStep DEF FetchReportsEnd, Phase
  <2>4. CASE /\ OpenFails \/ MapFails
             /\ ThrowFromConstructor("map")
             /\ UNCHANGED windowVars
    <3>1. UNCHANGED <<fileSize, currentOffset>> /\ Phase' = "end"
      BY <2>4 DEF OpenFails, MapFails, ThrowFromConstructor, Phase
    <3> QED
      BY <2>1, <2>4, <3>1, StreamQuietStep
  <2> QED
    BY <1>2, <2>2, <2>3, <2>4 DEF FetchFirstChunk
<1>3. CASE OpenOutput
  BY <1>3, StreamQuietStep DEF OpenOutput, ThrowFromConstructor, Phase
<1>4. CASE ParseGlobalHeader
  <2>1. /\ pc = "global" /\ exception = "none" /\ exception' = "none"
        /\ Phase = "start" /\ Phase' = "header"
        /\ UNCHANGED <<fileSize, currentOffset, inclLen, packetData>>
    BY <1>4 DEF ParseGlobalHeader, InputInv, Control, Phase
  <2>2. /\ chunkUnprocessedSize = currentOffset
        /\ currentOffset <= fileSize
        /\ currentOffset < ChunkSize => currentOffset = fileSize
    BY <2>1 DEF InputInv, Control
  <2>3. Position = 0
    BY <2>1, <2>2, WindowBytes, Basics
  <2>4. Position' = currentOffset' - chunkUnprocessedSize'
    BY <2>1, WindowBytesNext
  <2>5. Position' = IF GlobalHeaderSize <= fileSize THEN GlobalHeaderSize ELSE 0
    <3>1. CASE chunkUnprocessedSize < GlobalHeaderSize /\ UNCHANGED windowVars
      BY <2>1, <2>2, <2>4, <3>1, SizesAssumption, Basics
    <3>2. CASE chunkUnprocessedSize >= GlobalHeaderSize /\ Advance(GlobalHeaderSize)
      BY <2>1, <2>2, <2>4, <3>2, SizesAssumption, Basics DEF Advance
    <3> QED
      BY <1>4, <3>1, <3>2 DEF ParseGlobalHeader
  <2> QED
    BY <2>1, <2>5 DEF Stream!StreamNext, Stream!TakeFileHeader
<1>5. CASE TestLoop
  BY <1>5, StreamQuietStep DEF TestLoop, Phase
<1>6. CASE ReadPacketHeader
  <2>1. /\ pc = "header" /\ exception = "none" /\ Phase = "header"
        /\ UNCHANGED <<ioVars, packetData>>
    BY <1>6 DEF ReadPacketHeader, InputInv, Control, Phase
  <2>2. CASE Throw("header") /\ UNCHANGED <<windowVars, inclLen>>
    BY <2>1, <2>2, StreamQuietStep DEF Throw, Phase
  <2>3. CASE /\ chunkUnprocessedSize >= PacketHeaderSize
             /\ inclLen' \in InclLens
             /\ Advance(PacketHeaderSize)
             /\ pc' = "refill"
             /\ UNCHANGED exception
    <3>1. Position = currentOffset - chunkUnprocessedSize
      BY <2>1, WindowBytes
    <3>2. Position' = currentOffset - chunkUnprocessedSize'
      BY <2>1, <2>3, WindowBytesNext
    <3>3. /\ Position + PacketHeaderSize <= fileSize
          /\ Position' = Position + PacketHeaderSize
      BY <2>3, <3>1, <3>2, SizesAssumption, Basics DEF Advance, InputInv, Control
    <3>4. Phase' = "data"
      BY <2>3 DEF Phase
    <3> QED
      BY <2>1, <2>3, <3>3, <3>4 DEF Stream!StreamNext, Stream!TakePacketHeader
  <2> QED
    BY <1>6, <2>2, <2>3 DEF ReadPacketHeader
<1>7. CASE ReadMoreInput
  <2>1. /\ pc = "refill" /\ exception = "none" /\ Phase = "data"
        /\ Phase' \in {"data", "end"}
        /\ UNCHANGED <<fileSize, inclLen, packetData>>
        /\ chunkOffset' = [base |-> "buffer", index |-> 0]
    BY <1>7
    DEF ReadMoreInput, Throw, FetchReportsEnd, FetchMapsChunk, OpenFails, MapFails,
        InputInv, Control, Phase
  <2>2. Position' = Position
    <3>1. CASE exception' # "buffer_too_small"
      <4>1. /\ Position = currentOffset - chunkUnprocessedSize
            /\ Position' = currentOffset' - chunkUnprocessedSize'
        BY <2>1, <3>1, WindowBytes, WindowBytesNext
      <4>2. CASE UNCHANGED <<currentOffset, chunkUnprocessedSize>>
        BY <4>1, <4>2
      <4>3. CASE /\ FetchMapsChunk
                 /\ chunkUnprocessedSize' = chunkUnprocessedSize + NextChunkSize
        <5>1. NextChunkSize \in Nat /\ currentOffset' = currentOffset + NextChunkSize
          BY <4>3, NextChunkFacts DEF FetchMapsChunk, InputInv
        <5> QED
          BY <4>1, <4>3, <5>1, Basics
      <4> QED
        BY <1>7, <3>1, <4>2, <4>3
        DEF ReadMoreInput, Throw, FetchReportsEnd, OpenFails, MapFails
    <3>2. CASE exception' = "buffer_too_small"
      <4>1. /\ FetchMapsChunk
            /\ BufferTooSmall
            /\ chunkDataBuffer' = LeftoverMoved
            /\ chunkUnprocessedSize' = chunkUnprocessedSize
        BY <1>7, <2>1, <3>2 DEF ReadMoreInput, Throw
      <4>2. NextChunkSize \in 1 .. ChunkSize
        BY <4>1, NextChunkFacts DEF FetchMapsChunk, InputInv
      <4>3. chunkUnprocessedSize > 0
        BY <4>1, <4>2, Basics DEF BufferTooSmall
      <4>4. LeftoverMoved[0] = ByteAt(0)
        BY <4>3, LeftoverFits, Basics
      <4> QED
        BY <2>1, <4>1, <4>3, <4>4, Basics DEF Position, ByteAt
    <3> QED
      BY <3>1, <3>2
  <2> QED
    BY <2>1, <2>2 DEF Stream!StreamNext, Stream!Stop, Stream!streamVars
<1>8. CASE RefillNotNeeded
  BY <1>8, StreamQuietStep DEF RefillNotNeeded, Phase
<1>9. CASE ReadPacketData
  <2>1. /\ pc = "data" /\ exception = "none" /\ Phase = "data"
        /\ UNCHANGED <<ioVars, inclLen>>
    BY <1>9 DEF ReadPacketData, InputInv, Control, Phase
  <2>2. CASE Throw("data") /\ UNCHANGED <<windowVars, packetData>>
    BY <2>1, <2>2, StreamQuietStep DEF Throw, Phase
  <2>3. CASE /\ chunkUnprocessedSize >= inclLen
             /\ packetData' = [k \in 0 .. inclLen - 1 |-> ByteAt(k)]
             /\ Advance(inclLen)
             /\ pc' = "payload"
             /\ UNCHANGED exception
    <3>1. Position = currentOffset - chunkUnprocessedSize
      BY <2>1, WindowBytes
    <3>2. Position' = currentOffset - chunkUnprocessedSize'
      BY <2>1, <2>3, WindowBytesNext
    <3>3. /\ Position + inclLen <= fileSize
          /\ Position' = Position + inclLen
      BY <2>3, <3>1, <3>2, Basics DEF Advance, InputInv, Control
    <3>4. Phase' = "header"
      BY <2>3 DEF Phase
    <3>5. \A k \in 0 .. inclLen - 1 : ByteAt(k) = Position + k
      <4> SUFFICES ASSUME NEW k \in 0 .. inclLen - 1 PROVE ByteAt(k) = Position + k
        OBVIOUS
      <4>1. k \in 0 .. chunkUnprocessedSize - 1
        BY <2>3, Basics
      <4> QED
        BY <2>1, <3>1, <4>1, WindowBytes
    <3>6. packetData' = [k \in 0 .. inclLen - 1 |-> Position + k]
      BY <2>3, <3>5
    <3> QED
      BY <2>1, <3>3, <3>4, <3>6 DEF Stream!StreamNext, Stream!TakePacketData
  <2> QED
    BY <1>9, <2>2, <2>3 DEF ReadPacketData
<1>10. CASE SkipPayload
  BY <1>10, StreamQuietStep DEF SkipPayload, Phase
<1>11. CASE ProcessPayload
  BY <1>11, StreamQuietStep DEF ProcessPayload, Throw, Phase
<1>12. CASE Crash
  BY <1>12, StreamQuietStep DEF Crash, Phase
<1>13. CASE FlushIfDue
  BY <1>13, StreamQuietStep DEF FlushIfDue, Phase
<1>14. CASE Destroy
  BY <1>14, StreamQuietStep DEF Destroy, Phase
<1>15. CASE UNCHANGED vars
  BY <1>15, StreamQuietStep DEF vars, Phase
<1> QED
  BY <1>1, <1>2, <1>3, <1>4, <1>5, <1>6, <1>7, <1>8, <1>9, <1>10, <1>11, <1>12,
     <1>13, <1>14, <1>15 DEF Next, Halted

(* Whatever the chunk size, the packets and the chunks, the parser hands on *)
(* exactly the packets of the file: it implements PcapStream.              *)
THEOREM Refinement == Spec => StreamSpec
<1>1. InputInv /\ Init => Stream!StreamInit
  BY StreamInitially
<1>2. InputInv /\ InputInv' /\ [Next]_vars => [Stream!StreamNext]_Stream!streamVars
  BY StreamStep
<1> QED
  BY <1>1, <1>2, InputInvariant, PTL DEF Spec, StreamSpec, Stream!StreamSpec

-----------------------------------------------------------------------------
(* Type correctness. *)

(* Rendering adds tokens to jsonBuffer.                                     *)
LEMMA EmitTypes ==
  ASSUME OutputTypeOK, NEW tokens \in Seq(Tokens), Emit(tokens)
  PROVE  jsonBuffer' \in Seq(Tokens) /\ rendered' \in Seq(Tokens)
BY DEF OutputTypeOK, Emit

(* A write, whole, partial or failed, leaves tokens in the file.            *)
LEMMA WriteTypes ==
  ASSUME OutputTypeOK, NEW tokens \in Seq(Tokens), Write(tokens)
  PROVE  outputFile' \in Seq(Tokens) /\ outputBad' \in BOOLEAN
<1> DEFINE all == outputFile \o tokens
<1>1. all \in Seq(Tokens)
  BY DEF OutputTypeOK
<1>2. \A n \in 0 .. Len(all) : SubSeq(all, 1, n) \in Seq(Tokens)
  BY <1>1, SubSeqProperties
<1> QED
  BY <1>1, <1>2 DEF OutputTypeOK, Write

(* Every step keeps the types of the output variables.                      *)
LEMMA OutputTypeStep == OutputTypeOK /\ [Next]_vars => OutputTypeOK'
<1> SUFFICES ASSUME OutputTypeOK, [Next]_vars PROVE OutputTypeOK'
  OBVIOUS
<1>1. CASE OpenOutput
  <2>1. <<"begin">> \in Seq(Tokens)
    BY DEF Tokens
  <2> QED
    BY <1>1, <2>1, EmitTypes DEF OpenOutput, OutputTypeOK
<1>2. CASE ProcessPayload
  <2>1. <<"packet", "comma">> \in Seq(Tokens) /\ <<"comma">> \in Seq(Tokens)
    BY DEF Tokens
  <2> QED
    BY <1>2, <2>1, EmitTypes DEF ProcessPayload, OutputTypeOK, outputVars
<1>3. CASE Crash
  <2>1. \A n \in 0 .. Len(outputFile) : SubSeq(outputFile, 1, n) \in Seq(Tokens)
    BY SubSeqProperties DEF OutputTypeOK
  <2> QED
    BY <1>3, <2>1 DEF Crash, OutputTypeOK
<1>4. CASE FlushIfDue
  <2>1. CASE Flush
    BY <1>4, <2>1, WriteTypes DEF FlushIfDue, Flush, OutputTypeOK
  <2>2. CASE UNCHANGED <<outputFile, outputBad, jsonBuffer>>
    BY <1>4, <2>2 DEF FlushIfDue, OutputTypeOK
  <2> QED
    BY <1>4, <2>1, <2>2 DEF FlushIfDue
<1>5. CASE Destroy
  <2>1. Remainder \in Seq(Tokens)
    BY DEF OutputTypeOK, Tokens, Remainder
  <2> QED
    BY <1>5, <2>1, WriteTypes DEF Destroy, OutputTypeOK
<1>6. CASE UNCHANGED outputVars
  BY <1>6 DEF OutputTypeOK, outputVars
<1> QED
  BY <1>1, <1>2, <1>3, <1>4, <1>5, <1>6
  DEF Next, GetFileSize, FetchFirstChunk, ParseGlobalHeader, TestLoop,
      ReadPacketHeader, ReadMoreInput, RefillNotNeeded, ReadPacketData,
      SkipPayload, Halted, vars

(* Every variable keeps its type.                                           *)
THEOREM TypeCorrect == Spec => []TypeOK
<1>1. Init => OutputTypeOK
  <2>1. <<>> \in Seq(Tokens)
    BY EmptySeq
  <2> QED
    BY <2>1 DEF Init, OutputTypeOK
<1>2. InputInv => IOTypeOK /\ InputTypeOK
  BY DEF InputInv
<1> QED
  BY <1>1, <1>2, OutputTypeStep, InputInvariant, PTL DEF Spec, TypeOK


-----------------------------------------------------------------------------
(* The run ends. *)

Unread == fileSize - currentOffset + chunkUnprocessedSize

(* The calls left from each point of the program.                           *)
LEMMA CallsLeftIs ==
  /\ CallsLeft("done") = 0 /\ CallsLeft("crashed") = 0 /\ CallsLeft("destroy") = 1
  /\ CallsLeft("header") = 2 /\ CallsLeft("loop") = 3
  /\ CallsLeft("flush") = 4 /\ CallsLeft("global") = 4
  /\ CallsLeft("payload") = 5 /\ CallsLeft("open") = 5
  /\ CallsLeft("data") = 6 /\ CallsLeft("fetch") = 6
  /\ CallsLeft("refill") = 7 /\ CallsLeft("stat") = 7
BY DEF CallsLeft

(* What was read and not consumed, and the rest of the file.                *)
LEMMA UnreadType ==
  /\ InputInv => Unread \in Nat
  /\ InputInv' => Unread' \in Nat
<1>1. ASSUME NEW size \in Nat, NEW at \in Nat, NEW unprocessed \in Nat, at <= size
      PROVE  size - at + unprocessed \in Nat
  BY <1>1
<1>2. InputInv => Unread \in Nat
  BY <1>1, Basics DEF InputInv, Control, Unread
<1>3. ASSUME InputInv' PROVE Unread' \in Nat
  <2>1. IOTypeOK' /\ InputTypeOK' /\ Control'
    BY <1>3 DEF InputInv
  <2>2. fileSize' \in Nat /\ currentOffset' \in Nat /\ chunkUnprocessedSize' \in Nat
        /\ currentOffset' <= fileSize'
    BY <2>1, FileSizesAssumption DEF IOTypeOK, InputTypeOK, Control
  <2>3. Unread' = fileSize' - currentOffset' + chunkUnprocessedSize'
    BY DEF Unread
  <2> QED
    BY <1>1, <2>2, <2>3
<1> QED
  BY <1>2, <1>3

(* Every step lowers the bound or changes nothing.                          *)
LEMMA StepsLeftStep ==
  ASSUME InputInv, InputInv', Next
  PROVE  StepsLeft' \in 0 .. StepsLeft - 1 \/ UNCHANGED vars
<1>0. /\ Unread \in Nat /\ Unread' \in Nat
      /\ fileSize \in Nat /\ currentOffset \in Nat /\ chunkUnprocessedSize \in Nat
  BY UnreadType, Basics
<1>1. ASSUME UNCHANGED <<ioVars, windowVars>>,
             NEW n \in 0 .. 7, NEW m \in 0 .. 7,
             CallsLeft(pc) = m, CallsLeft(pc') = n, n < m
      PROVE  StepsLeft' \in 0 .. StepsLeft - 1
  <2>1. fileSize' = fileSize /\ Unread' = Unread
    BY <1>1 DEF ioVars, windowVars, Unread
  <2> QED
    BY <1>0, <1>1, <2>1 DEF StepsLeft, Unread
<1>2. CASE GetFileSize
  BY <1>1, <1>2, CallsLeftIs DEF GetFileSize, ThrowFromConstructor
<1>3. CASE FetchFirstChunk
  <2>1. Unread' = Unread /\ fileSize' = fileSize
    <3>1. CASE FetchMapsChunk /\ chunkUnprocessedSize' = NextChunkSize
      <4>1. chunkUnprocessedSize = 0
        BY <1>3 DEF InputInv, Control, FetchFirstChunk
      <4>2. NextChunkSize \in Nat
        BY <3>1, NextChunkFacts, ChunkSizeAssumption DEF InputInv, FetchMapsChunk
      <4> QED
        BY <1>0, <3>1, <4>1, <4>2 DEF FetchMapsChunk, Unread
    <3>2. CASE (FetchReportsEnd \/ OpenFails \/ MapFails) /\ UNCHANGED windowVars
      BY <3>2 DEF FetchReportsEnd, OpenFails, MapFails, ioVars, windowVars, Unread
    <3> QED
      BY <1>3, <3>1, <3>2 DEF FetchFirstChunk
  <2>2. pc = "fetch" /\ pc' \in {"open", "done"}
    BY <1>3 DEF FetchFirstChunk, ThrowFromConstructor
  <2>3. CallsLeft(pc) = 6 /\ (CallsLeft(pc') = 5 \/ CallsLeft(pc') = 0)
    BY <2>2, CallsLeftIs
  <2> QED
    BY <1>0, <2>1, <2>3 DEF StepsLeft, Unread
<1>4. CASE OpenOutput
  BY <1>1, <1>4, CallsLeftIs DEF OpenOutput, ThrowFromConstructor
<1>5. CASE ParseGlobalHeader
  <2>1. Unread' <= Unread /\ fileSize' = fileSize
    <3>1. currentOffset' = currentOffset /\ fileSize' = fileSize
      BY <1>5 DEF ParseGlobalHeader, ioVars
    <3>2. chunkUnprocessedSize' = chunkUnprocessedSize
          \/ chunkUnprocessedSize' = chunkUnprocessedSize - GlobalHeaderSize
      BY <1>5 DEF ParseGlobalHeader, Advance, windowVars
    <3> QED
      BY <1>0, <3>1, <3>2, SizesAssumption DEF Unread
  <2>2. CallsLeft(pc) = 4 /\ CallsLeft(pc') = 3
    BY <1>5, CallsLeftIs DEF ParseGlobalHeader
  <2> QED
    BY <1>0, <2>1, <2>2 DEF StepsLeft, Unread
<1>6. CASE TestLoop
  BY <1>1, <1>6, CallsLeftIs DEF TestLoop
<1>7. CASE ReadPacketHeader
  <2>1. CASE Throw("header") /\ UNCHANGED windowVars
    BY <1>1, <1>7, <2>1, CallsLeftIs DEF ReadPacketHeader, Throw
  <2>2. CASE Advance(PacketHeaderSize) /\ pc' = "refill"
    <3>1. currentOffset' = currentOffset /\ fileSize' = fileSize
      BY <1>7 DEF ReadPacketHeader, ioVars
    <3>2. Unread' = Unread - PacketHeaderSize
      BY <1>0, <2>2, <3>1, SizesAssumption DEF Advance, Unread
    <3>3. CallsLeft(pc) = 2 /\ CallsLeft(pc') = 7
      BY <1>7, <2>2, CallsLeftIs DEF ReadPacketHeader
    <3> QED
      BY <1>0, <3>1, <3>2, <3>3, SizesAssumption DEF StepsLeft, Unread
  <2> QED
    BY <1>7, <2>1, <2>2 DEF ReadPacketHeader
<1>8. CASE ReadMoreInput
  <2>1. Unread' <= Unread /\ fileSize' = fileSize
    <3>1. CASE FetchMapsChunk
      <4>1. NextChunkSize \in Nat
        BY <3>1, NextChunkFacts, ChunkSizeAssumption DEF InputInv, FetchMapsChunk
      <4>2. chunkUnprocessedSize' = chunkUnprocessedSize
            \/ chunkUnprocessedSize' = chunkUnprocessedSize + NextChunkSize
        BY <1>8 DEF ReadMoreInput
      <4> QED
        BY <1>0, <3>1, <4>1, <4>2 DEF FetchMapsChunk, Unread
    <3>2. CASE (FetchReportsEnd \/ OpenFails \/ MapFails) /\ UNCHANGED chunkUnprocessedSize
      BY <3>2, <1>0 DEF FetchReportsEnd, OpenFails, MapFails, ioVars, Unread
    <3> QED
      BY <1>8, <3>1, <3>2 DEF ReadMoreInput
  <2>2. pc = "refill" /\ pc' \in {"destroy", "data"}
    BY <1>8 DEF ReadMoreInput, Throw
  <2>3. CallsLeft(pc) = 7 /\ (CallsLeft(pc') = 1 \/ CallsLeft(pc') = 6)
    BY <2>2, CallsLeftIs
  <2> QED
    BY <1>0, <2>1, <2>3 DEF StepsLeft, Unread
<1>9. CASE RefillNotNeeded
  BY <1>1, <1>9, CallsLeftIs DEF RefillNotNeeded
<1>10. CASE ReadPacketData
  <2>1. inclLen \in Nat
    BY Basics
  <2>2. Unread' <= Unread /\ fileSize' = fileSize
    <3>1. currentOffset' = currentOffset /\ fileSize' = fileSize
      BY <1>10 DEF ReadPacketData, ioVars
    <3>2. chunkUnprocessedSize' = chunkUnprocessedSize
          \/ chunkUnprocessedSize' = chunkUnprocessedSize - inclLen
      BY <1>10 DEF ReadPacketData, Advance, windowVars
    <3> QED
      BY <1>0, <2>1, <3>1, <3>2 DEF Unread
  <2>3. pc = "data" /\ pc' \in {"destroy", "payload"}
    BY <1>10 DEF ReadPacketData, Throw
  <2>4. CallsLeft(pc) = 6 /\ (CallsLeft(pc') = 1 \/ CallsLeft(pc') = 5)
    BY <2>3, CallsLeftIs
  <2> QED
    BY <1>0, <2>2, <2>4 DEF StepsLeft, Unread
<1>11. CASE SkipPayload
  BY <1>1, <1>11, CallsLeftIs DEF SkipPayload
<1>12. CASE ProcessPayload
  BY <1>1, <1>12, CallsLeftIs DEF ProcessPayload, Throw
<1>13. CASE Crash
  BY <1>1, <1>13, CallsLeftIs DEF Crash
<1>14. CASE FlushIfDue
  BY <1>1, <1>14, CallsLeftIs DEF FlushIfDue
<1>15. CASE Destroy
  BY <1>1, <1>15, CallsLeftIs DEF Destroy
<1>16. CASE Halted
  BY <1>16 DEF Halted
<1> QED
  BY <1>2, <1>3, <1>4, <1>5, <1>6, <1>7, <1>8, <1>9, <1>10, <1>11, <1>12, <1>13, <1>14,
     <1>15, <1>16 DEF Next

(* A run takes a bounded number of steps, for every file and every way calls *)
(* may fail: it ends, unless it is not continued.                          *)
THEOREM RunsDownAlways == Spec => RunsDown
<1>1. InputInv /\ InputInv' /\ [Next]_vars => [StepsLeft' \in 0 .. StepsLeft - 1]_vars
  BY StepsLeftStep
<1> QED
  BY <1>1, InputInvariant, PTL DEF Spec, RunsDown
===============================================================================
