------------------------------- MODULE IOMapper -------------------------------
(***************************************************************************)
(* The chunked input reader, src/IO_Mapper.hpp and src/IO_Mapper.cpp.      *)
(*                                                                         *)
(* An IOMapper remembers the size the file had when it was constructed and *)
(* hands the file out as consecutive memory-mapped chunks of ChunkSize     *)
(* bytes, the last one shorter.  Nothing ever unmaps a chunk: the RAII     *)
(* class MemoryMappedChunk is declared but no code constructs one, so      *)
(* `mapped' only grows.  The POSIX branch is modelled; the Windows branch  *)
(* differs in the system calls, not in the control flow.                   *)
(***************************************************************************)
EXTENDS Integers, FiniteSets

CONSTANTS
  ChunkSize,  \* bytes per chunk, 128 MiB unless the caller says otherwise
  FileSizes   \* the sizes the input file may have

ASSUME ChunkSizeAssumption == ChunkSize \in Nat \ {0}
ASSUME FileSizesAssumption == FileSizes \subseteq Nat

VARIABLES
  fileSize,       \* what stat reported when the object was constructed
  currentOffset,  \* where the next chunk starts
  fd,             \* "closed" stands for -1
  mapped          \* the live mappings, each [offset, size]

ioVars == <<fileSize, currentOffset, fd, mapped>>

Chunk == [offset : Nat, size : Nat]

IOTypeOK ==
  /\ fileSize \in FileSizes
  /\ currentOffset \in Nat
  /\ fd \in {"closed", "open"}
  /\ mapped \subseteq Chunk

IOInit ==
  /\ fileSize \in FileSizes
  /\ currentOffset = 0
  /\ fd = "closed"
  /\ mapped = {}

-----------------------------------------------------------------------------
(* fetchNextChunk has four outcomes: it reports the end of the file, hands  *)
(* out a chunk, or throws because open or mmap failed.                      *)

(* mutant: a last, short chunk is not handed out *)
ExhaustedBeforeShortChunk == currentOffset + ChunkSize > fileSize

Exhausted == currentOffset >= fileSize

(* mutant: one byte of every chunk is spared *)
NextChunkSizeOffByOne ==
  IF ChunkSize - 1 <= fileSize - currentOffset
  THEN ChunkSize - 1
  ELSE fileSize - currentOffset

(* mutant: the last chunk is as long as the others *)
WholeChunks == ChunkSize

(* std::min(chunkSize, remainingSize) *)
NextChunkSize ==
  IF ChunkSize <= fileSize - currentOffset
  THEN ChunkSize
  ELSE fileSize - currentOffset

FetchReportsEnd ==
  /\ Exhausted
  /\ UNCHANGED ioVars

(* mutant: the offset moves by a whole chunk, whatever was mapped *)
FetchAdvancesByChunkSize ==
  /\ ~Exhausted
  /\ fd' = "open"
  /\ mapped' = mapped \cup {[offset |-> currentOffset, size |-> NextChunkSize]}
  /\ currentOffset' = currentOffset + ChunkSize
  /\ UNCHANGED fileSize

FetchMapsChunk ==
  /\ ~Exhausted
  /\ fd' = "open"
  /\ mapped' = mapped \cup {[offset |-> currentOffset, size |-> NextChunkSize]}
  /\ currentOffset' = currentOffset + NextChunkSize
  /\ UNCHANGED fileSize

(* open failed: fd is -1 again, so that a later call tries once more. *)
OpenFails ==
  /\ ~Exhausted
  /\ fd = "closed"
  /\ UNCHANGED ioVars

(* mmap failed: the descriptor stays open and the offset has not moved. *)
MapFails ==
  /\ ~Exhausted
  /\ fd' = "open"
  /\ UNCHANGED <<fileSize, currentOffset, mapped>>

IONext ==
  \/ FetchReportsEnd
  \/ FetchMapsChunk
  \/ OpenFails
  \/ MapFails

IOSpec == IOInit /\ [][IONext]_ioVars

-----------------------------------------------------------------------------
(* The chunks handed out, failed calls and retries included, partition the  *)
(* prefix of the file before currentOffset: no byte is mapped twice and     *)
(* none is skipped (the offset moves only after mapFile returned).          *)
ChunksPartitionPrefix ==
  /\ \A b \in 0 .. currentOffset - 1 :
       \E c \in mapped : c.offset <= b /\ b < c.offset + c.size
  /\ \A c \in mapped : c.offset + c.size <= currentOffset
  /\ \A c, d \in mapped :
       c # d => c.offset + c.size <= d.offset \/ d.offset + d.size <= c.offset

(* mmap accepts only offsets that are multiples of the page size.  Every    *)
(* mapping starts at a multiple of ChunkSize (itself a multiple of the page *)
(* size) because only the last chunk of a file may be short.                *)
MappingsAligned == \A c \in mapped : c.offset % ChunkSize = 0
===============================================================================
