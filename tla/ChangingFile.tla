----------------------------- MODULE ChangingFile -----------------------------
(***************************************************************************)
(* PCAPParser over an input file that does not stay as it was when its size *)
(* was taken: other processes may shorten it, and when -o names the input  *)
(* file (src/main.cpp) opening the output truncates it.                    *)
(*                                                                         *)
(* A mapping is a view of the file: reading it beyond the page in which the *)
(* file now ends ends the process (SIGBUS), and reads zeros in the rest of *)
(* that page.  Bytes that were copied to the buffer are safe.  A file that *)
(* grows is not modelled: nothing looks beyond the size taken first.       *)
(***************************************************************************)
EXTENDS PCAPParserProperties

CONSTANT PageSize

ASSUME PageSizeAssumption ==
  /\ PageSize \in Nat \ {0}
  /\ ChunkSize % PageSize = 0

VARIABLES
  diskSize,    \* the size the file has now
  sameFile,    \* the output is the input
  fabricated,  \* history: the offsets at which zeros were read instead of the file
  signal       \* "SIGBUS" when that ended the process, else "none"

fileVars == <<diskSize, sameFile, fabricated, signal>>
allVars == <<vars, fileVars>>

-----------------------------------------------------------------------------
(* What the next call reads through a mapping. *)

(* The first n bytes of the window, if that is not yet in the buffer.       *)
WindowMapped(n) ==
  IF chunkOffset.base = "chunk" THEN chunkOffset.index .. chunkOffset.index + n - 1 ELSE {}

(* The headers and packet data the parser reads if the window has them, and *)
(* the leftover that readMoreInput moves first of all.                      *)
WindowRead ==
  LET wanted == CASE pc = "global" -> GlobalHeaderSize
                  [] pc = "header" -> PacketHeaderSize
                  [] pc = "data" -> inclLen
                  [] OTHER -> chunkUnprocessedSize + 1
  IN  IF wanted <= chunkUnprocessedSize THEN WindowMapped(wanted)
      ELSE IF pc = "refill" /\ chunkUnprocessedSize < inclLen
           THEN WindowMapped(chunkUnprocessedSize)
           ELSE {}

(* The chunk readMoreInput copies.                                          *)
ChunkRead == currentOffset .. currentOffset + NextChunkSize - 1

(* mutant: the chunk is read with a call whose short count is ignored *)
MissingBytesIgnored(bytes) == TRUE

(* A mapping can be read in the pages the file still has.                   *)
Readable(bytes) == \A b \in bytes : PageSize * (b \div PageSize) < diskSize

BeyondEnd(bytes) == {b \in bytes : b >= diskSize}

-----------------------------------------------------------------------------
ChangingInit ==
  /\ Init
  /\ diskSize = fileSize
  /\ sameFile \in BOOLEAN
  /\ fabricated = {}
  /\ signal = "none"

(* mutant: the output is opened for appending *)
SizeKept == diskSize

(* std::ios::out truncates.                                                 *)
SizeAfterOpening == IF sameFile THEN 0 ELSE diskSize

(* A step of the parser that finds the bytes it reads.  A header of zeros   *)
(* announces a packet of no bytes.                                         *)
ParserStep ==
  /\ Next
  /\ Readable(WindowRead)
  /\ LET copied == IF pc = "refill" /\ currentOffset' # currentOffset /\ pc' = "data"
                   THEN ChunkRead ELSE {}
     IN  /\ Readable(copied)
         /\ fabricated' = fabricated \cup BeyondEnd(WindowRead \cup copied)
  /\ pc = "header" /\ pc' = "refill"
       /\ {ByteAt(k) : k \in 0 .. PacketHeaderSize - 1} \subseteq fabricated'
     => inclLen' = 0
  /\ diskSize' = IF pc = "open" /\ pc' = "global" THEN SizeAfterOpening ELSE diskSize
  /\ UNCHANGED <<sameFile, signal>>

(* SIGBUS: the process dies with jsonBuffer and with what the ofstream had  *)
(* not yet passed to the system.                                           *)
Die ==
  /\ signal' = "SIGBUS"
  /\ pc' = "crashed"
  /\ \E n \in 0 .. Len(outputFile) : outputFile' = SubSeq(outputFile, 1, n)
  /\ UNCHANGED <<windowVars, outputOpen, outputBad, jsonBuffer, rendered,
                 network, inclLen, packetData, i, exception,
                 diskSize, sameFile, fabricated>>

FaultInWindow ==
  /\ ~Readable(WindowRead)
  /\ Die
  /\ UNCHANGED ioVars

FaultInChunk ==
  /\ pc = "refill" /\ chunkUnprocessedSize < inclLen
  /\ Readable(WindowRead)
  /\ FetchMapsChunk
  /\ ~BufferTooSmall
  /\ ~Readable(ChunkRead)
  /\ Die

(* Another process truncates the input.                                     *)
Shrink ==
  /\ pc \notin {"done", "crashed"}
  /\ diskSize' \in 0 .. diskSize - 1
  /\ UNCHANGED <<vars, sameFile, fabricated, signal>>

Run == ParserStep \/ FaultInWindow \/ FaultInChunk

ChangingNext == Run \/ Shrink

ChangingSpec == ChangingInit /\ [][ChangingNext]_allVars

(* The other processes owe nothing.                                         *)
FairChangingSpec == ChangingSpec /\ WF_allVars(Run)

-----------------------------------------------------------------------------
(* Every variable of this module has its type; zeros are read only where    *)
(* the file was cut off, never behind the size taken first.                *)
ChangingTypeOK ==
  /\ diskSize \in 0 .. fileSize
  /\ sameFile \in BOOLEAN
  /\ fabricated \subseteq diskSize .. fileSize - 1
  /\ signal \in {"none", "SIGBUS"}

(* The process dies on a mapping only if the file was shortened after its   *)
(* size was taken: no window and no chunk reaches beyond that size.        *)
FaultOnlyIfShrunk == signal = "SIGBUS" => diskSize < fileSize

(* A run whose output replaces its own input never succeeds, unless the     *)
(* input is empty: the first header already touches what was truncated, and *)
(* an input too short for one is refused.                                  *)
SameFileNeverSucceeds == sameFile /\ ExitSuccess => fileSize = 0

(* Nor does it write a single token over the capture it destroyed, but for  *)
(* the empty array after an input too short for a packet header.           *)
SameFileWritesNothing ==
  sameFile /\ fileSize > 0 /\ outputFile # <<>> =>
    exception = "header" /\ fileSize < PacketHeaderSize

(* A run that ends without a signal took zeros for the file at most in the  *)
(* page in which its reading stopped: bytes missing before that page end    *)
(* the process, because the file never gets its length back.               *)
FabricatedInLastPage ==
  signal = "none" =>
    \A b \in fabricated : b \div PageSize >= (Position - 1) \div PageSize
===============================================================================
