------------------------------ MODULE PCAPParser ------------------------------
(***************************************************************************)
(* class PCAPParser, src/PCAP_Parser.hpp and src/PCAP_Parser.cpp, run once *)
(* by main: the constructor, parse() with the functions it calls, and the  *)
(* destructor, one action per call.  pc names the call to be made next.    *)
(*                                                                         *)
(* Bytes are identified with their offset in the input file, so that what  *)
(* memmove and memcpy do to the buffer is visible.  Header contents are    *)
(* chosen when they are read: each byte of the file is read at most once.  *)
(* Rendered output is a sequence of tokens.                                *)
(***************************************************************************)
EXTENDS IOMapper, Sequences

CONSTANTS
  GlobalHeaderSize,    \* sizeof(PCAPGlobalHeader), 24
  PacketHeaderSize,    \* sizeof(PCAPPacketHeader), 16
  EthernetHeaderSize,  \* sizeof(EthernetHeader), 14
  IPv4HeaderSize,      \* sizeof(IPv4Header), 20
  InclLens,            \* the values a packet header's incl_len may have
  FlushEvery           \* packets between two flushes of jsonBuffer, 50000

ASSUME SizesAssumption ==
  /\ GlobalHeaderSize \in Nat \ {0}
  /\ PacketHeaderSize \in Nat \ {0}
  /\ EthernetHeaderSize \in Nat
  /\ IPv4HeaderSize \in Nat
  /\ GlobalHeaderSize <= ChunkSize
ASSUME InclLensAssumption == InclLens \subseteq Nat
ASSUME FlushEveryAssumption == FlushEvery \in Nat \ {0}

VARIABLES
  pc,
  chunkDataBuffer,      \* the buffer: the file offset of the byte in each cell
  chunkOffset,          \* the pointer: [base, index]
  chunkUnprocessedSize,
  network,              \* globalHeader.network, 0 until a header was read
  inclLen,              \* packetHeader.incl_len
  packetData,           \* the file offset of each byte of the packet
  i,                    \* the number of the packet being parsed
  exception,            \* what was thrown, "none" so far
  outputOpen, outputFile, outputBad,  \* the ofstream: open, contents, badbit
  jsonBuffer,
  rendered              \* history: everything ever written to jsonBuffer

windowVars == <<chunkDataBuffer, chunkOffset, chunkUnprocessedSize>>
outputVars == <<outputOpen, outputFile, outputBad, jsonBuffer, rendered>>
vars == <<ioVars, windowVars, outputVars,
          pc, network, inclLen, packetData, i, exception>>

Unset == -1  \* a byte of the buffer nothing was copied to

(* static_cast<size_t>(chunkSize * EXTRA_BUFFER_SPACE), the factor being 1.2 *)
BufferSize == (6 * ChunkSize) \div 5

Ethernet == 1
LinkTypes == {Ethernet, 105}  \* 105 for every type parsePCAPPacket ignores

(* "[", the rendering of a packet, the separator and "]" *)
Tokens == {"begin", "packet", "comma", "end"}

-----------------------------------------------------------------------------
(* The input window: chunkOffset points into the first mapped chunk, which *)
(* starts at offset 0 of the file, or into the buffer.                     *)

ByteAt(k) ==
  IF chunkOffset.base = "buffer"
  THEN chunkDataBuffer[chunkOffset.index + k]
  ELSE chunkOffset.index + k

(* mutant: the pointer moves and the size does not *)
AdvancePointerOnly(n) ==
  /\ chunkOffset' = [chunkOffset EXCEPT !.index = @ + n]
  /\ UNCHANGED <<chunkDataBuffer, chunkUnprocessedSize>>

(* chunkOffset += n; chunkUnprocessedSize -= n *)
Advance(n) ==
  /\ chunkOffset' = [chunkOffset EXCEPT !.index = @ + n]
  /\ chunkUnprocessedSize' = chunkUnprocessedSize - n
  /\ UNCHANGED chunkDataBuffer

(* mutant: the leftover is not moved *)
LeftoverNotMoved == chunkDataBuffer

(* memmove of the leftover to the front of the buffer *)
LeftoverMoved ==
  [k \in 0 .. BufferSize - 1 |->
     IF k < chunkUnprocessedSize THEN ByteAt(k) ELSE chunkDataBuffer[k]]

(* mutants: no capacity check; a check without the slack *)
BufferNeverTooSmall == FALSE
LargerThanChunk == chunkUnprocessedSize + NextChunkSize > ChunkSize

(* chunkUnprocessedSize + newSize > chunkSize * EXTRA_BUFFER_SPACE *)
BufferTooSmall == 5 * (chunkUnprocessedSize + NextChunkSize) > 6 * ChunkSize

(* mutant: the chunk overwrites the leftover *)
ChunkCopiedToFront(buffer, from, n) ==
  [k \in 0 .. BufferSize - 1 |-> IF k < n THEN from + k ELSE buffer[k]]

(* memcpy of the n bytes of the file at offset `from' behind the leftover *)
ChunkCopied(buffer, from, n) ==
  [k \in 0 .. BufferSize - 1 |->
     IF chunkUnprocessedSize <= k /\ k < chunkUnprocessedSize + n
     THEN from + (k - chunkUnprocessedSize)
     ELSE buffer[k]]

-----------------------------------------------------------------------------
(* The output stream. *)

Emit(tokens) ==
  /\ jsonBuffer' = jsonBuffer \o tokens
  /\ rendered' = rendered \o tokens

(* outputFile << tokens.  No caller looks at the stream's state.  A write   *)
(* that fails sets badbit, and may have stored part of what the stream was *)
(* given so far (the ofstream buffers); from then on writes do nothing.    *)
Write(tokens) ==
  LET all == outputFile \o tokens
  IN  \/ /\ outputBad
         /\ UNCHANGED <<outputFile, outputBad>>
      \/ /\ ~outputBad
         /\ outputFile' = all
         /\ UNCHANGED outputBad
      \/ /\ ~outputBad
         /\ \E n \in 0 .. Len(all) : outputFile' = SubSeq(all, 1, n)
         /\ outputBad' = TRUE

-----------------------------------------------------------------------------
Init ==
  /\ IOInit
  /\ pc = "stat"
  /\ chunkDataBuffer = [k \in 0 .. BufferSize - 1 |-> Unset]
  /\ chunkOffset = [base |-> "null", index |-> 0]
  /\ chunkUnprocessedSize = 0
  /\ network = 0
  /\ inclLen = 0
  /\ packetData = [k \in 0 .. -1 |-> k]
  /\ i = 1
  /\ exception = "none"
  /\ outputOpen = FALSE
  /\ outputFile = <<>>
  /\ outputBad = FALSE
  /\ jsonBuffer = <<>>
  /\ rendered = <<>>

(* mutant: the constructor logs the failure and carries on *)
CarryOnToOutput(e) ==
  /\ exception' = e
  /\ pc' = "open"

(* An exception thrown by the constructor: there is no object to destroy. *)
ThrowFromConstructor(e) ==
  /\ exception' = e
  /\ pc' = "done"

(* mutant: parse() logs the failure and goes on with the next packet *)
CarryOnWithNextPacket(e) ==
  /\ exception' = e
  /\ pc' = "loop"

(* An exception thrown under parse(): main's try block destroys the parser. *)
Throw(e) ==
  /\ exception' = e
  /\ pc' = "destroy"

(* The IOMapper member is constructed first (getFileSize), then the buffer  *)
(* is allocated.                                                           *)
GetFileSize ==
  /\ pc = "stat"
  /\ \/ pc' = "fetch" /\ UNCHANGED exception
     \/ \E e \in {"stat", "bad_alloc"} : ThrowFromConstructor(e)
  /\ UNCHANGED <<ioVars, windowVars, outputVars, network, inclLen, packetData, i>>

(* The constructor ignores fetchNextChunk's result: an empty file leaves    *)
(* the pointer null and the window empty.                                  *)
FetchFirstChunk ==
  /\ pc = "fetch"
  /\ \/ /\ FetchReportsEnd
        /\ pc' = "open"
        /\ UNCHANGED <<windowVars, exception>>
     \/ /\ FetchMapsChunk
        /\ chunkOffset' = [base |-> "chunk", index |-> 0]
        /\ chunkUnprocessedSize' = NextChunkSize
        /\ pc' = "open"
        /\ UNCHANGED <<chunkDataBuffer, exception>>
     \/ /\ OpenFails \/ MapFails
        /\ ThrowFromConstructor("map")
        /\ UNCHANGED windowVars
  /\ UNCHANGED <<outputVars, network, inclLen, packetData, i>>

OpenOutput ==
  /\ pc = "open"
  /\ \/ /\ outputOpen' = TRUE
        /\ Emit(<<"begin">>)
        /\ pc' = "global"
        /\ UNCHANGED exception
     \/ /\ ThrowFromConstructor("output")
        /\ UNCHANGED <<outputOpen, jsonBuffer, rendered>>
  /\ UNCHANGED <<ioVars, windowVars, outputFile, outputBad,
                 network, inclLen, packetData, i>>

(* A window too short for the header is reported on stderr and left alone. *)
ParseGlobalHeader ==
  /\ pc = "global"
  /\ pc' = "loop"
  /\ \/ /\ chunkUnprocessedSize < GlobalHeaderSize
        /\ UNCHANGED <<windowVars, network>>
     \/ /\ chunkUnprocessedSize >= GlobalHeaderSize
        /\ network' \in LinkTypes
        /\ Advance(GlobalHeaderSize)
  /\ UNCHANGED <<ioVars, outputVars, inclLen, packetData, i, exception>>

(* while (chunkUnprocessedSize > 0) *)
TestLoop ==
  /\ pc = "loop"
  /\ pc' = IF chunkUnprocessedSize > 0 THEN "header" ELSE "destroy"
  /\ UNCHANGED <<ioVars, windowVars, outputVars,
                 network, inclLen, packetData, i, exception>>

(* parseGenericHeader<PCAPPacketHeader> looks at the window only. *)
ReadPacketHeader ==
  /\ pc = "header"
  /\ \/ /\ chunkUnprocessedSize < PacketHeaderSize
        /\ Throw("header")
        /\ UNCHANGED <<windowVars, inclLen>>
     \/ /\ chunkUnprocessedSize >= PacketHeaderSize
        /\ inclLen' \in InclLens
        /\ Advance(PacketHeaderSize)
        /\ pc' = "refill"
        /\ UNCHANGED exception
  /\ UNCHANGED <<ioVars, outputVars, network, packetData, i>>

(* readMoreInput, called at most once per packet.  The leftover is moved to *)
(* the front of the buffer before the fetch and before the capacity check, *)
(* so both ways to fail leave it there.                                    *)
ReadMoreInput ==
  /\ pc = "refill"
  /\ chunkUnprocessedSize < inclLen
  /\ chunkOffset' = [base |-> "buffer", index |-> 0]
  /\ \/ /\ FetchReportsEnd
        /\ Throw("no_more_data")
        /\ chunkDataBuffer' = LeftoverMoved
        /\ UNCHANGED chunkUnprocessedSize
     \/ /\ OpenFails \/ MapFails
        /\ Throw("map")
        /\ chunkDataBuffer' = LeftoverMoved
        /\ UNCHANGED chunkUnprocessedSize
     \/ /\ FetchMapsChunk
        /\ BufferTooSmall
        /\ Throw("buffer_too_small")
        /\ chunkDataBuffer' = LeftoverMoved
        /\ UNCHANGED chunkUnprocessedSize
     \/ /\ FetchMapsChunk
        /\ ~BufferTooSmall
        /\ chunkDataBuffer' = ChunkCopied(LeftoverMoved, currentOffset, NextChunkSize)
        /\ chunkUnprocessedSize' = chunkUnprocessedSize + NextChunkSize
        /\ pc' = "data"
        /\ UNCHANGED exception
  /\ UNCHANGED <<outputVars, network, inclLen, packetData, i>>

RefillNotNeeded ==
  /\ pc = "refill"
  /\ chunkUnprocessedSize >= inclLen
  /\ pc' = "data"
  /\ UNCHANGED <<ioVars, windowVars, outputVars,
                 network, inclLen, packetData, i, exception>>

(* mutant: the size of the window is not checked after the refill *)
ReadPacketDataUnchecked ==
  /\ pc = "data"
  /\ packetData' = [k \in 0 .. inclLen - 1 |-> ByteAt(k)]
  /\ Advance(inclLen)
  /\ pc' = "payload"
  /\ UNCHANGED <<ioVars, outputVars, network, inclLen, i, exception>>

ReadPacketData ==
  /\ pc = "data"
  /\ \/ /\ chunkUnprocessedSize < inclLen
        /\ Throw("data")
        /\ UNCHANGED <<windowVars, packetData>>
     \/ /\ chunkUnprocessedSize >= inclLen
        /\ packetData' = [k \in 0 .. inclLen - 1 |-> ByteAt(k)]
        /\ Advance(inclLen)
        /\ pc' = "payload"
        /\ UNCHANGED exception
  /\ UNCHANGED <<ioVars, outputVars, network, inclLen, i>>

(* The link type selects processPCAPPayload or nothing at all. *)
SkipPayload ==
  /\ pc = "payload"
  /\ network # Ethernet
  /\ pc' = "flush"
  /\ UNCHANGED <<ioVars, windowVars, outputVars,
                 network, inclLen, packetData, i, exception>>

(* processPCAPPayload: too short for Ethernet; not IPv4, which returns      *)
(* before the separator is written; too short for IPv4; TCP or UDP, decoded *)
(* and rendered; any other protocol, for which only the separator is       *)
(* written.                                                                *)
ProcessPayload ==
  /\ pc = "payload"
  /\ network = Ethernet
  /\ \/ /\ inclLen < EthernetHeaderSize
        /\ Throw("ethernet")
        /\ UNCHANGED outputVars
     \/ /\ inclLen >= EthernetHeaderSize
        /\ pc' = "flush"
        /\ UNCHANGED <<outputVars, exception>>
     \/ /\ inclLen >= EthernetHeaderSize
        /\ inclLen < EthernetHeaderSize + IPv4HeaderSize
        /\ Throw("ipv4")
        /\ UNCHANGED outputVars
     \/ /\ inclLen >= EthernetHeaderSize + IPv4HeaderSize
        /\ Emit(<<"packet", "comma">>) \/ Emit(<<"comma">>)
        /\ pc' = "flush"
        /\ UNCHANGED <<outputOpen, outputFile, outputBad, exception>>
  /\ UNCHANGED <<ioVars, windowVars, network, inclLen, packetData, i>>

(* The payload handed to the decoder is a span computed from length fields  *)
(* of the packet.  When it leaves the packet, decoding it is undefined, and *)
(* so is rendering a SecurityDefinition, whose strings are pointers copied *)
(* from the packet: either yields some output (ProcessPayload) or ends the *)
(* process, and with it jsonBuffer and what the ofstream had not yet       *)
(* passed to the system.                                                   *)
Crash ==
  /\ pc = "payload"
  /\ network = Ethernet
  /\ inclLen >= EthernetHeaderSize + IPv4HeaderSize
  /\ \E n \in 0 .. Len(outputFile) : outputFile' = SubSeq(outputFile, 1, n)
  /\ pc' = "crashed"
  /\ UNCHANGED <<ioVars, windowVars, outputOpen, outputBad, jsonBuffer, rendered,
                 network, inclLen, packetData, i, exception>>

(* mutant: flushes come one packet early *)
FlushDueEarly == (i + 1) % FlushEvery = 0

FlushDue == i % FlushEvery = 0

(* mutant: the buffer is not cleared *)
FlushWithoutClearing == Write(jsonBuffer) /\ UNCHANGED jsonBuffer

Flush == Write(jsonBuffer) /\ jsonBuffer' = <<>>

(* if (i % 50000 == 0) flush; i++ *)
FlushIfDue ==
  /\ pc = "flush"
  /\ \/ FlushDue /\ Flush
     \/ /\ ~FlushDue
        /\ UNCHANGED <<outputFile, outputBad, jsonBuffer>>
  /\ i' = i + 1
  /\ pc' = "loop"
  /\ UNCHANGED <<ioVars, windowVars, outputOpen, rendered,
                 network, inclLen, packetData, exception>>

(* mutant: what the last flush left is not written *)
OnlyTheBracket == <<"end">>

Remainder == jsonBuffer \o <<"end">>

(* ~PCAPParser writes the rest and closes the array and the file. *)
Destroy ==
  /\ pc = "destroy"
  /\ Write(Remainder)
  /\ pc' = "done"
  /\ UNCHANGED <<ioVars, windowVars, outputOpen, jsonBuffer, rendered,
                 network, inclLen, packetData, i, exception>>

Halted ==
  /\ pc \in {"done", "crashed"}
  /\ UNCHANGED vars

Next ==
  \/ GetFileSize
  \/ FetchFirstChunk
  \/ OpenOutput
  \/ ParseGlobalHeader
  \/ TestLoop
  \/ ReadPacketHeader
  \/ ReadMoreInput
  \/ RefillNotNeeded
  \/ ReadPacketData
  \/ SkipPayload
  \/ ProcessPayload
  \/ Crash
  \/ FlushIfDue
  \/ Destroy
  \/ Halted

Spec == Init /\ [][Next]_vars

(* One thread runs the program and never waits for another. *)
FairSpec == Spec /\ WF_vars(Next)
===============================================================================
