------------------------- MODULE PCAPParserProperties -------------------------
(***************************************************************************)
(* What class PCAPParser must guarantee: the properties TLC checks and the *)
(* theorems of PCAPParserProofs are about.                                 *)
(***************************************************************************)
EXTENDS PCAPParser, SequencesExt

Phases == {"stat", "fetch", "open", "global", "loop", "header", "refill", "data",
           "payload", "flush", "destroy", "done", "crashed"}

Exceptions == {"none", "stat", "bad_alloc", "map", "output", "header",
               "no_more_data", "buffer_too_small", "data", "ethernet", "ipv4"}

InputTypeOK ==
  /\ pc \in Phases
  /\ chunkDataBuffer \in [0 .. BufferSize - 1 -> Int]
  /\ chunkOffset \in [base : {"null", "chunk", "buffer"}, index : Nat]
  /\ chunkUnprocessedSize \in Nat
  /\ network \in LinkTypes \cup {0}
  /\ inclLen \in InclLens \cup {0}
  /\ i \in Nat \ {0}
  /\ exception \in Exceptions

OutputTypeOK ==
  /\ outputOpen \in BOOLEAN
  /\ outputFile \in Seq(Tokens)
  /\ outputBad \in BOOLEAN
  /\ jsonBuffer \in Seq(Tokens)
  /\ rendered \in Seq(Tokens)

(* Every variable has its type; packetData, whose domain varies, is left to *)
(* StreamSpec.                                                              *)
TypeOK == IOTypeOK /\ InputTypeOK /\ OutputTypeOK

-----------------------------------------------------------------------------
(* The input window. *)

(* The file offset of the next byte parse() will look at. *)
Position == IF chunkUnprocessedSize > 0 THEN ByteAt(0) ELSE currentOffset

(* The unprocessed window is, byte for byte, the part of the file just      *)
(* before the mapper's offset, wherever readMoreInput has moved it.  Only   *)
(* "buffer_too_small" breaks this: the chunk just fetched is dropped.       *)
WindowIsFile ==
  exception # "buffer_too_small" =>
    \A k \in 0 .. chunkUnprocessedSize - 1 :
      ByteAt(k) = currentOffset - chunkUnprocessedSize + k

(* The unprocessed window never reaches beyond the memory it lies in: the   *)
(* first mapped chunk, or the buffer of 1.2 chunks that readMoreInput fills *)
(* with a leftover of any size followed by a chunk.                         *)
WindowInBounds ==
  /\ chunkOffset.base = "null" => chunkUnprocessedSize = 0
  /\ chunkOffset.base = "chunk" =>
       \E c \in mapped : /\ c.offset = 0
                         /\ chunkOffset.index + chunkUnprocessedSize <= c.size
  /\ chunkOffset.base = "buffer" =>
       chunkOffset.index + chunkUnprocessedSize <= BufferSize

(* A packet no longer than a chunk is refused for lack of data only if the  *)
(* file really ends inside it: readMoreInput fetches only once per packet,  *)
(* and once is enough.                                                      *)
RefusedOnlyIfTruncated ==
  exception \in {"no_more_data", "data"} /\ inclLen <= ChunkSize =>
    Position + inclLen > fileSize

(* The buffer's 20 % of slack suffice for every packet of at most a fifth   *)
(* of a chunk: the leftover is shorter than the packet it belongs to.       *)
TooSmallOnlyForHugePackets ==
  exception = "buffer_too_small" => 5 * inclLen > ChunkSize

(* The parser walks the file once, front to back, and each packet it hands  *)
(* to processPCAPPayload is the run of bytes after its header in the file,  *)
(* however the chunks cut it: PCAPParser implements PcapStream.             *)
Phase ==
  CASE pc \in {"stat", "fetch", "open", "global"} -> "start"
    [] pc \in {"loop", "header", "payload", "flush"} -> "header"
    [] pc \in {"refill", "data"} -> "data"
    [] pc \in {"destroy", "done", "crashed"} -> "end"

Stream == INSTANCE PcapStream
  WITH FileHeaderSize <- GlobalHeaderSize, Lengths <- InclLens,
       size <- fileSize, position <- Position, phase <- Phase,
       length <- inclLen, packet <- packetData

StreamSpec == Stream!StreamSpec

(* parse() ends on every input, empty packets included: each round of its   *)
(* loop consumes at least a packet header or throws.                        *)
Termination == <>(pc \in {"done", "crashed"})

(* A bound on the steps still to come: the calls left in this round of the   *)
(* loop, and those of a whole round for each byte of the file not consumed. *)
CallsLeft(phase) ==
  CASE phase \in {"done", "crashed"} -> 0
    [] phase = "destroy" -> 1
    [] phase = "header" -> 2
    [] phase = "loop" -> 3
    [] phase \in {"flush", "global"} -> 4
    [] phase \in {"payload", "open"} -> 5
    [] phase \in {"data", "fetch"} -> 6
    [] phase \in {"refill", "stat"} -> 7

StepsLeft == 6 * (fileSize - currentOffset + chunkUnprocessedSize) + CallsLeft(pc)

(* Every step brings the run nearer to its end: another round costs at least *)
(* the bytes of a packet header, a refill gives the window no byte twice,   *)
(* and an exception leaves parse() for good.                                *)
RunsDown == [][StepsLeft' \in 0 .. StepsLeft - 1]_vars

-----------------------------------------------------------------------------
(* The output file. *)

(* main returns EXIT_SUCCESS. *)
ExitSuccess == pc = "done" /\ exception = "none"

(* The file holds a prefix of what was rendered, at every moment, after a   *)
(* crash, and when writes fail half way: flushing neither repeats, drops    *)
(* nor reorders output.                                                     *)
OutputIsPrefix == IsPrefix(outputFile, rendered \o <<"end">>)

(* Unless a write failed, a finished run leaves everything it rendered in   *)
(* the file with the array closed, also when an exception ended parse().    *)
NothingLostOnExit ==
  pc = "done" /\ outputOpen /\ ~outputBad => outputFile = rendered \o <<"end">>

(* jsonBuffer holds the output of the packets since the last flush and of   *)
(* no other: never more than FlushEvery of them.                            *)
PendingIsBounded ==
  Cardinality({k \in DOMAIN jsonBuffer : jsonBuffer[k] = "comma"})
    <= ((i - 1) % FlushEvery) + (IF pc = "flush" THEN 1 ELSE 0)

(* The output file, which opening truncates, is opened only once the input  *)
(* has been mapped (or found empty): an unreadable input costs no output.   *)
OutputOpenedAfterInput == outputOpen => mapped # {} \/ fileSize = 0

(* The output file is written in whole batches, each everything rendered so *)
(* far; it is closed once and complete, also by the destructor that runs    *)
(* after an exception, and neither a failed write nor a crash lets anything *)
(* but a beginning of the output stay in it: PCAPParser implements          *)
(* OutputLog.                                                               *)
Status ==
  CASE ~outputOpen -> "unopened"
    [] outputOpen /\ pc = "crashed" -> "lost"
    [] outputOpen /\ pc # "crashed" /\ outputBad -> "failed"
    [] outputOpen /\ pc = "done" /\ ~outputBad -> "closed"
    [] OTHER -> "open"

Log == INSTANCE OutputLog
  WITH Items <- Tokens, Opening <- "begin", Closing <- "end",
       log <- rendered, stored <- outputFile, status <- Status

LogSpec == Log!LogSpec

-----------------------------------------------------------------------------
(* What the repository says of the program and the program does not do. *)

(* "Read and parse packets until the end of the file": a run that ends      *)
(* normally has consumed the whole file, and one that ends for lack of a   *)
(* packet header was inside the last one.                                  *)
ParsesUntilEndOfFile ==
  /\ ExitSuccess => Position = fileSize
  /\ exception = "header" => Position + PacketHeaderSize > fileSize

(* "Outputs packet data in JSON format": a run that succeeds, and whose     *)
(* writes did, leaves a JSON array.                                         *)
IsJsonArray(tokens) ==
  /\ Len(tokens) >= 2
  /\ Head(tokens) = "begin" /\ Last(tokens) = "end"
  /\ \A k \in 2 .. Len(tokens) - 1 :
       tokens[k] = IF k % 2 = 0 THEN "packet" ELSE "comma"
  /\ Len(tokens) = 2 \/ tokens[Len(tokens) - 1] = "packet"

OutputIsJson == ExitSuccess /\ ~outputBad => IsJsonArray(outputFile)
===============================================================================
