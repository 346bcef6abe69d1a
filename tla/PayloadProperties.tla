--------------------------- MODULE PayloadProperties ---------------------------
(***************************************************************************)
(* What processPCAPPayload must guarantee.                                 *)
(***************************************************************************)
EXTENDS Payload

(* Every variable has its type; a size, being a size_t, has no sign.        *)
TypeOK ==
  /\ packet \in Packets
  /\ pc \in {"ethernet", "ipv4", "TCP", "UDP", "other", "decode",
             "returned", "thrown", "crashed"}
  /\ span = NoSpan \/ (span.from \in Nat /\ span.size \in 0 .. WordSize - 1)
  /\ exception \in {"none", "ethernet", "ipv4"}
  /\ output \in Seq({"packet", "comma"})

-----------------------------------------------------------------------------
(* The payload as the sender of an unfragmented packet placed it. *)

SendersPayload(p) ==
  [from |-> EthernetHeaderSize + 4 * p.headerWords + 4 * p.transportWords,
   size |-> p.data]

CapturedWhole(p) ==
  SendersPayload(p).from + SendersPayload(p).size <= p.captured

(* What SIMBA packets look like: UDP with an honest length, no IP options,  *)
(* no fragments.                                                            *)
PlainUdp(p) ==
  /\ p.protocol = "UDP" /\ p.transportWords = 2
  /\ p.headerWords = 5
  /\ ~p.laterFragment
  /\ p.declared = UDPHeaderSize + p.data

(* The decoder is given the payload of a plain UDP packet exactly: not the  *)
(* padding Ethernet adds behind a short one, and nothing less.              *)
UdpPayloadIsTheSenders ==
  span # NoSpan /\ PlainUdp(packet) /\ CapturedWhole(packet) =>
    span = SendersPayload(packet)

InPacket(s) == s.from + s.size <= packet.captured

(* The span leaves the packet only for a TCP packet shorter than the header *)
(* its address pretends, and for a UDP packet with options, fragmented, cut *)
(* by the capture, or whose length field is too small or too large.        *)
SpanLeavesPacketOnlyIf ==
  span # NoSpan /\ ~InPacket(span) =>
    \/ /\ packet.protocol = "TCP"
       /\ packet.captured < IPv4HeaderSize + 4 * packet.addressNibble
    \/ /\ packet.protocol = "UDP"
       /\ \/ packet.headerWords > 5
          \/ packet.laterFragment
          \/ packet.declared \notin UDPHeaderSize .. packet.captured - IPv4End

-----------------------------------------------------------------------------
(* In PCAPParser a call of processPCAPPayload is one step. *)

ParserPc ==
  CASE pc = "returned" -> "flush"
    [] pc = "thrown" -> "destroy"
    [] pc = "crashed" -> "crashed"
    [] OTHER -> "payload"

ParserOutput == IF pc = "returned" THEN output ELSE <<>>

Parser == INSTANCE PCAPParser
  WITH ChunkSize <- 1, FileSizes <- {0}, GlobalHeaderSize <- 1, PacketHeaderSize <- 1,
       InclLens <- Nat, FlushEvery <- 1,
       fileSize <- 0, currentOffset <- 0, fd <- "open", mapped <- {},
       chunkDataBuffer <- <<>>, chunkOffset <- [base |-> "buffer", index |-> 0],
       chunkUnprocessedSize <- 0, network <- 1, inclLen <- packet.captured,
       packetData <- <<>>, i <- 1, pc <- ParserPc, exception <- exception,
       outputOpen <- TRUE, outputFile <- <<>>, outputBad <- FALSE,
       jsonBuffer <- ParserOutput, rendered <- ParserOutput

(* Whatever the packet, processing it header by header has one of the       *)
(* effects the actions ProcessPayload and Crash of PCAPParser give it: the *)
(* exceptions for the same lengths, the same output, all or nothing.       *)
ImplementsProcessPayload ==
  [][Parser!ProcessPayload \/ Parser!Crash]_(Parser!vars)

-----------------------------------------------------------------------------
(* What the repository says of the program and the program does not do. *)

(* "Decodes Ethernet, IPv4, UDP, and TCP headers": the decoder is given the *)
(* payload of a TCP packet that was captured whole, and that of a UDP       *)
(* packet, whatever options their headers have.                            *)
PayloadIsTheSenders ==
  span # NoSpan /\ ~packet.laterFragment /\ CapturedWhole(packet) =>
    (packet.protocol = "TCP" \/ PlainUdp([packet EXCEPT !.headerWords = 5]) =>
       span = SendersPayload(packet))
===============================================================================
