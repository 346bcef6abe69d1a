-------------------------------- MODULE Payload --------------------------------
(***************************************************************************)
(* PCAPParser::processPCAPPayload, src/PCAP_Parser.cpp, on one packet of an *)
(* Ethernet capture: the headers it looks at and where it believes the     *)
(* SIMBA payload to be, one action per header.                             *)
(*                                                                         *)
(* The packet is described by what its sender put into it and by how much  *)
(* of it was captured.  A field the code reads where the sender put that   *)
(* field has the sender's value; one it reads elsewhere, or beyond the     *)
(* captured bytes, can have any.                                           *)
(***************************************************************************)
EXTENDS Integers, Sequences

CONSTANTS
  WordSize,   \* size_t counts modulo this, 2^64
  MaxLength,  \* the largest UDPHeader::length, 65535
  Packets     \* the packets that may be captured

EthernetHeaderSize == 14  \* sizeof(EthernetHeader)
IPv4HeaderSize == 20      \* sizeof(IPv4Header)
UDPHeaderSize == 8        \* udpHeaderLength
UDPLengthEnd == 6         \* where UDPHeader::length ends

(* headerWords and transportWords are the lengths of the IP and transport   *)
(* headers in words of four bytes, addressNibble the upper half of the     *)
(* third byte of the destination address, declared the UDP length field.   *)
Packet ==
  [captured : Nat, ipv4 : BOOLEAN, headerWords : 5 .. 15, laterFragment : BOOLEAN,
   protocol : {"TCP", "UDP", "other"}, addressNibble : 0 .. 15,
   transportWords : 2 .. 15, data : Nat, declared : 0 .. MaxLength]

ASSUME WordSizeAssumption ==
  /\ MaxLength \in Nat
  /\ WordSize \in Nat /\ WordSize > MaxLength + 80
ASSUME PacketsAssumption ==
  /\ Packets \subseteq Packet
  /\ \A p \in Packets : p.captured < WordSize

VARIABLES
  packet,
  pc,
  span,       \* what the decoder is given, NoSpan so far
  exception,  \* what was thrown, "none" so far
  output      \* the tokens written to jsonBuffer

vars == <<packet, pc, span, exception, output>>

NoSpan == [from |-> -1, size |-> 0]

(* mutant: sizes are signed *)
Signed(n) == n

(* A difference of size_t wraps.                                            *)
Unsigned(n) == IF n >= 0 THEN n ELSE n + WordSize

IPv4End == EthernetHeaderSize + IPv4HeaderSize

-----------------------------------------------------------------------------
Init ==
  /\ packet \in Packets
  /\ pc = "ethernet"
  /\ span = NoSpan
  /\ exception = "none"
  /\ output = <<>>

(* mutant: a packet too short for the header is logged and parsed on *)
CarryOn(e) ==
  /\ exception' = e
  /\ pc' = "ipv4"
  /\ UNCHANGED <<packet, span, output>>

Throw(e) ==
  /\ exception' = e
  /\ pc' = "thrown"
  /\ UNCHANGED <<packet, span, output>>

(* Only IPv4 goes on; anything else returns before the separator.           *)
ParseEthernet ==
  /\ pc = "ethernet"
  /\ \/ packet.captured < EthernetHeaderSize /\ Throw("ethernet")
     \/ /\ packet.captured >= EthernetHeaderSize
        /\ pc' = IF packet.ipv4 THEN "ipv4" ELSE "returned"
        /\ UNCHANGED <<packet, span, exception, output>>

(* The header is taken to be IPv4HeaderSize bytes, options or not.          *)
ParseIPv4 ==
  /\ pc = "ipv4"
  /\ \/ packet.captured < IPv4End /\ Throw("ipv4")
     \/ /\ packet.captured >= IPv4End
        /\ pc' = packet.protocol
        /\ UNCHANGED <<packet, span, exception, output>>

(* The pointer forgets the Ethernet header, so that dataOffset is read from *)
(* the third byte of the destination address, and the length of the payload *)
(* is what is left of the packet behind that.                              *)
TcpPayload ==
  LET from == IPv4HeaderSize + 4 * packet.addressNibble
  IN  [from |-> from, size |-> Unsigned(packet.captured - from)]

LocateTcp ==
  /\ pc = "TCP"
  /\ span' = TcpPayload
  /\ pc' = "decode"
  /\ UNCHANGED <<packet, exception, output>>

(* UDPHeader::length as read IPv4End bytes into the packet.                 *)
LengthsRead ==
  IF /\ packet.headerWords = 5
     /\ ~packet.laterFragment
     /\ IPv4End + UDPLengthEnd <= packet.captured
  THEN {packet.declared}
  ELSE 0 .. MaxLength

(* mutants: the rest of the packet is taken; the UDP header is counted in *)
UdpRestOfPacket(length) ==
  [from |-> IPv4End + UDPHeaderSize,
   size |-> Unsigned(packet.captured - (IPv4End + UDPHeaderSize))]
UdpHeaderCounted(length) == [from |-> IPv4End + UDPHeaderSize, size |-> length]

UdpPayload(length) ==
  [from |-> IPv4End + UDPHeaderSize, size |-> Unsigned(length - UDPHeaderSize)]

LocateUdp ==
  /\ pc = "UDP"
  /\ \E length \in LengthsRead : span' = UdpPayload(length)
  /\ pc' = "decode"
  /\ UNCHANGED <<packet, exception, output>>

(* SIMBADecoder on the span, and its result rendered.                       *)
Decode ==
  /\ pc = "decode"
  /\ output' = Append(output, "packet")
  /\ pc' = "other"
  /\ UNCHANGED <<packet, span, exception>>

(* A span that leaves the packet, or the pointers of a SecurityDefinition,  *)
(* may end the process.                                                    *)
Crash ==
  /\ pc = "decode"
  /\ pc' = "crashed"
  /\ UNCHANGED <<packet, span, exception, output>>

(* jsonBuffer << ",\n", for every protocol.                                 *)
WriteSeparator ==
  /\ pc = "other"
  /\ output' = Append(output, "comma")
  /\ pc' = "returned"
  /\ UNCHANGED <<packet, span, exception>>

Finished ==
  /\ pc \in {"returned", "thrown", "crashed"}
  /\ UNCHANGED vars

Next ==
  \/ ParseEthernet
  \/ ParseIPv4
  \/ LocateTcp
  \/ LocateUdp
  \/ Decode
  \/ Crash
  \/ WriteSeparator
  \/ Finished

Spec == Init /\ [][Next]_vars
===============================================================================
