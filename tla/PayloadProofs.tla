----------------------------- MODULE PayloadProofs -----------------------------
(***************************************************************************)
(* Proofs about processPCAPPayload, for every packet.                      *)
(***************************************************************************)
EXTENDS PayloadProperties, SequenceTheorems, TLAPS

USE DEF EthernetHeaderSize, IPv4HeaderSize, UDPHeaderSize, UDPLengthEnd, IPv4End

(* A span was computed from the packet by one of the two branches.          *)
Located ==
  span # NoSpan =>
    \/ packet.protocol = "TCP" /\ span = TcpPayload
    \/ /\ packet.protocol = "UDP"
       /\ \E length \in LengthsRead : span = UdpPayload(length)

(* What each program point knows.                                           *)
Reached ==
  /\ pc \in {"TCP", "UDP"} => packet.protocol = pc
  /\ pc \in {"TCP", "UDP", "other", "decode"} => packet.captured >= IPv4End
  /\ pc = "ipv4" => packet.captured >= EthernetHeaderSize
  /\ pc # "thrown" => exception = "none"
  /\ pc \notin {"other", "returned"} => output = <<>>
  /\ pc = "other" => output \in {<<>>, <<"packet">>}

IInv == TypeOK /\ Located /\ Reached

(* Sizes the code computes are sizes.                                       *)
LEMMA SpansTyped ==
  ASSUME packet \in Packets
  PROVE  /\ TcpPayload.from \in Nat /\ TcpPayload.size \in 0 .. WordSize - 1
         /\ LengthsRead \subseteq 0 .. MaxLength
         /\ \A length \in 0 .. MaxLength :
              /\ UdpPayload(length).from \in Nat
              /\ UdpPayload(length).size \in 0 .. WordSize - 1
<1>1. packet \in Packet /\ packet.captured < WordSize
  BY PacketsAssumption
<1>2. /\ packet.captured \in Nat /\ packet.addressNibble \in 0 .. 15
      /\ packet.declared \in 0 .. MaxLength
  BY <1>1 DEF Packet
<1>3. TcpPayload.from \in Nat /\ TcpPayload.size \in 0 .. WordSize - 1
  BY <1>1, <1>2, WordSizeAssumption DEF TcpPayload, Unsigned
<1>4. LengthsRead \subseteq 0 .. MaxLength
  BY <1>2 DEF LengthsRead
<1>5. ASSUME NEW length \in 0 .. MaxLength
      PROVE  /\ UdpPayload(length).from \in Nat
             /\ UdpPayload(length).size \in 0 .. WordSize - 1
  BY WordSizeAssumption DEF UdpPayload, Unsigned
<1>6. QED  BY <1>3, <1>4, <1>5

(* The invariant holds when processPCAPPayload is called.                   *)
LEMMA Initially == Init => IInv
BY DEF Init, IInv, TypeOK, Located, Reached, NoSpan

(* Each header the payload is looked for in keeps the invariant.            *)
LEMMA Inductive == IInv /\ [Next]_vars => IInv'
<1> SUFFICES ASSUME IInv, [Next]_vars PROVE IInv'
  OBVIOUS
<1> USE DEF IInv
<1>1. /\ TcpPayload.from \in Nat /\ TcpPayload.size \in 0 .. WordSize - 1
      /\ \A length \in LengthsRead :
           /\ UdpPayload(length).from \in Nat
           /\ UdpPayload(length).size \in 0 .. WordSize - 1
  BY SpansTyped DEF TypeOK
<1>2. packet.protocol \in {"TCP", "UDP", "other"} /\ packet.captured \in Nat
  BY PacketsAssumption DEF TypeOK, Packet
<1>3. packet' = packet
  BY DEF Next, ParseEthernet, ParseIPv4, LocateTcp, LocateUdp, Decode, Crash,
         WriteSeparator, Finished, Throw, vars
<1>4. TcpPayload' = TcpPayload /\ LengthsRead' = LengthsRead
  BY <1>3 DEF TcpPayload, LengthsRead, Unsigned
<1>5. CASE ParseEthernet
  BY <1>2, <1>3, <1>4, <1>5
  DEF ParseEthernet, Throw, TypeOK, Located, Reached, UdpPayload
<1>6. CASE ParseIPv4
  BY <1>2, <1>3, <1>4, <1>6
  DEF ParseIPv4, Throw, TypeOK, Located, Reached, UdpPayload
<1>7. CASE LocateTcp
  BY <1>1, <1>3, <1>4, <1>7 DEF LocateTcp, TypeOK, Located, Reached
<1>8. CASE LocateUdp
  <2>1. PICK length \in LengthsRead : span' = UdpPayload(length)
    BY <1>8 DEF LocateUdp
  <2>2. TypeOK'
    BY <1>1, <1>3, <1>8, <2>1 DEF LocateUdp, TypeOK
  <2>3. Located'
    <3>1. packet'.protocol = "UDP"
      BY <1>3, <1>8 DEF LocateUdp, Reached
    <3>2. \E l \in LengthsRead' : span' = UdpPayload(l)'
      BY <1>4, <2>1 DEF UdpPayload, Unsigned
    <3>3. QED  BY <3>1, <3>2 DEF Located
  <2>4. Reached'
    BY <1>3, <1>8 DEF LocateUdp, Reached
  <2>5. QED  BY <2>2, <2>3, <2>4
<1>9. CASE Decode
  BY <1>3, <1>4, <1>9 DEF Decode, TypeOK, Located, Reached, UdpPayload
<1>10. CASE Crash
  BY <1>3, <1>4, <1>10 DEF Crash, TypeOK, Located, Reached, UdpPayload
<1>11. CASE WriteSeparator
  BY <1>3, <1>4, <1>11 DEF WriteSeparator, TypeOK, Located, Reached, UdpPayload
<1>12. CASE UNCHANGED vars
  BY <1>3, <1>4, <1>12 DEF vars, TypeOK, Located, Reached, UdpPayload
<1>13. QED
  BY <1>5, <1>6, <1>7, <1>8, <1>9, <1>10, <1>11, <1>12 DEF Next, Finished

(* processPCAPPayload keeps the invariant for every packet.                 *)
LEMMA Invariant == Spec => []IInv
<1>1. Init => IInv  BY Initially
<1>2. IInv /\ [Next]_vars => IInv'  BY Inductive
<1>3. QED  BY <1>1, <1>2, PTL DEF Spec

(* Every variable of Payload has its type: no size is negative or exceeds a *)
(* size_t.                                                                  *)
THEOREM TypeCorrect == Spec => []TypeOK
<1>1. IInv => TypeOK  BY DEF IInv
<1>2. QED  BY <1>1, Invariant, PTL

(* The decoder is given the payload of every plain UDP packet exactly.      *)
THEOREM UdpPayloadLocated == Spec => []UdpPayloadIsTheSenders
<1>1. IInv => UdpPayloadIsTheSenders
  <2> SUFFICES ASSUME IInv, span # NoSpan, PlainUdp(packet), CapturedWhole(packet)
               PROVE  span = SendersPayload(packet)
    BY DEF UdpPayloadIsTheSenders
  <2>1. packet.data \in Nat /\ packet.captured \in Nat
    BY PacketsAssumption DEF IInv, TypeOK, Packet
  <2>2. LengthsRead = {8 + packet.data}
    BY <2>1 DEF LengthsRead, PlainUdp, CapturedWhole, SendersPayload
  <2>3. span = UdpPayload(8 + packet.data)
    BY <2>2 DEF IInv, Located, PlainUdp
  <2>4. QED
    BY <2>1, <2>3 DEF UdpPayload, Unsigned, SendersPayload, PlainUdp
<1>2. QED  BY <1>1, Invariant, PTL

(* Which packets can make the decoder look beyond their captured bytes.     *)
THEOREM SpanInPacket == Spec => []SpanLeavesPacketOnlyIf
<1>1. IInv => SpanLeavesPacketOnlyIf
  <2> SUFFICES ASSUME IInv, span # NoSpan, ~InPacket(span)
               PROVE  \/ /\ packet.protocol = "TCP"
                         /\ packet.captured < 20 + 4 * packet.addressNibble
                      \/ /\ packet.protocol = "UDP"
                         /\ \/ packet.headerWords > 5
                            \/ packet.laterFragment
                            \/ packet.declared \notin 8 .. packet.captured - 34
    BY DEF SpanLeavesPacketOnlyIf
  <2>1. /\ packet.captured \in Nat /\ packet.addressNibble \in 0 .. 15
        /\ packet.headerWords \in 5 .. 15 /\ packet.declared \in 0 .. MaxLength
    BY PacketsAssumption DEF IInv, TypeOK, Packet
  <2>2. CASE packet.protocol = "TCP" /\ span = TcpPayload
    BY <2>1, <2>2 DEF TcpPayload, Unsigned, InPacket
  <2>3. CASE /\ packet.protocol = "UDP"
             /\ \E length \in LengthsRead : span = UdpPayload(length)
    <3> SUFFICES ASSUME packet.headerWords = 5, ~packet.laterFragment,
                        packet.declared \in 8 .. packet.captured - 34
                 PROVE  FALSE
      BY <2>1, <2>3
    <3>1. LengthsRead = {packet.declared}
      BY <2>1, WordSizeAssumption DEF LengthsRead
    <3>2. span = UdpPayload(packet.declared)
      BY <2>3, <3>1
    <3>3. QED
      BY <2>1, <3>2, WordSizeAssumption DEF UdpPayload, Unsigned, InPacket
  <2>4. QED  BY <2>2, <2>3 DEF IInv, Located
<1>2. QED  BY <1>1, Invariant, PTL

(* TCP is not decoded by accident either: where the code looks, 20 bytes    *)
(* and a multiple of 4 into the packet, no TCP payload ever begins.         *)
TcpPayloadNeverLocated ==
  span # NoSpan /\ packet.protocol = "TCP" => span.from # SendersPayload(packet).from

(* Whatever its addresses and lengths, a TCP packet is decoded from elsewhere.*)
THEOREM TcpPayloadNotDecoded == Spec => []TcpPayloadNeverLocated
<1>1. IInv => TcpPayloadNeverLocated
  <2> SUFFICES ASSUME IInv, span # NoSpan, packet.protocol = "TCP"
               PROVE  span.from # SendersPayload(packet).from
    BY DEF TcpPayloadNeverLocated
  <2>1. /\ packet.addressNibble \in 0 .. 15 /\ packet.headerWords \in 5 .. 15
        /\ packet.transportWords \in 2 .. 15
    BY PacketsAssumption DEF IInv, TypeOK, Packet
  <2>2. span.from = 20 + 4 * packet.addressNibble
    BY DEF IInv, Located, TcpPayload
  <2>3. QED
    BY <2>1, <2>2 DEF SendersPayload
<1>2. QED  BY <1>1, Invariant, PTL

(* Processing a packet header by header implements the one step PCAPParser  *)
(* makes of it.                                                             *)
THEOREM Implementation == Spec => ImplementsProcessPayload
<1>1. IInv /\ [Next]_vars =>
        [Parser!ProcessPayload \/ Parser!Crash]_(Parser!vars)
  <2> SUFFICES ASSUME IInv, [Next]_vars
               PROVE  \/ Parser!ProcessPayload \/ Parser!Crash
                      \/ UNCHANGED Parser!vars
    OBVIOUS
  <2> USE DEF IInv, Parser!vars, Parser!outputVars, Parser!windowVars, Parser!ioVars
  <2>1. packet' = packet /\ packet.captured \in Nat
    BY PacketsAssumption
    DEF Next, ParseEthernet, ParseIPv4, LocateTcp, LocateUdp, Decode, Crash,
        WriteSeparator, Finished, Throw, vars, TypeOK, Packet
  <2>2. CASE ParseEthernet
    BY <2>1, <2>2 DEF ParseEthernet, Throw, ParserPc, ParserOutput, Reached,
       Parser!ProcessPayload, Parser!Throw, Parser!Ethernet
  <2>3. CASE ParseIPv4
    <3> packet.protocol \in {"TCP", "UDP", "other"}
      BY PacketsAssumption DEF TypeOK, Packet
    <3>1. ParserPc = "payload" /\ ParserOutput = <<>> /\ ParserOutput' = <<>>
      BY <2>3 DEF ParseIPv4, Throw, ParserPc, ParserOutput
    <3>2. CASE packet.captured < IPv4End /\ Throw("ipv4")
      <4>1. ParserPc' = "destroy"
        BY <3>2 DEF Throw, ParserPc
      <4>2. QED
        BY <2>1, <2>3, <3>1, <3>2, <4>1 DEF ParseIPv4, Throw, Reached,
           Parser!ProcessPayload, Parser!Throw, Parser!Ethernet
    <3>3. CASE pc' = packet.protocol /\ UNCHANGED <<packet, span, exception, output>>
      <4>1. ParserPc' = "payload"
        BY <3>3 DEF ParserPc
      <4>2. QED  BY <2>1, <3>1, <3>3, <4>1
    <3>4. QED  BY <2>3, <3>2, <3>3 DEF ParseIPv4
  <2>4. CASE LocateTcp \/ LocateUdp \/ Decode
    BY <2>1, <2>4 DEF LocateTcp, LocateUdp, Decode, ParserPc, ParserOutput
  <2>5. CASE Crash
    BY <2>1, <2>5 DEF Crash, ParserPc, ParserOutput, Reached,
       Parser!Crash, Parser!Ethernet
  <2>6. CASE WriteSeparator
    <3>1. /\ ParserPc = "payload" /\ ParserPc' = "flush"
          /\ ParserOutput = <<>> /\ ParserOutput' = Append(output, "comma")
      BY <2>6 DEF WriteSeparator, ParserPc, ParserOutput
    <3>2. Append(output, "comma") \in {<<"packet", "comma">>, <<"comma">>}
      <4>1. output = <<>> \/ output = <<"packet">>
        BY <2>6 DEF WriteSeparator, Reached
      <4>2. Append(<<>>, "comma") = <<"comma">>
        OBVIOUS
      <4>3. Append(<<"packet">>, "comma") = <<"packet", "comma">>
        <5> DEFINE both == <<"packet", "comma">>
                   S == {"packet", "comma"}
                   appended == Append(<<"packet">>, "comma")
        <5>1. /\ both \in Seq(S) /\ Len(both) = 2
              /\ both[1] = "packet" /\ both[2] = "comma"
          OBVIOUS
        <5>2. /\ <<"packet">> \in Seq(S) /\ Len(<<"packet">>) = 1
              /\ <<"packet">>[1] = "packet" /\ "comma" \in S
          OBVIOUS
        <5>3. /\ appended \in Seq(S) /\ Len(appended) = 2
              /\ appended[1] = "packet" /\ appended[2] = "comma"
          BY <5>2, AppendProperties
        <5> HIDE DEF both, appended, S
        <5>4. \A k \in 1 .. Len(appended) : appended[k] = both[k]
          BY <5>1, <5>3
        <5>5. appended = both
          BY <5>1, <5>3, <5>4, SeqEqual
        <5>6. QED  BY <5>5 DEF both, appended
      <4>4. QED  BY <4>1, <4>2, <4>3, Zenon
    <3>3. Parser!Emit(<<"packet", "comma">>) \/ Parser!Emit(<<"comma">>)
      <4>1. /\ <<>> \o <<"comma">> = <<"comma">>
            /\ <<>> \o <<"packet", "comma">> = <<"packet", "comma">>
        <5>1. <<"comma">> \in Seq({"packet", "comma"})
          OBVIOUS
        <5>2. <<"packet", "comma">> \in Seq({"packet", "comma"})
          OBVIOUS
        <5>3. QED  BY <5>1, <5>2, ConcatEmptySeq
      <4>2. QED  BY <3>1, <3>2, <4>1, Zenon DEF Parser!Emit
    <3>4. packet.captured >= 34 /\ exception' = exception
      BY <2>6 DEF WriteSeparator, Reached
    <3>5. QED
      BY <2>1, <3>1, <3>3, <3>4 DEF Parser!ProcessPayload, Parser!Ethernet
  <2>7. CASE UNCHANGED vars
    BY <2>7 DEF vars, ParserPc, ParserOutput
  <2>8. QED
    BY <2>2, <2>3, <2>4, <2>5, <2>6, <2>7 DEF Next, Finished
<1>2. QED  BY <1>1, Invariant, PTL DEF Spec, ImplementsProcessPayload
===============================================================================
