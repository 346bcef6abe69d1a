----------------------------- MODULE SIMBADecoder -----------------------------
(***************************************************************************)
(* class SIMBADecoder, src/SIMBA_Decoder.hpp and src/SIMBA_Decoder.cpp: one *)
(* call of decode() on the payload of a packet.                            *)
(*                                                                         *)
(* The payload is described by the messages its sender put into it and the *)
(* number of its bytes that the span covers.  decode() finds out about it  *)
(* only through what it reads: a MessageHeader or a GroupSize read where   *)
(* the sender put one has the value the sender gave it, one read elsewhere *)
(* can look like anything, and parseType returns zeros where the span ends *)
(* too early.                                                              *)
(***************************************************************************)
EXTENDS SIMBASchema

CONSTANTS
  Wires,         \* the sequences of messages a payload may be made of
  StrayHeaders,  \* what bytes that are no header may look like
  StrayCounts    \* what bytes that are no GroupSize may look like

ASSUME WiresAssumption ==
  \A wire \in Wires :
    wire \in Seq(WireMessages) /\ \A k \in DOMAIN wire : LaidOut(wire[k])

ASSUME StrayHeadersAssumption ==
  StrayHeaders \subseteq [template : KnownTemplates \cup {"Unknown"}, block : Nat]

ASSUME StrayCountsAssumption == StrayCounts \subseteq 0 .. 255

VARIABLES
  payload,        \* [incremental, wire, size]
  pc,
  offset,         \* the local of decode() that every call advances
  header,         \* the header read in this round of the loop
  definition,     \* the SecurityDefinition being parsed
  messageHeader,  \* returnPacket.messageHeader
  messages        \* returnPacket.messages

vars == <<payload, pc, offset, header, definition, messageHeader, messages>>

(* A decoded message: where its body begins, the counts in its GroupSizes,  *)
(* the lengths of its vectors, and whether all of it came from the payload. *)
Decoded(template, at, counts, entries, intact) ==
  [template |-> template, at |-> at, counts |-> counts, entries |-> entries,
   intact |-> intact]

NoHeader == [template |-> "Zero", block |-> 0]
NoDefinition == Decoded("Zero", 0, <<>>, <<>>, TRUE)

-----------------------------------------------------------------------------
(* The payload as its sender laid it out. *)

HeaderBytes(incremental) ==
  MarketDataPacketHeaderSize + (IF incremental THEN IncrementalPacketHeaderSize ELSE 0)

(* Where message k of the payload begins. *)
Boundary(k) ==
  HeaderBytes(payload.incremental) + MessagesBytes(SubSeq(payload.wire, 1, k - 1))

(* Where the GroupSize of group g of message k lies. *)
GroupAt(k, g) ==
  LET m == payload.wire[k]
  IN  Boundary(k) + MessageHeaderSize + m.block + GroupsBytes(SubSeq(m.groups, 1, g - 1))

-----------------------------------------------------------------------------
(* parseType: zeros if the structure does not fit; the offset advances      *)
(* either way, which the callers below account for.                        *)

Fits(at, n) == at + n <= payload.size

HeadersAt(at) ==
  IF ~Fits(at, MessageHeaderSize) THEN {NoHeader}
  ELSE LET here == {k \in DOMAIN payload.wire : Boundary(k) = at}
       IN  IF here = {} THEN StrayHeaders
           ELSE {[template |-> payload.wire[k].template,
                  block |-> payload.wire[k].block] : k \in here}

CountsAt(at) ==
  IF ~Fits(at, GroupSizeSize) THEN {0}
  ELSE LET here(k) == {g \in DOMAIN payload.wire[k].groups : GroupAt(k, g) = at}
           sent == UNION {{payload.wire[k].groups[g].count : g \in here(k)} :
                            k \in DOMAIN payload.wire}
       IN  IF sent = {} THEN StrayCounts ELSE sent

(* parseVectorType: n elements of the given size, each by parseType. *)
VectorEnd(at, n, size) == at + n * size

-----------------------------------------------------------------------------
Init ==
  /\ \E incremental \in BOOLEAN, wire \in Wires :
       \E size \in 0 .. HeaderBytes(incremental) + MessagesBytes(wire) :
         payload = [incremental |-> incremental, wire |-> wire, size |-> size]
  /\ pc = "packet"
  /\ offset = 0
  /\ header = NoHeader
  /\ definition = NoDefinition
  /\ messageHeader = NoHeader
  /\ messages = <<>>

(* A packet header that is not all there has no flags. *)
ParsePacketHeader ==
  /\ pc = "packet"
  /\ offset' = offset + MarketDataPacketHeaderSize
  /\ pc' = IF Fits(offset, MarketDataPacketHeaderSize) /\ payload.incremental
           THEN "incremental"
           ELSE "loop"
  /\ UNCHANGED <<payload, header, definition, messageHeader, messages>>

ParseIncrementalHeader ==
  /\ pc = "incremental"
  /\ offset' = offset + IncrementalPacketHeaderSize
  /\ pc' = "loop"
  /\ UNCHANGED <<payload, header, definition, messageHeader, messages>>

(* mutant: the header is looked at and not passed *)
ParseMessageHeaderPeeked ==
  /\ pc = "loop"
  /\ offset < payload.size
  /\ header' \in HeadersAt(offset)
  /\ pc' = "message"
  /\ UNCHANGED <<payload, offset, definition, messageHeader, messages>>

(* while (offset < packetData.size()) *)
ParseMessageHeader ==
  /\ pc = "loop"
  /\ offset < payload.size
  /\ header' \in HeadersAt(offset)
  /\ offset' = offset + MessageHeaderSize
  /\ pc' = "message"
  /\ UNCHANGED <<payload, definition, messageHeader, messages>>

(* mutant: the first header of the packet is the one returned *)
EndRoundKeepsFirst ==
  /\ messageHeader' = IF messageHeader = NoHeader THEN header ELSE messageHeader
  /\ pc' = "loop"

(* The end of a round: break, then returnPacket.messageHeader = header. *)
EndRound ==
  /\ messageHeader' = header
  /\ pc' = "loop"

(* mutant: a message that does not fit is not passed *)
ParseFixedIfItFits ==
  /\ pc = "message"
  /\ header.template \in FixedTemplates
  /\ LET n == StructSize[header.template]
     IN  /\ messages' = Append(messages,
              Decoded(header.template, offset, <<>>, <<>>, Fits(offset, n)))
         /\ offset' = IF Fits(offset, n) THEN offset + n ELSE offset
  /\ EndRound
  /\ UNCHANGED <<payload, header, definition>>

ParseFixed ==
  /\ pc = "message"
  /\ header.template \in FixedTemplates
  /\ LET n == StructSize[header.template]
     IN  /\ messages' = Append(messages,
              Decoded(header.template, offset, <<>>, <<>>, Fits(offset, n)))
         /\ offset' = offset + n
  /\ EndRound
  /\ UNCHANGED <<payload, header, definition>>

ParseOrderBookSnapshot ==
  /\ pc = "message"
  /\ header.template = "OrderBookSnapshot"
  /\ \E n \in CountsAt(offset + SnapshotBaseSize) :
       /\ offset' = VectorEnd(offset + SnapshotBaseSize + GroupSizeSize,
                              n, SnapshotEntrySize)
       /\ messages' = Append(messages,
            Decoded(header.template, offset, <<n>>, <<n>>, offset' <= payload.size))
  /\ EndRound
  /\ UNCHANGED <<payload, header, definition>>

(* Each field is parsed only if it fits, and passed over without advancing  *)
(* if it does not.                                                         *)
DefinitionFieldsEnd(at) ==
  LET fields == Len(DefinitionFieldSizes)
      past(size) == [from \in Nat |-> IF Fits(from, size) THEN from + size ELSE from]
      end[n \in 0 .. fields] ==
        IF n = 0 THEN at ELSE past(DefinitionFieldSizes[n])[end[n - 1]]
  IN  end[fields]

ParseDefinitionFields ==
  /\ pc = "message"
  /\ header.template = "SecurityDefinition"
  /\ offset' = DefinitionFieldsEnd(offset)
  /\ definition' = Decoded(header.template, offset, <<>>, <<>>,
                           offset' = offset + DefinitionFieldBytes)
  /\ pc' = "groups"
  /\ UNCHANGED <<payload, header, messageHeader, messages>>

(* The third, fourth and fifth vector get the length of the first group.    *)
ParseDefinitionGroup ==
  /\ pc = "groups"
  /\ \E n \in CountsAt(offset) :
       LET g == Len(definition.counts) + 1
           counts == Append(definition.counts, n)
           length == IF g <= 2 THEN counts[g] ELSE counts[1]
       IN  /\ definition' = [definition EXCEPT !.counts = counts,
                                               !.entries = Append(@, length)]
           /\ offset' = VectorEnd(offset + GroupSizeSize, length, DefinitionEntrySizes[g])
           /\ pc' = IF g = 5 THEN "strings" ELSE "groups"
  /\ UNCHANGED <<payload, header, messageHeader, messages>>

(* Two lengths nobody uses, each followed by a structure with a pointer.    *)
ParseDefinitionStrings ==
  /\ pc = "strings"
  /\ offset' = offset + 2 * (StringLengthSize + StringStructSize)
  /\ messages' = Append(messages,
       [definition EXCEPT !.intact = @ /\ offset' <= payload.size])
  /\ EndRound
  /\ UNCHANGED <<payload, header, definition>>

(* mutant: the block is not passed *)
BlockNotPassed == offset

BlockEnd == offset + header.block

(* mutant: the message is added nevertheless *)
SkipUnknownButKeepIt ==
  /\ pc = "message"
  /\ header.template \notin KnownTemplates
  /\ offset' = BlockEnd
  /\ messages' = Append(messages,
       Decoded(header.template, offset, <<>>, <<>>, Fits(offset, header.block)))
  /\ EndRound
  /\ UNCHANGED <<payload, header, definition>>

SkipUnknown ==
  /\ pc = "message"
  /\ header.template \notin KnownTemplates
  /\ offset' = BlockEnd
  /\ EndRound
  /\ UNCHANGED <<payload, header, definition, messages>>

Return ==
  /\ pc = "loop"
  /\ offset >= payload.size
  /\ pc' = "done"
  /\ UNCHANGED <<payload, offset, header, definition, messageHeader, messages>>

Returned ==
  /\ pc = "done"
  /\ UNCHANGED vars

Next ==
  \/ ParsePacketHeader
  \/ ParseIncrementalHeader
  \/ ParseMessageHeader
  \/ ParseFixed
  \/ ParseOrderBookSnapshot
  \/ ParseDefinitionFields
  \/ ParseDefinitionGroup
  \/ ParseDefinitionStrings
  \/ SkipUnknown
  \/ Return
  \/ Returned

Spec == Init /\ [][Next]_vars

(* decode() calls nothing that waits. *)
FairSpec == Spec /\ WF_vars(Next)
===============================================================================
