----------------------------- MODULE SIMBASchema ------------------------------
(***************************************************************************)
(* The structures of src/SIMBA_Schema.hpp, reduced to what decoding depends *)
(* on: how many bytes each of them takes (the header packs them to 1 byte) *)
(* and which of them are followed by repeating groups.                     *)
(***************************************************************************)
EXTENDS Integers, FiniteSetsExt, SequencesExt

MarketDataPacketHeaderSize == 16
IncrementalPacketHeaderSize == 12
MessageHeaderSize == 8
GroupSizeSize == 3

(* The messages decode() copies in one piece.  SecurityStatus, unlike the   *)
(* others, declares SecurityIDSource as a data member, which counts.       *)
OrderUpdateSize == 50
OrderExecutionSize == 74
SecurityDefinitionUpdateReportSize == 28
SecurityStatusSize == 71
SequenceResetSize == 4
TradingSessionStatusSize == 44

StructSize ==
  [OrderUpdate |-> OrderUpdateSize,
   OrderExecution |-> OrderExecutionSize,
   SecurityDefinitionUpdateReport |-> SecurityDefinitionUpdateReportSize,
   SecurityStatus |-> SecurityStatusSize,
   SequenceReset |-> SequenceResetSize,
   TradingSessionStatus |-> TradingSessionStatusSize]

FixedTemplates == DOMAIN StructSize
KnownTemplates == FixedTemplates \cup {"OrderBookSnapshot", "SecurityDefinition"}

SnapshotBaseSize == 16
SnapshotEntrySize == 57

(* SecurityDefinition: the fields in the order they are parsed, the entries *)
(* of its five groups, and the two string structures (a length and a       *)
(* pointer).                                                               *)
DefinitionFieldSizes ==
  <<4, 25, 4, 25, 1, 4, 6, 8, 4, 1, 3, 1, 1, 4,
    8, 8, 8, 8, 8, 8, 8, 8, 8, 8, 8, 3, 4, 4, 8, 8, 8, 4,
    8, 8, 8, 3, 1, 4, 8, 8, 8, 8, 8, 8>>

(* The sum of a sequence of sizes.                                         *)
Total(sizes) ==
  LET upTo[n \in 0 .. Len(sizes)] == IF n = 0 THEN 0 ELSE upTo[n - 1] + sizes[n]
  IN  upTo[Len(sizes)]

DefinitionFieldBytes == Total(DefinitionFieldSizes)

(* MDFeedTypes, Underlyings, Legs, InstrAttrib, Events *)
DefinitionEntrySizes == <<33, 37, 33, 35, 16>>

StringStructSize == 10
StringLengthSize == 2

-----------------------------------------------------------------------------
(* A message on the wire: its header, a block of fields, repeating groups   *)
(* (each a GroupSize and its entries) and variable-length data.            *)

GroupBytes(group) == GroupSizeSize + group.count * group.entry

GroupsBytes(groups) == Total([g \in DOMAIN groups |-> GroupBytes(groups[g])])

MessageBytes(message) ==
  MessageHeaderSize + message.block + GroupsBytes(message.groups) + message.data

MessagesBytes(messages) == Total([k \in DOMAIN messages |-> MessageBytes(messages[k])])

(* What a sender lays out: the counts are bytes, and the messages decode()  *)
(* has a case for have the groups it expects.                              *)
WireGroups == [count : 0 .. 255, entry : Nat]

WireMessages ==
  [template : KnownTemplates \cup {"Unknown"}, block : Nat,
   groups : Seq(WireGroups), data : Nat]

LaidOut(m) ==
  /\ m.template \in FixedTemplates => m.groups = <<>> /\ m.data = 0
  /\ m.template = "OrderBookSnapshot" =>
       /\ m.block = SnapshotBaseSize /\ m.data = 0
       /\ Len(m.groups) = 1 /\ m.groups[1].entry = SnapshotEntrySize
  /\ m.template = "SecurityDefinition" =>
       /\ m.block = DefinitionFieldBytes
       /\ Len(m.groups) = 5
       /\ \A g \in 1 .. 5 : m.groups[g].entry = DefinitionEntrySizes[g]

(* Fields whose value is a constant of the schema are not on the wire.      *)
BlockOf(template) ==
  CASE template = "SecurityStatus" -> StructSize[template] - 1
    [] template \in FixedTemplates \ {"SecurityStatus"} -> StructSize[template]
    [] template = "OrderBookSnapshot" -> SnapshotBaseSize
    [] template = "SecurityDefinition" -> DefinitionFieldBytes

FixedMessage(template) ==
  [template |-> template, block |-> BlockOf(template), groups |-> <<>>, data |-> 0]

SnapshotMessage(count) ==
  [template |-> "OrderBookSnapshot", block |-> BlockOf("OrderBookSnapshot"),
   groups |-> <<[count |-> count, entry |-> SnapshotEntrySize]>>, data |-> 0]

(* counts: the entries of the five groups; text: the bytes of both strings. *)
DefinitionMessage(counts, text) ==
  [template |-> "SecurityDefinition", block |-> BlockOf("SecurityDefinition"),
   groups |-> [g \in 1 .. 5 |->
                 [count |-> counts[g], entry |-> DefinitionEntrySizes[g]]],
   data |-> 2 * StringLengthSize + text]

(* A message of a template decode() has no case for, such as BestPrices.    *)
UnknownMessage(block, groups) ==
  [template |-> "Unknown", block |-> block, groups |-> groups, data |-> 0]
===============================================================================
