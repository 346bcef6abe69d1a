------------------------------- MODULE Rendering -------------------------------
(***************************************************************************)
(* The stream operators of src/SIMBA_JSON.hpp: the text written for one    *)
(* SIMBAPacket, as a sequence of JSON tokens.  Besides the punctuation     *)
(* there are "num", "str" and "null", and two tokens JSON does not have:   *)
(* "bare" (text without quotes) and "garbled" (bytes written as they are   *)
(* where JSON has no place for them).                                      *)
(*                                                                         *)
(* A message is described by what its rendering depends on.  `fill' says   *)
(* of each field of a SecurityDefinition, in the order of memory, whether  *)
(* its bytes hold no zero ("full"), begin with one ("empty"), or neither.  *)
(* `runsOn' has the groups with a text that fills its array and goes on    *)
(* into the bytes of a number or out of its entry; one that ends there, or *)
(* in another text, is an ordinary text.                                   *)
(*                                                                         *)
(* Bytes nobody checked need not break the JSON: a quote may stand behind  *)
(* a backslash, the bytes of a number may be letters.  `harmless' says that *)
(* those of the message all fit where they are written, and is as free as  *)
(* the contents of a message are.                                          *)
(***************************************************************************)
EXTENDS SIMBASchema

CONSTANTS
  Bits,         \* the bits of a flag set, 0 .. 63
  NamedBits,    \* those FlagsSetToString has a name for
  Packets       \* [incremental, messages]

ASSUME BitsAssumption ==
  IsFiniteSet(Bits) /\ Bits = 0 .. Cardinality(Bits) - 1 /\ NamedBits \subseteq Bits

VARIABLES packet, pc, i, out

vars == <<packet, pc, i, out>>

FieldFills == [DOMAIN DefinitionFieldSizes -> {"full", "empty", "part"}]

Message ==
  [template : KnownTemplates,
   flags : SUBSET Bits,
   isNull : BOOLEAN,               \* the nullable fields hold their null value
   action : {"known", "unknown"},  \* MDUpdateAction
   segment : {"printable", "other"},  \* MarketSegmentID of a TradingSessionStatus;
                                   \* other: a quote, a backslash, a control, a
                                   \* byte of a longer character, or a zero, as
                                   \* in a message that did not fit
   rate : {"number", "nan", "inf"},
   special : BOOLEAN,              \* a text has such a byte, zeros apart
   harmless : BOOLEAN,
   fill : FieldFills,
   runsOn : SUBSET (1 .. 4),
   desc : BOOLEAN, quotation : BOOLEAN,  \* the strings are not empty
   counts : Seq(Nat),              \* the numInGroup of the groups
   entries : Seq(Nat)]             \* the lengths of the vectors behind them

(* A SecurityDefinition has five groups, an OrderBookSnapshot one.           *)
ASSUME PacketsAssumption ==
  \A p \in Packets :
    /\ p \in [incremental : BOOLEAN, messages : Seq(Message)]
    /\ \A k \in DOMAIN p.messages :
         LET m == p.messages[k]
         IN  /\ m.template = "SecurityDefinition" => Len(m.counts) = 5 /\ Len(m.entries) = 5
             /\ m.template = "OrderBookSnapshot" => Len(m.entries) = 1

-----------------------------------------------------------------------------
(* Punctuation. *)

Separated(parts) ==
  FlattenSeq([k \in DOMAIN parts |->
                IF k # Len(parts) THEN Append(parts[k], ",") ELSE parts[k]])

(* operator<< of std::vector and of std::span.                              *)
List(parts) == <<"[">> \o Separated(parts) \o <<"]">>

Keyed(key, values) ==
  <<"{">> \o Separated([k \in DOMAIN values |-> <<key[k], ":">> \o values[k]]) \o <<"}">>

Object(values) == Keyed([k \in DOMAIN values |-> "str"], values)

-----------------------------------------------------------------------------
(* Values. *)

Num == <<"num">>
Str == <<"str">>

Repeat(value, n) == [k \in 1 .. n |-> value]

Nullable(m) == IF m.isNull THEN <<"null">> ELSE Num

(* Decimal5; Decimal5NULL and Decimal2NULL: mantissa and exponent.          *)
Decimal == Object(<<Num, Num>>)
DecimalNULL(m) == Object(<<Nullable(m), Num>>)

(* Only the null value and NaN are null: an infinity is printed as "inf".   *)
DoubleNULL(m) ==
  CASE m.rate = "number" -> Num
    [] m.rate = "nan" -> <<"null">>
    [] m.rate = "inf" -> <<"bare">>

(* The quotes are part of the names, and the default has no name.           *)
UpdateAction(m) == IF m.action = "known" THEN Str ELSE <<"bare">>

(* mutant: a bit without a name clears `first' all the same *)
NextFlagForgets(loop, named, value, bit) ==
  IF bit \notin value THEN loop
  ELSE [first |-> FALSE,
        out |-> IF bit \notin named THEN loop.out
                ELSE loop.out \o (IF loop.first THEN Str ELSE <<",", "str">>)]

(* The loop of both flag sets over the bits of the value, which writes a    *)
(* comma before every name but the first.                                  *)
NextFlag(loop, named, value, bit) ==
  IF bit \notin value \cap named THEN loop
  ELSE [first |-> FALSE,
        out |-> loop.out \o (IF loop.first THEN Str ELSE <<",", "str">>)]

FlagList(named, value) ==
  LET loop[n \in 0 .. Cardinality(Bits)] ==
        IF n = 0 THEN [first |-> TRUE, out |-> <<>>]
        ELSE NextFlag(loop[n - 1], named, value, n - 1)
  IN  <<"[">> \o loop[Cardinality(Bits)].out \o <<"]">>

(* FlagsSet drops the bits it has no name for; MDFlagsSet calls them         *)
(* "unknown"; MDFlags2Set has no contents.                                  *)
FlagsSet(m) == FlagList(NamedBits, m.flags)
MDFlagsSet(m) == FlagList(Bits, m.flags)
MDFlags2Set == List(<<>>)

-----------------------------------------------------------------------------
(* Text.  Nothing escapes it. *)

(* Bytes that may be anything but a zero.                                   *)
Uncertain(m) == IF m.harmless THEN Str ELSE <<"garbled">>

(* An array read up to its first zero or its end, by strnlen.               *)
Text(m) == IF m.special THEN Uncertain(m) ELSE Str

(* The fields with bytes in the C string that begins with field f: it goes   *)
(* on until a zero.                                                         *)
CStringFields(m, f) ==
  {g \in f .. Len(DefinitionFieldSizes) :
     /\ \A h \in f .. g - 1 : m.fill[h] = "full"
     /\ m.fill[g] # "empty"}

(* Symbol, SecurityAltID, SecurityAltIDSource, SecurityType, CFICode,        *)
(* Currency, MarketSegmentID, UnderlyingCurrency, ValuationMethod,          *)
(* SettlCurrency                                                            *)
TextFields == {2, 4, 5, 6, 7, 11, 12, 26, 32, 36}

SecurityAltID == 4
SecurityType == 6
CFICode == 7
UnderlyingCurrency == 26
ValuationMethod == 32

CString(m, f) == IF CStringFields(m, f) \subseteq TextFields THEN Text(m) ELSE Uncertain(m)

(* An array taken whole, its zeros included, which JSON has in no string.   *)
WholeArray(m, f) == IF m.fill[f] = "full" THEN Text(m) ELSE <<"garbled">>

(* A C string in an entry of group g, and in what follows it.               *)
EntryText(m, g) == IF g \in m.runsOn THEN Uncertain(m) ELSE Text(m)

-----------------------------------------------------------------------------
(* Headers and messages. *)

MessageHeader == Object(Repeat(Num, 4))
MarketDataPacketHeader == Object(Repeat(Num, 4))
IncrementalPacketHeader == Object(Repeat(Num, 2))

OrderUpdate(m) ==
  Object(<<Str, Num, Decimal, Num, MDFlagsSet(m), MDFlags2Set, Num, Num,
           UpdateAction(m), Str>>)

OrderExecution(m) ==
  Object(<<Str, Num, DecimalNULL(m), Num, Decimal, Num, Num, MDFlagsSet(m), MDFlags2Set,
           Num, Num, UpdateAction(m), Str>>)

SnapshotEntry(m) ==
  Object(<<Num, Num, DecimalNULL(m), Num, Num, MDFlagsSet(m), MDFlags2Set, Str>>)

OrderBookSnapshot(m) ==
  Object(<<Str>> \o Repeat(Num, 4) \o <<List(Repeat(SnapshotEntry(m), m.entries[1]))>>)

(* MDFeedTypes, Underlyings, Legs, InstrAttrib, Events: their texts, and    *)
(* numbers.                                                                *)
GroupEntry(g, text) ==
  <<Object(<<text, Num, Num>>),
    Object(<<text, text, Num, Num>>),
    Object(<<text, Num, Num>>),
    Object(<<Num, text>>),
    Object(<<Num, Num, Num>>)>>[g]

(* A span of counts[g] entries over a vector of entries[g]: those beyond it *)
(* are taken from the memory behind it, numbers and texts.                 *)
Group(m, g) ==
  List([k \in 1 .. m.counts[g] |->
          GroupEntry(g, IF k <= m.entries[g] THEN EntryText(m, g) ELSE Uncertain(m))])

(* The description is written without quotes, QuotationList with them.      *)
Description(m) == IF m.desc THEN Uncertain(m) ELSE <<"null">>
Quotation(m) == IF m.quotation THEN Text(m) ELSE <<"null">>

SecurityDefinition(m) ==
  Object(<<Str, Num, Text(m), Num, Num, CString(m, SecurityAltID), Str,
           CString(m, SecurityType), WholeArray(m, CFICode), DecimalNULL(m), Num, Str,
           Text(m), Str, Str, Str, Num>>
         \o Repeat(DecimalNULL(m), 11)
         \o <<CString(m, UnderlyingCurrency), Num, Num, FlagsSet(m), DecimalNULL(m),
              DecimalNULL(m), CString(m, ValuationMethod)>>
         \o Repeat(DoubleNULL(m), 3) \o <<Text(m), Str, Num>>
         \o Repeat(DoubleNULL(m), 5) \o <<DecimalNULL(m)>>
         \o [g \in 1 .. 5 |-> Group(m, g)]
         \o <<Description(m), Quotation(m)>>)

SequenceReset == Object(<<Num>>)

(* Only the first key has quotes, and no text has.                          *)
SecurityStatus(m) ==
  Keyed([k \in 1 .. 10 |-> IF k = 1 THEN "str" ELSE "bare"],
        <<Str, Num, <<"bare">>, <<"bare">>, <<"bare">>>> \o Repeat(DecimalNULL(m), 5))

SecurityDefinitionUpdateReport(m) ==
  Object(<<Num, Str>> \o Repeat(DecimalNULL(m), 3))

(* MarketSegmentID is streamed as the byte it is, between quotes.           *)
TradingSessionStatus(m) ==
  Object(<<Str, Num, Num, Nullable(m), Nullable(m), Num, Nullable(m), Num, Str,
           IF m.segment = "printable" THEN Str ELSE <<"garbled">>, Num>>)

(* operator<< of the variant.                                               *)
Rendered(m) ==
  CASE m.template = "OrderUpdate" -> OrderUpdate(m)
    [] m.template = "OrderExecution" -> OrderExecution(m)
    [] m.template = "OrderBookSnapshot" -> OrderBookSnapshot(m)
    [] m.template = "SecurityDefinition" -> SecurityDefinition(m)
    [] m.template = "SequenceReset" -> SequenceReset
    [] m.template = "SecurityStatus" -> SecurityStatus(m)
    [] m.template = "SecurityDefinitionUpdateReport" -> SecurityDefinitionUpdateReport(m)
    [] m.template = "TradingSessionStatus" -> TradingSessionStatus(m)

-----------------------------------------------------------------------------
(* operator<< of SIMBAPacket: the headers, then the vector of messages,     *)
(* element by element.                                                     *)

Init ==
  /\ packet \in Packets
  /\ pc = "headers"
  /\ i = 1
  /\ out = <<>>

(* mutant: the comma behind the incremental header is written without it *)
HeadersAlwaysSeparated(incremental) ==
  MarketDataPacketHeader \o <<",">>
    \o (IF incremental THEN IncrementalPacketHeader ELSE <<>>) \o <<",">>
    \o MessageHeader \o <<",">>

Headers(incremental) ==
  MarketDataPacketHeader \o <<",">>
    \o (IF incremental THEN IncrementalPacketHeader \o <<",">> ELSE <<>>)
    \o MessageHeader \o <<",">>

RenderHeaders ==
  /\ pc = "headers"
  /\ out' = Headers(packet.incremental) \o <<"[">>
  /\ pc' = "messages"
  /\ UNCHANGED <<packet, i>>

RenderMessage ==
  /\ pc = "messages"
  /\ i <= Len(packet.messages)
  /\ out' = out \o Rendered(packet.messages[i])
                \o (IF i # Len(packet.messages) THEN <<",">> ELSE <<>>)
  /\ i' = i + 1
  /\ UNCHANGED <<packet, pc>>

(* mutant: the index is advanced by the failing test as well *)
CloseMessagesCounted ==
  /\ pc = "messages"
  /\ i > Len(packet.messages)
  /\ out' = Append(out, "]")
  /\ pc' = "done"
  /\ i' = i + 1
  /\ UNCHANGED packet

CloseMessages ==
  /\ pc = "messages"
  /\ i > Len(packet.messages)
  /\ out' = Append(out, "]")
  /\ pc' = "done"
  /\ UNCHANGED <<packet, i>>

RenderingDone ==
  /\ pc = "done"
  /\ UNCHANGED vars

Next ==
  \/ RenderHeaders
  \/ RenderMessage
  \/ CloseMessages
  \/ RenderingDone

Spec == Init /\ [][Next]_vars
===============================================================================
