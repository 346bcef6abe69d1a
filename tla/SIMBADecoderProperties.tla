------------------------ MODULE SIMBADecoderProperties ------------------------
(***************************************************************************)
(* What class SIMBADecoder must guarantee.                                 *)
(***************************************************************************)
EXTENDS SIMBADecoder

(* Every variable has its type.                                             *)
TypeOK ==
  /\ payload.wire \in Wires /\ payload.size \in Nat
  /\ pc \in {"packet", "incremental", "loop", "message", "groups", "strings", "done"}
  /\ offset \in Nat
  /\ {header.template, messageHeader.template}
       \subseteq KnownTemplates \cup {"Unknown", "Zero"}
  /\ Len(definition.counts) \in 0 .. 5
  /\ Len(definition.entries) = Len(definition.counts)
  /\ \A k \in DOMAIN messages : messages[k].template \in KnownTemplates

MessageEnd(k) == Boundary(k) + MessageBytes(payload.wire[k])

Truncated == Boundary(Len(payload.wire) + 1) > payload.size

(* For every n, those of the first n elements of s that are to be kept.     *)
Kept(s, keep) ==
  LET upTo[n \in 0 .. Len(s)] ==
        IF n = 0 THEN <<>>
        ELSE IF keep[n] THEN Append(upTo[n - 1], s[n]) ELSE upTo[n - 1]
  IN  upTo

(* Message k has been passed and was all there, and decode() has a case for *)
(* it; how it should be decoded.                                           *)
Passed(k) ==
  /\ payload.wire[k].template \in KnownTemplates
  /\ MessageEnd(k) <= offset /\ MessageEnd(k) <= payload.size

AsSent(k) ==
  LET m == payload.wire[k]
      counts == [g \in DOMAIN m.groups |-> m.groups[g].count]
  IN  Decoded(m.template, Boundary(k) + MessageHeaderSize, counts, counts, TRUE)

SentSoFar ==
  Kept([k \in DOMAIN payload.wire |-> AsSent(k)], [k \in DOMAIN payload.wire |-> Passed(k)])

Intact ==
  Kept(messages, [j \in DOMAIN messages |-> messages[j].intact])[Len(messages)]

(* Messages the structures of the code describe: a SecurityStatus has one   *)
(* byte too few, a SecurityDefinition needs as many entries in its last     *)
(* three groups as in its first and as much text as is passed over, and    *)
(* nothing may follow the block of a message decode() has no case for.     *)
TextRead == 2 * (StringLengthSize + StringStructSize)

Described(m) ==
  CASE m.template \in FixedTemplates -> m.block = StructSize[m.template]
    [] m.template = "OrderBookSnapshot" -> TRUE
    [] m.template = "SecurityDefinition" ->
         /\ m.data = TextRead
         /\ \A g \in 3 .. 5 : m.groups[g].count = m.groups[1].count
    [] m.template = "Unknown" -> m.groups = <<>> /\ m.data = 0

DescribedUpTo(n) == \A k \in 1 .. n : Described(payload.wire[k])

(* At the head of the loop the messages decoded in full begin with the      *)
(* messages sent so far, as long as those are described by the code: none  *)
(* lost, none twice, none framed wrongly, each with its own entries,       *)
(* wherever the payload is cut; and they are all, if all are described.    *)
DecodesWhatWasSent ==
  pc \in {"loop", "done"} =>
    \A n \in 0 .. Len(payload.wire) :
      DescribedUpTo(n) =>
        /\ IsPrefix(SentSoFar[n], Intact)
        /\ n = Len(payload.wire) => SentSoFar[n] = Intact

(* Whatever the payload contains, only the last message decoded can have    *)
(* been made up in part from bytes beyond its end: after such a message the *)
(* loop ends, because nothing is parsed without advancing past the end.    *)
OnlyLastMessageIncomplete ==
  \A k \in 1 .. Len(messages) - 1 : messages[k].intact

(* A payload of such messages that is not cut is reported with the header   *)
(* of its last message: no trailing bytes are taken for a header.          *)
ReportsLastHeader ==
  pc = "done" /\ ~Truncated /\ payload.wire # <<>> /\ DescribedUpTo(Len(payload.wire)) =>
    messageHeader.template = Last(payload.wire).template

(* decode() returns, whatever the payload contains: every round consumes a  *)
(* message header, unknown messages with an empty block included.          *)
Termination == <>(pc = "done")

(* A bound on the steps of decode() still to come: the calls left in this    *)
(* round of the loop, and those of a whole round for each byte not passed.  *)
CallsLeft(phase, groupsParsed) ==
  CASE phase = "done" -> 0
    [] phase = "loop" -> 1
    [] phase \in {"strings", "incremental"} -> 2
    [] phase = "packet" -> 3
    [] phase = "groups" -> 7 - groupsParsed
    [] phase = "message" -> 8

BytesLeft == IF offset < payload.size THEN payload.size - offset ELSE 0

StepsLeft == 8 * BytesLeft + CallsLeft(pc, Len(definition.counts))

(* Every step brings decode() nearer to its end, whatever the payload        *)
(* contains: nothing goes back in it, and a round costs a message header.   *)
RunsDown == [][StepsLeft' \in 0 .. StepsLeft - 1]_vars

-----------------------------------------------------------------------------
(* What the repository says of the program and the program does not do. *)

(* "needs to be constexpr so it's not counted in sequence of memory cos      *)
(* packet doesn't contain this field": the bytes decoded as a               *)
(* SecurityStatus are the bytes of one.                                    *)
StatusLayoutIsThePackets ==
  \A j \in DOMAIN messages :
    messages[j].template = "SecurityStatus" /\ messages[j].intact =>
      messages[j].at + StructSize["SecurityStatus"]
        \in {MessageEnd(k) : k \in DOMAIN payload.wire}

(* "Group size for entries": each vector of a SecurityDefinition has as     *)
(* many entries as the group size that precedes it says.                   *)
GroupSizesAreForTheirEntries ==
  \A j \in DOMAIN messages :
    messages[j].intact => messages[j].entries = messages[j].counts
===============================================================================
