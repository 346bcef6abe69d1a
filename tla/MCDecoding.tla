------------------------------ MODULE MCDecoding ------------------------------
(***************************************************************************)
(* Payloads of up to three messages, cut off after every number of bytes:   *)
(* messages the structures of the code describe, and messages at which the *)
(* decoder loses its place.  What stands where it has lost it looks like   *)
(* any of the headers and counts below.                                    *)
(***************************************************************************)
EXTENDS SIMBADecoderProperties

Text == 2 * StringStructSize

Sent ==
  {FixedMessage(t) : t \in {"OrderUpdate", "SequenceReset"}}
    \cup {SnapshotMessage(0), SnapshotMessage(2)}
    \cup {UnknownMessage(0, <<>>), UnknownMessage(9, <<>>)}

(* The remaining structures, once each; SecurityDefinitions with and        *)
(* without text, with groups of one length and of several; SecurityStatus; *)
(* and a message with groups decode() has no case for.                     *)
First ==
  {FixedMessage(t) :
     t \in {"OrderExecution", "TradingSessionStatus",
            "SecurityDefinitionUpdateReport", "SecurityStatus"}}
    \cup {DefinitionMessage(<<1, 2, 1, 1, 1>>, Text),
          DefinitionMessage(<<0, 0, 0, 0, 0>>, Text),
          DefinitionMessage(<<1, 0, 0, 0, 0>>, 0),
          DefinitionMessage(<<0, 1, 1, 0, 0>>, 31),
          UnknownMessage(0, <<[count |-> 2, entry |-> 36]>>)}

MCWires ==
  BoundedSeq(Sent, 2)
    \cup {<<first>> \o rest :
            first \in First,
            rest \in {<<>>, <<FixedMessage("SequenceReset")>>, <<SnapshotMessage(1)>>}}
    \cup {<<FixedMessage("OrderUpdate"), first>> :
            first \in {FixedMessage("SecurityStatus"),
                       UnknownMessage(0, <<[count |-> 2, entry |-> 36]>>)}}
    \cup {<<SnapshotMessage(1), UnknownMessage(9, <<>>), FixedMessage("OrderUpdate")>>}

MCStrayHeaders ==
  {[template |-> t, block |-> 0] :
     t \in {"OrderUpdate", "SecurityDefinition", "Unknown"}}

MCStrayCounts == {0, 2}
===============================================================================
