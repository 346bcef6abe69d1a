-------------------------- MODULE RenderingProperties --------------------------
(***************************************************************************)
(* What the text written for a packet must be.                             *)
(***************************************************************************)
EXTENDS Rendering

Tokens == {"{", "}", "[", "]", ",", ":", "num", "str", "null", "bare", "garbled"}

(* Every variable has its type; the loop over the messages stays in bounds. *)
TypeOK ==
  /\ packet \in Packets
  /\ pc \in {"headers", "messages", "done"}
  /\ i \in 1 .. Len(packet.messages) + 1
  /\ out \in Seq(Tokens)

-----------------------------------------------------------------------------
(* Lists of JSON values, comma between them: what may stand between the     *)
(* brackets PCAPParser writes.  The automaton keeps the brackets that are  *)
(* open, what may come next, and the number of values completed outside    *)
(* all brackets and, since then, inside one.                               *)

Values == {"num", "str", "null", "{", "["}

Expected(state) ==
  CASE state.next = "value" -> Values
    [] state.next = "element" -> Values \cup {"]"}
    [] state.next = "member" -> {"str", "}"}
    [] state.next = "key" -> {"str"}
    [] state.next = "colon" -> {":"}
    [] state.next = "after" ->
         IF state.open = <<>> THEN {","}
         ELSE {",", IF Last(state.open) = "{" THEN "}" ELSE "]"}
    [] state.next = "error" -> {}

Completed(state, open) ==
  [open |-> open, next |-> "after",
   outer |-> IF open = <<>> THEN state.outer + 1 ELSE state.outer,
   inner |-> IF Len(open) = 1 THEN state.inner + 1 ELSE state.inner]

Read(state, token) ==
  IF token \notin Expected(state) THEN [state EXCEPT !.next = "error"]
  ELSE CASE token = "{" -> [state EXCEPT !.open = Append(@, "{"), !.next = "member"]
         [] token = "[" -> [state EXCEPT !.open = Append(@, "["), !.next = "element"]
         [] token \in {"}", "]"} -> Completed(state, Front(state.open))
         [] token = ":" -> [state EXCEPT !.next = "value"]
         [] token = "," ->
              IF state.open = <<>> THEN [state EXCEPT !.next = "value", !.inner = 0]
              ELSE [state EXCEPT !.next = IF Last(state.open) = "{" THEN "key" ELSE "value"]
         [] OTHER ->
              IF state.next \in {"member", "key"} THEN [state EXCEPT !.next = "colon"]
              ELSE Completed(state, state.open)

States ==
  [open : Seq({"{", "["}), next : {"value", "element", "member", "key", "colon", "after", "error"},
   outer : Nat, inner : Nat]

Start == [open |-> <<>>, next |-> "value", outer |-> 0, inner |-> 0]

(* Token by token; by halves, which keeps the recursion shallow.            *)
Parsed(tokens) ==
  LET read[run \in States \X (1 .. Len(tokens) + 1) \X (0 .. Len(tokens))] ==
        LET state == run[1]
            from == run[2]
            to == run[3]
            middle == (from + to) \div 2
        IN  IF from > to THEN state
            ELSE IF from = to THEN Read(state, tokens[from])
            ELSE read[<<read[<<state, from, middle>>], middle + 1, to>>]
  IN  read[<<Start, 1, Len(tokens)>>]

-----------------------------------------------------------------------------
(* Where a SecurityDefinition has bytes nobody checked: characters JSON     *)
(* wants escaped, the description, which has no quotes, a C string that     *)
(* goes on into a number, and entries beyond their vector.                  *)
Unchecked(m) ==
  \/ m.special \/ m.desc
  \/ \E f \in {SecurityAltID, SecurityType, UnderlyingCurrency, ValuationMethod} :
       ~(CStringFields(m, f) \subseteq TextFields)
  \/ \E g \in 1 .. 4 :
       m.counts[g] > m.entries[g] \/ (m.counts[g] > 0 /\ g \in m.runsOn)

(* Values with no JSON form, by message: every SecurityStatus; an unknown   *)
(* MDUpdateAction; a TradingSessionStatus with such a byte, or a zero, for  *)
(* its MarketSegmentID; a SecurityDefinition with an infinite rate, with a  *)
(* CFICode that does not fill its array, or with unchecked bytes that do   *)
(* not fit.                                                                *)
NotJson(m) ==
  \/ m.template = "SecurityStatus"
  \/ m.template \in {"OrderUpdate", "OrderExecution"} /\ m.action = "unknown"
  \/ m.template = "TradingSessionStatus" /\ m.segment = "other"
  \/ /\ m.template = "SecurityDefinition"
     /\ \/ m.rate = "inf"
        \/ m.fill[CFICode] # "full"
        \/ Unchecked(m) /\ ~m.harmless

(* A packet renders as three JSON values, four with an incremental header,  *)
(* the last of them an array with one value for each message, whatever the *)
(* messages, their groups and their flags - unless a message is one of     *)
(* those above, and then it does not.  A SecurityDefinition without         *)
(* unchecked bytes depends on nothing in its texts; one with them is JSON   *)
(* when they happen to fit, and only then.                                 *)
JsonExactlyUnless ==
  pc = "done" =>
    LET parsed == Parsed(out)
        isJson == /\ parsed.open = <<>> /\ parsed.next = "after"
                  /\ parsed.outer = (IF packet.incremental THEN 4 ELSE 3)
                  /\ parsed.inner = Len(packet.messages)
    IN  isJson <=> \A k \in DOMAIN packet.messages : ~NotJson(packet.messages[k])

(* A flag set lists each bit of its value once, but for the bits a FlagsSet *)
(* has no name for, and a comma between two of them wherever they lie.      *)
FlagsAreListed ==
  \A k \in 1 .. i - 1 :
    LET m == packet.messages[k]
        listed(n) == <<"[">> \o Separated(Repeat(Str, n)) \o <<"]">>
    IN  /\ MDFlagsSet(m) = listed(Cardinality(m.flags))
        /\ FlagsSet(m) = listed(Cardinality(m.flags \cap NamedBits))
===============================================================================
