------------------------------ MODULE MCRendering ------------------------------
(***************************************************************************)
(* Packets of one message of every kind, with every value that is rendered *)
(* in a way of its own, and packets of up to three messages.               *)
(***************************************************************************)
EXTENDS RenderingProperties

MCBits == 0 .. 3
MCNamedBits == {0, 2}

Fill(full, empty) ==
  [f \in DOMAIN DefinitionFieldSizes |->
     IF f \in full THEN "full" ELSE IF f \in empty THEN "empty" ELSE "part"]

Plain(template) ==
  [template |-> template, flags |-> {}, isNull |-> FALSE, action |-> "known",
   segment |-> "printable", rate |-> "number", special |-> FALSE, harmless |-> FALSE,
   fill |-> Fill({CFICode}, {}), runsOn |-> {}, desc |-> FALSE,
   quotation |-> FALSE, counts |-> <<0, 0, 0, 0, 0>>, entries |-> <<0, 0, 0, 0, 0>>]

Definition == Plain("SecurityDefinition")

Orders ==
  {[Plain(t) EXCEPT !.flags = flags, !.action = action, !.isNull = isNull] :
     t \in {"OrderUpdate", "OrderExecution"}, flags \in SUBSET MCBits,
     action \in {"known", "unknown"}, isNull \in BOOLEAN}

Snapshots ==
  {[Plain("OrderBookSnapshot") EXCEPT !.flags = flags, !.counts = <<n>>, !.entries = <<n>>] :
     flags \in SUBSET MCBits, n \in 0 .. 2}

Others ==
  {[Plain(t) EXCEPT !.isNull = isNull, !.segment = segment] :
     t \in KnownTemplates \ {"OrderBookSnapshot", "SecurityDefinition"},
     isNull \in BOOLEAN, segment \in {"printable", "other"}}

(* Texts that fill their arrays, and what follows them in memory.           *)
Texts ==
  {[Definition EXCEPT !.fill = Fill(full, empty), !.harmless = harmless] :
     full \in SUBSET {SecurityAltID, 5, SecurityType, CFICode, UnderlyingCurrency,
                      ValuationMethod},
     empty \in SUBSET {SecurityType, UnderlyingCurrency + 1, ValuationMethod + 1},
     harmless \in BOOLEAN}

Strings ==
  {[Definition EXCEPT !.flags = flags, !.rate = rate, !.special = special, !.desc = desc,
                      !.quotation = quotation, !.isNull = isNull, !.harmless = harmless] :
     flags \in {{}, {1}, {0, 2}, {1, 2, 3}}, rate \in {"number", "nan", "inf"},
     special \in BOOLEAN, desc \in BOOLEAN, quotation \in BOOLEAN, isNull \in BOOLEAN,
     harmless \in BOOLEAN}

(* The vectors of the last three groups have the length of the first.       *)
Groups ==
  {[Definition EXCEPT !.counts = counts, !.runsOn = runsOn, !.harmless = harmless,
                      !.entries = <<counts[1], counts[2], counts[1], counts[1], counts[1]>>] :
     counts \in [1 .. 5 -> 0 .. 2], runsOn \in {{}, {1}, {2}, {3}, {4}},
     harmless \in BOOLEAN}

Few ==
  {Plain("SequenceReset"), Plain("OrderUpdate"), Definition, Plain("SecurityStatus"),
   [Plain("OrderUpdate") EXCEPT !.action = "unknown"],
   [Plain("OrderBookSnapshot") EXCEPT !.counts = <<2>>, !.entries = <<2>>]}

Single ==
  {<<m>> : m \in Orders \cup Snapshots \cup Others \cup Texts \cup Strings \cup Groups}

MCPackets ==
  [incremental : {FALSE}, messages : Single]
    \cup [incremental : BOOLEAN, messages : UNION {[1 .. n -> Few] : n \in {0, 2, 3}}]
===============================================================================
