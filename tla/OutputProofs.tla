----------------------------- MODULE OutputProofs -----------------------------
(***************************************************************************)
(* The output side of PCAPParser, for every capture, every flush interval  *)
(* and every way a write can fail: the inductive invariant OutputInv, what *)
(* it says of the file, and the implementation of OutputLog.               *)
(***************************************************************************)
EXTENDS PCAPParserProofs, FiniteSetTheorems

CompleteOutput == rendered \o <<"end">>

(* Where the rendered output is: in the file and, behind it, in jsonBuffer, *)
(* as long as writes work.                                                 *)
OutputInv ==
  /\ OutputTypeOK
  /\ pc \in Phases
  /\ pc \in {"stat", "fetch", "open"} => ~outputOpen
  /\ pc \notin {"stat", "fetch", "open", "done"} => outputOpen
  /\ ~outputOpen =>
       rendered = <<>> /\ outputFile = <<>> /\ jsonBuffer = <<>> /\ ~outputBad
  /\ pc # "done" => IsPrefix(outputFile, rendered)
  /\ pc = "done" => IsPrefix(outputFile, CompleteOutput)
  /\ ~outputBad /\ pc \notin {"done", "crashed"} =>
       rendered = outputFile \o jsonBuffer
  /\ ~outputBad /\ pc = "done" /\ outputOpen => outputFile = CompleteOutput

-----------------------------------------------------------------------------
(* Prefixes. *)

(* A prefix agrees with the longer sequence at each of its places.          *)
LEMMA PrefixByElements ==
  ASSUME NEW S, NEW s \in Seq(S), NEW t \in Seq(S)
  PROVE  IsPrefix(s, t) <=>
           Len(s) <= Len(t) /\ \A k \in 1 .. Len(s) : s[k] = t[k]
<1>1. Len(s) \in Nat /\ Len(t) \in Nat
  BY LenProperties
<1>2. SubSeq(s, 1, Len(s)) = s
  BY SubSeqFull
<1>3. ASSUME Len(s) <= Len(t)
      PROVE  /\ SubSeq(t, 1, Len(s)) \in Seq(S)
             /\ Len(SubSeq(t, 1, Len(s))) = Len(s)
             /\ \A k \in 1 .. Len(s) : SubSeq(t, 1, Len(s))[k] = t[k]
  <2>1. \A k \in 1 .. Len(s) : t[k] \in S
    BY <1>1, <1>3, ElementOfSeq
  <2>2. /\ SubSeq(t, 1, Len(s)) \in Seq(S)
        /\ Len(SubSeq(t, 1, Len(s))) = IF 1 <= Len(s) THEN Len(s) - 1 + 1 ELSE 0
        /\ \A k \in 1 .. Len(s) - 1 + 1 : SubSeq(t, 1, Len(s))[k] = t[1 + k - 1]
    BY <1>1, <2>1, SubSeqProperties
  <2> QED
    BY <1>1, <2>2
<1>4. ASSUME IsPrefix(s, t)
      PROVE  Len(s) <= Len(t) /\ \A k \in 1 .. Len(s) : s[k] = t[k]
  BY <1>2, <1>3, <1>4 DEF IsPrefix
<1>5. ASSUME Len(s) <= Len(t), \A k \in 1 .. Len(s) : s[k] = t[k]
      PROVE  IsPrefix(s, t)
  <2>1. s = SubSeq(t, 1, Len(s))
    BY <1>3, <1>5, SeqEqual
  <2> QED
    BY <1>2, <1>5, <2>1 DEF IsPrefix
<1> QED
  BY <1>4, <1>5

(* A sequence is a prefix of itself and of itself continued.                *)
LEMMA PrefixOfConcat ==
  ASSUME NEW S, NEW s \in Seq(S), NEW t \in Seq(S)
  PROVE  s \o t \in Seq(S) /\ IsPrefix(s, s \o t) /\ IsPrefix(s, s)
<1>1. /\ Len(s) \in Nat /\ Len(t) \in Nat
      /\ s \o t \in Seq(S)
      /\ Len(s \o t) = Len(s) + Len(t)
      /\ \A k \in 1 .. Len(s) + Len(t) :
           (s \o t)[k] = IF k <= Len(s) THEN s[k] ELSE t[k - Len(s)]
  BY LenProperties, ConcatProperties
<1>2. /\ Len(s) <= Len(s \o t)
      /\ \A k \in 1 .. Len(s) : (s \o t)[k] = s[k]
  BY <1>1
<1>3. IsPrefix(s, s \o t)
  BY <1>1, <1>2, PrefixByElements
<1>4. IsPrefix(s, s)
  BY <1>1, PrefixByElements
<1> QED
  BY <1>1, <1>3, <1>4

(* A prefix of a prefix is a prefix.                                        *)
LEMMA PrefixTransitive ==
  ASSUME NEW S, NEW s \in Seq(S), NEW t \in Seq(S), NEW u \in Seq(S),
         IsPrefix(s, t), IsPrefix(t, u)
  PROVE  IsPrefix(s, u)
<1>1. Len(s) \in Nat /\ Len(t) \in Nat /\ Len(u) \in Nat
  BY LenProperties
<1>2. /\ Len(s) <= Len(t) /\ \A k \in 1 .. Len(s) : s[k] = t[k]
      /\ Len(t) <= Len(u) /\ \A k \in 1 .. Len(t) : t[k] = u[k]
  BY PrefixByElements
<1>3. Len(s) <= Len(u) /\ \A k \in 1 .. Len(s) : s[k] = u[k]
  BY <1>1, <1>2
<1> QED
  BY <1>3, PrefixByElements

(* What a failed write or a crash leaves.                                   *)
LEMMA PrefixCut ==
  ASSUME NEW S, NEW s \in Seq(S), NEW n \in 0 .. Len(s)
  PROVE  SubSeq(s, 1, n) \in Seq(S) /\ IsPrefix(SubSeq(s, 1, n), s)
<1>1. Len(s) \in Nat /\ n \in Nat /\ n <= Len(s)
  BY LenProperties
<1>2. \A k \in 1 .. n : s[k] \in S
  BY <1>1, ElementOfSeq
<1>3. /\ SubSeq(s, 1, n) \in Seq(S)
      /\ Len(SubSeq(s, 1, n)) = IF 1 <= n THEN n - 1 + 1 ELSE 0
      /\ \A k \in 1 .. n - 1 + 1 : SubSeq(s, 1, n)[k] = s[1 + k - 1]
  BY <1>1, <1>2, SubSeqProperties
<1>4. /\ Len(SubSeq(s, 1, n)) = n
      /\ \A k \in 1 .. n : SubSeq(s, 1, n)[k] = s[k]
  BY <1>1, <1>3
<1> QED
  BY <1>1, <1>3, <1>4, PrefixByElements
-----------------------------------------------------------------------------
(* OutputInv is inductive. *)

(* Tokens written to jsonBuffer or to the file are tokens.                  *)
LEMMA TokenSequences ==
  /\ <<>> \in Seq(Tokens)
  /\ <<"begin">> \in Seq(Tokens) /\ <<"comma">> \in Seq(Tokens)
  /\ <<"packet", "comma">> \in Seq(Tokens) /\ <<"end">> \in Seq(Tokens)
BY DEF Tokens

(* The invariant holds before the output is opened.                         *)
LEMMA OutputInit == Init => OutputInv
<1> SUFFICES ASSUME Init PROVE OutputInv
  OBVIOUS
<1>1. OutputTypeOK
  BY TokenSequences DEF Init, OutputTypeOK
<1>2. IsPrefix(outputFile, rendered)
  BY TokenSequences, PrefixOfConcat DEF Init
<1> QED
  BY <1>1, <1>2 DEF Init, OutputInv, Phases

(* The points the program passes before the output is opened.               *)
EarlyPhases == {"stat", "fetch", "open"}

(* A step that renders and writes nothing.                                  *)
LEMMA QuietOutputStep ==
  ASSUME OutputInv, UNCHANGED outputVars, pc' \in Phases,
         pc \notin {"done", "crashed"}, pc' # "crashed",
         pc \in EarlyPhases => pc' \in EarlyPhases \cup {"done"},
         pc \notin EarlyPhases => pc' \notin EarlyPhases \cup {"done"}
  PROVE  OutputInv'
<1>1. UNCHANGED <<outputOpen, outputFile, outputBad, jsonBuffer, rendered>>
  BY DEF outputVars
<1>2. OutputTypeOK'
  BY <1>1 DEF OutputInv, OutputTypeOK
<1>3. IsPrefix(outputFile, rendered)
  BY DEF OutputInv
<1>4. CASE pc \in EarlyPhases
  <2>1. ~outputOpen /\ rendered = <<>> /\ outputFile = <<>>
    BY <1>4 DEF OutputInv, EarlyPhases
  <2>2. IsPrefix(outputFile, CompleteOutput)
    BY <2>1, TokenSequences, PrefixOfConcat DEF CompleteOutput
  <2> QED
    BY <1>1, <1>2, <1>3, <1>4, <2>1, <2>2
    DEF OutputInv, EarlyPhases, CompleteOutput
<1>5. CASE pc \notin EarlyPhases
  BY <1>1, <1>2, <1>3, <1>5 DEF OutputInv, EarlyPhases
<1> QED
  BY <1>4, <1>5

(* The steps that leave the output alone.                                   *)
LEMMA InputSideStep ==
  ASSUME OutputInv,
         \/ GetFileSize \/ FetchFirstChunk \/ ParseGlobalHeader \/ TestLoop
         \/ ReadPacketHeader \/ ReadMoreInput \/ RefillNotNeeded
         \/ ReadPacketData \/ SkipPayload
  PROVE  /\ UNCHANGED outputVars
         /\ pc' \in Phases
         /\ pc \notin {"done", "crashed"} /\ pc' # "crashed"
         /\ pc \in EarlyPhases => pc' \in EarlyPhases \cup {"done"}
         /\ pc \notin EarlyPhases => pc' \notin EarlyPhases \cup {"done"}
<1>1. CASE GetFileSize
  BY <1>1 DEF GetFileSize, ThrowFromConstructor, EarlyPhases, Phases
<1>2. CASE FetchFirstChunk
  BY <1>2 DEF FetchFirstChunk, ThrowFromConstructor, EarlyPhases, Phases
<1>3. CASE ParseGlobalHeader
  BY <1>3 DEF ParseGlobalHeader, EarlyPhases, Phases
<1>4. CASE TestLoop
  BY <1>4 DEF TestLoop, EarlyPhases, Phases
<1>5. CASE ReadPacketHeader
  BY <1>5 DEF ReadPacketHeader, Throw, EarlyPhases, Phases
<1>6. CASE ReadMoreInput
  BY <1>6 DEF ReadMoreInput, Throw, EarlyPhases, Phases
<1>7. CASE RefillNotNeeded
  BY <1>7 DEF RefillNotNeeded, EarlyPhases, Phases
<1>8. CASE ReadPacketData
  BY <1>8 DEF ReadPacketData, Throw, EarlyPhases, Phases
<1>9. CASE SkipPayload
  BY <1>9 DEF SkipPayload, EarlyPhases, Phases
<1> QED
  BY <1>1, <1>2, <1>3, <1>4, <1>5, <1>6, <1>7, <1>8, <1>9

(* Opening the output renders the bracket, or ends the run.                 *)
LEMMA OpenOutputStep ==
  ASSUME OutputInv, OpenOutput
  PROVE  OutputInv'
<1>1. /\ ~outputOpen /\ ~outputBad
      /\ rendered = <<>> /\ outputFile = <<>> /\ jsonBuffer = <<>>
      /\ UNCHANGED <<outputFile, outputBad>>
  BY DEF OutputInv, OpenOutput
<1>2. CASE outputOpen' = TRUE /\ Emit(<<"begin">>) /\ pc' = "global"
  <2>1. /\ jsonBuffer' = <<"begin">> /\ rendered' = <<"begin">>
        /\ outputFile' \o jsonBuffer' = <<"begin">>
    BY <1>1, <1>2, TokenSequences, ConcatEmptySeq DEF Emit
  <2>2. OutputTypeOK'
    BY <1>1, <1>2, <2>1, TokenSequences DEF OutputInv, OutputTypeOK
  <2>3. IsPrefix(outputFile', rendered')
    <3>1. IsPrefix(<<>>, <<>> \o <<"begin">>)
      BY TokenSequences, PrefixOfConcat
    <3>2. <<>> \o <<"begin">> = <<"begin">>
      BY TokenSequences, ConcatEmptySeq
    <3> QED
      BY <1>1, <2>1, <3>1, <3>2
  <2> QED
    BY <1>1, <1>2, <2>1, <2>2, <2>3 DEF OutputInv, Phases
<1>3. CASE ThrowFromConstructor("output") /\ UNCHANGED <<outputOpen, jsonBuffer, rendered>>
  <2>1. UNCHANGED outputVars /\ pc = "open" /\ pc' = "done"
    BY <1>1, <1>3 DEF OpenOutput, ThrowFromConstructor, outputVars
  <2> QED
    BY <2>1, QuietOutputStep DEF Phases, EarlyPhases
<1> QED
  BY <1>2, <1>3 DEF OpenOutput

(* Rendering appends to jsonBuffer and thereby to all there is.             *)
LEMMA EmitStep ==
  ASSUME OutputInv, NEW tokens \in Seq(Tokens), Emit(tokens),
         UNCHANGED <<outputOpen, outputFile, outputBad>>,
         pc = "payload", pc' = "flush"
  PROVE  /\ OutputInv'
         /\ rendered' \in Seq(Tokens) /\ IsPrefix(rendered, rendered')
<1>1. /\ outputOpen /\ IsPrefix(outputFile, rendered)
      /\ outputFile \in Seq(Tokens) /\ jsonBuffer \in Seq(Tokens)
      /\ rendered \in Seq(Tokens) /\ outputBad \in BOOLEAN
      /\ ~outputBad => rendered = outputFile \o jsonBuffer
  BY DEF OutputInv, OutputTypeOK
<1>2. /\ jsonBuffer' = jsonBuffer \o tokens /\ rendered' = rendered \o tokens
      /\ jsonBuffer' \in Seq(Tokens) /\ rendered' \in Seq(Tokens)
      /\ IsPrefix(rendered, rendered')
  BY <1>1, PrefixOfConcat DEF Emit
<1>3. IsPrefix(outputFile', rendered')
  BY <1>1, <1>2, PrefixTransitive
<1>4. ~outputBad => rendered' = outputFile \o jsonBuffer'
  <2>1. (outputFile \o jsonBuffer) \o tokens = outputFile \o (jsonBuffer \o tokens)
    BY <1>1, ConcatAssociative
  <2> QED
    BY <1>1, <1>2, <2>1
<1>5. OutputTypeOK'
  BY <1>1, <1>2 DEF OutputTypeOK
<1> QED
  BY <1>1, <1>2, <1>3, <1>4, <1>5 DEF OutputInv, Phases

(* What a write of everything rendered leaves in the file.                  *)
LEMMA WriteOutcome ==
  ASSUME OutputTypeOK, NEW tokens \in Seq(Tokens), Write(tokens)
  PROVE  /\ outputFile' \in Seq(Tokens) /\ outputBad' \in BOOLEAN
         /\ \/ outputBad /\ outputBad' /\ outputFile' = outputFile
            \/ ~outputBad /\ ~outputBad' /\ outputFile' = outputFile \o tokens
            \/ ~outputBad /\ outputBad' /\ IsPrefix(outputFile', outputFile \o tokens)
<1>1. /\ outputFile \in Seq(Tokens) /\ outputBad \in BOOLEAN
      /\ outputFile \o tokens \in Seq(Tokens)
  BY PrefixOfConcat DEF OutputTypeOK
<1>2. CASE outputBad /\ UNCHANGED <<outputFile, outputBad>>
  BY <1>1, <1>2
<1>3. CASE ~outputBad /\ outputFile' = outputFile \o tokens /\ UNCHANGED outputBad
  BY <1>1, <1>3
<1>4. CASE /\ ~outputBad
           /\ \E n \in 0 .. Len(outputFile \o tokens) :
                outputFile' = SubSeq(outputFile \o tokens, 1, n)
           /\ outputBad' = TRUE
  BY <1>1, <1>4, PrefixCut
<1> QED
  BY <1>2, <1>3, <1>4 DEF Write

(* A flush that succeeds stores everything rendered so far.                 *)
LEMMA FlushIfDueStep ==
  ASSUME OutputInv, FlushIfDue
  PROVE  /\ OutputInv'
         /\ UNCHANGED <<outputOpen, rendered>> /\ pc = "flush" /\ pc' = "loop"
         /\ \/ UNCHANGED <<outputFile, outputBad>>
            \/ ~outputBad /\ ~outputBad' /\ outputFile' = rendered
            \/ ~outputBad /\ outputBad' /\ IsPrefix(outputFile', rendered)
<1>1. /\ OutputTypeOK /\ IsPrefix(outputFile, rendered) /\ outputOpen
      /\ outputFile \in Seq(Tokens) /\ jsonBuffer \in Seq(Tokens)
      /\ rendered \in Seq(Tokens) /\ outputBad \in BOOLEAN
      /\ ~outputBad => rendered = outputFile \o jsonBuffer
      /\ UNCHANGED <<outputOpen, rendered>> /\ pc = "flush" /\ pc' = "loop"
  BY DEF OutputInv, OutputTypeOK, FlushIfDue
<1>2. CASE UNCHANGED <<outputFile, outputBad, jsonBuffer>>
  <2>1. OutputTypeOK'
    BY <1>1, <1>2 DEF OutputTypeOK
  <2> QED
    BY <1>1, <1>2, <2>1 DEF OutputInv, Phases
<1>3. CASE Flush
  <2>1. jsonBuffer' = <<>> /\ jsonBuffer' \in Seq(Tokens)
    BY <1>3, TokenSequences DEF Flush
  <2>2. /\ outputFile' \in Seq(Tokens) /\ outputBad' \in BOOLEAN
        /\ \/ outputBad /\ outputBad' /\ outputFile' = outputFile
           \/ ~outputBad /\ ~outputBad' /\ outputFile' = rendered
           \/ ~outputBad /\ outputBad' /\ IsPrefix(outputFile', rendered)
    BY <1>1, <1>3, WriteOutcome DEF Flush
  <2>3. OutputTypeOK'
    BY <1>1, <2>1, <2>2 DEF OutputTypeOK
  <2>4. IsPrefix(rendered, rendered)
    BY <1>1, <2>1, PrefixOfConcat
  <2>5. ~outputBad' => rendered' = outputFile' \o jsonBuffer'
    BY <1>1, <2>1, <2>2, ConcatEmptySeq
  <2>6. IsPrefix(outputFile', rendered')
    BY <1>1, <2>2, <2>4
  <2> QED
    BY <1>1, <2>1, <2>2, <2>3, <2>5, <2>6 DEF OutputInv, Phases
<1> QED
  BY <1>2, <1>3 DEF FlushIfDue

(* The destructor stores the rest and the bracket, unless a write failed.   *)
LEMMA DestroyStep ==
  ASSUME OutputInv, Destroy
  PROVE  /\ OutputInv'
         /\ UNCHANGED <<outputOpen, rendered>> /\ pc = "destroy" /\ pc' = "done"
         /\ outputOpen
         /\ \/ outputBad /\ outputBad' /\ outputFile' = outputFile
            \/ ~outputBad /\ ~outputBad' /\ outputFile' = CompleteOutput
            \/ ~outputBad /\ outputBad' /\ IsPrefix(outputFile', CompleteOutput)
<1>1. /\ OutputTypeOK /\ IsPrefix(outputFile, rendered) /\ outputOpen
      /\ outputFile \in Seq(Tokens) /\ jsonBuffer \in Seq(Tokens)
      /\ rendered \in Seq(Tokens) /\ outputBad \in BOOLEAN
      /\ ~outputBad => rendered = outputFile \o jsonBuffer
      /\ UNCHANGED <<outputOpen, rendered, jsonBuffer>>
      /\ pc = "destroy" /\ pc' = "done"
  BY DEF OutputInv, OutputTypeOK, Destroy
<1>2. /\ CompleteOutput \in Seq(Tokens) /\ IsPrefix(rendered, CompleteOutput)
      /\ IsPrefix(CompleteOutput, CompleteOutput)
  <2>1. CompleteOutput \in Seq(Tokens) /\ IsPrefix(rendered, CompleteOutput)
    BY <1>1, TokenSequences, PrefixOfConcat DEF CompleteOutput
  <2> QED
    BY <1>1, <2>1, PrefixOfConcat
<1>3. Remainder \in Seq(Tokens)
  BY <1>1, TokenSequences, PrefixOfConcat DEF Remainder
<1>4. ~outputBad => outputFile \o Remainder = CompleteOutput
  <2>1. (outputFile \o jsonBuffer) \o <<"end">> = outputFile \o (jsonBuffer \o <<"end">>)
    BY <1>1, TokenSequences, ConcatAssociative
  <2> QED
    BY <1>1, <2>1 DEF Remainder, CompleteOutput
<1>5. /\ outputFile' \in Seq(Tokens) /\ outputBad' \in BOOLEAN
      /\ \/ outputBad /\ outputBad' /\ outputFile' = outputFile
         \/ ~outputBad /\ ~outputBad' /\ outputFile' = CompleteOutput
         \/ ~outputBad /\ outputBad' /\ IsPrefix(outputFile', CompleteOutput)
  BY <1>1, <1>3, <1>4, WriteOutcome DEF Destroy
<1>6. OutputTypeOK'
  BY <1>1, <1>5 DEF OutputTypeOK
<1>7. CompleteOutput' = CompleteOutput
  BY <1>1 DEF CompleteOutput
<1>8. IsPrefix(outputFile', CompleteOutput')
  BY <1>1, <1>2, <1>5, <1>7, PrefixTransitive
<1> QED
  BY <1>1, <1>5, <1>6, <1>7, <1>8 DEF OutputInv, Phases

(* A crash leaves a part of the file.                                       *)
LEMMA CrashStep ==
  ASSUME OutputInv, Crash
  PROVE  /\ OutputInv'
         /\ UNCHANGED <<outputOpen, outputBad, rendered>>
         /\ outputOpen /\ pc = "payload" /\ pc' = "crashed"
         /\ IsPrefix(outputFile', outputFile)
<1>1. /\ OutputTypeOK /\ IsPrefix(outputFile, rendered) /\ outputOpen
      /\ outputFile \in Seq(Tokens) /\ rendered \in Seq(Tokens)
      /\ UNCHANGED <<outputOpen, outputBad, jsonBuffer, rendered>>
      /\ pc = "payload" /\ pc' = "crashed"
  BY DEF OutputInv, OutputTypeOK, Crash
<1>2. PICK n \in 0 .. Len(outputFile) : outputFile' = SubSeq(outputFile, 1, n)
  BY DEF Crash
<1>3. outputFile' \in Seq(Tokens) /\ IsPrefix(outputFile', outputFile)
  BY <1>1, <1>2, PrefixCut
<1>4. IsPrefix(outputFile', rendered')
  BY <1>1, <1>3, PrefixTransitive
<1>5. OutputTypeOK'
  BY <1>1, <1>3 DEF OutputTypeOK
<1> QED
  BY <1>1, <1>3, <1>4, <1>5 DEF OutputInv, Phases

(* What processing a packet renders.                                        *)
LEMMA ProcessPayloadStep ==
  ASSUME OutputInv, ProcessPayload
  PROVE  /\ OutputInv'
         /\ outputOpen /\ pc = "payload" /\ pc' \in {"flush", "destroy"}
         /\ UNCHANGED <<outputOpen, outputFile, outputBad>>
         /\ \/ UNCHANGED rendered
            \/ rendered' \in Seq(Tokens) /\ IsPrefix(rendered, rendered')
<1>1. /\ outputOpen /\ pc = "payload" /\ pc' \in {"flush", "destroy"}
      /\ UNCHANGED <<outputOpen, outputFile, outputBad>>
  BY DEF OutputInv, ProcessPayload, Throw, Emit, outputVars
<1>2. CASE UNCHANGED outputVars
  <2>1. OutputInv'
    BY <1>1, <1>2, QuietOutputStep DEF Phases, EarlyPhases
  <2> QED
    BY <1>1, <1>2, <2>1 DEF outputVars
<1>3. CASE Emit(<<"packet", "comma">>) /\ pc' = "flush"
  BY <1>1, <1>3, TokenSequences, EmitStep
<1>4. CASE Emit(<<"comma">>) /\ pc' = "flush"
  BY <1>1, <1>4, TokenSequences, EmitStep
<1> QED
  BY <1>1, <1>2, <1>3, <1>4 DEF ProcessPayload

(* Every step of the program preserves OutputInv.                           *)
LEMMA OutputStep ==
  ASSUME OutputInv, [Next]_vars
  PROVE  OutputInv'
<1>1. CASE \/ GetFileSize \/ FetchFirstChunk \/ ParseGlobalHeader \/ TestLoop
           \/ ReadPacketHeader \/ ReadMoreInput \/ RefillNotNeeded
           \/ ReadPacketData \/ SkipPayload
  BY <1>1, InputSideStep, QuietOutputStep
<1>2. CASE OpenOutput
  BY <1>2, OpenOutputStep
<1>3. CASE ProcessPayload
  BY <1>3, ProcessPayloadStep
<1>4. CASE Crash
  BY <1>4, CrashStep
<1>5. CASE FlushIfDue
  BY <1>5, FlushIfDueStep
<1>6. CASE Destroy
  BY <1>6, DestroyStep
<1>7. CASE Halted \/ UNCHANGED vars
  <2>1. UNCHANGED <<pc, outputOpen, outputFile, outputBad, jsonBuffer, rendered>>
    BY <1>7 DEF Halted, vars, outputVars
  <2> QED
    BY <2>1 DEF OutputInv, OutputTypeOK, CompleteOutput
<1> QED
  BY <1>1, <1>2, <1>3, <1>4, <1>5, <1>6, <1>7 DEF Next

(* The flush, the destructor and every way to fail keep OutputInv.          *)
THEOREM OutputInvariant == Spec => []OutputInv
BY OutputInit, OutputStep, PTL DEF Spec

-----------------------------------------------------------------------------
(* The properties of the output. *)

(* Whatever fails and whenever the process dies, the file holds a beginning *)
(* of the output.                                                          *)
THEOREM OutputIsPrefixAlways == Spec => []OutputIsPrefix
<1>1. OutputInv => OutputIsPrefix
  <2> SUFFICES ASSUME OutputInv PROVE OutputIsPrefix
    OBVIOUS
  <2>1. outputFile \in Seq(Tokens) /\ rendered \in Seq(Tokens)
    BY DEF OutputInv, OutputTypeOK
  <2>2. CompleteOutput \in Seq(Tokens) /\ IsPrefix(rendered, CompleteOutput)
    BY <2>1, TokenSequences, PrefixOfConcat DEF CompleteOutput
  <2>3. IsPrefix(outputFile, CompleteOutput)
    BY <2>1, <2>2, PrefixTransitive DEF OutputInv
  <2> QED
    BY <2>3 DEF OutputIsPrefix, CompleteOutput
<1> QED
  BY <1>1, OutputInvariant, PTL

(* A run that ends, by an exception too, has written all of it if writes    *)
(* worked.                                                                 *)
THEOREM NothingLostOnExitAlways == Spec => []NothingLostOnExit
<1>1. OutputInv => NothingLostOnExit
  BY DEF OutputInv, NothingLostOnExit, CompleteOutput
<1> QED
  BY <1>1, OutputInvariant, PTL

-----------------------------------------------------------------------------
(* PCAPParser implements OutputLog. *)

(* The first state of PCAPParser is the first state of the log.             *)
LEMMA LogInitially == Init => Log!LogInit
BY DEF Init, Log!LogInit, Status

(* The two modules mean the same by a prefix.                               *)
LEMMA LogPrefix ==
  ASSUME NEW s, NEW t
  PROVE  Log!IsPrefix(s, t) <=> IsPrefix(s, t)
BY DEF Log!IsPrefix, IsPrefix

(* Every step of PCAPParser is a step of the log or leaves it unchanged.    *)
LEMMA LogStep ==
  ASSUME OutputInv, OutputInv', [Next]_vars
  PROVE  [Log!LogNext]_<<rendered, outputFile, Status>>
<1>1. /\ outputBad \in BOOLEAN /\ outputOpen \in BOOLEAN
      /\ outputBad' \in BOOLEAN /\ outputOpen' \in BOOLEAN
      /\ outputFile \in Seq(Tokens) /\ rendered \in Seq(Tokens)
      /\ rendered' \in Seq(Tokens)
  BY DEF OutputInv, OutputTypeOK
<1>2. Log!Complete = CompleteOutput
  BY <1>1, AppendIsConcat DEF Log!Complete, CompleteOutput, Tokens
<1>3. CASE \/ GetFileSize \/ FetchFirstChunk \/ ParseGlobalHeader \/ TestLoop
           \/ ReadPacketHeader \/ ReadMoreInput \/ RefillNotNeeded
           \/ ReadPacketData \/ SkipPayload
  <2>1. /\ UNCHANGED outputVars
        /\ pc \notin {"done", "crashed"} /\ pc' # "crashed"
        /\ pc \in EarlyPhases => pc' \in EarlyPhases \cup {"done"}
        /\ pc \notin EarlyPhases => pc' \notin EarlyPhases \cup {"done"}
    BY <1>3, InputSideStep
  <2>2. UNCHANGED Status
    <3>1. CASE pc \in EarlyPhases
      BY <2>1, <3>1 DEF outputVars, OutputInv, EarlyPhases, Status
    <3>2. CASE pc \notin EarlyPhases
      BY <2>1, <3>2, <1>1 DEF outputVars, EarlyPhases, Status
    <3> QED
      BY <3>1, <3>2
  <2> QED
    BY <2>1, <2>2 DEF outputVars
<1>4. CASE OpenOutput
  <2>1. CASE outputOpen' = TRUE /\ Emit(<<"begin">>) /\ pc' = "global"
    <3>1. /\ pc = "open" /\ ~outputOpen /\ ~outputBad /\ rendered = <<>>
          /\ UNCHANGED <<outputFile, outputBad>>
      BY <1>4 DEF OutputInv, OpenOutput
    <3>2. rendered' = <<"begin">>
      BY <2>1, <3>1, TokenSequences, ConcatEmptySeq DEF Emit
    <3>3. ~outputBad' /\ outputOpen' /\ pc' = "global"
      BY <2>1, <3>1
    <3>4. Status = "unopened" /\ Status' = "open"
      BY <3>1, <3>3 DEF Status
    <3> QED
      BY <3>1, <3>2, <3>4 DEF Log!LogNext, Log!Open
  <2>2. CASE ThrowFromConstructor("output") /\ UNCHANGED <<outputOpen, jsonBuffer, rendered>>
    BY <1>4, <2>2 DEF OpenOutput, OutputInv, Status
  <2> QED
    BY <1>4, <2>1, <2>2 DEF OpenOutput
<1>5. CASE ProcessPayload
  <2>1. /\ outputOpen /\ pc = "payload" /\ pc' \in {"flush", "destroy"}
        /\ UNCHANGED <<outputOpen, outputFile, outputBad>>
        /\ UNCHANGED rendered \/ IsPrefix(rendered, rendered')
    BY <1>5, ProcessPayloadStep
  <2>2. Status \in {"open", "failed"} /\ UNCHANGED Status
    BY <2>1, <1>1 DEF Status
  <2> QED
    BY <1>1, <2>1, <2>2, LogPrefix DEF Log!LogNext, Log!Produce
<1>6. CASE Crash
  <2>1. /\ UNCHANGED <<outputOpen, outputBad, rendered>>
        /\ outputOpen /\ pc = "payload" /\ pc' = "crashed"
        /\ IsPrefix(outputFile', outputFile)
    BY <1>6, CrashStep
  <2>2. Status \in {"open", "failed"} /\ Status' = "lost"
    BY <2>1, <1>1 DEF Status
  <2> QED
    BY <2>1, <2>2, LogPrefix DEF Log!LogNext, Log!Lose
<1>7. CASE FlushIfDue
  <2>1. /\ UNCHANGED <<outputOpen, rendered>> /\ pc = "flush" /\ pc' = "loop"
        /\ \/ UNCHANGED <<outputFile, outputBad>>
           \/ ~outputBad /\ ~outputBad' /\ outputFile' = rendered
           \/ ~outputBad /\ outputBad' /\ IsPrefix(outputFile', rendered)
    BY <1>7, FlushIfDueStep
  <2>2. outputOpen
    BY <2>1 DEF OutputInv
  <2>3. CASE UNCHANGED <<outputFile, outputBad>>
    BY <2>1, <2>2, <2>3, <1>1 DEF Status
  <2>4. CASE ~outputBad /\ ~outputBad' /\ outputFile' = rendered
    <3>1. Status = "open" /\ Status' = "open"
      BY <2>1, <2>2, <2>4 DEF Status
    <3> QED
      BY <2>1, <2>4, <3>1 DEF Log!LogNext, Log!Batch
  <2>5. CASE ~outputBad /\ outputBad' /\ IsPrefix(outputFile', rendered)
    <3>1. Status = "open" /\ Status' = "failed"
      BY <2>1, <2>2, <2>5 DEF Status
    <3>2. CompleteOutput \in Seq(Tokens) /\ IsPrefix(rendered, CompleteOutput)
      BY <1>1, TokenSequences, PrefixOfConcat DEF CompleteOutput
    <3>3. outputFile' \in Seq(Tokens)
      BY DEF OutputInv, OutputTypeOK
    <3>4. IsPrefix(outputFile', CompleteOutput)
      BY <1>1, <2>5, <3>2, <3>3, PrefixTransitive
    <3> QED
      BY <1>2, <2>1, <3>1, <3>4, LogPrefix DEF Log!LogNext, Log!Fail
  <2> QED
    BY <2>1, <2>3, <2>4, <2>5
<1>8. CASE Destroy
  <2>1. /\ UNCHANGED <<outputOpen, rendered>> /\ pc = "destroy" /\ pc' = "done"
        /\ outputOpen
        /\ \/ outputBad /\ outputBad' /\ outputFile' = outputFile
           \/ ~outputBad /\ ~outputBad' /\ outputFile' = CompleteOutput
           \/ ~outputBad /\ outputBad' /\ IsPrefix(outputFile', CompleteOutput)
    BY <1>8, DestroyStep
  <2>2. CASE outputBad /\ outputBad' /\ outputFile' = outputFile
    BY <2>1, <2>2 DEF Status
  <2>3. CASE ~outputBad /\ ~outputBad' /\ outputFile' = CompleteOutput
    <3>1. Status = "open" /\ Status' = "closed"
      BY <2>1, <2>3 DEF Status
    <3> QED
      BY <1>2, <2>1, <2>3, <3>1 DEF Log!LogNext, Log!Close
  <2>4. CASE ~outputBad /\ outputBad' /\ IsPrefix(outputFile', CompleteOutput)
    <3>1. Status = "open" /\ Status' = "failed"
      BY <2>1, <2>4 DEF Status
    <3> QED
      BY <1>2, <2>1, <2>4, <3>1, LogPrefix DEF Log!LogNext, Log!Fail
  <2> QED
    BY <2>1, <2>2, <2>3, <2>4
<1>9. CASE Halted \/ UNCHANGED vars
  BY <1>9 DEF Halted, vars, outputVars, Status
<1> QED
  BY <1>3, <1>4, <1>5, <1>6, <1>7, <1>8, <1>9 DEF Next

(* PCAPParser implements OutputLog: batches are whole, the array is closed  *)
(* once and complete, and a failed write or a crash ends the writing.       *)
THEOREM LogRefinement == Spec => LogSpec
<1>1. OutputInv /\ OutputInv' /\ [Next]_vars
        => [Log!LogNext]_<<rendered, outputFile, Status>>
  BY LogStep
<1> QED
  BY <1>1, LogInitially, OutputInvariant, PTL
  DEF Spec, LogSpec, Log!LogSpec, Log!logVars

-----------------------------------------------------------------------------
(* The parser and its mapper. *)

(* Every call the parser makes of its mapper is one the mapper allows.      *)
LEMMA MapperCalls == Next => [IONext]_ioVars
<1> SUFFICES ASSUME Next PROVE [IONext]_ioVars
  OBVIOUS
<1>1. CASE FetchFirstChunk
  BY <1>1 DEF FetchFirstChunk, IONext
<1>2. CASE ReadMoreInput
  BY <1>2 DEF ReadMoreInput, IONext
<1>3. CASE ~FetchFirstChunk /\ ~ReadMoreInput
  BY <1>3
  DEF Next, GetFileSize, OpenOutput, ParseGlobalHeader, TestLoop, ReadPacketHeader,
      RefillNotNeeded, ReadPacketData, SkipPayload, ProcessPayload, Crash,
      FlushIfDue, Destroy, Halted, vars
<1> QED
  BY <1>1, <1>2, <1>3

(* The parser behaves towards its file as an IOMapper: whatever it does     *)
(* between two fetches, and whichever of them fail.                        *)
THEOREM UsesMapper == Spec => IOSpec
<1>1. Init => IOInit
  BY DEF Init
<1>2. [Next]_vars => [IONext]_ioVars
  BY MapperCalls DEF vars
<1> QED
  BY <1>1, <1>2, PTL DEF Spec, IOSpec

(* The chunks the parser asks for cover the file from its first byte.       *)
THEOREM ChunksPartitionPrefixAlways == Spec => []ChunksPartitionPrefix
BY UsesMapper, ChunksPartition, PTL

(* mmap is never given an offset it would refuse.                           *)
THEOREM MappingsAlignedAlways == Spec => []MappingsAligned
BY UsesMapper, ChunksPartition, PTL

(* When the output is opened, the input has been mapped.                    *)
InputFirst == outputOpen \/ pc = "open" => mapped # {} \/ fileSize = 0

(* No step opens the output before the first chunk is mapped.               *)
LEMMA InputFirstStep ==
  ASSUME InputInv, OutputInv, InputFirst, [Next]_vars
  PROVE  InputFirst'
<1>1. mapped \subseteq mapped' /\ fileSize' = fileSize
  <2>1. [IONext]_ioVars
    BY MapperCalls DEF vars
  <2> QED
    BY <2>1 DEF IONext, FetchReportsEnd, FetchMapsChunk, OpenFails, MapFails, ioVars
<1>2. CASE FetchFirstChunk
  <2>1. CASE FetchReportsEnd
    <3>1. currentOffset = 0 /\ fileSize \in Nat
      BY <1>2, Basics DEF InputInv, Control, FetchFirstChunk
    <3>2. fileSize = 0
      BY <2>1, <3>1 DEF FetchReportsEnd, Exhausted
    <3> QED
      BY <1>1, <3>2 DEF InputFirst
  <2>2. CASE FetchMapsChunk
    BY <2>2 DEF FetchMapsChunk, InputFirst
  <2>3. CASE (OpenFails \/ MapFails) /\ ThrowFromConstructor("map")
    BY <1>1, <1>2, <2>3
    DEF FetchFirstChunk, ThrowFromConstructor, InputFirst, outputVars
  <2> QED
    BY <1>2, <2>1, <2>2, <2>3 DEF FetchFirstChunk
<1>3. CASE GetFileSize
  BY <1>1, <1>3 DEF GetFileSize, ThrowFromConstructor, InputFirst, outputVars
<1>4. CASE ~FetchFirstChunk /\ ~GetFileSize
  <2>1. outputOpen' \/ pc' = "open" => outputOpen \/ pc = "open"
    BY <1>4
    DEF Next, OpenOutput, ParseGlobalHeader, TestLoop, ReadPacketHeader, Throw,
        ReadMoreInput, RefillNotNeeded, ReadPacketData, SkipPayload, ProcessPayload,
        Crash, FlushIfDue, Destroy, Halted, vars, outputVars, ThrowFromConstructor,
        Emit
  <2> QED
    BY <1>1, <2>1 DEF InputFirst
<1> QED
  BY <1>2, <1>3, <1>4

(* An input that cannot be read costs no earlier output.                    *)
THEOREM OutputOpenedAfterInputAlways == Spec => []OutputOpenedAfterInput
<1>1. Init => InputFirst
  BY DEF Init, InputFirst
<1>2. InputInv /\ OutputInv /\ InputFirst /\ [Next]_vars => InputFirst'
  BY InputFirstStep
<1>3. InputFirst => OutputOpenedAfterInput
  BY DEF InputFirst, OutputOpenedAfterInput
<1> QED
  BY <1>1, <1>2, <1>3, InputInvariant, OutputInvariant, PTL DEF Spec

-----------------------------------------------------------------------------
(* The bound on what jsonBuffer holds. *)

Separators(tokens) == {k \in DOMAIN tokens : tokens[k] = "comma"}

(* The separators among the tokens can be counted.                          *)
LEMMA SeparatorsOf ==
  ASSUME NEW tokens \in Seq(Tokens)
  PROVE  /\ IsFiniteSet(Separators(tokens))
         /\ Cardinality(Separators(tokens)) \in Nat
<1>1. Len(tokens) \in Nat /\ DOMAIN tokens = 1 .. Len(tokens)
  BY LenProperties
<1>2. IsFiniteSet(1 .. Len(tokens))
  BY <1>1, FS_Interval
<1>3. Separators(tokens) \in SUBSET (1 .. Len(tokens))
  BY <1>1 DEF Separators
<1> QED
  BY <1>2, <1>3, FS_Subset, FS_CardinalityType

(* Output with one separator, at its end, adds one.                         *)
LEMMA SeparatorsAdded ==
  ASSUME NEW tokens \in Seq(Tokens), NEW more \in Seq(Tokens), more # <<>>,
         \A k \in 1 .. Len(more) : more[k] = "comma" <=> k = Len(more)
  PROVE  Cardinality(Separators(tokens \o more)) = Cardinality(Separators(tokens)) + 1
<1> DEFINE end == Len(tokens) + Len(more)
<1>1. /\ Len(tokens) \in Nat /\ Len(more) \in Nat \ {0}
      /\ DOMAIN tokens = 1 .. Len(tokens)
  BY LenProperties, EmptySeq
<1>2. /\ tokens \o more \in Seq(Tokens) /\ Len(tokens \o more) = end
      /\ \A k \in 1 .. end : (tokens \o more)[k] =
           IF k <= Len(tokens) THEN tokens[k] ELSE more[k - Len(tokens)]
  BY ConcatProperties
<1>3. DOMAIN (tokens \o more) = 1 .. end
  BY <1>2, LenProperties
<1>4. ASSUME NEW k \in 1 .. end
      PROVE  (tokens \o more)[k] = "comma"
               <=> k = end \/ (k \in 1 .. Len(tokens) /\ tokens[k] = "comma")
  <2>1. CASE k <= Len(tokens)
    <3>1. k # end /\ k \in 1 .. Len(tokens)
      BY <1>1, <2>1
    <3> QED
      BY <1>2, <2>1, <3>1
  <2>2. CASE k > Len(tokens)
    <3>1. /\ k - Len(tokens) \in 1 .. Len(more)
          /\ k - Len(tokens) = Len(more) <=> k = end
          /\ k \notin 1 .. Len(tokens) /\ ~(k <= Len(tokens))
      BY <1>1, <2>2
    <3> QED
      BY <1>2, <3>1
  <2> QED
    BY <1>1, <2>1, <2>2
<1>5. end \in 1 .. end /\ end \notin 1 .. Len(tokens) /\ 1 .. Len(tokens) \subseteq 1 .. end
  BY <1>1
<1> HIDE DEF end
<1>6. Separators(tokens \o more) = Separators(tokens) \cup {end}
  BY <1>1, <1>3, <1>4, <1>5 DEF Separators
<1>7. end \notin Separators(tokens)
  BY <1>1, <1>5 DEF Separators
<1> QED
  BY <1>6, <1>7, SeparatorsOf, FS_AddElement

(* Division with a remainder.                                               *)
LEMMA Remainders ==
  ASSUME NEW n \in Nat, NEW d \in Nat \ {0}
  PROVE  /\ n % d \in 0 .. d - 1 /\ n \div d \in Nat
         /\ n % d = n - d * (n \div d)
BY SMTT(30)

(* Quotient and remainder determine each other.                             *)
LEMMA RemainderIsUnique ==
  ASSUME NEW q \in Nat, NEW d \in Nat \ {0}, NEW r \in 0 .. d - 1
  PROVE  (q * d + r) % d = r
BY Z3

(* The packets since the last flush, counted on both sides of i++.          *)
LEMMA PacketsSinceFlush ==
  ASSUME NEW n \in Nat \ {0}
  PROVE  /\ (n - 1) % FlushEvery \in Nat /\ n % FlushEvery \in Nat
         /\ n % FlushEvery # 0 => n % FlushEvery = ((n - 1) % FlushEvery) + 1
<1> DEFINE q == (n - 1) \div FlushEvery
           r == (n - 1) % FlushEvery
<1>1. FlushEvery \in Nat \ {0} /\ n - 1 \in Nat
  BY FlushEveryAssumption
<1>2. r \in 0 .. FlushEvery - 1 /\ q \in Nat /\ n - 1 = q * FlushEvery + r
  <2>1. /\ r \in 0 .. FlushEvery - 1 /\ q \in Nat
        /\ r = (n - 1) - FlushEvery * q
    BY <1>1, Remainders
  <2> QED
    BY <1>1, <2>1
<1>3. n % FlushEvery \in Nat
  BY <1>1, Remainders
<1> HIDE DEF q, r
<1>4. CASE r + 1 < FlushEvery
  <2>1. (q * FlushEvery + (r + 1)) % FlushEvery = r + 1
    BY <1>1, <1>2, <1>4, RemainderIsUnique
  <2>2. n = q * FlushEvery + (r + 1)
    BY <1>1, <1>2
  <2>3. n % FlushEvery = r + 1
    BY <2>1, <2>2
  <2> QED
    BY <1>2, <1>3, <2>3 DEF r
<1>5. CASE r + 1 = FlushEvery
  <2>1. ((q + 1) * FlushEvery + 0) % FlushEvery = 0
    BY <1>1, <1>2, RemainderIsUnique
  <2>2. n = (q + 1) * FlushEvery + 0
    BY <1>1, <1>2, <1>5
  <2>3. n % FlushEvery = 0
    BY <2>1, <2>2
  <2> QED
    BY <1>2, <1>3, <2>3 DEF r
<1> QED
  BY <1>1, <1>2, <1>4, <1>5

Batched == ((i - 1) % FlushEvery) + (IF pc = "flush" THEN 1 ELSE 0)

(* Each step keeps the number of separators between two flushes.            *)
LEMMA PendingStep ==
  ASSUME InputInv, OutputInv, PendingIsBounded, [Next]_vars
  PROVE  PendingIsBounded'
<1>1. /\ i \in Nat \ {0} /\ jsonBuffer \in Seq(Tokens)
      /\ (i - 1) % FlushEvery \in Nat
      /\ Cardinality(Separators(jsonBuffer)) \in Nat
      /\ Cardinality(Separators(jsonBuffer)) <= Batched
  BY PacketsSinceFlush, SeparatorsOf
  DEF InputInv, InputTypeOK, OutputInv, OutputTypeOK, PendingIsBounded, Separators,
      Batched
<1>2. ASSUME Cardinality(Separators(jsonBuffer')) <= Batched'
      PROVE  PendingIsBounded'
  BY <1>2 DEF PendingIsBounded, Separators, Batched
<1>3. ASSUME UNCHANGED <<i, jsonBuffer>>, pc # "flush" \/ pc' = "flush"
      PROVE  PendingIsBounded'
  <2>1. Batched <= Batched'
    BY <1>1, <1>3 DEF Batched
  <2>2. Cardinality(Separators(jsonBuffer')) <= Batched'
    BY <1>1, <1>3, <2>1 DEF Batched
  <2> QED
    BY <1>2, <2>2
<1>4. ASSUME NEW more \in Seq(Tokens), more # <<>>, Emit(more), UNCHANGED i,
             \A k \in 1 .. Len(more) : more[k] = "comma" <=> k = Len(more),
             pc = "payload", pc' = "flush"
      PROVE  PendingIsBounded'
  <2>1. Cardinality(Separators(jsonBuffer')) = Cardinality(Separators(jsonBuffer)) + 1
    BY <1>1, <1>4, SeparatorsAdded DEF Emit
  <2>2. Batched' = Batched + 1
    BY <1>1, <1>4 DEF Batched
  <2> QED
    BY <1>1, <1>2, <2>1, <2>2 DEF Batched
<1>5. CASE ProcessPayload
  <2>1. pc = "payload" /\ UNCHANGED i
    BY <1>5 DEF ProcessPayload
  <2>2. CASE UNCHANGED outputVars
    BY <1>3, <2>1, <2>2 DEF outputVars
  <2>3. CASE Emit(<<"packet", "comma">>) /\ pc' = "flush"
    <3>1. \A k \in 1 .. 2 : <<"packet", "comma">>[k] = "comma" <=> k = 2
      OBVIOUS
    <3> QED
      BY <1>4, <2>1, <2>3, <3>1, TokenSequences
  <2>4. CASE Emit(<<"comma">>) /\ pc' = "flush"
    <3>1. \A k \in 1 .. 1 : <<"comma">>[k] = "comma" <=> k = 1
      OBVIOUS
    <3> QED
      BY <1>4, <2>1, <2>4, <3>1, TokenSequences
  <2> QED
    BY <1>5, <2>2, <2>3, <2>4 DEF ProcessPayload
<1>6. CASE FlushIfDue
  <2>1. /\ pc = "flush" /\ pc' = "loop" /\ i' = i + 1
        /\ i % FlushEvery \in Nat
        /\ Batched' = i % FlushEvery
    BY <1>1, <1>6, PacketsSinceFlush DEF FlushIfDue, Batched
  <2>2. CASE FlushDue /\ Flush
    <3>1. Separators(jsonBuffer') = {}
      BY <2>2 DEF Flush, Separators
    <3> QED
      BY <1>2, <2>1, <3>1, FS_EmptySet
  <2>3. CASE ~FlushDue /\ UNCHANGED jsonBuffer
    <3>1. Batched' = Batched
      BY <1>1, <2>1, <2>3, PacketsSinceFlush DEF FlushDue, Batched
    <3> QED
      BY <1>1, <1>2, <2>3, <3>1
  <2> QED
    BY <1>6, <2>2, <2>3 DEF FlushIfDue
<1>7. CASE OpenOutput
  <2>1. CASE Emit(<<"begin">>) /\ jsonBuffer = <<>>
    <3>1. jsonBuffer' = <<"begin">>
      BY <2>1, TokenSequences, ConcatEmptySeq DEF Emit
    <3>2. Separators(jsonBuffer') = {}
      BY <3>1 DEF Separators
    <3>3. Batched' \in Nat
      BY <1>1, <1>7 DEF OpenOutput, Batched
    <3> QED
      BY <1>2, <3>2, <3>3, FS_EmptySet
  <2>2. CASE UNCHANGED jsonBuffer
    BY <1>3, <1>7, <2>2 DEF OpenOutput
  <2> QED
    BY <1>7, <2>1, <2>2 DEF OpenOutput, OutputInv
<1>8. CASE ~ProcessPayload /\ ~FlushIfDue /\ ~OpenOutput
  <2>1. UNCHANGED <<i, jsonBuffer>> /\ (pc # "flush" \/ pc' = "flush")
    BY <1>8
    DEF Next, GetFileSize, FetchFirstChunk, ParseGlobalHeader, TestLoop,
        ReadPacketHeader, ReadMoreInput, RefillNotNeeded, ReadPacketData, SkipPayload,
        Crash, Destroy, Halted, vars, outputVars
  <2> QED
    BY <1>3, <2>1
<1> QED
  BY <1>5, <1>6, <1>7, <1>8

(* jsonBuffer never holds the output of more packets than have been parsed  *)
(* since the last flush was due, whatever became of that flush.             *)
THEOREM PendingIsBoundedAlways == Spec => []PendingIsBounded
<1>1. Init => PendingIsBounded
  <2> SUFFICES ASSUME Init PROVE PendingIsBounded
    OBVIOUS
  <2>1. Separators(jsonBuffer) = {}
    BY DEF Init, Separators
  <2>2. (i - 1) % FlushEvery \in Nat /\ pc # "flush"
    BY PacketsSinceFlush DEF Init
  <2> QED
    BY <2>1, <2>2, FS_EmptySet DEF PendingIsBounded, Separators
<1>2. InputInv /\ OutputInv /\ PendingIsBounded /\ [Next]_vars => PendingIsBounded'
  BY PendingStep
<1> QED
  BY <1>1, <1>2, InputInvariant, OutputInvariant, PTL DEF Spec
===============================================================================
