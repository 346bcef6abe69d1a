--------------------------- MODULE ArgumentsProofs ---------------------------
(***************************************************************************)
(* Which files a command line names, for command lines of every length and *)
(* every set of names: the loop of main finds what NamesAreTheArguments    *)
(* says without a loop.                                                    *)
(***************************************************************************)
EXTENDS ArgumentsProperties, TLAPS

IsMax(m, S) == m \in S /\ \A n \in S : m >= n

(* The lengths of the runs of flags that end just before argument k.        *)
Runs(k) == {n \in 0 .. k - 1 : \A j \in k - n .. k - 1 : IsFlag(j)}

(* A flag is only looked at after an even number of flags in a row: every   *)
(* other one has been taken for a value.                                   *)
ArgumentsInv ==
  /\ TypeOK
  /\ IsMax(FlagsBefore(i), Runs(i))
  /\ i <= Len(argv) => ~IsValue(i)
  /\ NamesAreTheArguments
  /\ started # "no" => i = Len(argv) + 1
  /\ StartsWithBothNames

-----------------------------------------------------------------------------
(* The greatest element, where there is one. *)

(* Whatever is greatest in a set of integers is what Max chooses.           *)
LEMMA MaxIsMax ==
  ASSUME NEW S, S \subseteq Int, NEW m, IsMax(m, S)
  PROVE  Max(S) = m
<1>1. Max(S) \in S /\ \A n \in S : Max(S) >= n
  BY DEF Max, IsMax
<1>2. Max(S) \in Int /\ m \in Int /\ Max(S) >= m /\ m >= Max(S)
  BY <1>1 DEF IsMax
<1> HIDE DEF Max
<1> QED
  BY <1>2

(* One flag more makes the run longer, anything else ends it.               *)
LEMMA NextRun ==
  ASSUME NEW k \in Nat \ {0}, IsMax(FlagsBefore(k), Runs(k))
  PROVE  /\ IsMax(FlagsBefore(k + 1), Runs(k + 1))
         /\ FlagsBefore(k) \in Nat
         /\ FlagsBefore(k + 1) = IF IsFlag(k) THEN FlagsBefore(k) + 1 ELSE 0
<1> DEFINE m == FlagsBefore(k)
<1>1. m \in 0 .. k - 1 /\ \A j \in k - m .. k - 1 : IsFlag(j)
  BY DEF IsMax, Runs
<1>2. \A n \in Runs(k) : m >= n
  BY DEF IsMax
<1> HIDE DEF m
<1>3. FlagsBefore(k + 1) = Max(Runs(k + 1)) /\ Runs(k + 1) \subseteq Int
  BY DEF FlagsBefore, Runs
<1>4. CASE IsFlag(k)
  <2>1. m + 1 \in Runs(k + 1)
    <3>1. \A j \in (k + 1) - (m + 1) .. (k + 1) - 1 : j = k \/ j \in k - m .. k - 1
      BY <1>1
    <3>2. m + 1 \in 0 .. (k + 1) - 1
      BY <1>1
    <3> QED
      BY <1>1, <1>4, <3>1, <3>2 DEF Runs
  <2>2. ASSUME NEW n \in Runs(k + 1) PROVE m + 1 >= n
    <3>1. n \in 0 .. k /\ \A j \in (k + 1) - n .. (k + 1) - 1 : IsFlag(j)
      BY DEF Runs
    <3>2. CASE n = 0
      BY <1>1, <3>2
    <3>3. CASE n > 0
      <4>1. n - 1 \in 0 .. k - 1
        BY <3>1, <3>3
      <4>2. \A j \in k - (n - 1) .. k - 1 : j \in (k + 1) - n .. (k + 1) - 1
        BY <3>1, <3>3
      <4>3. n - 1 \in Runs(k)
        BY <3>1, <4>1, <4>2 DEF Runs
      <4> QED
        BY <1>1, <1>2, <3>1, <4>3
    <3> QED
      BY <3>1, <3>2, <3>3
  <2>3. IsMax(m + 1, Runs(k + 1))
    BY <2>1, <2>2 DEF IsMax
  <2> QED
    BY <1>1, <1>3, <1>4, <2>3, MaxIsMax DEF m
<1>5. CASE ~IsFlag(k)
  <2>1. 0 \in Runs(k + 1)
    BY DEF Runs
  <2>2. ASSUME NEW n \in Runs(k + 1) PROVE n = 0
    <3>1. n \in 0 .. k /\ \A j \in (k + 1) - n .. (k + 1) - 1 : IsFlag(j)
      BY DEF Runs
    <3>2. n > 0 => k \in (k + 1) - n .. (k + 1) - 1
      BY <3>1
    <3> QED
      BY <1>5, <3>1, <3>2
  <2>3. IsMax(0, Runs(k + 1))
    BY <2>1, <2>2 DEF IsMax
  <2> QED
    BY <1>1, <1>3, <1>5, <2>3, MaxIsMax DEF m
<1> QED
  BY <1>4, <1>5

(* What argument n adds to what the arguments before it name.               *)
LEMMA NextValue ==
  ASSUME NEW flags, NEW n \in Nat \ {0}, NEW default
  PROVE  LastValue(flags, n + 1, default) =
           IF n >= 2 /\ IsValue(n) /\ argv[n - 1] \in flags THEN argv[n]
           ELSE LastValue(flags, n, default)
<1> DEFINE Given(k) == {j \in 2 .. k - 1 : IsValue(j) /\ argv[j - 1] \in flags}
           new == n >= 2 /\ IsValue(n) /\ argv[n - 1] \in flags
<1>1. LastValue(flags, n + 1, default)
        = IF Given(n + 1) = {} THEN default ELSE argv[Max(Given(n + 1))]
  BY DEF LastValue
<1>2. LastValue(flags, n, default)
        = IF Given(n) = {} THEN default ELSE argv[Max(Given(n))]
  BY DEF LastValue
<1>3. CASE new
  <2>1. n \in Given(n + 1)
    BY <1>3
  <2>2. Given(n + 1) \subseteq 2 .. n
    OBVIOUS
  <2>3. IsMax(n, Given(n + 1)) /\ Given(n + 1) \subseteq Int
    BY <2>1, <2>2 DEF IsMax
  <2> HIDE DEF Given
  <2>4. Max(Given(n + 1)) = n
    BY <2>3, MaxIsMax
  <2> QED
    BY <1>1, <1>3, <2>1, <2>4
<1>4. CASE ~new
  <2>1. Given(n + 1) = Given(n)
    BY <1>4
  <2> QED
    BY <1>1, <1>2, <1>4, <2>1
<1> QED
  BY <1>3, <1>4

-----------------------------------------------------------------------------
(* The loop. *)

(* Before the first argument nothing is named but the default.              *)
LEMMA ArgumentsInitially == Init => ArgumentsInv
<1> SUFFICES ASSUME Init PROVE ArgumentsInv
  OBVIOUS
<1>1. PICK n \in 0 .. MaxArgs : argv \in [1 .. n -> Values]
  BY DEF Init
<1>2. argv \in Seq(Values) /\ Len(argv) = n /\ n \in Nat
  BY <1>1, ArgumentsAssumption
<1>3. TypeOK
  BY <1>2, ArgumentsAssumption DEF Init, TypeOK, Values
<1>4. Runs(1) = {0}
  BY DEF Runs
<1>5. IsMax(0, Runs(1)) /\ Runs(1) \subseteq Int
  BY <1>4 DEF IsMax
<1>6. FlagsBefore(1) = 0
  <2>1. FlagsBefore(1) = Max(Runs(1))
    BY DEF FlagsBefore, Runs
  <2> QED
    BY <1>5, <2>1, MaxIsMax
<1>7. ~IsValue(1)
  BY <1>6 DEF IsValue
<1>8. \A flags, default : LastValue(flags, 1, default) = default
  BY DEF LastValue
<1>9. NamesAreTheArguments
  BY <1>8 DEF Init, NamesAreTheArguments
<1> QED
  BY <1>3, <1>5, <1>6, <1>7, <1>9 DEF Init, ArgumentsInv, StartsWithBothNames

(* What the rounds of the loop begin with.                                  *)
LEMMA RoundFacts ==
  ASSUME ArgumentsInv
  PROVE  /\ argv \in Seq(Values) /\ Len(argv) \in Nat
         /\ \A k \in 1 .. Len(argv) : argv[k] \in Values
         /\ i \in Nat \ {0} /\ i <= Len(argv) + 1
         /\ IsMax(FlagsBefore(i), Runs(i)) /\ FlagsBefore(i) \in Nat
<1>1. argv \in Seq(Values) /\ i \in 1 .. Len(argv) + 1
  BY DEF ArgumentsInv, TypeOK
<1>2. IsMax(FlagsBefore(i), Runs(i)) /\ i \in Nat \ {0}
  BY <1>1 DEF ArgumentsInv
<1> QED
  BY <1>1, <1>2, NextRun

(* A flag with a value: two arguments are passed, of which only the second  *)
(* is a value.                                                             *)
LEMMA TwoPassed ==
  ASSUME ArgumentsInv, NEW flags, flags \subseteq PcapFlags \cup OutFlags,
         TakesNext(flags)
  PROVE  /\ IsMax(FlagsBefore(i + 2), Runs(i + 2)) /\ ~IsValue(i + 2)
         /\ \A f, default : LastValue(f, i + 2, default) =
              IF argv[i] \in f THEN argv[i + 1] ELSE LastValue(f, i, default)
<1>1. /\ i \in Nat \ {0} /\ Len(argv) \in Nat /\ i < Len(argv) /\ IsFlag(i)
      /\ ~IsValue(i) /\ FlagsBefore(i) \in Nat
      /\ IsMax(FlagsBefore(i), Runs(i))
  BY RoundFacts DEF ArgumentsInv, TakesNext, IsFlag
<1>2. /\ IsMax(FlagsBefore(i + 1), Runs(i + 1))
      /\ FlagsBefore(i + 1) = FlagsBefore(i) + 1
  BY <1>1, NextRun
<1>3. /\ IsMax(FlagsBefore(i + 2), Runs(i + 2))
      /\ FlagsBefore(i + 2) = IF IsFlag(i + 1) THEN FlagsBefore(i) + 2 ELSE 0
  <2>1. (i + 1) + 1 = i + 2 /\ i + 1 \in Nat \ {0}
    BY <1>1
  <2>2. /\ IsMax(FlagsBefore((i + 1) + 1), Runs((i + 1) + 1))
        /\ FlagsBefore((i + 1) + 1) = IF IsFlag(i + 1) THEN FlagsBefore(i + 1) + 1 ELSE 0
    BY <1>2, <2>1, NextRun
  <2> QED
    BY <1>1, <1>2, <2>1, <2>2
<1>4. IsValue(i + 1) /\ ~IsValue(i + 2)
  BY <1>1, <1>2, <1>3 DEF IsValue
<1>5. ASSUME NEW f, NEW default
      PROVE  LastValue(f, i + 2, default) =
               IF argv[i] \in f THEN argv[i + 1] ELSE LastValue(f, i, default)
  <2>1. LastValue(f, i + 1, default) = LastValue(f, i, default)
    BY <1>1, NextValue
  <2>2. LastValue(f, (i + 1) + 1, default) =
          IF i + 1 >= 2 /\ IsValue(i + 1) /\ argv[(i + 1) - 1] \in f THEN argv[i + 1]
          ELSE LastValue(f, i + 1, default)
    <3>1. i + 1 \in Nat \ {0}
      BY <1>1
    <3> QED
      BY <3>1, NextValue
  <2>3. (i + 1) + 1 = i + 2 /\ (i + 1) - 1 = i /\ i + 1 >= 2
    BY <1>1
  <2> QED
    BY <1>4, <2>1, <2>2, <2>3
<1> QED
  BY <1>3, <1>4, <1>5

(* Any other argument is no value, and neither is the one behind it.        *)
LEMMA OnePassed ==
  ASSUME ArgumentsInv, i <= Len(argv), ~TakesNext(PcapFlags \cup OutFlags)
  PROVE  /\ IsMax(FlagsBefore(i + 1), Runs(i + 1))
         /\ i + 1 <= Len(argv) => ~IsValue(i + 1)
         /\ \A f, default : LastValue(f, i + 1, default) = LastValue(f, i, default)
<1>1. /\ i \in Nat \ {0} /\ Len(argv) \in Nat
      /\ ~IsValue(i) /\ FlagsBefore(i) \in Nat
      /\ IsMax(FlagsBefore(i), Runs(i))
  BY RoundFacts DEF ArgumentsInv
<1>2. /\ IsMax(FlagsBefore(i + 1), Runs(i + 1))
      /\ FlagsBefore(i + 1) = IF IsFlag(i) THEN FlagsBefore(i) + 1 ELSE 0
  BY <1>1, NextRun
<1>3. i + 1 <= Len(argv) => ~IsFlag(i)
  BY <1>1 DEF TakesNext, IsFlag
<1>4. i + 1 <= Len(argv) => ~IsValue(i + 1)
  BY <1>2, <1>3 DEF IsValue
<1>5. \A f, default : LastValue(f, i + 1, default) = LastValue(f, i, default)
  BY <1>1, NextValue
<1> QED
  BY <1>2, <1>4, <1>5

(* The arguments do not change: what is said of the next index is said of   *)
(* the arguments there are.                                                *)
LEMMA SameArguments ==
  ASSUME argv' = argv, NEW k, i' = k
  PROVE  /\ IsMax(FlagsBefore(i), Runs(i))' <=> IsMax(FlagsBefore(k), Runs(k))
         /\ IsValue(i)' <=> IsValue(k)
         /\ \A f, default : LastValue(f, i, default)' = LastValue(f, k, default)
         /\ StartsWithBothNames'
              <=> (started' # "no" =>
                    (started' = "yes" <=>
                      /\ LastValue(PcapFlags, Len(argv) + 1, NoName) # NoName
                      /\ LastValue(OutFlags, Len(argv) + 1, DefaultOutput) # NoName))
<1>1. FlagsBefore(i)' = FlagsBefore(k)
  BY DEF FlagsBefore, IsFlag
<1>2. Runs(i)' = Runs(k)
  BY DEF Runs, IsFlag
<1>3. IsMax(FlagsBefore(i), Runs(i))' <=> IsMax(FlagsBefore(k), Runs(k))
  BY <1>1, <1>2 DEF IsMax
<1>4. IsValue(i)' <=> IsValue(k)
  BY <1>1 DEF IsValue
<1>5. \A f, default : LastValue(f, i, default)' = LastValue(f, k, default)
  BY DEF LastValue, IsValue, FlagsBefore, IsFlag
<1>6. StartsWithBothNames'
        <=> (started' # "no" =>
              (started' = "yes" <=>
                /\ LastValue(PcapFlags, Len(argv) + 1, NoName) # NoName
                /\ LastValue(OutFlags, Len(argv) + 1, DefaultOutput) # NoName))
  BY DEF StartsWithBothNames, LastValue, IsValue, FlagsBefore, IsFlag
<1> QED
  BY <1>3, <1>4, <1>5, <1>6

(* Each round of the loop, and the decision to start, keep the invariant.   *)
LEMMA ArgumentsStep ==
  ASSUME ArgumentsInv, [Next]_vars
  PROVE  ArgumentsInv'
<1>1. /\ argv \in Seq(Values) /\ Len(argv) \in Nat
      /\ \A k \in 1 .. Len(argv) : argv[k] \in Values
      /\ i \in Nat \ {0} /\ i <= Len(argv) + 1
      /\ TypeOK /\ NamesAreTheArguments
  BY RoundFacts DEF ArgumentsInv
<1>2. argv' = argv
  BY DEF Next, TakePcapFile, TakeOutputFile, IgnoreArgument, Start, Running, vars
<1>3. CASE TakePcapFile
  <2>1. /\ started = "no" /\ TakesNext(PcapFlags) /\ i < Len(argv)
        /\ pcapDumpFile' = argv[i + 1] /\ i' = i + 2
        /\ UNCHANGED <<outputFile, started>>
        /\ argv[i] \in PcapFlags /\ argv[i] \notin OutFlags
    BY <1>3, ArgumentsAssumption DEF TakePcapFile, TakesNext
  <2>2. i' \in 1 .. Len(argv) + 1 /\ argv[i + 1] \in Values
    BY <1>1, <2>1
  <2>3. TypeOK'
    BY <1>1, <1>2, <2>1, <2>2 DEF TypeOK
  <2>4. /\ IsMax(FlagsBefore(i + 2), Runs(i + 2)) /\ ~IsValue(i + 2)
        /\ LastValue(PcapFlags, i + 2, NoName) = pcapDumpFile'
        /\ LastValue(OutFlags, i + 2, DefaultOutput) = outputFile'
    BY <1>1, <2>1, TwoPassed DEF NamesAreTheArguments
  <2>5. NamesAreTheArguments'
    BY <1>2, <2>1, <2>4, SameArguments DEF NamesAreTheArguments
  <2>6. StartsWithBothNames'
    BY <2>1 DEF StartsWithBothNames
  <2> QED
    BY <1>2, <2>1, <2>3, <2>4, <2>5, <2>6, SameArguments DEF ArgumentsInv
<1>4. CASE TakeOutputFile
  <2>1. /\ started = "no" /\ TakesNext(OutFlags) /\ i < Len(argv)
        /\ outputFile' = argv[i + 1] /\ i' = i + 2
        /\ UNCHANGED <<pcapDumpFile, started>>
        /\ argv[i] \in OutFlags /\ argv[i] \notin PcapFlags
    BY <1>4, ArgumentsAssumption DEF TakeOutputFile, TakesNext
  <2>2. i' \in 1 .. Len(argv) + 1 /\ argv[i + 1] \in Values
    BY <1>1, <2>1
  <2>3. TypeOK'
    BY <1>1, <1>2, <2>1, <2>2 DEF TypeOK
  <2>4. /\ IsMax(FlagsBefore(i + 2), Runs(i + 2)) /\ ~IsValue(i + 2)
        /\ LastValue(PcapFlags, i + 2, NoName) = pcapDumpFile'
        /\ LastValue(OutFlags, i + 2, DefaultOutput) = outputFile'
    BY <1>1, <2>1, TwoPassed DEF NamesAreTheArguments
  <2>5. NamesAreTheArguments'
    BY <1>2, <2>1, <2>4, SameArguments DEF NamesAreTheArguments
  <2>6. StartsWithBothNames'
    BY <2>1 DEF StartsWithBothNames
  <2> QED
    BY <1>2, <2>1, <2>3, <2>4, <2>5, <2>6, SameArguments DEF ArgumentsInv
<1>5. CASE IgnoreArgument
  <2>1. /\ started = "no" /\ i <= Len(argv) /\ i' = i + 1
        /\ ~TakesNext(PcapFlags \cup OutFlags)
        /\ UNCHANGED <<pcapDumpFile, outputFile, started>>
    BY <1>5 DEF IgnoreArgument
  <2>2. i' \in 1 .. Len(argv) + 1
    BY <1>1, <2>1
  <2>3. TypeOK'
    BY <1>1, <1>2, <2>1, <2>2 DEF TypeOK
  <2>4. /\ IsMax(FlagsBefore(i + 1), Runs(i + 1))
        /\ i + 1 <= Len(argv) => ~IsValue(i + 1)
        /\ LastValue(PcapFlags, i + 1, NoName) = pcapDumpFile'
        /\ LastValue(OutFlags, i + 1, DefaultOutput) = outputFile'
    BY <1>1, <2>1, OnePassed DEF NamesAreTheArguments
  <2>5. NamesAreTheArguments'
    BY <1>2, <2>1, <2>4, SameArguments DEF NamesAreTheArguments
  <2>6. StartsWithBothNames'
    BY <2>1 DEF StartsWithBothNames
  <2> QED
    BY <1>2, <2>1, <2>3, <2>4, <2>5, <2>6, SameArguments DEF ArgumentsInv
<1>6. CASE Start
  <2>1. /\ UNCHANGED <<argv, i, pcapDumpFile, outputFile>> /\ i = Len(argv) + 1
        /\ started' = IF NamesMissing THEN "usage" ELSE "yes"
    BY <1>1, <1>6 DEF Start
  <2>2. TypeOK'
    BY <1>1, <2>1 DEF TypeOK
  <2>3. NamesAreTheArguments'
    BY <1>1, <2>1, SameArguments DEF NamesAreTheArguments
  <2>4. StartsWithBothNames'
    <3>1. started' = "yes" <=> pcapDumpFile # NoName /\ outputFile # NoName
      BY <2>1 DEF NamesMissing
    <3>2. /\ pcapDumpFile = LastValue(PcapFlags, Len(argv) + 1, NoName)
          /\ outputFile = LastValue(OutFlags, Len(argv) + 1, DefaultOutput)
      BY <1>1, <2>1 DEF NamesAreTheArguments
    <3> QED
      BY <2>1, <3>1, <3>2, SameArguments
  <2> QED
    BY <2>1, <2>2, <2>3, <2>4, SameArguments DEF ArgumentsInv
<1>7. CASE Running \/ UNCHANGED vars
  <2>1. UNCHANGED <<argv, i, pcapDumpFile, outputFile, started>>
    BY <1>7 DEF Running, vars
  <2>2. TypeOK'
    BY <1>1, <2>1 DEF TypeOK
  <2>3. NamesAreTheArguments'
    BY <1>1, <2>1, SameArguments DEF NamesAreTheArguments
  <2>4. StartsWithBothNames'
    BY <2>1, SameArguments DEF ArgumentsInv, StartsWithBothNames
  <2> QED
    BY <2>1, <2>2, <2>3, <2>4, SameArguments DEF ArgumentsInv
<1> QED
  BY <1>3, <1>4, <1>5, <1>6, <1>7 DEF Next

(* The loop of main and the decision behind it always keep ArgumentsInv.    *)
THEOREM ArgumentsInvariant == Spec => []ArgumentsInv
BY ArgumentsInitially, ArgumentsStep, PTL DEF Spec

(* Every variable has its type; the index passes the end only by one.       *)
THEOREM ArgumentsTypeCorrect == Spec => []TypeOK
<1>1. ArgumentsInv => TypeOK
  BY DEF ArgumentsInv
<1> QED
  BY <1>1, ArgumentsInvariant, PTL

(* The loop of main takes each name from where the command line has it,     *)
(* whatever flags stand in for names and however they are repeated.         *)
THEOREM NamesAreTheArgumentsAlways == Spec => []NamesAreTheArguments
<1>1. ArgumentsInv => NamesAreTheArguments
  BY DEF ArgumentsInv
<1> QED
  BY <1>1, ArgumentsInvariant, PTL

(* The parser starts exactly with an input and an output.                   *)
THEOREM StartsWithBothNamesAlways == Spec => []StartsWithBothNames
<1>1. ArgumentsInv => StartsWithBothNames
  BY DEF ArgumentsInv
<1> QED
  BY <1>1, ArgumentsInvariant, PTL
==============================================================================
