------------------------------- MODULE Arguments -------------------------------
(***************************************************************************)
(* main, src/main.cpp: the loop over the arguments, one action per round,  *)
(* and the decision to start.  An argument is the name of a flag or of a   *)
(* file; a file name is any other value, NoName the empty string.           *)
(***************************************************************************)
EXTENDS Integers, Sequences, FiniteSetsExt

CONSTANTS
  PcapFlags,      \* "-p" and "--pcap_dump"
  OutFlags,       \* "-o" and "--out"
  Names,          \* the other values an argument may have
  NoName,         \* ""
  DefaultOutput,  \* "output.json"
  MaxArgs         \* bound: the most arguments given

ASSUME ArgumentsAssumption ==
  /\ PcapFlags \cap OutFlags = {}
  /\ (PcapFlags \cup OutFlags) \cap Names = {}
  /\ {NoName, DefaultOutput} \subseteq Names
  /\ NoName # DefaultOutput
  /\ MaxArgs \in Nat

VARIABLES
  argv,          \* without the name of the program
  i,             \* the argument to look at next
  pcapDumpFile, outputFile,
  started        \* "no", "yes", or "usage" when the usage was printed instead

vars == <<argv, i, pcapDumpFile, outputFile, started>>

Values == PcapFlags \cup OutFlags \cup Names

-----------------------------------------------------------------------------
Init ==
  /\ argv \in UNION {[1 .. n -> Values] : n \in 0 .. MaxArgs}
  /\ i = 1
  /\ pcapDumpFile = NoName
  /\ outputFile = DefaultOutput
  /\ started = "no"

(* mutant: a flag is no value of another *)
TakesNextUnlessFlag(flags) ==
  /\ i < Len(argv)
  /\ argv[i] \in flags
  /\ argv[i + 1] \in Names

(* arg is one of the flags, and another argument follows.                   *)
TakesNext(flags) ==
  /\ i < Len(argv)
  /\ argv[i] \in flags

TakePcapFile ==
  /\ started = "no"
  /\ TakesNext(PcapFlags)
  /\ pcapDumpFile' = argv[i + 1]
  /\ i' = i + 2
  /\ UNCHANGED <<argv, outputFile, started>>

TakeOutputFile ==
  /\ started = "no"
  /\ TakesNext(OutFlags)
  /\ outputFile' = argv[i + 1]
  /\ i' = i + 2
  /\ UNCHANGED <<argv, pcapDumpFile, started>>

(* mutant: the loop looks at the null pointer behind the last argument *)
IgnoreArgumentAndEnd ==
  /\ started = "no"
  /\ i <= Len(argv) + 1
  /\ ~TakesNext(PcapFlags \cup OutFlags)
  /\ i' = i + 1
  /\ UNCHANGED <<argv, pcapDumpFile, outputFile, started>>

(* Everything else is passed over, a flag at the end included.              *)
IgnoreArgument ==
  /\ started = "no"
  /\ i <= Len(argv)
  /\ ~TakesNext(PcapFlags \cup OutFlags)
  /\ i' = i + 1
  /\ UNCHANGED <<argv, pcapDumpFile, outputFile, started>>

(* mutant: the usage is printed only if both names are missing *)
NamesMissingBoth == pcapDumpFile = NoName /\ outputFile = NoName

NamesMissing == pcapDumpFile = NoName \/ outputFile = NoName

(* The usage and EXIT_FAILURE, or the parser.                               *)
Start ==
  /\ started = "no"
  /\ i > Len(argv)
  /\ started' = IF NamesMissing THEN "usage" ELSE "yes"
  /\ UNCHANGED <<argv, i, pcapDumpFile, outputFile>>

Running ==
  /\ started # "no"
  /\ UNCHANGED vars

Next ==
  \/ TakePcapFile
  \/ TakeOutputFile
  \/ IgnoreArgument
  \/ Start
  \/ Running

Spec == Init /\ [][Next]_vars
===============================================================================
