-------------------------- MODULE ArgumentsProperties --------------------------
(***************************************************************************)
(* Which files a command line names.                                       *)
(***************************************************************************)
EXTENDS Arguments

(* Every variable has its type; the index may pass the end only by one.      *)
TypeOK ==
  /\ argv \in Seq(Values)
  /\ i \in 1 .. Len(argv) + 1
  /\ pcapDumpFile \in Values
  /\ outputFile \in Values
  /\ started \in {"no", "yes", "usage"}

(* Without a loop: argument k is the value of the flag before it if the run *)
(* of flags that ends with that flag has an odd length, since flags in a   *)
(* row are alternately flags and values.                                   *)
IsFlag(k) == argv[k] \in PcapFlags \cup OutFlags

FlagsBefore(k) ==
  Max({n \in 0 .. k - 1 : \A j \in k - n .. k - 1 : IsFlag(j)})

IsValue(k) == FlagsBefore(k) % 2 = 1

(* The last value given with one of the flags, of those before position n.  *)
LastValue(flags, n, default) ==
  LET given == {k \in 2 .. n - 1 : IsValue(k) /\ argv[k - 1] \in flags}
  IN  IF given = {} THEN default ELSE argv[Max(given)]

(* At the head of the loop the names are those the arguments passed so far  *)
(* name: the last of each kind wins, a flag can be the value of another,    *)
(* and one without a value changes nothing.                                *)
NamesAreTheArguments ==
  /\ pcapDumpFile = LastValue(PcapFlags, i, NoName)
  /\ outputFile = LastValue(OutFlags, i, DefaultOutput)

(* The parser starts exactly when both files have a name, so that an input  *)
(* was given and the output was not given empty.                           *)
StartsWithBothNames ==
  started # "no" =>
    (started = "yes" <=>
       LET n == Len(argv) + 1
       IN  /\ LastValue(PcapFlags, n, NoName) # NoName
           /\ LastValue(OutFlags, n, DefaultOutput) # NoName)
===============================================================================
