---------------------------- MODULE MCChangingFile ----------------------------
(***************************************************************************)
(* Captures of up to two chunks and a bit, two pages each, that other       *)
(* processes shorten at any moment and by any amount.                      *)
(***************************************************************************)
EXTENDS ChangingFile

MCFileSizes == {0, 1, 2, 3, 4, 8, 11, 17}

MCInclLens == {0, 2, 5}
===============================================================================
