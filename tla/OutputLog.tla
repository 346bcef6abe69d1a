------------------------------ MODULE OutputLog ------------------------------
(***************************************************************************)
(* What a program promises that collects its output in memory and writes   *)
(* it to a file in batches: the file only ever receives everything         *)
(* produced so far, in order and once; it is closed once, complete; and    *)
(* after a failed write or the end of the process it keeps some beginning. *)
(***************************************************************************)
EXTENDS SequencesExt

CONSTANTS
  Items,   \* what the output consists of
  Opening, \* what every output begins with
  Closing  \* what every complete output ends with

VARIABLES
  log,     \* everything produced so far
  stored,  \* the file
  status   \* of the file: "unopened", "open", "closed", "failed" or "lost"

logVars == <<log, stored, status>>

Complete == Append(log, Closing)

LogInit ==
  /\ log = <<>>
  /\ stored = <<>>
  /\ status = "unopened"

Open ==
  /\ status = "unopened"
  /\ status' = "open"
  /\ log' = <<Opening>>
  /\ UNCHANGED stored

(* Output goes on being produced for a file that takes no more of it.       *)
Produce ==
  /\ status \in {"open", "failed"}
  /\ log' \in Seq(Items)
  /\ IsPrefix(log, log')
  /\ UNCHANGED <<stored, status>>

Batch ==
  /\ status = "open"
  /\ stored' = log
  /\ UNCHANGED <<log, status>>

Close ==
  /\ status = "open"
  /\ stored' = Complete
  /\ status' = "closed"
  /\ UNCHANGED log

(* A batch or the last of it cannot be written, or not all of it.           *)
Fail ==
  /\ status = "open"
  /\ IsPrefix(stored', Complete)
  /\ status' = "failed"
  /\ UNCHANGED log

(* The process ends, and what the system had not got yet is lost.           *)
Lose ==
  /\ status \in {"open", "failed"}
  /\ IsPrefix(stored', stored)
  /\ status' = "lost"
  /\ UNCHANGED log

LogNext == Open \/ Produce \/ Batch \/ Close \/ Fail \/ Lose

LogSpec == LogInit /\ [][LogNext]_logVars
==============================================================================
