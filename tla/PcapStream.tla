------------------------------ MODULE PcapStream ------------------------------
(***************************************************************************)
(* What a reader of a capture file promises, whatever its buffering: it    *)
(* walks the file once from the front, and every packet it hands on is the *)
(* run of bytes that follows that packet's header in the file.  The reader *)
(* may stop at any point.  A byte is identified with its file offset.      *)
(***************************************************************************)
EXTENDS Integers

CONSTANTS
  FileHeaderSize,    \* bytes of the capture file header
  PacketHeaderSize,  \* bytes of a packet header
  Lengths            \* the captured lengths a packet header may announce

VARIABLES
  size,      \* bytes in the file
  position,  \* the first byte not consumed
  phase,     \* what comes next: "start", "header", "data" or "end"
  length,    \* the captured length in the last packet header
  packet     \* the last packet handed on

streamVars == <<size, position, phase, length, packet>>

StreamInit ==
  /\ size \in Nat
  /\ position = 0
  /\ phase = "start"
  /\ length = 0
  /\ packet = [k \in 0 .. -1 |-> k]

(* A file too short for its header is walked from its first byte. *)
TakeFileHeader ==
  /\ phase = "start"
  /\ phase' = "header"
  /\ position' = IF FileHeaderSize <= size THEN FileHeaderSize ELSE 0
  /\ UNCHANGED <<size, length, packet>>

TakePacketHeader ==
  /\ phase = "header"
  /\ position + PacketHeaderSize <= size
  /\ position' = position + PacketHeaderSize
  /\ length' \in Lengths
  /\ phase' = "data"
  /\ UNCHANGED <<size, packet>>

TakePacketData ==
  /\ phase = "data"
  /\ position + length <= size
  /\ packet' = [k \in 0 .. length - 1 |-> position + k]
  /\ position' = position + length
  /\ phase' = "header"
  /\ UNCHANGED <<size, length>>

Stop ==
  /\ phase' = "end"
  /\ UNCHANGED <<size, position, length, packet>>

StreamNext ==
  \/ TakeFileHeader
  \/ TakePacketHeader
  \/ TakePacketData
  \/ Stop

StreamSpec == StreamInit /\ [][StreamNext]_streamVars
===============================================================================
