------------------------------- MODULE MCOutput -------------------------------
(***************************************************************************)
(* Short captures of every kind of packet: what each renders, flushes every *)
(* two packets, writes that fail, exceptions and crashes.                  *)
(***************************************************************************)
EXTENDS PCAPParserProperties

MCFileSizes == 0 .. 14

(* Too short for Ethernet, too short for IPv4, long enough.                 *)
MCInclLens == {0, 1, 2}
===============================================================================
