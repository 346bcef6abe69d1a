------------------------------- MODULE MCReader -------------------------------
(***************************************************************************)
(* Captures of up to three chunks and a bit.  With EthernetHeaderSize above *)
(* every captured length an Ethernet capture ends at its first packet, and *)
(* captures of another link type run through: what is rendered stays small *)
(* and the window takes every shape.                                       *)
(***************************************************************************)
EXTENDS PCAPParserProperties

MCFileSizes == 0 .. 34

(* Empty packets; packets of up to a fifth of a chunk; larger than a fifth, *)
(* than a chunk, and than the buffer.                                       *)
MCInclLens == {0, 1, 2, 3, 10, 11, 13}
===============================================================================
