------------------------------- MODULE MCPayload -------------------------------
(***************************************************************************)
(* Packets of each kind, captured up to every length at which the code     *)
(* decides something or a span begins or ends.                             *)
(***************************************************************************)
EXTENDS PayloadProperties

Captured == {0, 13, 14, 33, 34, 39, 40, 41, 42, 43, 46, 60, 79, 80, 100}

NotIPv4 ==
  [captured : Captured, ipv4 : {FALSE}, headerWords : {5}, laterFragment : {FALSE},
   protocol : {"other"}, addressNibble : {0}, transportWords : {2}, data : {0},
   declared : {0}]

Other ==
  [captured : Captured, ipv4 : {TRUE}, headerWords : {5}, laterFragment : {FALSE},
   protocol : {"other"}, addressNibble : {0}, transportWords : {2}, data : {0},
   declared : {0}]

Tcp ==
  [captured : Captured, ipv4 : {TRUE}, headerWords : {5, 6, 15},
   laterFragment : {FALSE}, protocol : {"TCP"}, addressNibble : {0, 1, 5, 6, 15},
   transportWords : {5, 8}, data : {0, 1, 6, 26}, declared : {0}]

Udp ==
  [captured : Captured, ipv4 : {TRUE}, headerWords : {5, 6, 15},
   laterFragment : BOOLEAN, protocol : {"UDP"}, addressNibble : {0},
   transportWords : {2}, data : {0, 1, 4, 38}, declared : {0, 7, 8, 9, 12, 46, 47}]

MCPackets == NotIPv4 \cup Other \cup Tcp \cup Udp
===============================================================================
