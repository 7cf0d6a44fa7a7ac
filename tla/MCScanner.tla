----------------------------- MODULE MCScanner -----------------------------
(* A small instance of Scanner for TLC: addresses of four bits, of which   *)
(* 8..11 are private, 4..7 in scope without being private (loopback), and  *)
(* the highest network is out of scope.                                    *)
EXTENDS Scanner

MCInScope == 4..11
MCPrivate == 8..11

(* A network that is private, one that is too broad, and two networks that *)
(* allow the ends of a range.                                              *)
MCAllowlists ==
    {{[base |-> 8, prefix |-> 2]},
     {[base |-> 0, prefix |-> 0]},
     {[base |-> 8, prefix |-> 4], [base |-> 10, prefix |-> 3]}}

MCPorts == <<80, 502, 443>>
=============================================================================
