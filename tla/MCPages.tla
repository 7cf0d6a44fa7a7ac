------------------------------ MODULE MCPages ------------------------------
(* A small instance of Pages for TLC.                                      *)
EXTENDS Pages

MCTypeOf == [v \in Values |-> IF v = "address" THEN "ip" ELSE "url"]
=============================================================================
