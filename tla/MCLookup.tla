------------------------------ MODULE MCLookup ------------------------------
(* Small instances of Lookup for TLC: indicators named after their kind.   *)
EXTENDS Lookup, TLC

MCKindOf   == [k \in Keys |-> k]
MCSymmetry == Permutations(Requests)
=============================================================================
