-------------------------- MODULE MCLookupService --------------------------
(* A small instance of LookupService for TLC.                              *)
EXTENDS LookupService

MCKindOf == [k \in Keys |-> k]
=============================================================================
