---------------------------- MODULE MCRateLimit ----------------------------
(* A small instance of RateLimit for TLC.                                  *)
EXTENDS RateLimit, TLC

MCSymmetry == Permutations(Requests) \cup Permutations(Clients)
=============================================================================
