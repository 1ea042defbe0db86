------------------------------ MODULE MCGateway -------------------------------
(***************************************************************************)
(* Three requests, limits of one and two, and a clock that turns often      *)
(* enough for a counter to expire.                                         *)
(***************************************************************************)
EXTENDS Gateway, TLC

MCSymmetry == Permutations(Requests)
===============================================================================
