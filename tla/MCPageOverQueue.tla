--------------------------- MODULE MCPageOverQueue ----------------------------
(***************************************************************************)
(* A score job of the page and another job of the lead, over two workers.  *)
(***************************************************************************)
EXTENDS PageOverQueue, TLC

WorkerSymmetry == Permutations(Workers)
===============================================================================
