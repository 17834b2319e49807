------------------------ MODULE MCCrossContractCall ------------------------
(* Instances of CrossContractCall for TLC.                                  *)
EXTENDS CrossContractCallRefinement, TLC

(* Every contract but the entry one may be exchanged for another.           *)
CalleeSymmetry == Permutations(Addr \ {Entry})
=============================================================================
