--------------------------- MODULE MCGidAllocator ---------------------------
(* An instance of GidAllocator for TLC: the class has the default range, a  *)
(* smaller one at either end, and parameters that are refused.              *)
EXTENDS GidAllocator, TLC

MCParamSets == {NoParameters, "gidmax" :> 2, "gidmin" :> 2,
                "gidmax" :> 4}
Symmetry == Permutations(Volumes)
=============================================================================
