--------------------------- MODULE MCNodeExports ---------------------------
(* Instances of NodeExports for TLC; the bounds are in the .cfg files.      *)
EXTENDS NodeExports
=============================================================================
