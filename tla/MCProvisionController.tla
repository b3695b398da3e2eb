---------------------- MODULE MCProvisionController ----------------------
(* Instances of ProvisionController for TLC; the constants are in the .cfg. *)
EXTENDS ProvisionController, TLC

\* The controllers are interchangeable (used in safety runs only).
ControllerSymmetry == Permutations(Controllers)
=============================================================================
