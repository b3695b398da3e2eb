------------------------- MODULE MCBlockProvisioner -------------------------
(* An instance of BlockProvisioner for TLC; the bounds are in the .cfg file. *)
EXTENDS BlockProvisioner, TLC

\* iSCSI on both kinds of arrays, FC on one that refuses to destroy mapped
\* volumes.
MCSetups == {[fc |-> FALSE, destroyMapped |-> TRUE],
             [fc |-> FALSE, destroyMapped |-> FALSE],
             [fc |-> TRUE, destroyMapped |-> FALSE]}

\* Workers, PV names and hosts, all of them nodes at first, are
\* interchangeable (used for invariants only).
Symmetry == Permutations(Workers) \cup Permutations(Names) \cup Permutations(Hosts)
=============================================================================
