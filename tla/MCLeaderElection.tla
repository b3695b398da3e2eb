-------------------------- MODULE MCLeaderElection --------------------------
(* An instance of LeaderElection for TLC; the constants are in the .cfg file. *)
EXTENDS LeaderElection
=============================================================================
