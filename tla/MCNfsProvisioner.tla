-------------------------- MODULE MCNfsProvisioner --------------------------
(* An instance of NfsProvisioner for TLC; the bounds are in the .cfg file.  *)
EXTENDS NfsProvisioner
=============================================================================
