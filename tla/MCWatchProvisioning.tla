------------------------ MODULE MCWatchProvisioning ------------------------
(* Instance of WatchProvisioning for TLC; the constants are in the .cfg.    *)
EXTENDS WatchProvisioning
=============================================================================
