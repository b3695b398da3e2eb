--------------------------- MODULE MCSharedConfig ---------------------------
(* Instances of SharedConfig for TLC; the bounds are in the .cfg files.     *)
EXTENDS SharedConfig, TLC

CONSTANTS Gold, Silver, Pool, FsType, A, B, S1, S2

\* Both classes name a pool; only Gold names a filesystem type, and one of
\* the two network spaces.
MCDefault == Pool :> A @@ FsType :> A
MCParams == Gold :> (Pool :> B @@ FsType :> B) @@ Silver :> (Pool :> A)
\* The same without the filesystem type.
MCPoolDefault == Pool :> A
MCPoolParams == Gold :> (Pool :> B) @@ Silver :> (Pool :> A)
MCClassSpaces == Gold :> {S1} @@ Silver :> {}
=============================================================================
