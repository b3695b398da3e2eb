--------------------------- MODULE ClaimLifecycle ---------------------------
(***************************************************************************)
(* What the provision controllers promise of the volume of a claim,        *)
(* without controllers, leases, retries and failures.                      *)
(*                                                                         *)
(* `sure' holds as long as every answer of the API server to the creation  *)
(* of a PV arrived.  After a lost answer the controllers no longer know    *)
(* which volumes exist, and storage may go before its volume is released.  *)
(***************************************************************************)
CONSTANTS
  Claims,   \* PersistentVolumeClaims
  Retain    \* claims whose volumes are kept

VARIABLES
  request,  \* request[c]: "absent", "pending", "bound" or "gone"
  volume,   \* volume[c]: phase of the PV, "none" if there is no PV
  backed,   \* backed[c]: the storage of the PV exists
  sure      \* no answer was lost

vars == <<request, volume, backed, sure>>

Init ==
  /\ request = [c \in Claims |-> "absent"]
  /\ volume = [c \in Claims |-> "none"]
  /\ backed = [c \in Claims |-> FALSE]
  /\ sure = TRUE

\* A user asks for a volume.
Request(c) ==
  /\ request[c] = "absent"
  /\ request' = [request EXCEPT ![c] = "pending"]
  /\ UNCHANGED <<volume, backed, sure>>

\* A user gives the claim up, with or without a volume.
Withdraw(c) ==
  /\ request[c] \in {"pending", "bound"}
  /\ request' = [request EXCEPT ![c] = "gone"]
  /\ UNCHANGED <<volume, backed, sure>>

\* A volume appears together with the storage behind it.
Provide(c) ==
  /\ volume[c] = "none"
  /\ volume' = [volume EXCEPT ![c] = "available"]
  /\ sure' \in {sure, FALSE}
  /\ \E b \in BOOLEAN : (b \/ ~sure) /\ backed' = [backed EXCEPT ![c] = b]
  /\ UNCHANGED request

Bind(c) ==
  /\ request[c] = "pending"
  /\ volume[c] = "available"
  /\ request' = [request EXCEPT ![c] = "bound"]
  /\ volume' = [volume EXCEPT ![c] = "bound"]
  /\ UNCHANGED <<backed, sure>>

Release(c) ==
  /\ request[c] = "gone"
  /\ volume[c] \in {"available", "bound"}
  /\ volume' = [volume EXCEPT ![c] = "released"]
  /\ UNCHANGED <<request, backed, sure>>

\* The user of the volume is gone and nobody wants it kept.
Disposable(c) == volume[c] = "released" /\ c \notin Retain

\* The storage is destroyed first ...
Destroy(c) ==
  /\ backed[c]
  /\ Disposable(c) \/ ~sure
  /\ backed' = [backed EXCEPT ![c] = FALSE]
  /\ UNCHANGED <<request, volume, sure>>

\* ... and the volume removed after it.
Remove(c) ==
  /\ volume[c] # "none"
  /\ ~backed[c]
  /\ Disposable(c) \/ ~sure
  /\ volume' = [volume EXCEPT ![c] = "none"]
  /\ UNCHANGED <<request, backed, sure>>

Next ==
  \E c \in Claims :
    \/ Request(c) \/ Withdraw(c) \/ Provide(c) \/ Bind(c) \/ Release(c)
    \/ Destroy(c) \/ Remove(c)

Spec == Init /\ [][Next]_vars
=============================================================================
