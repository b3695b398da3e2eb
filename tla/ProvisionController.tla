------------------------ MODULE ProvisionController ------------------------
(***************************************************************************)
(* lib/controller/controller.go: several replicas of the provisioner       *)
(* ("controllers") watch claims, race for a per-claim lease, provision a   *)
(* storage asset on the InfiniBox, save a PersistentVolume (PV) for it and *)
(* later delete both.                                                      *)
(*                                                                         *)
(* The PV of a claim has the deterministic name "k8s-<claim UID>", so each *)
(* claim has at most one PV object at a time.  The array names the asset   *)
(* after the PV and refuses a second asset of that name, so a claim has at *)
(* most one asset at a time; each asset gets a fresh numeric id, which the *)
(* PV records and by which it is deleted.  A PV's UID is identified with   *)
(* the id of its asset.                                                    *)
(*                                                                         *)
(* What the model leaves out.  The claims are those whose                  *)
(* volume.beta.kubernetes.io/storage-provisioner annotation names a        *)
(* registered provisioner (Kubernetes 1.8 or later).  Back-off and sleeps  *)
(* are delays: the step they postpone may come at any later time.  The     *)
(* lease's clocks are module LeaderElection; here a controller acquires    *)
(* only when no other one is in its renew loop.  Provision and Delete of   *)
(* the back ends are one array call each, which may fail with or without   *)
(* having taken effect.                                                    *)
(***************************************************************************)
EXTENDS Integers, FiniteSets

CONSTANTS
  Controllers,  \* replicas of the provisioner
  Claims,       \* PersistentVolumeClaims, by UID
  Retain,       \* claims whose class has reclaimPolicy Retain
  RetryCount,   \* createProvisionedPVRetryCount
  Threshold,    \* failedProvisionThreshold and failedDeleteThreshold; 0 = off
  Faults,       \* the kinds of fault that may happen
  MaxFaults,    \* bound: how many faults happen
  MaxId,        \* bound: assets ever created for one claim
  Nobody        \* the holder of a lease that names no running controller

\* apiError: a Kubernetes call fails without effect; removeError: it is the
\* Delete of a PV.  apiLostAck: a PV Create is applied but reports an error.
\* arrayError: Provision or Delete fails without effect.  arrayLostAck: it
\* takes effect (or fails to roll back) and reports an error.  noClass: the
\* StorageClass is missing from the cache.  namesake: a claim of the same name in
\* another namespace ends a candidate's wait.  panic: a controller brought itself
\* down at a threshold (never one of Faults: the code does it on its own).
FaultKinds ==
  {"apiError", "removeError", "apiLostAck", "arrayError", "arrayLostAck",
   "noClass", "namesake", "crash", "panic"}

ASSUME ConstantsAssumption ==
  /\ Retain \subseteq Claims
  /\ RetryCount \in Nat \ {0}
  /\ Threshold \in Nat
  /\ Faults \subseteq FaultKinds \ {"panic"}
  /\ MaxFaults \in Nat
  /\ MaxId \in Nat
  /\ Nobody \notin Controllers

Ids == 1 .. MaxId
NoPV == [id |-> 0, phase |-> "none"]
Idle == [pc |-> "off", id |-> 0, tries |-> 0]
Checking == [pc |-> "check", id |-> 0, tries |-> 0]
Creating == [pc |-> "create", id |-> 0, tries |-> 0]
Saving(i) == [pc |-> "save", id |-> i, tries |-> 0]

VARIABLES
  claim,      \* claim[c]: the claim object on the API server
  pv,         \* pv[c]: the PV object of claim c
  holder,     \* holder[c]: the lease annotation on the claim
  announced,  \* claims with a ProvisioningSucceeded event
  asset,      \* asset[c]: id of the claim's asset on the array, 0 if none
  nextId,     \* nextId[c]: the id the array gives the next asset of c
  faults,     \* the kinds of fault that happened so far, and how many may follow
  up,         \* up[k]: the process of controller k runs
  seen,       \* seen[k][c]: the claim in k's informer cache
  lock,       \* lock[k][c]: k's lock-provision operation for c
  observed,   \* observed[k][c]: k has an elector for c and it says IsLeader()
  prov,       \* prov[k][c]: k's provision operation for c
  provFails,  \* provFails[k][c]: failedProvisionStats
  del,        \* del[k][c][i]: k's delete operation for the PV of asset i
  delFails    \* delFails[k][c][i]: failedDeleteStats

apiVars == <<claim, pv, holder, announced>>
arrayVars == <<asset, nextId>>
lockVars == <<lock, observed>>
provVars == <<prov, provFails>>
delVars == <<del, delFails>>
vars == <<apiVars, arrayVars, faults, up, seen, lockVars, provVars, delVars>>

ClaimStates == {"absent", "pending", "bound", "gone"}
PVType == [id : 0 .. MaxId, phase : {"none", "available", "bound", "released"}]
ProvType == [pc : {"off", "check", "create", "save", "cleanup"},
             id : 0 .. MaxId, tries : 0 .. RetryCount]
FaultsType == [left : 0 .. MaxFaults, kinds : SUBSET FaultKinds]
DelPcs == {"off", "check", "destroy", "remove"}
\* Counting stops one above the threshold: the code only compares with it.
FailCounts == 0 .. Threshold + 1

TypeOK ==
  /\ claim \in [Claims -> ClaimStates]
  /\ pv \in [Claims -> PVType]
  /\ holder \in [Claims -> Controllers \cup {Nobody}]
  /\ announced \in SUBSET Claims
  /\ asset \in [Claims -> 0 .. MaxId]
  /\ nextId \in [Claims -> 1 .. MaxId + 1]
  /\ faults \in FaultsType
  /\ up \in [Controllers -> BOOLEAN]
  /\ seen \in [Controllers -> [Claims -> {"none", "pending", "bound"}]]
  /\ lock \in [Controllers ->
                 [Claims -> {"off", "acquiring", "leading", "resting"}]]
  /\ observed \in [Controllers -> [Claims -> BOOLEAN]]
  /\ prov \in [Controllers -> [Claims -> ProvType]]
  /\ provFails \in [Controllers -> [Claims -> FailCounts]]
  /\ del \in [Controllers -> [Claims -> [Ids -> DelPcs]]]
  /\ delFails \in [Controllers -> [Claims -> [Ids -> FailCounts]]]

Init ==
  /\ claim = [c \in Claims |-> "absent"]
  /\ pv = [c \in Claims |-> NoPV]
  /\ holder = [c \in Claims |-> Nobody]
  /\ announced = {}
  /\ asset = [c \in Claims |-> 0]
  /\ nextId = [c \in Claims |-> 1]
  /\ faults = [left |-> MaxFaults, kinds |-> {}]
  /\ up = [k \in Controllers |-> TRUE]
  /\ seen = [k \in Controllers |-> [c \in Claims |-> "none"]]
  /\ lock = [k \in Controllers |-> [c \in Claims |-> "off"]]
  /\ observed = [k \in Controllers |-> [c \in Claims |-> FALSE]]
  /\ prov = [k \in Controllers |-> [c \in Claims |-> Idle]]
  /\ provFails = [k \in Controllers |-> [c \in Claims |-> 0]]
  /\ del = [k \in Controllers |-> [c \in Claims |-> [i \in Ids |-> "off"]]]
  /\ delFails = [k \in Controllers |-> [c \in Claims |-> [i \in Ids |-> 0]]]

Fault(f) ==
  /\ f \in Faults
  /\ faults.left > 0
  /\ faults' = [left |-> faults.left - 1, kinds |-> faults.kinds \cup {f}]

NoFault == UNCHANGED faults

\* No fault of one of the kinds F happened.
Without(F) == faults.kinds \cap F = {}

----------------------------------------------------------------------------
(* Kubernetes: users and the PersistentVolume controller.                   *)

CreateClaim(c) ==
  /\ claim[c] = "absent"
  /\ claim' = [claim EXCEPT ![c] = "pending"]
  /\ UNCHANGED <<pv, holder, announced, arrayVars, faults, up, seen, lockVars,
                 provVars, delVars>>

DeleteClaim(c) ==
  /\ claim[c] \in {"pending", "bound"}
  /\ claim' = [claim EXCEPT ![c] = "gone"]
  /\ UNCHANGED <<pv, holder, announced, arrayVars, faults, up, seen, lockVars,
                 provVars, delVars>>

\* The PV's ClaimRef pre-binds it to the claim.
BindVolume(c) ==
  /\ claim[c] = "pending"
  /\ pv[c].phase = "available"
  /\ claim' = [claim EXCEPT ![c] = "bound"]
  /\ pv' = [pv EXCEPT ![c].phase = "bound"]
  /\ UNCHANGED <<holder, announced, arrayVars, faults, up, seen, lockVars,
                 provVars, delVars>>

ReleaseVolume(c) ==
  /\ claim[c] = "gone"
  /\ pv[c].phase \in {"available", "bound"}
  /\ pv' = [pv EXCEPT ![c].phase = "released"]
  /\ UNCHANGED <<claim, holder, announced, arrayVars, faults, up, seen,
                 lockVars, provVars, delVars>>

----------------------------------------------------------------------------
(* The claim informer and its handlers.                                     *)

\* The informer's cache catches up with the API server.
SyncClaim(k, c) ==
  /\ up[k]
  /\ seen' = [seen EXCEPT ![k][c] =
                IF claim[c] \in {"pending", "bound"} THEN claim[c] ELSE "none"]
  /\ UNCHANGED <<apiVars, arrayVars, faults, up, lockVars, provVars, delVars>>

Exceeded(count) == Threshold > 0 /\ count >= Threshold

\* The part of shouldProvision after the threshold check, on the claim as the
\* handler received it: no volume is bound to it yet.
ShouldProvision(k, c) ==
  seen[k][c] = "pending" /\ ~Exceeded(provFails[k][c])

\* scheduleOperation of "provision-<claim>": at most one runs per controller.
ScheduleProvision(k, c) ==
  IF prov[k][c].pc = "off"
  THEN prov' = [prov EXCEPT ![k][c] = Checking]
  ELSE UNCHANGED prov

\* addClaim (and updateClaim, resync) when this controller's leader elector
\* says it leads: provision again without touching the lock.
AddClaimAsLeader(k, c) ==
  /\ up[k]
  /\ ShouldProvision(k, c)
  /\ observed[k][c]
  /\ ScheduleProvision(k, c)
  /\ UNCHANGED <<apiVars, arrayVars, faults, up, seen, lockVars, provFails,
                 delVars>>

\* addClaim otherwise: start the lock operation, with a new leader elector,
\* which has observed no record.
AddClaimLock(k, c) ==
  /\ up[k]
  /\ ShouldProvision(k, c)
  /\ lock[k][c] = "off"
  /\ lock' = [lock EXCEPT ![k][c] = "acquiring"]
  /\ UNCHANGED <<apiVars, arrayVars, faults, up, seen, observed, provVars,
                 delVars>>

----------------------------------------------------------------------------
(* lockProvisionClaimOperation and the leader elector it runs.              *)

\* Mutant: only a free record may be taken, not one that names k itself.
TryAcquireFresh(k, c) ==
  /\ up[k]
  /\ lock[k][c] = "acquiring"
  /\ claim[c] \in {"pending", "bound"}
  /\ holder[c] = Nobody
  /\ holder' = [holder EXCEPT ![c] = k]
  /\ lock' = [lock EXCEPT ![k][c] = "leading"]
  /\ observed' = [observed EXCEPT ![k][c] = TRUE]
  /\ ScheduleProvision(k, c)
  /\ UNCHANGED <<claim, pv, announced, arrayVars, faults, up, seen, provFails,
                 delVars>>

\* acquire() succeeds: the record names k and OnStartedLeading schedules the
\* provision operation.  Get fails once the claim is deleted.
TryAcquire(k, c) ==
  /\ up[k]
  /\ lock[k][c] = "acquiring"
  /\ claim[c] \in {"pending", "bound"}
  /\ \A j \in Controllers \ {k} : lock[j][c] # "leading"
  /\ holder' = [holder EXCEPT ![c] = k]
  /\ lock' = [lock EXCEPT ![k][c] = "leading"]
  /\ observed' = [observed EXCEPT ![k][c] = TRUE]
  /\ ScheduleProvision(k, c)
  /\ UNCHANGED <<claim, pv, announced, arrayVars, faults, up, seen, provFails,
                 delVars>>

\* The record is read but not written: another controller holds the lease, or
\* the Update fails.  The elector now knows the holder, which can be k itself
\* from an earlier term.
AcquireFails(k, c) ==
  /\ up[k]
  /\ lock[k][c] = "acquiring"
  /\ claim[c] \in {"pending", "bound"}
  /\ IF holder[c] \in Controllers \ {k} THEN NoFault ELSE Fault("apiError")
  /\ observed' = [observed EXCEPT ![k][c] = holder[c] = k]
  /\ UNCHANGED <<apiVars, arrayVars, up, seen, lock, provVars, delVars>>

\* acquire() learns that the claim needs no provisioning any more: it was
\* bound, deleted, or announced as provisioned; or another namespace's claim of
\* the same name was, which the watch takes for this one (WatchProvisioning).
AcquireOver(k, c) ==
  /\ up[k]
  /\ lock[k][c] = "acquiring"
  /\ IF claim[c] # "pending" \/ c \in announced THEN NoFault ELSE Fault("namesake")
  /\ lock' = [lock EXCEPT ![k][c] = "off"]
  /\ observed' = [observed EXCEPT ![k][c] = FALSE]
  /\ UNCHANGED <<apiVars, arrayVars, up, seen, provVars, delVars>>

\* renew() ends: the task succeeded or failed, the term limit passed, or the
\* lease could not be renewed.  The provision operation is not told.
StopLeading(k, c) ==
  /\ up[k]
  /\ lock[k][c] = "leading"
  /\ lock' = [lock EXCEPT ![k][c] = "resting"]
  /\ UNCHANGED <<apiVars, arrayVars, faults, up, seen, observed, provVars,
                 delVars>>

\* The rest of LeaseDuration + RetryPeriod ends; the elector is dropped.
RestOver(k, c) ==
  /\ up[k]
  /\ lock[k][c] = "resting"
  /\ lock' = [lock EXCEPT ![k][c] = "off"]
  /\ observed' = [observed EXCEPT ![k][c] = FALSE]
  /\ UNCHANGED <<apiVars, arrayVars, faults, up, seen, provVars, delVars>>

----------------------------------------------------------------------------
(* provisionClaimOperation and updateProvisionStats.                        *)

\* The failure statistics are kept only with a threshold.
CountFailure(count) ==
  IF Threshold = 0 \/ count > Threshold THEN count ELSE count + 1

\* The operation returns nil: its failures are forgotten.
ProvDone(k, c) ==
  /\ prov' = [prov EXCEPT ![k][c] = Idle]
  /\ provFails' = [provFails EXCEPT ![k][c] = 0]

\* The operation returns an error.
ProvFailed(k, c) ==
  /\ prov' = [prov EXCEPT ![k][c] = Idle]
  /\ provFails' = [provFails EXCEPT ![k][c] = CountFailure(@)]

ProvGoto(k, c, op) ==
  /\ prov' = [prov EXCEPT ![k][c] = op]
  /\ UNCHANGED provFails

Provisioning(k, c, pc) == up[k] /\ prov[k][c].pc = pc

\* The PV is looked up by name.  Any error, not just NotFound, counts as "no
\* PV yet".
ProvCheck(k, c) ==
  /\ Provisioning(k, c, "check")
  /\ \/ pv[c] # NoPV /\ NoFault /\ ProvDone(k, c)
     \/ /\ IF pv[c] = NoPV THEN NoFault ELSE Fault("apiError")
        /\ ProvGoto(k, c, Creating)
  /\ UNCHANGED <<apiVars, arrayVars, up, seen, lockVars, delVars>>

\* The class is missing: getStorageClassFields gives up with nil,
\* fetchReclaimPolicy (if the class vanished after it) with an error.
ProvNoClass(k, c) ==
  /\ Provisioning(k, c, "create")
  /\ Fault("noClass")
  /\ ProvDone(k, c) \/ ProvFailed(k, c)
  /\ UNCHANGED <<apiVars, arrayVars, up, seen, lockVars, delVars>>

\* Provision: the array creates an asset unless it already has one of this
\* name; on an error the asset may stay behind.
ProvCreate(k, c) ==
  /\ Provisioning(k, c, "create")
  /\ asset[c] = 0
  /\ nextId[c] <= MaxId
  /\ asset' = [asset EXCEPT ![c] = nextId[c]]
  /\ nextId' = [nextId EXCEPT ![c] = @ + 1]
  /\ \/ NoFault /\ ProvGoto(k, c, Saving(nextId[c]))
     \/ Fault("arrayLostAck") /\ ProvFailed(k, c)
  /\ UNCHANGED <<apiVars, up, seen, lockVars, delVars>>

ProvCreateFails(k, c) ==
  /\ Provisioning(k, c, "create")
  /\ IF asset[c] # 0 THEN NoFault ELSE Fault("arrayError")
  /\ ProvFailed(k, c)
  /\ UNCHANGED <<apiVars, arrayVars, up, seen, lockVars, delVars>>

\* Mutant: the loop counts to RetryCount inclusively.
NextTryOneMore(op, after) ==
  IF op.tries <= RetryCount
  THEN [op EXCEPT !.tries = @ + 1]
  ELSE [pc |-> after, id |-> op.id, tries |-> 0]

\* Mutant: the operation gives up without cleaning up.
NextTryGiveUp(op, after) ==
  IF op.tries + 1 < RetryCount THEN [op EXCEPT !.tries = @ + 1] ELSE Idle

\* One more failed try in one of the two retry loops.
NextTry(op, after) ==
  IF op.tries + 1 < RetryCount
  THEN [op EXCEPT !.tries = @ + 1]
  ELSE [pc |-> after, id |-> op.id, tries |-> 0]

\* The PV object of asset i, as it is saved.
SavedPV(i) == [id |-> i, phase |-> "available"]

\* A PersistentVolumes().Create succeeds, and the success is announced.
ProvSave(k, c) ==
  /\ Provisioning(k, c, "save")
  /\ pv[c] = NoPV
  /\ pv' = [pv EXCEPT ![c] = SavedPV(prov[k][c].id)]
  /\ announced' = announced \cup {c}
  /\ ProvDone(k, c)
  /\ UNCHANGED <<claim, holder, arrayVars, faults, up, seen, lockVars, delVars>>

\* A Create fails: the name is taken, the API server is away, or its answer
\* is lost.
ProvSaveFails(k, c) ==
  /\ Provisioning(k, c, "save")
  /\ \/ pv[c] # NoPV /\ NoFault /\ UNCHANGED pv
     \/ pv[c] = NoPV /\ Fault("apiError") /\ UNCHANGED pv
     \/ /\ pv[c] = NoPV
        /\ Fault("apiLostAck")
        /\ pv' = [pv EXCEPT ![c] = SavedPV(prov[k][c].id)]
  /\ ProvGoto(k, c, NextTry(prov[k][c], "cleanup"))
  /\ UNCHANGED <<claim, holder, announced, arrayVars, up, seen, lockVars,
                 delVars>>

\* Delete of the unsaved asset succeeds; the operation returns nil.
ProvCleanup(k, c) ==
  /\ Provisioning(k, c, "cleanup")
  /\ asset[c] = prov[k][c].id
  /\ asset' = [asset EXCEPT ![c] = 0]
  /\ ProvDone(k, c)
  /\ UNCHANGED <<apiVars, nextId, faults, up, seen, lockVars, delVars>>

\* Delete fails; after RetryCount tries the asset is left ("Please delete
\* manually") and the operation still returns nil.
ProvCleanupFails(k, c) ==
  /\ Provisioning(k, c, "cleanup")
  /\ \/ asset[c] # prov[k][c].id /\ NoFault /\ UNCHANGED asset
     \/ asset[c] = prov[k][c].id /\ Fault("arrayError") /\ UNCHANGED asset
     \/ /\ asset[c] = prov[k][c].id
        /\ Fault("arrayLostAck")
        /\ asset' = [asset EXCEPT ![c] = 0]
  /\ LET op == NextTry(prov[k][c], "off")
     IN  IF op.pc = "off" THEN ProvDone(k, c) ELSE ProvGoto(k, c, op)
  /\ UNCHANGED <<apiVars, nextId, up, seen, lockVars, delVars>>

----------------------------------------------------------------------------
(* updateVolume, deleteVolumeOperation and updateDeleteStats.               *)

\* The failures k counted for the current PV object reach the threshold.
VolumeExceeded(k, c) ==
  pv[c].id \in Ids /\ Exceeded(delFails[k][c][pv[c].id])

\* Mutant: the phase of the PV is not looked at.
ShouldDeleteAnyPhase(k, c) ==
  ~VolumeExceeded(k, c) /\ pv[c] # NoPV /\ c \notin Retain

\* shouldDelete on the current PV object of the claim.
ShouldDelete(k, c) ==
  /\ ~VolumeExceeded(k, c)
  /\ pv[c].phase = "released"
  /\ c \notin Retain

DelDone(k, c, i) ==
  /\ del' = [del EXCEPT ![k][c][i] = "off"]
  /\ delFails' = [delFails EXCEPT ![k][c][i] = 0]

DelFailed(k, c, i) ==
  /\ del' = [del EXCEPT ![k][c][i] = "off"]
  /\ delFails' = [delFails EXCEPT ![k][c][i] = CountFailure(@)]

DelGoto(k, c, i, pc) ==
  /\ del' = [del EXCEPT ![k][c][i] = pc]
  /\ UNCHANGED delFails

Deleting(k, c, i, pc) == up[k] /\ del[k][c][i] = pc

\* updateVolume: the operation keeps the PV, and so its asset id, it was
\* handed.
UpdateVolume(k, c, i) ==
  /\ Deleting(k, c, i, "off")
  /\ pv[c].id = i
  /\ ShouldDelete(k, c)
  /\ DelGoto(k, c, i, "check")
  /\ UNCHANGED <<apiVars, arrayVars, faults, up, seen, lockVars, provVars>>

\* Mutant: the PV object is removed before the asset is destroyed.
DelCheckRemovesFirst(k, c, i) ==
  /\ Deleting(k, c, i, "check")
  /\ ~VolumeExceeded(k, c)
  /\ \/ ShouldDelete(k, c) /\ NoFault /\ DelGoto(k, c, i, "remove")
     \/ ~ShouldDelete(k, c) /\ NoFault /\ DelDone(k, c, i)
     \/ ShouldDelete(k, c) /\ Fault("apiError") /\ DelDone(k, c, i)
  /\ UNCHANGED <<apiVars, arrayVars, up, seen, lockVars, provVars>>

\* The PV is read again by name; it can be a later PV of the same claim.  Any
\* error ends the operation as a success.  A later PV that has reached the
\* threshold is left to HitThreshold: here the panic would only end this
\* operation, with failedDeleteStatsMutex locked, and no Delete would start
\* again until the process is restarted.
DelCheck(k, c, i) ==
  /\ Deleting(k, c, i, "check")
  /\ ~VolumeExceeded(k, c)
  /\ \/ ShouldDelete(k, c) /\ NoFault /\ DelGoto(k, c, i, "destroy")
     \/ ~ShouldDelete(k, c) /\ NoFault /\ DelDone(k, c, i)
     \/ ShouldDelete(k, c) /\ Fault("apiError") /\ DelDone(k, c, i)
  /\ UNCHANGED <<apiVars, arrayVars, up, seen, lockVars, provVars>>

\* Delete of the asset with the id in the PV.
DelDestroy(k, c, i) ==
  /\ Deleting(k, c, i, "destroy")
  /\ asset[c] = i
  /\ asset' = [asset EXCEPT ![c] = 0]
  /\ \/ NoFault /\ DelGoto(k, c, i, "remove")
     \/ Fault("arrayLostAck") /\ DelFailed(k, c, i)
  /\ UNCHANGED <<apiVars, nextId, up, seen, lockVars, provVars>>

\* Mutant: the error is logged and the PV object removed all the same.
DelDestroyFailsIgnored(k, c, i) ==
  /\ Deleting(k, c, i, "destroy")
  /\ IF asset[c] # i THEN NoFault ELSE Fault("arrayError")
  /\ DelGoto(k, c, i, "remove")
  /\ UNCHANGED <<apiVars, arrayVars, up, seen, lockVars, provVars>>

\* An asset that is not there is an error too.
DelDestroyFails(k, c, i) ==
  /\ Deleting(k, c, i, "destroy")
  /\ IF asset[c] # i THEN NoFault ELSE Fault("arrayError")
  /\ DelFailed(k, c, i)
  /\ UNCHANGED <<apiVars, arrayVars, up, seen, lockVars, provVars>>

\* The PV object is deleted by name.  An error is logged and the operation
\* returns nil.
DelRemove(k, c, i) ==
  /\ Deleting(k, c, i, "remove")
  /\ \/ NoFault /\ pv' = [pv EXCEPT ![c] = NoPV]
     \/ Fault("removeError") /\ UNCHANGED pv
  /\ DelDone(k, c, i)
  /\ UNCHANGED <<claim, holder, announced, arrayVars, up, seen, lockVars,
                 provVars>>

----------------------------------------------------------------------------
(* Process failures.                                                        *)

\* Everything in memory is lost; the identity in a held lease is never used
\* again.
Down(k) ==
  /\ up' = [up EXCEPT ![k] = FALSE]
  /\ seen' = [seen EXCEPT ![k] = [c \in Claims |-> "none"]]
  /\ lock' = [lock EXCEPT ![k] = [c \in Claims |-> "off"]]
  /\ observed' = [observed EXCEPT ![k] = [c \in Claims |-> FALSE]]
  /\ prov' = [prov EXCEPT ![k] = [c \in Claims |-> Idle]]
  /\ provFails' = [provFails EXCEPT ![k] = [c \in Claims |-> 0]]
  /\ del' = [del EXCEPT ![k] = [c \in Claims |-> [i \in Ids |-> "off"]]]
  /\ delFails' = [delFails EXCEPT ![k] = [c \in Claims |-> [i \in Ids |-> 0]]]
  /\ holder' = [c \in Claims |-> IF holder[c] = k THEN Nobody ELSE holder[c]]
  /\ UNCHANGED <<claim, pv, announced, arrayVars>>

\* shouldProvision or shouldDelete finds the threshold reached and writes to
\* failedProvisionRetriedStopped or failedDeleteRetriedStopped, maps that are
\* never made: the panic ends the process.  It is called by the claim
\* informer, by the watch of a lock operation and by the volume informer.
HitThreshold(k) ==
  /\ up[k]
  /\ \E c \in Claims :
       \/ /\ Exceeded(provFails[k][c])
          /\ seen[k][c] # "none" \/ lock[k][c] \in {"acquiring", "leading"}
       \/ VolumeExceeded(k, c)
  /\ faults' = [faults EXCEPT !.kinds = @ \cup {"panic"}]
  /\ Down(k)

Crash(k) == up[k] /\ Fault("crash") /\ Down(k)

Restart(k) ==
  /\ ~up[k]
  /\ up' = [up EXCEPT ![k] = TRUE]
  /\ UNCHANGED <<apiVars, arrayVars, faults, seen, lockVars, provVars, delVars>>

----------------------------------------------------------------------------
Kubernetes(c) ==
  CreateClaim(c) \/ DeleteClaim(c) \/ BindVolume(c) \/ ReleaseVolume(c)

ProvisionStep(k, c) ==
  \/ ProvCheck(k, c) \/ ProvNoClass(k, c)
  \/ ProvCreate(k, c) \/ ProvCreateFails(k, c)
  \/ ProvSave(k, c) \/ ProvSaveFails(k, c)
  \/ ProvCleanup(k, c) \/ ProvCleanupFails(k, c)

LockStep(k, c) ==
  \/ TryAcquire(k, c) \/ AcquireFails(k, c) \/ AcquireOver(k, c)
  \/ StopLeading(k, c) \/ RestOver(k, c)

DeleteStep(k, c, i) ==
  \/ UpdateVolume(k, c, i) \/ DelCheck(k, c, i)
  \/ DelDestroy(k, c, i) \/ DelDestroyFails(k, c, i) \/ DelRemove(k, c, i)

ClaimStep(k, c) ==
  SyncClaim(k, c) \/ AddClaimAsLeader(k, c) \/ AddClaimLock(k, c)

ProcessStep(k) == HitThreshold(k) \/ Crash(k) \/ Restart(k)

Next ==
  \/ \E c \in Claims : Kubernetes(c)
  \/ \E k \in Controllers, c \in Claims :
       ClaimStep(k, c) \/ LockStep(k, c) \/ ProvisionStep(k, c)
  \/ \E k \in Controllers, c \in Claims, i \in Ids : DeleteStep(k, c, i)
  \/ \E k \in Controllers : ProcessStep(k)

Spec == Init /\ [][Next]_vars

(***************************************************************************)
(* Fairness.  Goroutines that can run do run; informers deliver and resync *)
(* every resyncPeriod; term limits and rests end; Kubernetes binds and     *)
(* releases volumes; a stopped pod is restarted.  Users owe nothing, and a *)
(* fault is never owed.  Neither is AcquireOver: a waiting candidate whose *)
(* watch was closed never hears (module WatchProvisioning).                *)
(***************************************************************************)
Fairness ==
  /\ \A c \in Claims : WF_vars(BindVolume(c)) /\ WF_vars(ReleaseVolume(c))
  /\ \A k \in Controllers, c \in Claims :
       /\ WF_vars(SyncClaim(k, c))
       /\ WF_vars(AddClaimAsLeader(k, c))
       /\ WF_vars(AddClaimLock(k, c))
       /\ WF_vars(TryAcquire(k, c))
       /\ WF_vars(StopLeading(k, c))
       /\ WF_vars(RestOver(k, c))
       /\ WF_vars(ProvisionStep(k, c))
       /\ \A i \in Ids : WF_vars(DeleteStep(k, c, i))
  /\ \A k \in Controllers : WF_vars(HitThreshold(k)) /\ WF_vars(Restart(k))

FairSpec == Spec /\ Fairness

----------------------------------------------------------------------------
(* Properties.                                                              *)

\* The asset must still be there: the PV is in use, or kept by its policy.
InUse(c) ==
  \/ pv[c].phase \in {"available", "bound"}
  \/ pv[c].phase = "released" /\ c \in Retain

\* A PV that is not up for deletion is backed by the asset it names, whatever
\* the rollback of a failed save (controller.go:980-1007) and the delete
\* operations of all controllers do meanwhile.
SavedVolumeHasAsset == \A c \in Claims : InUse(c) => asset[c] = pv[c].id

\* As long as no answer to a PV Create was lost, a PV that is not up for
\* deletion is backed by the asset it names, under all other faults.
SavedVolumeBacked == Without({"apiLostAck"}) => SavedVolumeHasAsset

\* The asset of claim c is named by its PV or is in the hands of a provision
\* operation that will save or destroy it.
Tracked(c) ==
  \/ pv[c].id = asset[c]
  \/ \E k \in Controllers : /\ prov[k][c].pc \in {"save", "cleanup"}
                            /\ prov[k][c].id = asset[c]

\* No asset is left on the array that nobody will save or destroy, as long as
\* the array's calls do what they report and no process died: racing replicas,
\* failing Kubernetes calls and lost answers to a PV Create do not leave any
\* (controller.go:967-1013).
AssetTracked ==
  Without({"arrayError", "arrayLostAck", "crash", "panic"}) =>
    \A c \in Claims : asset[c] # 0 => Tracked(c)

\* A PV object goes away only after its asset did (controller.go:1184-1208):
\* no controller removes the PV of an asset that is still on the array.
RemovalFollowsDestruction ==
  [][\A c \in Claims : pv[c] # NoPV /\ pv'[c] = NoPV => asset[c] # pv[c].id]_vars

\* What the controllers promise of the volume of a claim: module
\* ClaimLifecycle.  A claim's volume is provided once, with storage behind it,
\* and loses the storage, then the PV object, only after it was released.
Lifecycle ==
  INSTANCE ClaimLifecycle WITH
    request <- claim,
    volume <- [c \in Claims |-> pv[c].phase],
    backed <- [c \in Claims |-> pv[c] # NoPV /\ asset[c] = pv[c].id],
    sure <- Without({"apiLostAck"})

\* The controllers, with their leases, caches, retries, crashes and panics,
\* implement the life cycle.
ImplementsLifecycle == Lifecycle!Spec

\* A claim that asks for a volume gets one, unless it is deleted first or its
\* asset is one that nobody owns (the process died between Provision and the
\* save of the PV): nothing else keeps a claim waiting for ever, also not a
\* threshold (controller.go:666-690) or a restart.
ClaimServed ==
  \A c \in Claims :
    claim[c] = "pending" ~> \/ claim[c] # "pending"
                            \/ asset[c] # 0 /\ ~Tracked(c)

\* After a claim with reclaim policy Delete is deleted, its PV and its asset
\* disappear and no late operation brings them back for good, unless a
\* process died in the middle of an operation.
VolumeReclaimed ==
  \A c \in Claims \ Retain :
    claim[c] = "gone" ~> \/ [](asset[c] = 0 /\ pv[c] = NoPV)
                         \/ ~Without({"crash", "panic"})
=============================================================================
