---------------------- MODULE ProvisionControllerProofs ----------------------
(***************************************************************************)
(* Proofs about module ProvisionController, for any number of controllers  *)
(* and claims, any retry count, threshold and number of faults: its types, *)
(* that storage goes before its volume is removed and not before it may,   *)
(* that no asset is left behind unless the array or a process fails, and   *)
(* that the controllers implement ClaimLifecycle.                          *)
(***************************************************************************)
EXTENDS ProvisionController, TLAPS

USE DEF Ids

\* Counting a failure stays within the counter's range.
LEMMA CountFailureType ==
  ASSUME NEW count \in FailCounts
  PROVE  CountFailure(count) \in FailCounts
BY ConstantsAssumption DEF FailCounts, CountFailure

\* Another turn of a retry loop stays within RetryCount and on its asset.
LEMMA NextTryType ==
  ASSUME NEW op \in ProvType, op.pc \in {"save", "cleanup"},
         NEW after \in {"cleanup", "off"}
  PROVE  /\ NextTry(op, after) \in ProvType
         /\ NextTry(op, after).pc \in {op.pc, after}
         /\ NextTry(op, after).id = op.id
<1>1. /\ op \in [pc : {"off", "check", "create", "save", "cleanup"},
                id : 0 .. MaxId, tries : 0 .. RetryCount]
      /\ op.tries \in 0 .. RetryCount
      /\ RetryCount \in Nat
  BY ConstantsAssumption DEF ProvType
<1>2. CASE op.tries + 1 < RetryCount
  <2>1. op.tries + 1 \in 0 .. RetryCount
    BY <1>1, <1>2
  <2>2. [op EXCEPT !.tries = op.tries + 1] \in ProvType
    BY <1>1, <2>1 DEF ProvType
  <2>3. NextTry(op, after) = [op EXCEPT !.tries = op.tries + 1]
    BY <1>2 DEF NextTry
  <2>4. QED BY <1>1, <2>2, <2>3
<1>3. CASE ~(op.tries + 1 < RetryCount)
  <2>1. NextTry(op, after) = [pc |-> after, id |-> op.id, tries |-> 0]
    BY <1>3 DEF NextTry
  <2>2. [pc |-> after, id |-> op.id, tries |-> 0] \in ProvType
    BY <1>1 DEF ProvType
  <2>3. QED BY <1>1, <2>1, <2>2
<1>4. QED BY <1>2, <1>3

\* The records the operations start from are well typed.
LEMMA RecordTypes == /\ NoPV \in PVType
                     /\ {Idle, Checking, Creating} \subseteq ProvType
                     /\ \A i \in 0 .. MaxId :
                          SavedPV(i) \in PVType /\ Saving(i) \in ProvType
BY ConstantsAssumption DEF NoPV, Idle, Checking, Creating, Saving, PVType,
                           ProvType, SavedPV

\* Setting one entry of a function of functions of functions.
LEMMA UpdateType ==
  ASSUME NEW A, NEW B, NEW C, NEW D, NEW f \in [A -> [B -> [C -> D]]],
         NEW a \in A, NEW b \in B, NEW c \in C, NEW d \in D
  PROVE  [f EXCEPT ![a][b][c] = d] \in [A -> [B -> [C -> D]]]
<1>1. f[a] \in [B -> [C -> D]] /\ f[a][b] \in [C -> D]
  OBVIOUS
<1> DEFINE g == [f[a][b] EXCEPT ![c] = d]
           h == [f[a] EXCEPT ![b] = g]
<1>2. g \in [C -> D]
  BY <1>1
<1>3. [f EXCEPT ![a][b][c] = d] = [f EXCEPT ![a] = h]
  OBVIOUS
<1> HIDE DEF g
<1>4. h \in [B -> [C -> D]]
  BY <1>1, <1>2
<1> HIDE DEF h
<1>5. [f EXCEPT ![a] = h] \in [A -> [B -> [C -> D]]]
  BY <1>4
<1>6. QED BY <1>3, <1>5

\* A fault, and a panic, are recorded in the right type.
LEMMA FaultTypes ==
  ASSUME TypeOK
  PROVE  /\ \A f : Fault(f) => faults' \in FaultsType
         /\ faults' = [faults EXCEPT !.kinds = @ \cup {"panic"}] =>
              faults' \in FaultsType
<1>1. faults \in FaultsType /\ faults.left \in 0 .. MaxFaults
      /\ faults.kinds \in SUBSET FaultKinds
  BY DEF TypeOK, FaultsType
<1>2. ASSUME NEW f, Fault(f) PROVE faults' \in FaultsType
  <2>1. faults.left - 1 \in 0 .. MaxFaults /\ f \in FaultKinds
    BY <1>1, <1>2, ConstantsAssumption DEF Fault
  <2>2. QED BY <1>1, <1>2, <2>1 DEF Fault, FaultsType
<1>3. ASSUME faults' = [faults EXCEPT !.kinds = @ \cup {"panic"}]
      PROVE  faults' \in FaultsType
  BY <1>1, <1>3 DEF FaultsType, FaultKinds
<1>4. QED BY <1>2, <1>3

\* The initial state is well typed.
LEMMA TypeInit == Init => TypeOK
BY ConstantsAssumption, RecordTypes
   DEF Init, TypeOK, FaultsType, ClaimStates, FailCounts, DelPcs, NoPV

\* The outcome operators keep the types of the variables they set.
LEMMA OutcomeTypes ==
  ASSUME TypeOK, NEW k \in Controllers, NEW c \in Claims
  PROVE  /\ ProvDone(k, c) \/ ProvFailed(k, c) =>
              /\ prov' \in [Controllers -> [Claims -> ProvType]]
              /\ provFails' \in [Controllers -> [Claims -> FailCounts]]
         /\ \A op \in ProvType : ProvGoto(k, c, op) =>
              /\ prov' \in [Controllers -> [Claims -> ProvType]]
              /\ provFails' \in [Controllers -> [Claims -> FailCounts]]
         /\ ScheduleProvision(k, c) =>
              prov' \in [Controllers -> [Claims -> ProvType]]
         /\ \A i \in Ids : DelDone(k, c, i) \/ DelFailed(k, c, i) =>
              /\ del' \in [Controllers -> [Claims -> [Ids -> DelPcs]]]
              /\ delFails' \in [Controllers -> [Claims -> [Ids -> FailCounts]]]
         /\ \A i \in Ids, pc \in DelPcs : DelGoto(k, c, i, pc) =>
              /\ del' \in [Controllers -> [Claims -> [Ids -> DelPcs]]]
              /\ delFails' \in [Controllers -> [Claims -> [Ids -> FailCounts]]]
<1>1. ASSUME ProvDone(k, c)
      PROVE  /\ prov' \in [Controllers -> [Claims -> ProvType]]
             /\ provFails' \in [Controllers -> [Claims -> FailCounts]]
  BY <1>1, ConstantsAssumption, RecordTypes DEF TypeOK, ProvDone, FailCounts
<1>2. ASSUME ProvFailed(k, c)
      PROVE  /\ prov' \in [Controllers -> [Claims -> ProvType]]
             /\ provFails' \in [Controllers -> [Claims -> FailCounts]]
  BY <1>2, CountFailureType, RecordTypes DEF TypeOK, ProvFailed
<1>3. ASSUME NEW op \in ProvType, ProvGoto(k, c, op)
      PROVE  /\ prov' \in [Controllers -> [Claims -> ProvType]]
             /\ provFails' \in [Controllers -> [Claims -> FailCounts]]
  BY <1>3 DEF TypeOK, ProvGoto
<1>4. ASSUME ScheduleProvision(k, c)
      PROVE  prov' \in [Controllers -> [Claims -> ProvType]]
  <2>1. Checking \in ProvType /\ prov \in [Controllers -> [Claims -> ProvType]]
    BY RecordTypes DEF TypeOK
  <2>2. prov' = prov \/ prov' = [prov EXCEPT ![k][c] = Checking]
    BY <1>4 DEF ScheduleProvision
  <2>3. QED BY <2>1, <2>2
<1>5. ASSUME NEW i \in Ids, DelDone(k, c, i) \/ DelFailed(k, c, i)
      PROVE  /\ del' \in [Controllers -> [Claims -> [Ids -> DelPcs]]]
             /\ delFails' \in [Controllers -> [Claims -> [Ids -> FailCounts]]]
  <2>1. delFails[k][c][i] \in FailCounts /\ 0 \in FailCounts
    BY ConstantsAssumption DEF TypeOK, FailCounts
  <2>2. CountFailure(delFails[k][c][i]) \in FailCounts
    BY <2>1, CountFailureType
  <2>3. del' \in [Controllers -> [Claims -> [Ids -> DelPcs]]]
    <3>1. "off" \in DelPcs /\ del \in [Controllers -> [Claims -> [Ids -> DelPcs]]]
      BY DEF TypeOK, DelPcs
    <3>2. [del EXCEPT ![k][c][i] = "off"]
            \in [Controllers -> [Claims -> [Ids -> DelPcs]]]
      BY <3>1, UpdateType
    <3>3. QED BY <1>5, <3>2 DEF DelDone, DelFailed
  <2>4. delFails' \in [Controllers -> [Claims -> [Ids -> FailCounts]]]
    <3>1. delFails \in [Controllers -> [Claims -> [Ids -> FailCounts]]]
      BY DEF TypeOK
    <3>2. \A n \in FailCounts : [delFails EXCEPT ![k][c][i] = n]
            \in [Controllers -> [Claims -> [Ids -> FailCounts]]]
      BY <3>1, UpdateType
    <3>3. QED BY <1>5, <2>1, <2>2, <3>2 DEF DelDone, DelFailed
  <2>5. QED BY <2>3, <2>4
<1>6. ASSUME NEW i \in Ids, NEW pc \in DelPcs, DelGoto(k, c, i, pc)
      PROVE  /\ del' \in [Controllers -> [Claims -> [Ids -> DelPcs]]]
             /\ delFails' \in [Controllers -> [Claims -> [Ids -> FailCounts]]]
  <2>1. [del EXCEPT ![k][c][i] = pc]
          \in [Controllers -> [Claims -> [Ids -> DelPcs]]]
    BY UpdateType DEF TypeOK
  <2>2. QED BY <1>6, <2>1 DEF TypeOK, DelGoto
<1>7. QED BY <1>1, <1>2, <1>3, <1>4, <1>5, <1>6

\* Every step keeps every variable in its type.
LEMMA TypeNext == TypeOK /\ [Next]_vars => TypeOK'
<1> SUFFICES ASSUME TypeOK, [Next]_vars PROVE TypeOK'
  OBVIOUS
<1> USE ConstantsAssumption
<1>1. ASSUME NEW c \in Claims, Kubernetes(c) PROVE TypeOK'
  <2>1. CASE CreateClaim(c) \/ DeleteClaim(c)
    BY <2>1 DEF CreateClaim, DeleteClaim, TypeOK, ClaimStates, arrayVars,
                lockVars, provVars, delVars
  <2>2. CASE BindVolume(c) \/ ReleaseVolume(c)
    <3>1. /\ [pv[c] EXCEPT !.phase = "bound"] \in PVType
          /\ [pv[c] EXCEPT !.phase = "released"] \in PVType
      <4>1. pv[c] \in PVType
        BY DEF TypeOK
      <4>2. QED BY <4>1 DEF PVType
    <3>2. pv' \in [Claims -> PVType]
      BY <2>2, <3>1 DEF BindVolume, ReleaseVolume, TypeOK
    <3>3. QED BY <2>2, <3>2 DEF BindVolume, ReleaseVolume, TypeOK, ClaimStates,
                                arrayVars, lockVars, provVars, delVars
  <2>3. QED BY <1>1, <2>1, <2>2 DEF Kubernetes
<1>2. ASSUME NEW k \in Controllers, NEW c \in Claims, ClaimStep(k, c)
      PROVE  TypeOK'
  <2>1. CASE SyncClaim(k, c)
    BY <2>1 DEF SyncClaim, TypeOK, ClaimStates, apiVars, arrayVars, lockVars,
                provVars, delVars
  <2>2. CASE AddClaimAsLeader(k, c)
    BY <2>2, OutcomeTypes DEF AddClaimAsLeader, TypeOK, apiVars, arrayVars,
                              lockVars, delVars
  <2>3. CASE AddClaimLock(k, c)
    BY <2>3 DEF AddClaimLock, TypeOK, apiVars, arrayVars, provVars, delVars
  <2>4. QED BY <1>2, <2>1, <2>2, <2>3 DEF ClaimStep
<1>3. ASSUME NEW k \in Controllers, NEW c \in Claims, LockStep(k, c)
      PROVE  TypeOK'
  <2>1. CASE TryAcquire(k, c)
    BY <2>1, OutcomeTypes DEF TryAcquire, TypeOK, apiVars, arrayVars, delVars
  <2>2. CASE AcquireFails(k, c)
    <3>1. faults' \in FaultsType
      BY <2>2, FaultTypes DEF AcquireFails, NoFault, TypeOK
    <3>2. QED BY <2>2, <3>1 DEF AcquireFails, TypeOK, apiVars, arrayVars,
                                provVars, delVars
  <2>3. CASE AcquireOver(k, c)
    <3>1. faults' \in FaultsType
      BY <2>3, FaultTypes DEF AcquireOver, NoFault, TypeOK
    <3>2. QED BY <2>3, <3>1 DEF AcquireOver, TypeOK, apiVars, arrayVars,
                                provVars, delVars
  <2>4. CASE StopLeading(k, c)
    BY <2>4 DEF StopLeading, TypeOK, apiVars, arrayVars, provVars, delVars
  <2>5. CASE RestOver(k, c)
    BY <2>5 DEF RestOver, TypeOK, apiVars, arrayVars, provVars, delVars
  <2>6. QED BY <1>3, <2>1, <2>2, <2>3, <2>4, <2>5 DEF LockStep
<1>4. ASSUME NEW k \in Controllers, NEW c \in Claims, ProvisionStep(k, c)
      PROVE  TypeOK'
  <2>1. CASE ProvCheck(k, c)
    <3>1. faults' \in FaultsType
      BY <2>1, FaultTypes DEF ProvCheck, NoFault, TypeOK
    <3>2. ProvDone(k, c) \/ ProvGoto(k, c, Creating)
      BY <2>1 DEF ProvCheck
    <3>3. QED BY <2>1, <3>1, <3>2, OutcomeTypes, RecordTypes
              DEF ProvCheck, TypeOK, apiVars, arrayVars, lockVars, delVars
  <2>2. CASE ProvNoClass(k, c) \/ ProvCreateFails(k, c)
    <3>1. faults' \in FaultsType
      BY <2>2, FaultTypes DEF ProvNoClass, ProvCreateFails, NoFault, TypeOK
    <3>2. ProvDone(k, c) \/ ProvFailed(k, c)
      BY <2>2 DEF ProvNoClass, ProvCreateFails
    <3>3. QED BY <2>2, <3>1, <3>2, OutcomeTypes
              DEF ProvNoClass, ProvCreateFails, TypeOK, apiVars, arrayVars,
                  lockVars, delVars
  <2>3. CASE ProvCreate(k, c)
    <3>1. faults' \in FaultsType
      BY <2>3, FaultTypes DEF ProvCreate, NoFault, TypeOK
    <3>2. /\ asset' \in [Claims -> 0 .. MaxId]
          /\ nextId' \in [Claims -> 1 .. MaxId + 1]
          /\ nextId[c] \in 0 .. MaxId
      BY <2>3 DEF ProvCreate, TypeOK
    <3>3. ProvGoto(k, c, Saving(nextId[c])) \/ ProvFailed(k, c)
      BY <2>3 DEF ProvCreate
    <3>4. QED BY <2>3, <3>1, <3>2, <3>3, OutcomeTypes, RecordTypes
              DEF ProvCreate, TypeOK, apiVars, lockVars, delVars
  <2>4. CASE ProvSave(k, c) \/ ProvSaveFails(k, c)
    <3>1. prov[k][c] \in ProvType /\ prov[k][c].id \in 0 .. MaxId
      BY DEF TypeOK, ProvType
    <3>2. pv' \in [Claims -> PVType]
      <4>1. SavedPV(prov[k][c].id) \in PVType
        BY <3>1, RecordTypes
      <4>2. pv' = pv \/ pv' = [pv EXCEPT ![c] = SavedPV(prov[k][c].id)]
        BY <2>4 DEF ProvSave, ProvSaveFails
      <4>3. QED BY <4>1, <4>2 DEF TypeOK
    <3>3. faults' \in FaultsType
      BY <2>4, FaultTypes DEF ProvSave, ProvSaveFails, NoFault, TypeOK
    <3>4. CASE ProvSave(k, c)
      BY <3>4, <3>2, OutcomeTypes DEF ProvSave, TypeOK, arrayVars, lockVars,
                                      delVars
    <3>5. CASE ProvSaveFails(k, c)
      <4>1. NextTry(prov[k][c], "cleanup") \in ProvType
        BY <3>1, <3>5, NextTryType DEF ProvSaveFails, Provisioning
      <4>2. QED BY <3>5, <3>2, <3>3, <4>1, OutcomeTypes
                DEF ProvSaveFails, TypeOK, arrayVars, lockVars, delVars
    <3>6. QED BY <2>4, <3>4, <3>5
  <2>5. CASE ProvCleanup(k, c)
    BY <2>5, OutcomeTypes DEF ProvCleanup, TypeOK, apiVars, lockVars, delVars
  <2>6. CASE ProvCleanupFails(k, c)
    <3>1. prov[k][c] \in ProvType
      BY DEF TypeOK
    <3>2. NextTry(prov[k][c], "off") \in ProvType
      BY <3>1, <2>6, NextTryType DEF ProvCleanupFails, Provisioning
    <3>3. faults' \in FaultsType
      BY <2>6, FaultTypes DEF ProvCleanupFails, NoFault, TypeOK
    <3>4. asset' \in [Claims -> 0 .. MaxId]
      BY <2>6 DEF ProvCleanupFails, TypeOK
    <3>5. ProvDone(k, c) \/ ProvGoto(k, c, NextTry(prov[k][c], "off"))
      BY <2>6 DEF ProvCleanupFails
    <3>6. QED BY <2>6, <3>2, <3>3, <3>4, <3>5, OutcomeTypes
              DEF ProvCleanupFails, TypeOK, apiVars, lockVars, delVars
  <2>7. QED BY <1>4, <2>1, <2>2, <2>3, <2>4, <2>5, <2>6 DEF ProvisionStep
<1>5. ASSUME NEW k \in Controllers, NEW c \in Claims, NEW i \in Ids,
             DeleteStep(k, c, i)
      PROVE  TypeOK'
  <2>1. faults' \in FaultsType
    BY <1>5, FaultTypes DEF DeleteStep, UpdateVolume, DelCheck, DelDestroy,
                            DelDestroyFails, DelRemove, NoFault, TypeOK
  <2>2. /\ del' \in [Controllers -> [Claims -> [Ids -> DelPcs]]]
        /\ delFails' \in [Controllers -> [Claims -> [Ids -> FailCounts]]]
    <3>1. {"check", "destroy", "remove"} \subseteq DelPcs
      BY DEF DelPcs
    <3>2. \/ DelDone(k, c, i) \/ DelFailed(k, c, i)
          \/ DelGoto(k, c, i, "check") \/ DelGoto(k, c, i, "destroy")
          \/ DelGoto(k, c, i, "remove")
      BY <1>5 DEF DeleteStep, UpdateVolume, DelCheck, DelDestroy,
                  DelDestroyFails, DelRemove
    <3>3. QED BY <3>1, <3>2, OutcomeTypes
  <2>3. pv' \in [Claims -> PVType] /\ asset' \in [Claims -> 0 .. MaxId]
    <3>1. /\ pv' = pv \/ pv' = [pv EXCEPT ![c] = NoPV]
          /\ asset' = asset \/ asset' = [asset EXCEPT ![c] = 0]
      BY <1>5 DEF DeleteStep, UpdateVolume, DelCheck, DelDestroy,
                  DelDestroyFails, DelRemove, apiVars, arrayVars
    <3>2. NoPV \in PVType /\ pv \in [Claims -> PVType]
      BY RecordTypes DEF TypeOK
    <3>3. asset' \in [Claims -> 0 .. MaxId]
      <4>1. CASE asset' = asset
        BY <4>1 DEF TypeOK
      <4>2. CASE asset' = [asset EXCEPT ![c] = 0]
        BY <4>2 DEF TypeOK
      <4>3. QED BY <3>1, <4>1, <4>2
    <3>4. QED BY <3>1, <3>2, <3>3
  <2>4. UNCHANGED <<claim, holder, announced, nextId, up, seen, lockVars,
                    provVars>>
    BY <1>5 DEF DeleteStep, UpdateVolume, DelCheck, DelDestroy,
                DelDestroyFails, DelRemove, apiVars, arrayVars
  <2>5. QED BY <2>1, <2>2, <2>3, <2>4 DEF TypeOK, lockVars, provVars
<1>6. ASSUME NEW k \in Controllers, ProcessStep(k) PROVE TypeOK'
  <2>1. CASE HitThreshold(k) \/ Crash(k)
    <3>1. faults' \in FaultsType /\ Down(k)
      BY <2>1, FaultTypes DEF HitThreshold, Crash
    <3>2. /\ [c \in Claims |-> Idle] \in [Claims -> ProvType]
          /\ [c \in Claims |-> 0] \in [Claims -> FailCounts]
          /\ [c \in Claims |-> [i \in Ids |-> "off"]] \in [Claims -> [Ids -> DelPcs]]
          /\ [c \in Claims |-> [i \in Ids |-> 0]] \in [Claims -> [Ids -> FailCounts]]
      BY RecordTypes DEF FailCounts, DelPcs
    <3>3. /\ prov' \in [Controllers -> [Claims -> ProvType]]
          /\ provFails' \in [Controllers -> [Claims -> FailCounts]]
          /\ del' \in [Controllers -> [Claims -> [Ids -> DelPcs]]]
          /\ delFails' \in [Controllers -> [Claims -> [Ids -> FailCounts]]]
      BY <3>1, <3>2 DEF Down, TypeOK
    <3>4. /\ up' \in [Controllers -> BOOLEAN]
          /\ seen' \in [Controllers -> [Claims -> {"none", "pending", "bound"}]]
          /\ lock' \in [Controllers ->
                           [Claims -> {"off", "acquiring", "leading", "resting"}]]
          /\ observed' \in [Controllers -> [Claims -> BOOLEAN]]
          /\ holder' \in [Claims -> Controllers \cup {Nobody}]
      BY <3>1 DEF Down, TypeOK
    <3>5. QED BY <3>1, <3>3, <3>4 DEF Down, TypeOK, arrayVars
  <2>2. CASE Restart(k)
    BY <2>2 DEF Restart, TypeOK, apiVars, arrayVars, lockVars, provVars, delVars
  <2>3. QED BY <1>6, <2>1, <2>2 DEF ProcessStep
<1>7. CASE UNCHANGED vars
  BY <1>7 DEF TypeOK, vars, apiVars, arrayVars, lockVars, provVars, delVars
<1>8. QED BY <1>1, <1>2, <1>3, <1>4, <1>5, <1>6, <1>7 DEF Next

\* Type correctness: every variable of the controllers, the API server and
\* the array stays in its declared range; in particular no id, retry or
\* failure counter leaves its bounds.
THEOREM TypeCorrect == Spec => []TypeOK
<1>1. QED BY TypeInit, TypeNext, PTL DEF Spec

-----------------------------------------------------------------------------
(***************************************************************************)
(* What a step does to a claim's PV, asset and operations.  The invariants *)
(* below are about these five variables only, so each step is first reduced *)
(* to one of six effects.                                                  *)
(***************************************************************************)

\* A provision operation that owns an asset of its own.
Holds(k, c) == prov[k][c].pc \in {"save", "cleanup"}

\* Only operation k for c of the provision operations changes, to op.
ProvBecomes(k, c, op) ==
  \A j \in Controllers, d \in Claims :
    prov'[j][d] = IF j = k /\ d = c THEN op ELSE prov[j][d]

\* Only operation k for i of the delete operations changes, to pc.
DelBecomes(k, c, i, pc) ==
  \A j \in Controllers, d \in Claims, n \in Ids :
    del'[j][d][n] = IF j = k /\ d = c /\ n = i THEN pc ELSE del[j][d][n]

\* The step loses no answer to a PV Create.
AnswersKept == "apiLostAck" \in faults'.kinds <=> "apiLostAck" \in faults.kinds

\* A process died.
Interrupted == ~Without({"crash", "panic"})

\* Nothing is created or destroyed; operations may end or start afresh, those
\* that own an asset only when their process dies.
QuietEffect ==
  /\ UNCHANGED <<pv, asset, nextId>>
  /\ \/ UNCHANGED claim
     \/ \E c \in Claims : CreateClaim(c) \/ DeleteClaim(c)
  /\ AnswersKept
  /\ \A k \in Controllers, c \in Claims :
       \/ prov'[k][c] = prov[k][c]
       \/ /\ prov'[k][c] \in {Idle, Checking, Creating}
          /\ ~Holds(k, c) \/ Interrupted'
  /\ \A k \in Controllers, c \in Claims, i \in Ids :
       \/ del'[k][c][i] \in {del[k][c][i], "off"}
       \/ del[k][c][i] = "check" /\ del'[k][c][i] = "destroy"

\* Kubernetes moves a PV in use to another phase.
PhaseEffect(c) ==
  /\ UNCHANGED <<asset, nextId, prov, del, faults>>
  /\ \/ /\ claim[c] = "pending" /\ claim' = [claim EXCEPT ![c] = "bound"]
        /\ pv[c].phase = "available" /\ pv'[c].phase = "bound"
     \/ /\ claim[c] = "gone" /\ UNCHANGED claim
        /\ pv[c].phase \in {"available", "bound"} /\ pv'[c].phase = "released"
  /\ pv'[c].id = pv[c].id
  /\ \A d \in Claims \ {c} : pv'[d] = pv[d]

\* The array creates an asset.
CreateEffect(k, c) ==
  /\ UNCHANGED <<claim, pv, del>>
  /\ AnswersKept
  /\ asset[c] = 0
  /\ nextId[c] \in Ids
  /\ asset' = [asset EXCEPT ![c] = nextId[c]]
  /\ nextId' = [nextId EXCEPT ![c] = nextId[c] + 1]
  /\ ~Holds(k, c)
  /\ \E op \in {Idle, Saving(nextId[c])} :
       ProvBecomes(k, c, op) /\ (op = Idle => "arrayLostAck" \in faults'.kinds)

\* The holder of an asset saves or destroys it, or tries in vain.
HolderEffect(k, c) ==
  /\ UNCHANGED <<claim, nextId, del>>
  /\ Holds(k, c)
  /\ \E op \in ProvType :
       /\ op = Idle \/ (op.pc \in {"save", "cleanup"} /\ op.id = prov[k][c].id)
       /\ op.pc = "save" => prov[k][c].pc = "save"
       /\ ProvBecomes(k, c, op)
       /\ \/ /\ UNCHANGED <<pv, asset>>
             /\ AnswersKept
             /\ op = Idle => \/ asset[c] # prov[k][c].id
                            \/ "arrayError" \in faults'.kinds
          \/ /\ prov[k][c].pc = "save"
             /\ pv[c] = NoPV
             /\ pv' = [pv EXCEPT ![c] = SavedPV(prov[k][c].id)]
             /\ \/ op = Idle /\ AnswersKept
                \/ "apiLostAck" \in faults'.kinds
             /\ UNCHANGED asset
          \/ /\ prov[k][c].pc = "cleanup"
             /\ AnswersKept
             /\ asset[c] = prov[k][c].id
             /\ asset' = [asset EXCEPT ![c] = 0]
             /\ UNCHANGED pv

\* A delete operation starts, destroys its asset or removes its PV.
DeleteEffect(k, c, i) ==
  /\ UNCHANGED <<claim, nextId, prov>>
  /\ AnswersKept
  /\ \/ /\ UNCHANGED <<pv, asset>>
        /\ pv[c].id = i /\ pv[c].phase = "released" /\ c \notin Retain
        /\ DelBecomes(k, c, i, "check")
     \/ /\ UNCHANGED pv
        /\ del[k][c][i] = "destroy"
        /\ asset[c] = i
        /\ asset' = [asset EXCEPT ![c] = 0]
        /\ \E pc \in {"off", "remove"} : DelBecomes(k, c, i, pc)
     \/ /\ UNCHANGED asset
        /\ del[k][c][i] = "remove"
        /\ pv' = pv \/ pv' = [pv EXCEPT ![c] = NoPV]
        /\ DelBecomes(k, c, i, "off")

\* Changing one provision operation leaves all others alone.
LEMMA ProvUpdate ==
  ASSUME TypeOK, NEW k \in Controllers, NEW c \in Claims, NEW op,
         prov' = [prov EXCEPT ![k][c] = op]
  PROVE  ProvBecomes(k, c, op)
<1>1. prov \in [Controllers -> [Claims -> ProvType]]
  BY DEF TypeOK
<1>2. QED BY <1>1 DEF ProvBecomes

\* Changing one delete operation leaves all others alone.
LEMMA DelUpdate ==
  ASSUME TypeOK, NEW k \in Controllers, NEW c \in Claims, NEW i \in Ids,
         NEW pc \in DelPcs, del' = [del EXCEPT ![k][c][i] = pc]
  PROVE  DelBecomes(k, c, i, pc)
<1>1. del \in [Controllers -> [Claims -> [Ids -> DelPcs]]]
  BY DEF TypeOK
<1> DEFINE g == [del[k][c] EXCEPT ![i] = pc]
           h == [del[k] EXCEPT ![c] = g]
<1>2. \A n \in Ids : g[n] = IF n = i THEN pc ELSE del[k][c][n]
  BY <1>1
<1>3. del' = [del EXCEPT ![k] = h]
  OBVIOUS
<1> HIDE DEF g
<1>4. \A d \in Claims : h[d] = IF d = c THEN g ELSE del[k][d]
  BY <1>1
<1> HIDE DEF h
<1>5. \A j \in Controllers : del'[j] = IF j = k THEN h ELSE del[j]
  BY <1>1, <1>3
<1>6. ASSUME NEW j \in Controllers, NEW d \in Claims, NEW n \in Ids
      PROVE  del'[j][d][n] =
               IF j = k /\ d = c /\ n = i THEN pc ELSE del[j][d][n]
  <2>1. CASE j # k
    BY <2>1, <1>5
  <2>2. CASE j = k /\ d # c
    BY <2>2, <1>4, <1>5
  <2>3. CASE j = k /\ d = c
    <3>1. del'[j][d] = g
      BY <2>3, <1>4, <1>5
    <3>2. QED BY <2>3, <3>1, <1>2
  <2>4. QED BY <2>1, <2>2, <2>3
<1>7. QED BY <1>6 DEF DelBecomes

\* What the kinds of the recorded faults say of a step.
LEMMA FaultKept ==
  /\ UNCHANGED faults => AnswersKept
  /\ \A f : Fault(f) => /\ f \in faults'.kinds
                        /\ f # "apiLostAck" => AnswersKept
                        /\ faults.kinds \subseteq faults'.kinds
BY DEF Fault, AnswersKept

\* Every step has one of the effects above on the claims.
LEMMA StepEffect ==
  ASSUME TypeOK, [Next]_vars
  PROVE  \/ QuietEffect
         \/ \E c \in Claims : PhaseEffect(c)
         \/ \E k \in Controllers, c \in Claims :
              CreateEffect(k, c) \/ HolderEffect(k, c)
         \/ \E k \in Controllers, c \in Claims, i \in Ids : DeleteEffect(k, c, i)
<1>1. ASSUME UNCHANGED <<claim, pv, asset, nextId, del>>, AnswersKept,
             NEW k \in Controllers, NEW c \in Claims, ~Holds(k, c),
             NEW op \in {Idle, Checking, Creating},
             prov' = [prov EXCEPT ![k][c] = op]
      PROVE  QuietEffect
  BY <1>1, ProvUpdate DEF QuietEffect, ProvBecomes
<1>2. ASSUME UNCHANGED <<claim, pv, asset, nextId, prov, del>>, AnswersKept
      PROVE  QuietEffect
  BY <1>2 DEF QuietEffect
<1>3. ASSUME NEW c \in Claims, Kubernetes(c)
      PROVE  QuietEffect \/ PhaseEffect(c)
  <2>1. CASE CreateClaim(c) \/ DeleteClaim(c)
    <3>1. UNCHANGED <<pv, asset, nextId, prov, del, faults>>
      BY <2>1 DEF CreateClaim, DeleteClaim, arrayVars, provVars, delVars
    <3>2. QED BY <2>1, <3>1, FaultKept DEF QuietEffect
  <2>2. CASE BindVolume(c) \/ ReleaseVolume(c)
    <3>1. pv \in [Claims -> PVType] /\ pv[c] \in PVType
      BY DEF TypeOK
    <3>2. QED BY <2>2, <3>1 DEF BindVolume, ReleaseVolume, PhaseEffect, PVType,
                                arrayVars, provVars, delVars
  <2>3. QED BY <1>3, <2>1, <2>2 DEF Kubernetes
<1>4. ASSUME NEW k \in Controllers, NEW c \in Claims,
             ClaimStep(k, c) \/ LockStep(k, c)
      PROVE  QuietEffect
  <2>1. /\ UNCHANGED <<claim, pv, asset, nextId, del>>
        /\ \/ prov' = prov
           \/ ~Holds(k, c) /\ prov' = [prov EXCEPT ![k][c] = Checking]
    BY <1>4 DEF Holds, ClaimStep, SyncClaim, AddClaimAsLeader, AddClaimLock, LockStep,
                TryAcquire, AcquireFails, AcquireOver, StopLeading, RestOver,
                ScheduleProvision, apiVars, arrayVars, provVars, delVars
  <2>2. UNCHANGED faults \/ Fault("apiError") \/ Fault("namesake")
    BY <1>4 DEF ClaimStep, SyncClaim, AddClaimAsLeader, AddClaimLock, LockStep,
                TryAcquire, AcquireFails, AcquireOver, StopLeading, RestOver,
                NoFault
  <2>3. QED BY <2>1, <2>2, <1>1, <1>2, FaultKept
<1>5. ASSUME NEW k \in Controllers, NEW c \in Claims, ProvisionStep(k, c)
      PROVE  QuietEffect \/ CreateEffect(k, c) \/ HolderEffect(k, c)
  <2>1. CASE ProvCheck(k, c) \/ ProvNoClass(k, c) \/ ProvCreateFails(k, c)
    <3>1. /\ UNCHANGED <<claim, pv, asset, nextId, del>>
          /\ \E op \in {Idle, Creating} : prov' = [prov EXCEPT ![k][c] = op]
      BY <2>1 DEF ProvCheck, ProvNoClass, ProvCreateFails, ProvDone,
                  ProvFailed, ProvGoto, apiVars, arrayVars, delVars
    <3>2. AnswersKept
      BY <2>1, FaultKept DEF ProvCheck, ProvNoClass, ProvCreateFails, NoFault
    <3>3. ~Holds(k, c)
      BY <2>1 DEF ProvCheck, ProvNoClass, ProvCreateFails, Provisioning, Holds
    <3>4. QED BY <3>1, <3>2, <3>3, <1>1
  <2>2. CASE ProvCreate(k, c)
    <3>1. \/ prov' = [prov EXCEPT ![k][c] = Saving(nextId[c])] /\ NoFault
          \/ prov' = [prov EXCEPT ![k][c] = Idle] /\ Fault("arrayLostAck")
      BY <2>2 DEF ProvCreate, ProvFailed, ProvGoto
    <3>2. /\ AnswersKept
          /\ \E op \in {Idle, Saving(nextId[c])} :
               /\ ProvBecomes(k, c, op)
               /\ op = Idle => "arrayLostAck" \in faults'.kinds
      <4>1. CASE prov' = [prov EXCEPT ![k][c] = Idle] /\ Fault("arrayLostAck")
        <5>1. ProvBecomes(k, c, Idle)
          BY <4>1, ProvUpdate
        <5>2. QED BY <4>1, <5>1, FaultKept
      <4>2. CASE prov' = [prov EXCEPT ![k][c] = Saving(nextId[c])] /\ NoFault
        <5>1. Saving(nextId[c]) # Idle
          BY DEF Saving, Idle
        <5>2. ProvBecomes(k, c, Saving(nextId[c]))
          BY <4>2, ProvUpdate
        <5>3. QED BY <4>2, <5>1, <5>2, FaultKept DEF NoFault
      <4>3. QED BY <3>1, <4>1, <4>2
    <3>3. nextId[c] \in Ids
      BY <2>2, ConstantsAssumption DEF ProvCreate, TypeOK
    <3>4. QED BY <2>2, <3>2, <3>3 DEF ProvCreate, CreateEffect, Provisioning,
                                      Holds, apiVars, delVars
  <2>3. prov[k][c] \in ProvType
    BY DEF TypeOK
  <2>4. CASE ProvSave(k, c)
    <3>1. ProvBecomes(k, c, Idle)
      BY <2>4, ProvUpdate DEF ProvSave, ProvDone
    <3>2. Idle \in ProvType /\ Idle.pc # "save"
      BY RecordTypes DEF Idle
    <3>3. AnswersKept
      BY <2>4, FaultKept DEF ProvSave
    <3>4. QED BY <2>4, <3>1, <3>2, <3>3 DEF ProvSave, HolderEffect,
                                            Provisioning, Holds, arrayVars,
                                            delVars
  <2>5. CASE ProvSaveFails(k, c)
    <3> DEFINE op == NextTry(prov[k][c], "cleanup")
    <3>1. /\ op \in ProvType /\ op.id = prov[k][c].id
          /\ op.pc \in {"save", "cleanup"} /\ prov[k][c].pc = "save"
      BY <2>3, <2>5, NextTryType DEF ProvSaveFails, Provisioning
    <3>2. prov' = [prov EXCEPT ![k][c] = op]
      BY <2>5 DEF ProvSaveFails, ProvGoto
    <3> HIDE DEF op
    <3>3. ProvBecomes(k, c, op)
      BY <3>2, ProvUpdate
    <3>4. /\ UNCHANGED <<claim, nextId, del, asset>>
          /\ \/ UNCHANGED pv /\ AnswersKept
             \/ /\ pv[c] = NoPV
                /\ pv' = [pv EXCEPT ![c] = SavedPV(prov[k][c].id)]
                /\ "apiLostAck" \in faults'.kinds
      BY <2>5, FaultKept DEF ProvSaveFails, NoFault, arrayVars, delVars
    <3>5. op # Idle
      BY <3>1 DEF Idle
    <3>6. QED BY <3>1, <3>3, <3>4, <3>5 DEF HolderEffect, Holds
  <2>6. CASE ProvCleanup(k, c)
    <3>1. ProvBecomes(k, c, Idle)
      BY <2>6, ProvUpdate DEF ProvCleanup, ProvDone
    <3>2. Idle \in ProvType /\ Idle.pc # "save"
      BY RecordTypes DEF Idle
    <3>3. AnswersKept
      BY <2>6, FaultKept DEF ProvCleanup
    <3>4. QED BY <2>6, <3>1, <3>2, <3>3 DEF ProvCleanup, HolderEffect,
                                            Provisioning, Holds, apiVars,
                                            delVars
  <2>7. CASE ProvCleanupFails(k, c)
    <3> DEFINE op == NextTry(prov[k][c], "off")
    <3>1. /\ op \in ProvType /\ op.id = prov[k][c].id
          /\ op.pc \in {"off", "cleanup"} /\ prov[k][c].pc = "cleanup"
      BY <2>3, <2>7, NextTryType DEF ProvCleanupFails, Provisioning
    <3>2. \/ prov' = [prov EXCEPT ![k][c] = Idle]
          \/ op.pc = "cleanup" /\ prov' = [prov EXCEPT ![k][c] = op]
      BY <2>7, <3>1 DEF ProvCleanupFails, ProvGoto, ProvDone
    <3> HIDE DEF op
    <3>3. ProvBecomes(k, c, Idle) \/ (op.pc = "cleanup" /\ ProvBecomes(k, c, op))
      BY <3>2, ProvUpdate
    <3>4. Idle \in ProvType /\ Idle.pc # "save"
      BY RecordTypes DEF Idle
    <3>5. /\ UNCHANGED <<claim, nextId, del, pv>>
          /\ AnswersKept
          /\ \/ /\ UNCHANGED asset
                /\ \/ asset[c] # prov[k][c].id
                   \/ "arrayError" \in faults'.kinds
             \/ /\ asset[c] = prov[k][c].id
                /\ asset' = [asset EXCEPT ![c] = 0]
      BY <2>7, FaultKept DEF ProvCleanupFails, NoFault, apiVars, delVars
    <3>6. QED BY <3>1, <3>3, <3>4, <3>5 DEF HolderEffect, Holds
  <2>8. QED BY <1>5, <2>1, <2>2, <2>4, <2>5, <2>6, <2>7 DEF ProvisionStep
<1>6. ASSUME NEW k \in Controllers, NEW c \in Claims, NEW i \in Ids,
             DeleteStep(k, c, i)
      PROVE  QuietEffect \/ DeleteEffect(k, c, i)
  <2>1. UNCHANGED <<claim, nextId, prov>> /\ AnswersKept
    BY <1>6, FaultKept DEF DeleteStep, UpdateVolume, DelCheck, DelDestroy,
                           DelDestroyFails, DelRemove, NoFault, provVars,
                           arrayVars, apiVars
  <2>2. DelPcs = {"off", "check", "destroy", "remove"}
    BY DEF DelPcs
  <2>3. CASE UpdateVolume(k, c, i)
    <3>1. DelBecomes(k, c, i, "check")
      BY <2>2, <2>3, DelUpdate DEF UpdateVolume, DelGoto
    <3>2. QED BY <2>1, <2>3, <3>1 DEF UpdateVolume, DeleteEffect, ShouldDelete,
                                      apiVars, arrayVars
  <2>4. CASE DelCheck(k, c, i) \/ DelDestroyFails(k, c, i)
    <3>1. /\ UNCHANGED <<pv, asset>>
          /\ \/ del' = [del EXCEPT ![k][c][i] = "off"]
             \/ /\ del[k][c][i] = "check"
                /\ del' = [del EXCEPT ![k][c][i] = "destroy"]
      BY <2>4 DEF DelCheck, DelDestroyFails, DelDone, DelFailed, DelGoto,
                  Deleting, apiVars, arrayVars
    <3>2. \/ DelBecomes(k, c, i, "off")
          \/ del[k][c][i] = "check" /\ DelBecomes(k, c, i, "destroy")
      BY <2>2, <3>1, DelUpdate
    <3>3. QED BY <2>1, <3>1, <3>2 DEF QuietEffect, DelBecomes
  <2>5. CASE DelDestroy(k, c, i)
    <3>1. \E pc \in {"off", "remove"} : del' = [del EXCEPT ![k][c][i] = pc]
      BY <2>5 DEF DelDestroy, DelGoto, DelFailed
    <3>2. \E pc \in {"off", "remove"} : DelBecomes(k, c, i, pc)
      BY <2>2, <3>1, DelUpdate
    <3>3. QED BY <2>1, <2>5, <3>2 DEF DelDestroy, DeleteEffect, Deleting,
                                      apiVars
  <2>6. CASE DelRemove(k, c, i)
    <3>1. DelBecomes(k, c, i, "off")
      BY <2>2, <2>6, DelUpdate DEF DelRemove, DelDone
    <3>2. QED BY <2>1, <2>6, <3>1 DEF DelRemove, DeleteEffect, Deleting,
                                      arrayVars
  <2>7. QED BY <1>6, <2>3, <2>4, <2>5, <2>6 DEF DeleteStep
<1>7. ASSUME NEW k \in Controllers, ProcessStep(k)
      PROVE  QuietEffect
  <2>1. CASE Restart(k)
    BY <2>1, <1>2, FaultKept DEF Restart, apiVars, arrayVars, provVars, delVars
  <2>2. CASE HitThreshold(k) \/ Crash(k)
    <3>0. Down(k) /\ AnswersKept /\ Interrupted'
      <4>1. CASE HitThreshold(k)
        BY <4>1 DEF HitThreshold, AnswersKept, Interrupted, Without, TypeOK,
                    FaultsType
      <4>2. CASE Crash(k)
        BY <4>2, FaultKept DEF Crash, Interrupted, Without
      <4>3. QED BY <2>2, <4>1, <4>2
    <3>1. /\ prov \in [Controllers -> [Claims -> ProvType]]
          /\ del \in [Controllers -> [Claims -> [Ids -> DelPcs]]]
      BY DEF TypeOK
    <3>2. \A j \in Controllers, c \in Claims : prov'[j][c] \in {prov[j][c], Idle}
      BY <3>0, <3>1 DEF Down
    <3>3. \A j \in Controllers, c \in Claims, i \in Ids :
            del'[j][c][i] \in {del[j][c][i], "off"}
      BY <3>0, <3>1 DEF Down
    <3>4. QED BY <3>0, <3>2, <3>3 DEF Down, QuietEffect, arrayVars
  <2>3. QED BY <1>7, <2>1, <2>2 DEF ProcessStep
<1>8. CASE UNCHANGED vars
  BY <1>8, <1>2, FaultKept DEF vars, apiVars, arrayVars, provVars, delVars
<1>9. QED BY <1>3, <1>4, <1>5, <1>6, <1>7, <1>8 DEF Next

-----------------------------------------------------------------------------
(* Removal follows destruction, whatever faults happen.                      *)

\* The ids in use were given out before.
IdsGiven(c) ==
  /\ asset[c] < nextId[c]
  /\ pv[c].id < nextId[c]
  /\ pv[c].id = 0 <=> pv[c] = NoPV
  /\ \A k \in Controllers : prov[k][c].id < nextId[c]
  /\ \A k \in Controllers : Holds(k, c) => prov[k][c].id >= 1
  /\ \A k \in Controllers, i \in Ids : del[k][c][i] # "off" => i < nextId[c]

\* An operation that is about to remove the PV destroyed its asset, the PV is
\* still the one of that asset, and no other controller is there too.
Removing(c) ==
  \A k \in Controllers, i \in Ids : del[k][c][i] = "remove" =>
    /\ pv[c].id = i
    /\ asset[c] # i
    /\ \A j \in Controllers : del[j][c][i] = "remove" => j = k

\* An asset some operation wants to delete is the asset of the current PV.
DeletesCurrent(c) ==
  \A k \in Controllers, i \in Ids :
    del[k][c][i] # "off" /\ asset[c] = i => pv[c].id = i

OrderInv == \A c \in Claims : IdsGiven(c) /\ Removing(c) /\ DeletesCurrent(c)

\* The types of what belongs to one claim.
LEMMA PointTypes ==
  ASSUME TypeOK, NEW c \in Claims
  PROVE  /\ pv \in [Claims -> PVType] /\ pv[c].id \in 0 .. MaxId
         /\ asset \in [Claims -> 0 .. MaxId] /\ asset[c] \in 0 .. MaxId
         /\ nextId \in [Claims -> 1 .. MaxId + 1] /\ nextId[c] \in 1 .. MaxId + 1
         /\ \A k \in Controllers :
              prov[k][c] \in ProvType /\ prov[k][c].id \in 0 .. MaxId
<1>1. pv[c] \in PVType /\ pv \in [Claims -> PVType]
  BY DEF TypeOK
<1>2. \A k \in Controllers : prov[k][c] \in ProvType
  BY DEF TypeOK
<1>3. QED BY <1>1, <1>2 DEF TypeOK, PVType, ProvType

\* The fields of the constant records.
LEMMA RecordFields ==
  /\ NoPV.id = 0 /\ NoPV.phase = "none"
  /\ Idle.id = 0 /\ Idle.pc = "off"
  /\ Checking.id = 0 /\ Checking.pc = "check"
  /\ Creating.id = 0 /\ Creating.pc = "create"
  /\ \A i : /\ Saving(i).id = i /\ Saving(i).pc = "save"
            /\ SavedPV(i).id = i /\ SavedPV(i).phase = "available"
BY DEF NoPV, Idle, Checking, Creating, Saving, SavedPV

\* The initial state satisfies the invariant behind the order of removal.
LEMMA OrderInit == Init => OrderInv
<1> SUFFICES ASSUME Init, NEW c \in Claims
             PROVE  IdsGiven(c) /\ Removing(c) /\ DeletesCurrent(c)
  BY DEF OrderInv
<1>1. /\ pv[c] = NoPV /\ asset[c] = 0 /\ nextId[c] = 1
      /\ \A k \in Controllers : prov[k][c] = Idle
      /\ \A k \in Controllers, i \in Ids : del[k][c][i] = "off"
  BY DEF Init
<1>2. QED BY <1>1, RecordFields DEF IdsGiven, Removing, DeletesCurrent, Holds

\* Every step keeps it, under all faults.
LEMMA OrderNext ==
  ASSUME TypeOK, OrderInv, [Next]_vars
  PROVE  OrderInv'
<1> SUFFICES ASSUME NEW c \in Claims
             PROVE  (IdsGiven(c) /\ Removing(c) /\ DeletesCurrent(c))'
  BY DEF OrderInv
<1> USE ConstantsAssumption, RecordFields
<1>1. IdsGiven(c) /\ Removing(c) /\ DeletesCurrent(c)
  BY DEF OrderInv
<1>2. /\ pv \in [Claims -> PVType] /\ pv[c].id \in 0 .. MaxId
      /\ asset \in [Claims -> 0 .. MaxId] /\ asset[c] \in 0 .. MaxId
      /\ nextId \in [Claims -> 1 .. MaxId + 1] /\ nextId[c] \in 1 .. MaxId + 1
      /\ \A k \in Controllers :
           prov[k][c] \in ProvType /\ prov[k][c].id \in 0 .. MaxId
  BY PointTypes
<1>3. CASE QuietEffect
  <2>1. UNCHANGED <<pv, asset, nextId>>
    BY <1>3 DEF QuietEffect
  <2>2. \A k \in Controllers : prov'[k][c] \in {prov[k][c], Idle, Checking, Creating}
    BY <1>3 DEF QuietEffect
  <2>3. \A k \in Controllers, i \in Ids :
          /\ del'[k][c][i] # "off" => del[k][c][i] # "off"
          /\ del'[k][c][i] = "remove" => del[k][c][i] = "remove"
    BY <1>3 DEF QuietEffect
  <2>4. \A k \in Controllers : /\ prov'[k][c].id < nextId[c]
                               /\ Holds(k, c)' => prov'[k][c].id >= 1
    BY <1>1, <1>2, <2>2 DEF IdsGiven, Holds
  <2>5. IdsGiven(c)'
    BY <1>1, <2>1, <2>3, <2>4 DEF IdsGiven
  <2>6. (Removing(c) /\ DeletesCurrent(c))'
    BY <1>1, <2>1, <2>3 DEF Removing, DeletesCurrent
  <2>7. QED BY <2>5, <2>6
<1>4. ASSUME NEW d \in Claims, PhaseEffect(d)
      PROVE  (IdsGiven(c) /\ Removing(c) /\ DeletesCurrent(c))'
  <2>1. pv'[c].id = pv[c].id /\ (pv[c] = NoPV <=> pv'[c] = NoPV)
    <3>1. CASE c = d
      <4>1. pv[c] # NoPV /\ pv'[c] # NoPV
        BY <1>4, <3>1 DEF PhaseEffect
      <4>2. QED BY <1>4, <3>1, <4>1 DEF PhaseEffect
    <3>2. CASE c # d
      BY <1>4, <3>2 DEF PhaseEffect
    <3>3. QED BY <3>1, <3>2
  <2>2. UNCHANGED <<asset, nextId, prov, del>>
    BY <1>4 DEF PhaseEffect
  <2>3. QED BY <1>1, <2>1, <2>2 DEF IdsGiven, Removing, DeletesCurrent, Holds
<1>5. ASSUME NEW k \in Controllers, NEW d \in Claims, CreateEffect(k, d)
      PROVE  (IdsGiven(c) /\ Removing(c) /\ DeletesCurrent(c))'
  <2>1. CASE c # d
    <3>1. /\ UNCHANGED <<pv, del>> /\ asset'[c] = asset[c] /\ nextId'[c] = nextId[c]
          /\ \A j \in Controllers : prov'[j][c] = prov[j][c]
      BY <1>2, <1>5, <2>1 DEF CreateEffect, ProvBecomes
    <3>2. QED BY <1>1, <3>1 DEF IdsGiven, Removing, DeletesCurrent, Holds
  <2>2. CASE c = d
    <3>1. /\ UNCHANGED <<pv, del>> /\ asset[c] = 0 /\ asset'[c] = nextId[c]
          /\ nextId'[c] = nextId[c] + 1
      BY <1>2, <1>5, <2>2 DEF CreateEffect
    <3>2. \A j \in Controllers :
            prov'[j][c] \in {prov[j][c], Idle, Saving(nextId[c])}
      BY <1>5, <2>2 DEF CreateEffect, ProvBecomes
    <3>3. IdsGiven(c)'
      BY <1>1, <1>2, <3>1, <3>2 DEF IdsGiven, Holds
    <3>4. (Removing(c) /\ DeletesCurrent(c))'
      BY <1>1, <1>2, <3>1 DEF IdsGiven, Removing, DeletesCurrent
    <3>5. QED BY <3>3, <3>4
  <2>3. QED BY <2>1, <2>2
<1>6. ASSUME NEW k \in Controllers, NEW d \in Claims, HolderEffect(k, d)
      PROVE  (IdsGiven(c) /\ Removing(c) /\ DeletesCurrent(c))'
  <2>1. CASE c # d
    <3>1. /\ UNCHANGED <<nextId, del>> /\ asset'[c] = asset[c] /\ pv'[c] = pv[c]
          /\ \A j \in Controllers : prov'[j][c] = prov[j][c]
      BY <1>2, <1>6, <2>1 DEF HolderEffect, ProvBecomes
    <3>2. QED BY <1>1, <3>1 DEF IdsGiven, Removing, DeletesCurrent, Holds
  <2>2. CASE c = d
    <3>1. /\ UNCHANGED <<nextId, del>>
          /\ asset'[c] \in {asset[c], 0}
          /\ \/ pv'[c] = pv[c]
             \/ pv[c] = NoPV /\ pv'[c] = SavedPV(prov[k][c].id)
          /\ Holds(k, c)
      BY <1>2, <1>6, <2>2 DEF HolderEffect
    <3>2. \A j \in Controllers :
            \/ prov'[j][c] \in {prov[j][c], Idle}
            \/ Holds(j, c) /\ prov'[j][c].id = prov[j][c].id
      BY <1>6, <2>2 DEF HolderEffect, ProvBecomes
    <3>3. IdsGiven(c)'
      <4>1. pv'[c].id < nextId[c] /\ (pv'[c].id = 0 <=> pv'[c] = NoPV)
        BY <1>1, <1>2, <3>1 DEF IdsGiven
      <4>2. \A j \in Controllers : prov'[j][c].id < nextId[c]
        BY <1>1, <1>2, <3>2 DEF IdsGiven
      <4>3. \A j \in Controllers : Holds(j, c)' => prov'[j][c].id >= 1
        BY <1>1, <1>2, <3>2 DEF IdsGiven, Holds
      <4>4. QED BY <1>1, <1>2, <3>1, <4>1, <4>2, <4>3 DEF IdsGiven
    <3>4. (Removing(c) /\ DeletesCurrent(c))'
      BY <1>1, <1>2, <3>1 DEF IdsGiven, Removing, DeletesCurrent
    <3>5. QED BY <3>3, <3>4
  <2>3. QED BY <2>1, <2>2
<1>7. ASSUME NEW k \in Controllers, NEW d \in Claims, NEW i \in Ids,
             DeleteEffect(k, d, i)
      PROVE  (IdsGiven(c) /\ Removing(c) /\ DeletesCurrent(c))'
  <2>1. CASE c # d
    <3>1. /\ UNCHANGED <<nextId, prov>> /\ asset'[c] = asset[c] /\ pv'[c] = pv[c]
          /\ \A j \in Controllers, n \in Ids : del'[j][c][n] = del[j][c][n]
      BY <1>2, <1>7, <2>1 DEF DeleteEffect, DelBecomes
    <3>2. QED BY <1>1, <3>1 DEF IdsGiven, Removing, DeletesCurrent, Holds
  <2>2. ASSUME c = d, UNCHANGED <<pv, asset>>, pv[c].id = i,
               DelBecomes(k, c, i, "check")
        PROVE  (IdsGiven(c) /\ Removing(c) /\ DeletesCurrent(c))'
    <3>1. UNCHANGED <<nextId, prov>>
      BY <1>7 DEF DeleteEffect
    <3>2. QED BY <1>1, <1>2, <2>2, <3>1 DEF DelBecomes, IdsGiven, Removing,
                                            DeletesCurrent, Holds
  <2>3. ASSUME c = d, UNCHANGED pv, del[k][c][i] = "destroy", asset[c] = i,
               asset' = [asset EXCEPT ![c] = 0],
               NEW pc \in {"off", "remove"}, DelBecomes(k, c, i, pc)
        PROVE  (IdsGiven(c) /\ Removing(c) /\ DeletesCurrent(c))'
    <3>1. UNCHANGED <<nextId, prov>> /\ asset'[c] = 0 /\ pv[c].id = i
      BY <1>1, <1>2, <1>7, <2>3 DEF DeleteEffect, DeletesCurrent
    <3>2. IdsGiven(c)' /\ DeletesCurrent(c)'
      BY <1>1, <1>2, <2>3, <3>1 DEF DelBecomes, IdsGiven, DeletesCurrent, Holds
    <3>3. Removing(c)'
      \* no other operation was about to remove this PV, or its asset was gone
      <4>1. \A j \in Controllers, n \in Ids : del[j][c][n] # "remove"
        BY <1>1, <2>3, <3>1 DEF Removing
      <4>2. \A j \in Controllers, n \in Ids :
              del'[j][c][n] = "remove" => j = k /\ n = i
        BY <4>1, <2>3 DEF DelBecomes
      <4>3. QED BY <4>2, <2>3, <3>1 DEF Removing
    <3>4. QED BY <3>2, <3>3
  <2>4. ASSUME c = d, UNCHANGED asset, del[k][c][i] = "remove",
               pv' = pv \/ pv' = [pv EXCEPT ![c] = NoPV],
               DelBecomes(k, c, i, "off")
        PROVE  (IdsGiven(c) /\ Removing(c) /\ DeletesCurrent(c))'
    <3>1. UNCHANGED <<nextId, prov>> /\ pv'[c] \in {pv[c], NoPV}
      BY <1>2, <1>7, <2>4 DEF DeleteEffect
    <3>2. pv[c].id = i /\ asset[c] # i
      BY <1>1, <2>4 DEF Removing
    <3>3. IdsGiven(c)'
      BY <1>1, <1>2, <2>4, <3>1 DEF DelBecomes, IdsGiven, Holds
    <3>4. Removing(c)'
      BY <1>1, <2>4, <3>1, <3>2 DEF DelBecomes, Removing
    <3>5. DeletesCurrent(c)'
      BY <1>1, <2>4, <3>1, <3>2 DEF DelBecomes, DeletesCurrent
    <3>6. QED BY <3>3, <3>4, <3>5
  <2>5. QED BY <1>7, <2>1, <2>2, <2>3, <2>4 DEF DeleteEffect
<1>8. QED BY <1>3, <1>4, <1>5, <1>6, <1>7, StepEffect

\* In every step of every behaviour a PV object disappears only if the array
\* no longer has its asset (deleteVolumeOperation of all controllers together,
\* under every kind of fault).
THEOREM RemovalOrder == Spec => RemovalFollowsDestruction
<1>1. ASSUME TypeOK, OrderInv, [Next]_vars
      PROVE  [\A c \in Claims :
                pv[c] # NoPV /\ pv'[c] = NoPV => asset[c] # pv[c].id]_vars
  <2> SUFFICES ASSUME NEW c \in Claims, pv[c] # NoPV, pv'[c] = NoPV
               PROVE  asset[c] # pv[c].id
    OBVIOUS
  <2>1. pv \in [Claims -> PVType]
    BY <1>1, PointTypes
  <2>2. CASE QuietEffect
    BY <2>2 DEF QuietEffect
  <2>3. ASSUME NEW d \in Claims, PhaseEffect(d) PROVE asset[c] # pv[c].id
    BY <2>3, RecordFields DEF PhaseEffect
  <2>4. ASSUME NEW k \in Controllers, NEW d \in Claims,
               CreateEffect(k, d) \/ HolderEffect(k, d)
        PROVE  asset[c] # pv[c].id
    BY <2>1, <2>4, RecordFields DEF CreateEffect, HolderEffect
  <2>5. ASSUME NEW k \in Controllers, NEW d \in Claims, NEW i \in Ids,
               DeleteEffect(k, d, i)
        PROVE  asset[c] # pv[c].id
    <3>1. c = d /\ del[k][c][i] = "remove"
      BY <2>1, <2>5 DEF DeleteEffect
    <3>2. QED BY <1>1, <3>1 DEF OrderInv, Removing
  <2>6. QED BY <1>1, <2>2, <2>3, <2>4, <2>5, StepEffect
<1>2. QED BY <1>1, TypeInit, TypeNext, OrderInit, OrderNext, PTL
          DEF Spec, RemovalFollowsDestruction

-----------------------------------------------------------------------------
(* A PV in use has its asset, unless the answer to a PV Create is lost.      *)

\* The asset of a provision operation has no PV and no delete operation yet,
\* and no other operation owns it.
Unsaved(c) ==
  \A k \in Controllers : Holds(k, c) =>
    /\ pv[c].id # prov[k][c].id
    /\ \A j \in Controllers : del[j][c][prov[k][c].id] = "off"
    /\ \A j \in Controllers \ {k} :
         Holds(j, c) => prov[j][c].id # prov[k][c].id

\* The asset an operation is about to save is on the array.
SavesExisting(c) ==
  \A k \in Controllers : prov[k][c].pc = "save" => asset[c] = prov[k][c].id

\* A delete operation for the current PV was right to start.
DeletesReleased(c) ==
  \A k \in Controllers, i \in Ids : del[k][c][i] # "off" /\ pv[c].id = i =>
    pv[c].phase = "released" /\ c \notin Retain

\* SavedVolumeHasAsset for one claim.
Backed(c) == InUse(c) => asset[c] = pv[c].id

BackedInv ==
  \A c \in Claims :
    Unsaved(c) /\ SavesExisting(c) /\ DeletesReleased(c) /\ Backed(c)

\* The initial state satisfies the invariant behind SavedVolumeHasAsset.
LEMMA BackedInit == Init => BackedInv
<1> SUFFICES ASSUME Init, NEW c \in Claims
             PROVE  Unsaved(c) /\ SavesExisting(c) /\ DeletesReleased(c) /\ Backed(c)
  BY DEF BackedInv
<1>1. /\ pv[c] = NoPV /\ asset[c] = 0
      /\ \A k \in Controllers : prov[k][c] = Idle
      /\ \A k \in Controllers, i \in Ids : del[k][c][i] = "off"
  BY DEF Init
<1>2. QED BY <1>1, RecordFields
          DEF Unsaved, SavesExisting, DeletesReleased, Backed, InUse, Holds

\* Every step keeps it if no answer to a PV Create is lost.
LEMMA BackedNext ==
  ASSUME "apiLostAck" \notin faults'.kinds, TypeOK, OrderInv, BackedInv,
         [Next]_vars
  PROVE  BackedInv'
<1> DEFINE Goal(c) ==
      Unsaved(c)' /\ SavesExisting(c)' /\ DeletesReleased(c)' /\ Backed(c)'
<1> SUFFICES ASSUME NEW c \in Claims PROVE Goal(c)
  BY DEF BackedInv
<1> USE ConstantsAssumption, RecordFields
<1>1. /\ IdsGiven(c) /\ Removing(c) /\ DeletesCurrent(c)
      /\ Unsaved(c) /\ SavesExisting(c) /\ DeletesReleased(c) /\ Backed(c)
  BY DEF OrderInv, BackedInv
<1>2. /\ pv \in [Claims -> PVType] /\ pv[c].id \in 0 .. MaxId
      /\ asset \in [Claims -> 0 .. MaxId] /\ asset[c] \in 0 .. MaxId
      /\ nextId \in [Claims -> 1 .. MaxId + 1] /\ nextId[c] \in 1 .. MaxId + 1
      /\ \A k \in Controllers :
           prov[k][c] \in ProvType /\ prov[k][c].id \in 0 .. MaxId
  BY PointTypes
\* Held ids are ids of assets.
<1>3. \A k \in Controllers : Holds(k, c) => prov[k][c].id \in Ids
  BY <1>1, <1>2 DEF IdsGiven
\* A step that leaves the claim's PV and asset alone and only ends or
\* restarts operations.
<1>4. ASSUME pv'[c] = pv[c], asset'[c] = asset[c],
             \A k \in Controllers :
               \/ ~Holds(k, c)'
               \/ /\ Holds(k, c) /\ prov'[k][c].id = prov[k][c].id
                  /\ prov'[k][c].pc = "save" => prov[k][c].pc = "save",
             \A k \in Controllers, i \in Ids :
               del'[k][c][i] # "off" => del[k][c][i] # "off"
      PROVE  Goal(c)
  <2>1. Unsaved(c)'
    BY <1>1, <1>3, <1>4 DEF Unsaved
  <2>2. SavesExisting(c)'
    BY <1>1, <1>4 DEF SavesExisting, Holds
  <2>3. DeletesReleased(c)' /\ Backed(c)'
    BY <1>1, <1>4 DEF DeletesReleased, Backed, InUse
  <2>4. QED BY <2>1, <2>2, <2>3
<1>5. CASE QuietEffect
  <2>1. UNCHANGED <<pv, asset>>
    BY <1>5 DEF QuietEffect
  <2>2. \A k \in Controllers : ~Holds(k, c)' \/ prov'[k][c] = prov[k][c]
    BY <1>5 DEF QuietEffect, Holds
  <2>3. \A k \in Controllers, i \in Ids :
          del'[k][c][i] # "off" => del[k][c][i] # "off"
    BY <1>5 DEF QuietEffect
  <2>4. \A k \in Controllers :
          \/ ~Holds(k, c)'
          \/ /\ Holds(k, c) /\ prov'[k][c].id = prov[k][c].id
             /\ prov'[k][c].pc = "save" => prov[k][c].pc = "save"
    BY <2>2 DEF Holds
  <2>5. QED BY <1>4, <2>1, <2>3, <2>4
<1>6. ASSUME NEW d \in Claims, PhaseEffect(d)
      PROVE  Goal(c)
  <2>1. UNCHANGED <<asset, nextId, prov, del>> /\ pv'[c].id = pv[c].id
    BY <1>6 DEF PhaseEffect
  <2>2. InUse(c)' => InUse(c)
    BY <1>6 DEF PhaseEffect, InUse
  <2>3. \/ pv'[c] = pv[c]
        \/ pv[c].phase \in {"available", "bound"}
    BY <1>6 DEF PhaseEffect
  <2>4. Unsaved(c)' /\ SavesExisting(c)'
    BY <1>1, <2>1 DEF Unsaved, SavesExisting, Holds
  <2>5. DeletesReleased(c)'
    BY <1>1, <2>1, <2>3 DEF DeletesReleased
  <2>6. Backed(c)'
    BY <1>1, <2>1, <2>2 DEF Backed
  <2>7. QED BY <2>4, <2>5, <2>6
<1>7. ASSUME NEW k \in Controllers, NEW d \in Claims, CreateEffect(k, d)
      PROVE  Goal(c)
  <2>1. CASE c # d
    <3>1. /\ UNCHANGED <<pv, del>> /\ asset'[c] = asset[c]
          /\ \A j \in Controllers : prov'[j][c] = prov[j][c]
      BY <1>2, <1>7, <2>1 DEF CreateEffect, ProvBecomes
    <3>2. QED BY <1>4, <3>1 DEF Holds
  <2>2. CASE c = d
    <3>1. /\ UNCHANGED <<pv, del>> /\ asset[c] = 0 /\ asset'[c] = nextId[c]
          /\ nextId[c] \in Ids
      BY <1>2, <1>7, <2>2 DEF CreateEffect
    <3>2. /\ \A j \in Controllers \ {k} : prov'[j][c] = prov[j][c]
          /\ prov'[k][c] \in {Idle, Saving(nextId[c])}
      BY <1>7, <2>2 DEF CreateEffect, ProvBecomes
    <3>3. \A j \in Controllers \ {k} : Holds(j, c)' <=> Holds(j, c)
      BY <3>2 DEF Holds
    <3>4. Holds(k, c)' => prov'[k][c].id = nextId[c]
      BY <3>2 DEF Holds
    <3>5. Unsaved(c)'
      BY <1>1, <1>2, <1>3, <3>1, <3>2, <3>3, <3>4 DEF Unsaved, IdsGiven
    <3>6. SavesExisting(c)'
      \* no other operation saves, since it would own asset 0
      BY <1>1, <1>2, <1>3, <3>1, <3>2 DEF SavesExisting, Holds
    <3>7. DeletesReleased(c)'
      BY <1>1, <3>1 DEF DeletesReleased
    <3>8. Backed(c)'
      BY <1>1, <1>2, <3>1 DEF Backed, InUse, IdsGiven
    <3>9. QED BY <3>5, <3>6, <3>7, <3>8
  <2>3. QED BY <2>1, <2>2
<1>8. ASSUME NEW k \in Controllers, NEW d \in Claims, HolderEffect(k, d)
      PROVE  Goal(c)
  <2>1. CASE c # d
    <3>1. /\ UNCHANGED <<nextId, del>> /\ asset'[c] = asset[c] /\ pv'[c] = pv[c]
          /\ \A j \in Controllers : prov'[j][c] = prov[j][c]
      BY <1>2, <1>8, <2>1 DEF HolderEffect, ProvBecomes
    <3>2. QED BY <1>4, <3>1 DEF Holds
  <2>2. CASE c = d
    <3>1. PICK op \in ProvType :
            /\ op = Idle \/ (op.pc \in {"save", "cleanup"} /\ op.id = prov[k][c].id)
            /\ op.pc = "save" => prov[k][c].pc = "save"
            /\ ProvBecomes(k, c, op)
            /\ \/ UNCHANGED <<pv, asset>>
               \/ /\ prov[k][c].pc = "save"
                  /\ pv[c] = NoPV
                  /\ pv' = [pv EXCEPT ![c] = SavedPV(prov[k][c].id)]
                  /\ op = Idle
                  /\ UNCHANGED asset
               \/ /\ prov[k][c].pc = "cleanup"
                  /\ asset[c] = prov[k][c].id
                  /\ asset' = [asset EXCEPT ![c] = 0]
                  /\ UNCHANGED pv
      BY <1>8, <2>2 DEF HolderEffect
    <3>2. Holds(k, c) /\ UNCHANGED <<nextId, del>>
      BY <1>8, <2>2 DEF HolderEffect
    <3>3. /\ prov'[k][c] = op
          /\ \A j \in Controllers \ {k} : prov'[j][c] = prov[j][c]
      BY <3>1 DEF ProvBecomes
    <3>4. \A j \in Controllers :
            \/ ~Holds(j, c)'
            \/ /\ Holds(j, c) /\ prov'[j][c].id = prov[j][c].id
               /\ prov'[j][c].pc = "save" => prov[j][c].pc = "save"
      BY <3>1, <3>2, <3>3 DEF Holds
    <3>5. CASE UNCHANGED <<pv, asset>>
      BY <1>4, <3>2, <3>4, <3>5
    <3>6. ASSUME prov[k][c].pc = "save", pv[c] = NoPV, op = Idle, UNCHANGED asset,
                 pv' = [pv EXCEPT ![c] = SavedPV(prov[k][c].id)]
          PROVE  Goal(c)
      <4>1. pv'[c] = SavedPV(prov[k][c].id) /\ asset[c] = prov[k][c].id
        BY <1>1, <1>2, <3>6 DEF SavesExisting
      <4>2. ~Holds(k, c)'
        BY <3>3, <3>6 DEF Holds
      <4>3. Unsaved(c)'
        BY <1>1, <3>2, <3>3, <3>4, <4>1, <4>2 DEF Unsaved
      <4>4. SavesExisting(c)'
        BY <1>1, <3>4, <3>6 DEF SavesExisting, Holds
      <4>5. DeletesReleased(c)'
        BY <1>1, <1>3, <3>2, <4>1 DEF Unsaved, DeletesReleased
      <4>6. Backed(c)'
        BY <3>6, <4>1 DEF Backed
      <4>7. QED BY <4>3, <4>4, <4>5, <4>6
    <3>7. ASSUME prov[k][c].pc = "cleanup", asset[c] = prov[k][c].id, UNCHANGED pv,
                 asset' = [asset EXCEPT ![c] = 0]
          PROVE  Goal(c)
      <4>1. Unsaved(c)'
        BY <1>1, <1>3, <3>2, <3>4, <3>7 DEF Unsaved
      <4>2. \A j \in Controllers : prov'[j][c].pc # "save"
        BY <1>1, <3>2, <3>4, <3>7 DEF SavesExisting, Unsaved, Holds
      <4>3. SavesExisting(c)'
        BY <4>2 DEF SavesExisting
      <4>4. DeletesReleased(c)'
        BY <1>1, <3>2, <3>7 DEF DeletesReleased
      <4>5. ~InUse(c)'
        BY <1>1, <3>2, <3>7 DEF Backed, InUse, Unsaved
      <4>6. QED BY <4>1, <4>3, <4>4, <4>5 DEF Backed
    <3>8. QED BY <3>1, <3>5, <3>6, <3>7
  <2>3. QED BY <2>1, <2>2
<1>9. ASSUME NEW k \in Controllers, NEW d \in Claims, NEW i \in Ids,
             DeleteEffect(k, d, i)
      PROVE  Goal(c)
  <2>0. UNCHANGED <<nextId, prov>>
    BY <1>9 DEF DeleteEffect
  <2>1. CASE c # d
    <3>1. /\ asset'[c] = asset[c] /\ pv'[c] = pv[c]
          /\ \A j \in Controllers, n \in Ids : del'[j][c][n] = del[j][c][n]
      BY <1>2, <1>9, <2>1 DEF DeleteEffect, DelBecomes
    <3>2. QED BY <1>4, <2>0, <3>1 DEF Holds
  <2>2. ASSUME c = d, UNCHANGED <<pv, asset>>, pv[c].id = i,
               pv[c].phase = "released", c \notin Retain,
               DelBecomes(k, c, i, "check")
        PROVE  Goal(c)
    <3>1. Unsaved(c)'
      BY <1>1, <1>3, <2>0, <2>2 DEF DelBecomes, Unsaved, Holds
    <3>2. SavesExisting(c)' /\ DeletesReleased(c)' /\ Backed(c)'
      BY <1>1, <2>0, <2>2 DEF DelBecomes, SavesExisting, DeletesReleased, Backed,
                              InUse
    <3>3. QED BY <3>1, <3>2
  <2>3. ASSUME c = d, UNCHANGED pv, del[k][c][i] = "destroy", asset[c] = i,
               asset' = [asset EXCEPT ![c] = 0],
               NEW pc \in {"off", "remove"}, DelBecomes(k, c, i, pc)
        PROVE  Goal(c)
    <3>1. pv[c].id = i /\ pv[c].phase = "released" /\ c \notin Retain
      BY <1>1, <2>3 DEF DeletesCurrent, DeletesReleased
    <3>2. \A j \in Controllers, n \in Ids :
            del'[j][c][n] # "off" => del[j][c][n] # "off"
      BY <2>3 DEF DelBecomes
    <3>3. Unsaved(c)'
      BY <1>1, <1>3, <2>0, <2>3, <3>2 DEF Unsaved, Holds
    <3>4. SavesExisting(c)'
      BY <1>1, <2>0, <2>3, <3>1 DEF SavesExisting, Unsaved, Holds
    <3>5. DeletesReleased(c)' /\ Backed(c)'
      BY <1>1, <2>3, <3>1, <3>2 DEF DeletesReleased, Backed, InUse
    <3>6. QED BY <3>3, <3>4, <3>5
  <2>4. ASSUME c = d, UNCHANGED asset, del[k][c][i] = "remove",
               pv' = pv \/ pv' = [pv EXCEPT ![c] = NoPV],
               DelBecomes(k, c, i, "off")
        PROVE  Goal(c)
    <3>1. \A j \in Controllers, n \in Ids :
            del'[j][c][n] # "off" => del[j][c][n] # "off"
      BY <2>4 DEF DelBecomes
    <3>2. CASE pv' = pv
      BY <1>4, <2>0, <2>4, <3>1, <3>2 DEF Holds
    <3>3. CASE pv' = [pv EXCEPT ![c] = NoPV]
      <4>1. pv'[c] = NoPV
        BY <1>2, <3>3
      <4>2. Unsaved(c)'
        BY <1>1, <1>3, <2>0, <3>1, <4>1 DEF Unsaved, Holds
      <4>3. SavesExisting(c)' /\ DeletesReleased(c)' /\ Backed(c)'
        BY <1>1, <2>0, <2>4, <4>1 DEF SavesExisting, DeletesReleased, Backed, InUse
      <4>4. QED BY <4>2, <4>3
    <3>4. QED BY <2>4, <3>2, <3>3
  <2>5. QED BY <1>9, <2>1, <2>2, <2>3, <2>4 DEF DeleteEffect
<1>10. QED BY <1>5, <1>6, <1>7, <1>8, <1>9, StepEffect

\* The kinds of fault that happened are never forgotten.
LEMMA KindsGrow ==
  ASSUME TypeOK, [Next]_vars
  PROVE  faults.kinds \subseteq faults'.kinds
<1>1. \/ UNCHANGED faults
      \/ \E f : Fault(f)
      \/ faults' = [faults EXCEPT !.kinds = @ \cup {"panic"}]
  <2>1. ASSUME NEW c \in Claims, Kubernetes(c) PROVE UNCHANGED faults
    BY <2>1 DEF Kubernetes, CreateClaim, DeleteClaim, BindVolume, ReleaseVolume
  <2>2. ASSUME NEW k \in Controllers, NEW c \in Claims,
               ClaimStep(k, c) \/ LockStep(k, c)
        PROVE  UNCHANGED faults \/ Fault("apiError") \/ Fault("namesake")
    BY <2>2 DEF ClaimStep, SyncClaim, AddClaimAsLeader, AddClaimLock, LockStep,
                TryAcquire, AcquireFails, AcquireOver, StopLeading, RestOver,
                NoFault
  <2>3. ASSUME NEW k \in Controllers, NEW c \in Claims, ProvisionStep(k, c)
        PROVE  UNCHANGED faults \/ \E f : Fault(f)
    BY <2>3 DEF ProvisionStep, ProvCheck, ProvNoClass, ProvCreate,
                ProvCreateFails, ProvSave, ProvSaveFails, ProvCleanup,
                ProvCleanupFails, NoFault
  <2>4. ASSUME NEW k \in Controllers, NEW c \in Claims, NEW i \in Ids,
               DeleteStep(k, c, i)
        PROVE  UNCHANGED faults \/ \E f : Fault(f)
    BY <2>4 DEF DeleteStep, UpdateVolume, DelCheck, DelDestroy,
                DelDestroyFails, DelRemove, NoFault
  <2>5. ASSUME NEW k \in Controllers, ProcessStep(k)
        PROVE  \/ UNCHANGED faults
               \/ Fault("crash")
               \/ faults' = [faults EXCEPT !.kinds = @ \cup {"panic"}]
    BY <2>5 DEF ProcessStep, HitThreshold, Crash, Restart
  <2>6. CASE UNCHANGED vars
    BY <2>6 DEF vars
  <2>7. QED BY <2>1, <2>2, <2>3, <2>4, <2>5, <2>6 DEF Next
<1>2. QED BY <1>1, FaultKept DEF TypeOK, FaultsType

\* What is preserved: BackedInv, for as long as no answer is lost.
SureInv == Without({"apiLostAck"}) => BackedInv

\* Every step keeps it.
LEMMA SureNext ==
  ASSUME TypeOK, OrderInv, SureInv, [Next]_vars
  PROVE  SureInv'
<1> SUFFICES ASSUME "apiLostAck" \notin faults'.kinds PROVE BackedInv'
  BY DEF SureInv, Without
<1>1. BackedInv
  BY KindsGrow DEF SureInv, Without
<1>2. QED BY <1>1, BackedNext

\* As long as no answer to a PV Create was lost, then under every other fault,
\* with any number of controllers, a PV that is not up for deletion has its
\* asset: the rollback after a failed save and late delete operations never
\* take it.
THEOREM SavedVolumeSafe == Spec => []SavedVolumeBacked
<1>1. SureInv => SavedVolumeBacked
  BY DEF SureInv, BackedInv, Backed, SavedVolumeBacked, SavedVolumeHasAsset
<1>2. Init => SureInv
  BY BackedInit DEF SureInv
<1>3. QED BY <1>1, <1>2, TypeInit, TypeNext, OrderInit, OrderNext, SureNext, PTL
          DEF Spec

-----------------------------------------------------------------------------
(* No asset is left behind.                                                 *)

\* A tracked asset stays tracked for as long as array and processes work.
LEMMA TrackedNext ==
  ASSUME TypeOK, OrderInv, AssetTracked, [Next]_vars
  PROVE  AssetTracked'
<1> DEFINE Bad == {"arrayError", "arrayLostAck", "crash", "panic"}
<1> SUFFICES ASSUME faults'.kinds \cap Bad = {}, NEW c \in Claims, asset'[c] # 0
             PROVE  Tracked(c)'
  BY DEF AssetTracked, Without
<1> USE RecordFields
<1>1. asset[c] # 0 => Tracked(c)
  <2>1. faults.kinds \cap Bad = {}
    BY KindsGrow
  <2>2. QED BY <2>1 DEF AssetTracked, Without
<1>2. /\ pv \in [Claims -> PVType]
      /\ asset \in [Claims -> 0 .. MaxId]
      /\ nextId \in [Claims -> 1 .. MaxId + 1]
  BY PointTypes
<1>3. /\ ~Interrupted'
      /\ "arrayError" \notin faults'.kinds
      /\ "arrayLostAck" \notin faults'.kinds
  BY DEF Interrupted, Without
<1> HIDE DEF Bad
\* A step that keeps PV and asset of the claim, and every operation that owns
\* an asset.
<1>4. ASSUME pv'[c].id = pv[c].id, asset'[c] = asset[c],
             \A k \in Controllers : Holds(k, c) =>
               Holds(k, c)' /\ prov'[k][c].id = prov[k][c].id
      PROVE  Tracked(c)'
  BY <1>1, <1>4 DEF Tracked, Holds
<1>5. CASE QuietEffect
  BY <1>3, <1>4, <1>5 DEF QuietEffect, Holds
<1>6. ASSUME NEW d \in Claims, PhaseEffect(d) PROVE Tracked(c)'
  BY <1>4, <1>6 DEF PhaseEffect, Holds
<1>7. ASSUME NEW k \in Controllers, NEW d \in Claims, CreateEffect(k, d)
      PROVE  Tracked(c)'
  <2>1. CASE c # d
    <3>1. /\ pv' = pv /\ asset'[c] = asset[c]
          /\ \A j \in Controllers : prov'[j][c] = prov[j][c]
      BY <1>2, <1>7, <2>1 DEF CreateEffect, ProvBecomes
    <3>2. QED BY <1>4, <3>1 DEF Holds
  <2>2. CASE c = d
    <3>1. asset'[c] = nextId[c] /\ prov'[k][c] = Saving(nextId[c])
      BY <1>2, <1>3, <1>7, <2>2 DEF CreateEffect, ProvBecomes
    <3>2. QED BY <3>1 DEF Tracked
  <2>3. QED BY <2>1, <2>2
<1>8. ASSUME NEW k \in Controllers, NEW d \in Claims, HolderEffect(k, d)
      PROVE  Tracked(c)'
  <2>1. CASE c # d
    <3>1. /\ pv'[c] = pv[c] /\ asset'[c] = asset[c]
          /\ \A j \in Controllers : prov'[j][c] = prov[j][c]
      BY <1>2, <1>8, <2>1 DEF HolderEffect, ProvBecomes
    <3>2. QED BY <1>4, <3>1 DEF Holds
  <2>2. CASE c = d
    <3>1. PICK op \in ProvType :
            /\ op = Idle \/ (op.pc \in {"save", "cleanup"} /\ op.id = prov[k][c].id)
            /\ ProvBecomes(k, c, op)
            /\ \/ /\ UNCHANGED <<pv, asset>>
                  /\ op = Idle => asset[c] # prov[k][c].id
               \/ /\ pv[c] = NoPV
                  /\ pv' = [pv EXCEPT ![c] = SavedPV(prov[k][c].id)]
                  /\ UNCHANGED asset
               \/ asset' = [asset EXCEPT ![c] = 0]
      BY <1>3, <1>8, <2>2 DEF HolderEffect
    <3>2. asset'[c] = asset[c]
      BY <1>2, <3>1
    <3>3. /\ prov'[k][c] = op
          /\ \A j \in Controllers \ {k} : prov'[j][c] = prov[j][c]
      BY <3>1 DEF ProvBecomes
    <3>4. \A j \in Controllers : Holds(j, c) /\ (j # k \/ op # Idle) =>
            Holds(j, c)' /\ prov'[j][c].id = prov[j][c].id
      BY <3>1, <3>3 DEF Holds
    <3>5. CASE pv[c] = NoPV /\ pv' = [pv EXCEPT ![c] = SavedPV(prov[k][c].id)]
      <4>1. pv'[c].id = prov[k][c].id /\ asset[c] # pv[c].id
        BY <1>2, <3>2, <3>5
      <4>2. QED BY <1>1, <3>2, <3>4, <4>1 DEF Tracked, Holds
    <3>6. CASE pv' = pv /\ (op = Idle => asset[c] # prov[k][c].id)
      BY <1>1, <3>2, <3>4, <3>6 DEF Tracked, Holds
    <3>7. QED BY <1>2, <3>1, <3>5, <3>6
  <2>3. QED BY <2>1, <2>2
<1>9. ASSUME NEW k \in Controllers, NEW d \in Claims, NEW i \in Ids,
             DeleteEffect(k, d, i)
      PROVE  Tracked(c)'
  <2>1. UNCHANGED prov /\ asset'[c] = asset[c]
    BY <1>2, <1>9 DEF DeleteEffect
  <2>2. CASE pv'[c] = pv[c]
    BY <1>4, <2>1, <2>2 DEF Holds
  <2>3. CASE pv'[c] # pv[c]
    <3>1. c = d /\ del[k][c][i] = "remove"
      BY <1>2, <1>9, <2>3 DEF DeleteEffect
    <3>2. asset[c] # pv[c].id
      BY <3>1 DEF OrderInv, Removing
    <3>3. QED BY <1>1, <2>1, <3>2 DEF Tracked
  <2>4. QED BY <2>2, <2>3
<1>10. QED BY <1>5, <1>6, <1>7, <1>8, <1>9, StepEffect

\* With any number of racing controllers, failing Kubernetes calls and lost
\* answers to a PV Create, every asset on the array is named by the PV of its
\* claim or owned by an operation that will save or destroy it, until a call
\* to the array fails or a process dies.
THEOREM AssetAlwaysTracked == Spec => []AssetTracked
<1>1. Init => AssetTracked
  BY DEF Init, AssetTracked
<1>2. QED BY <1>1, TypeInit, TypeNext, OrderInit, OrderNext, TrackedNext, PTL
          DEF Spec

-----------------------------------------------------------------------------
(* The controllers implement the life cycle.                                *)

\* The abstract state of a claim's volume: its phase and its storage.
Phase == [c \in Claims |-> pv[c].phase]
Storage == [c \in Claims |-> pv[c] # NoPV /\ asset[c] = pv[c].id]
Sure == Without({"apiLostAck"})

\* The initial states map to initial states.
LEMMA LifecycleInit == Init => Lifecycle!Init
<1> SUFFICES ASSUME Init PROVE Lifecycle!Init
  OBVIOUS
<1>1. [c \in Claims |-> pv[c].phase] = [c \in Claims |-> "none"]
  BY RecordFields DEF Init
<1>2. [c \in Claims |-> pv[c] # NoPV /\ asset[c] = pv[c].id]
        = [c \in Claims |-> FALSE]
  <2>1. \A c \in Claims : pv[c] = NoPV
    BY DEF Init
  <2>2. QED BY <2>1, Zenon
<1>3. Without({"apiLostAck"}) = TRUE
  BY DEF Init, Without
<1>4. QED BY <1>1, <1>2, <1>3 DEF Init, Lifecycle!Init

\* Every step maps to a step of the life cycle or changes nothing of it.
LEMMA LifecycleStep ==
  ASSUME TypeOK, OrderInv, SureInv, [Next]_vars
  PROVE  [Lifecycle!Next]_(Lifecycle!vars)
<1> DEFINE Goal == Lifecycle!Next \/ UNCHANGED <<claim, Phase, Storage, Sure>>
<1> SUFFICES Goal
  BY DEF Lifecycle!vars, Phase, Storage, Sure
<1> USE RecordFields
<1>1. /\ pv \in [Claims -> PVType]
      /\ asset \in [Claims -> 0 .. MaxId]
  BY DEF TypeOK
<1>2. AnswersKept => UNCHANGED Sure
  BY DEF AnswersKept, Sure, Without
\* A step after which one claim's PV and asset may differ.
<1>3. ASSUME NEW c \in Claims,
             \A d \in Claims \ {c} : pv'[d] = pv[d] /\ asset'[d] = asset[d]
      PROVE  /\ Phase' = [Phase EXCEPT ![c] = pv'[c].phase]
             /\ Storage' = [Storage EXCEPT
                              ![c] = pv'[c] # NoPV /\ asset'[c] = pv'[c].id]
  BY <1>3 DEF Phase, Storage
<1>4. CASE QuietEffect
  <2>1. UNCHANGED <<Phase, Storage, Sure>>
    BY <1>2, <1>4 DEF QuietEffect, Phase, Storage
  <2>2. ASSUME NEW c \in Claims, CreateClaim(c) \/ DeleteClaim(c)
        PROVE  Lifecycle!Request(c) \/ Lifecycle!Withdraw(c)
    BY <2>1, <2>2 DEF CreateClaim, DeleteClaim, Lifecycle!Request,
                      Lifecycle!Withdraw, Phase, Storage, Sure
  <2>3. QED BY <1>4, <2>1, <2>2 DEF QuietEffect, Lifecycle!Next
<1>5. ASSUME NEW c \in Claims, PhaseEffect(c) PROVE Goal
  <2>1. pv[c] # NoPV /\ pv'[c] # NoPV
    BY <1>5 DEF PhaseEffect
  <2>2. \A d \in Claims : (pv'[d] # NoPV /\ asset'[d] = pv'[d].id)
                           <=> (pv[d] # NoPV /\ asset[d] = pv[d].id)
    BY <1>5, <2>1 DEF PhaseEffect
  <2>3. UNCHANGED <<Storage, Sure>>
    BY <1>5, <2>2 DEF PhaseEffect, Storage, Sure, Without
  <2>4. Phase' = [Phase EXCEPT ![c] = pv'[c].phase] /\ Phase[c] = pv[c].phase
    BY <1>3, <1>5 DEF PhaseEffect, Phase
  <2>5. Lifecycle!Bind(c) \/ Lifecycle!Release(c)
    BY <1>5, <2>3, <2>4 DEF PhaseEffect, Lifecycle!Bind, Lifecycle!Release,
                            Phase, Storage, Sure
  <2>6. QED BY <2>5 DEF Lifecycle!Next
<1>6. ASSUME NEW k \in Controllers, NEW c \in Claims, CreateEffect(k, c)
      PROVE  Goal
  \* the new asset is not the one of a PV that lost its own
  <2>1. IdsGiven(c) /\ pv[c].id \in 0 .. MaxId /\ nextId[c] \in 1 .. MaxId + 1
    BY PointTypes DEF OrderInv
  <2>2. \A d \in Claims : (pv[d] # NoPV /\ asset'[d] = pv[d].id)
                           <=> (pv[d] # NoPV /\ asset[d] = pv[d].id)
    BY <1>1, <1>6, <2>1, ConstantsAssumption DEF CreateEffect, IdsGiven
  <2>3. UNCHANGED <<claim, Phase, Storage, Sure>>
    BY <1>2, <1>6, <2>2 DEF CreateEffect, Phase, Storage
  <2>4. QED BY <2>3
<1>7. ASSUME NEW k \in Controllers, NEW c \in Claims, HolderEffect(k, c)
      PROVE  Goal
  <2>1. UNCHANGED claim /\ Holds(k, c)
    BY <1>7 DEF HolderEffect
  <2>2. CASE UNCHANGED <<pv, asset>> /\ AnswersKept
    BY <1>2, <2>1, <2>2 DEF Phase, Storage
  <2>3. ASSUME prov[k][c].pc = "save", pv[c] = NoPV, UNCHANGED asset,
               pv' = [pv EXCEPT ![c] = SavedPV(prov[k][c].id)],
               AnswersKept \/ "apiLostAck" \in faults'.kinds
        PROVE  Goal
    <3>1. pv'[c] = SavedPV(prov[k][c].id)
      BY <1>1, <2>3
    <3>2. Phase[c] = "none" /\ Phase' = [Phase EXCEPT ![c] = "available"]
      BY <1>1, <1>3, <2>3, <3>1 DEF Phase
    <3> DEFINE b == pv'[c] # NoPV /\ asset'[c] = pv'[c].id
    <3>3. b \in BOOLEAN /\ Storage' = [Storage EXCEPT ![c] = b]
      BY <1>1, <1>3, <2>3
    <3>4. b \/ ~Sure
      BY <2>3, <3>1 DEF Sure, SureInv, BackedInv, SavesExisting
    <3> HIDE DEF b
    <3>5. Sure' = Sure \/ Sure' = FALSE
      BY <1>2, <2>3 DEF Sure, Without
    <3>6. Lifecycle!Provide(c)
      BY <2>1, <3>2, <3>3, <3>4, <3>5 DEF Lifecycle!Provide, Phase, Storage, Sure
    <3>7. QED BY <3>6 DEF Lifecycle!Next
  <2>4. ASSUME prov[k][c].pc = "cleanup", asset[c] = prov[k][c].id,
               asset' = [asset EXCEPT ![c] = 0], UNCHANGED pv, AnswersKept
        PROVE  Goal
    <3>1. IdsGiven(c) /\ UNCHANGED <<Phase, Sure>>
      BY <1>2, <2>4 DEF OrderInv, Phase
    <3>2. asset'[c] = 0
      BY <1>1, <2>4
    <3>3. Storage' = [Storage EXCEPT ![c] = FALSE]
      BY <1>1, <2>4, <3>1, <3>2 DEF Storage, IdsGiven
    <3>4. CASE ~Storage[c]
      <4>1. Storage' = Storage
        BY <3>3, <3>4 DEF Storage
      <4>2. QED BY <2>1, <3>1, <4>1
    <3>5. CASE Storage[c]
      <4>0. asset[c] = pv[c].id
        BY <3>5 DEF Storage
      <4>1. ~Sure
        BY <2>1, <2>4, <4>0 DEF Sure, SureInv, BackedInv, Unsaved
      <4>2. Lifecycle!Destroy(c)
        BY <2>1, <3>1, <3>3, <3>5, <4>1 DEF Lifecycle!Destroy, Phase, Storage,
                                            Sure
      <4>3. QED BY <4>2 DEF Lifecycle!Next
    <3>6. QED BY <3>4, <3>5
  <2>5. QED BY <1>7, <2>2, <2>3, <2>4 DEF HolderEffect
<1>8. ASSUME NEW k \in Controllers, NEW c \in Claims, NEW i \in Ids,
             DeleteEffect(k, c, i)
      PROVE  Goal
  <2>1. UNCHANGED <<claim, Sure>>
    BY <1>2, <1>8 DEF DeleteEffect
  <2>2. CASE UNCHANGED <<pv, asset>>
    BY <2>1, <2>2 DEF Phase, Storage
  <2>3. ASSUME UNCHANGED pv, del[k][c][i] = "destroy", asset[c] = i,
               asset' = [asset EXCEPT ![c] = 0]
        PROVE  Goal
    <3>1. /\ UNCHANGED Phase
          /\ Storage' = [Storage EXCEPT ![c] = FALSE]
      <4>1. asset'[c] = 0 /\ IdsGiven(c)
        BY <1>1, <2>3 DEF OrderInv
      <4>2. QED BY <1>1, <2>3, <4>1 DEF Phase, Storage, IdsGiven
    <3>2. pv[c].id = i
      BY <2>3 DEF OrderInv, DeletesCurrent
    <3>3. Storage[c]
      <4>1. pv[c].id # 0
        BY <3>2, ConstantsAssumption DEF Ids
      <4>2. QED BY <2>3, <3>2, <4>1 DEF Storage
    <3>4. Sure => Lifecycle!Disposable(c)
      BY <2>3, <3>2 DEF Sure, SureInv, BackedInv, DeletesReleased,
                        Lifecycle!Disposable
    <3>5. Lifecycle!Destroy(c)
      BY <2>1, <3>1, <3>3, <3>4 DEF Lifecycle!Destroy, Phase, Storage, Sure
    <3>6. QED BY <3>5 DEF Lifecycle!Next
  <2>4. ASSUME UNCHANGED asset, del[k][c][i] = "remove",
               pv' = [pv EXCEPT ![c] = NoPV]
        PROVE  Goal
    <3>1. pv[c].id = i /\ asset[c] # i
      BY <2>4 DEF OrderInv, Removing
    <3>2. ~Storage[c] /\ Storage' = Storage
      BY <1>1, <2>4, <3>1 DEF Storage
    <3>3. Phase' = [Phase EXCEPT ![c] = "none"]
      BY <1>1, <2>4 DEF Phase
    <3>4. Sure => Lifecycle!Disposable(c)
      BY <2>4, <3>1 DEF Sure, SureInv, BackedInv, DeletesReleased,
                        Lifecycle!Disposable
    <3>5. CASE Phase[c] = "none"
      <4>1. Phase' = Phase
        BY <3>3, <3>5 DEF Phase
      <4>2. QED BY <2>1, <3>2, <4>1
    <3>6. CASE Phase[c] # "none"
      <4>1. Lifecycle!Remove(c)
        BY <2>1, <3>2, <3>3, <3>4, <3>6 DEF Lifecycle!Remove, Phase, Storage,
                                            Sure
      <4>2. QED BY <4>1 DEF Lifecycle!Next
    <3>7. QED BY <3>5, <3>6
  <2>5. QED BY <1>8, <2>2, <2>3, <2>4 DEF DeleteEffect
<1>9. QED BY <1>4, <1>5, <1>6, <1>7, <1>8, StepEffect

\* The controllers, any number of them, with every interleaving, retry, fault,
\* crash and panic, implement the life cycle of a claim's volume: storage
\* comes with the volume and goes only after the volume was released and
\* before its PV object does, as long as no answer to a PV Create was lost.
THEOREM LifecycleImplemented == Spec => ImplementsLifecycle
<1>1. Init => SureInv
  BY BackedInit DEF SureInv
<1>2. QED BY <1>1, LifecycleInit, LifecycleStep, TypeInit, TypeNext, OrderInit,
             OrderNext, SureNext, PTL
          DEF Spec, ImplementsLifecycle, Lifecycle!Spec
=============================================================================
