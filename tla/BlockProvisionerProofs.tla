----------------------- MODULE BlockProvisionerProofs -----------------------
(***************************************************************************)
(* For any number of workers, names, hosts, LUNs, volumes, node events and *)
(* faults: the types of BlockProvisioner, how far concurrent calls exceed  *)
(* max_volume, and that returned volumes are complete, seen under one LUN, *)
(* and those that could not be made are gone.                              *)
(***************************************************************************)
EXTENDS BlockProvisioner, FiniteSetTheorems, TLAPS

CallType == [pc : Pcs, name : Names \cup {NoName}, id : 0 .. MaxId,
             hosts : SUBSET Hosts, todo : SUBSET Hosts, lun : LunOrNone]

\* TypeOK is not inductive: a volume and the LUN of its mappings must be known
\* when the PV is made.
LunKnown ==
  \A w \in Workers : op[w].pc = "attach" => op[w].lun # NoLun /\ op[w].id \in Ids

\* A worker without a call is well formed.
LEMMA IdleTyped == Idle \in CallType /\ Idle.pc = "idle"
<1>1. NoLun \in LunOrNone /\ 0 \in 0 .. MaxId
  BY ConstantsAssumption DEF LunOrNone, NoLun
<1> QED
  BY <1>1 DEF Idle, CallType, Pcs

\* The parts of the type invariant.
ArrayTyped ==
  /\ vol \in [Ids -> Names \cup {NoName}]
  /\ meta \in SUBSET Ids
  /\ lun \in [Hosts -> [Ids -> LunOrNone]]
  /\ nextId \in 1 .. MaxId + 1
NodesTyped ==
  /\ nodes \in SUBSET Hosts
  /\ changes \in 0 .. MaxChanges
  /\ handler \in [map : SUBSET (Ids \X Hosts), unmap : SUBSET (Ids \X Hosts)]
PvTyped ==
  /\ pv \in [Ids -> {"none", "ready", "doomed", "deleted"}]
  /\ pvLun \in [Ids -> LunOrNone]
  /\ pvCache \in SUBSET Ids
  /\ \A i \in Ids : pv[i] # "none" => pvLun[i] # NoLun
FaultsTyped == faults \in [count : 0 .. MaxFaults, kinds : SUBSET Faults]
OpTyped == op \in [Workers -> CallType] /\ LunKnown

TypeInv ==
  setup \in Setups /\ ArrayTyped /\ NodesTyped /\ PvTyped /\ FaultsTyped /\ OpTyped

\* They make up the type invariant.
LEMMA Parts == TypeInv => TypeOK
BY DEF TypeInv, TypeOK, ArrayTyped, NodesTyped, PvTyped, FaultsTyped, OpTyped, CallType

\* Initially nothing exists and no call is under way.
LEMMA TypeInit == Init => TypeInv
<1> SUFFICES ASSUME Init PROVE TypeInv
  OBVIOUS
<1>0. MaxId \in Nat /\ MaxFaults \in Nat /\ MaxChanges \in Nat /\ MaxLun \in Nat
  BY ConstantsAssumption
<1>1. NoLun \in LunOrNone
  BY <1>0 DEF LunOrNone, NoLun
<1>2. ArrayTyped
  BY <1>0, <1>1 DEF Init, ArrayTyped
<1>3. NodesTyped
  BY <1>0, ConstantsAssumption DEF Init, NodesTyped, NoHandler
<1>4. PvTyped
  BY <1>1 DEF Init, PvTyped
<1>5. FaultsTyped
  BY <1>0 DEF Init, FaultsTyped
<1>6. OpTyped
  BY IdleTyped DEF Init, OpTyped, LunKnown
<1> QED
  BY <1>2, <1>3, <1>4, <1>5, <1>6 DEF Init, TypeInv

\* A fault that happens stays within the bound.
LEMMA FaultTyped ==
  ASSUME FaultsTyped, NEW f, NoFault \/ Fault(f)
  PROVE  FaultsTyped'
<1>1. MaxFaults \in Nat
  BY ConstantsAssumption
<1> QED
  BY <1>1 DEF FaultsTyped, NoFault, Fault

\* A worker's call changes.
LEMMA OpChanges ==
  ASSUME OpTyped, NEW w \in Workers, NEW new \in CallType,
         new.pc = "attach" => new.lun # NoLun /\ new.id \in Ids,
         op' = [op EXCEPT ![w] = new]
  PROVE  OpTyped'
BY DEF OpTyped, LunKnown

\* A call that ends.
LEMMA ReturnTyped ==
  ASSUME OpTyped, NEW w \in Workers, Return(w)
  PROVE  OpTyped'
BY IdleTyped, OpChanges DEF Return

\* A call that moves on.
LEMMA GotoTyped ==
  ASSUME OpTyped, NEW w \in Workers, NEW pc \in Pcs \ {"attach"},
         Goto(w, pc) \/ Loop(w, pc)
  PROVE  OpTyped'
<1> DEFINE new1 == [op[w] EXCEPT !.pc = pc]
           new2 == [op[w] EXCEPT !.pc = pc, !.todo = op[w].hosts]
<1>1. op[w] \in CallType
  BY DEF OpTyped
<1>2. new1 \in CallType /\ new1.pc = pc /\ new2 \in CallType /\ new2.pc = pc
  BY <1>1 DEF CallType
<1>3. op' = [op EXCEPT ![w] = new1] \/ op' = [op EXCEPT ![w] = new2]
  BY DEF Goto, Loop
<1> HIDE DEF new1, new2
<1> QED
  BY <1>2, <1>3, OpChanges

\* Mapping or unmapping one volume, and destroying one.
LEMMA SetLunTyped ==
  ASSUME lun \in [Hosts -> [Ids -> LunOrNone]],
         NEW h \in Hosts, NEW i, NEW l \in LunOrNone, SetLun(h, i, l)
  PROVE  lun' \in [Hosts -> [Ids -> LunOrNone]]
<1> DEFINE line == [lun[h] EXCEPT ![i] = l]
<1>1. line \in [Ids -> LunOrNone]
  OBVIOUS
<1>2. lun' = [lun EXCEPT ![h] = line]
  BY DEF SetLun
<1> HIDE DEF line
<1> QED
  BY <1>1, <1>2

\* Destroying a volume.
LEMMA DestroyTyped ==
  ASSUME ArrayTyped, NEW i, Destroy(i)
  PROVE  ArrayTyped'
<1>1. NoLun \in LunOrNone
  BY ConstantsAssumption DEF LunOrNone, NoLun
<1>2. \A h \in Hosts : [lun[h] EXCEPT ![i] = NoLun] \in [Ids -> LunOrNone]
  BY <1>1 DEF ArrayTyped
<1>3. lun' \in [Hosts -> [Ids -> LunOrNone]]
  BY <1>2 DEF Destroy
<1> QED
  BY <1>3 DEF ArrayTyped, Destroy

\* Every step keeps the types.
LEMMA TypeStep ==
  ASSUME TypeInv, [Next]_vars
  PROVE  TypeInv'
<1> USE DEF NoFault
<1>0. setup \in Setups /\ ArrayTyped /\ NodesTyped /\ PvTyped /\ FaultsTyped /\ OpTyped
  BY DEF TypeInv
<1>n. NoLun \in LunOrNone /\ MaxId \in Nat /\ MaxChanges \in Nat
  BY ConstantsAssumption DEF LunOrNone, NoLun
<1>1. /\ UNCHANGED arrayVars => ArrayTyped'
      /\ UNCHANGED pvVars => PvTyped'
      /\ UNCHANGED nodeVars => NodesTyped'
      /\ UNCHANGED faults => FaultsTyped'
      /\ UNCHANGED op => OpTyped'
  BY <1>0 DEF ArrayTyped, PvTyped, NodesTyped, FaultsTyped, OpTyped, LunKnown,
     arrayVars, pvVars, nodeVars
<1>2. \A f : Fault(f) => FaultsTyped'
  BY <1>0, FaultTyped
<1>3. \A w \in Workers : Return(w) => OpTyped'
  BY <1>0, ReturnTyped
<1>4. \A w \in Workers : \A pc \in Pcs \ {"attach"} : Goto(w, pc) \/ Loop(w, pc) => OpTyped'
  BY <1>0, GotoTyped
<1>5. \A w \in Workers : op[w] \in CallType
  BY <1>0 DEF OpTyped
<1>6. \A w \in Workers : VolDestroy(w) => OpTyped'
  BY <1>4 DEF VolDestroy, Pcs
<1>7. \A h \in Hosts : \A i : \A l \in LunOrNone :
        SetLun(h, i, l) /\ UNCHANGED <<vol, meta, nextId>> => ArrayTyped'
  BY <1>0, SetLunTyped DEF ArrayTyped
<1>8. \A w \in Workers : StepFault(w) => FaultsTyped'
  BY <1>2 DEF StepFault
<1>9. UNCHANGED <<vol, meta, lun, nextId>> => ArrayTyped'
  BY <1>1 DEF arrayVars
<1>11. ASSUME NEW w \in Workers, NEW n \in Names, StartProvision(w, n)
       PROVE  TypeInv'
  <2>0. PICK found \in SUBSET nodes :
          /\ HostList(nodes, found)
          /\ op' = [op EXCEPT ![w].pc = "count", ![w].name = n, ![w].hosts = found]
    BY <1>11 DEF StartProvision
  <2> DEFINE new == [op[w] EXCEPT !.pc = "count", !.name = n, !.hosts = found]
  <2>1. new \in CallType /\ new.pc = "count"
    BY <1>0, <1>5 DEF CallType, Pcs, NodesTyped
  <2>2. op' = [op EXCEPT ![w] = new]
    BY <2>0
  <2> HIDE DEF new
  <2>3. OpTyped'
    BY <1>0, <2>1, <2>2, OpChanges
  <2> QED
    BY <1>0, <1>1, <1>2, <1>11, <2>0, <2>3 DEF StartProvision, HostList, TypeInv
<1>12. ASSUME NEW w \in Workers, NEW i \in Ids, StartDelete(w, i)
       PROVE  TypeInv'
  <2> DEFINE new == [op[w] EXCEPT !.pc = "delMeta", !.id = i, !.hosts = nodes]
  <2>0. i \in 0 .. MaxId
    BY <1>n DEF Ids
  <2>1. new \in CallType /\ new.pc = "delMeta"
    BY <1>0, <1>5, <2>0 DEF CallType, Pcs, NodesTyped
  <2>2. op' = [op EXCEPT ![w] = new]
    BY <1>12 DEF StartDelete
  <2> HIDE DEF new
  <2>3. OpTyped'
    BY <1>0, <2>1, <2>2, OpChanges
  <2>4. PvTyped'
    BY <1>0, <1>12 DEF PvTyped, StartDelete
  <2> QED
    BY <1>0, <1>1, <1>12, <2>3, <2>4 DEF StartDelete, TypeInv
<1>13. ASSUME NEW w \in Workers,
              PrepareFails(w) \/ VolCreateFails(w) \/ DeleteVolumeFails(w)
       PROVE  TypeInv'
  BY <1>0, <1>1, <1>2, <1>3, <1>8, <1>13
  DEF PrepareFails, VolCreateFails, DeleteVolumeFails, TypeInv
<1>14. ASSUME NEW w \in Workers, CheckLimit(w)
       PROVE  TypeInv'
  BY <1>0, <1>1, <1>2, <1>3, <1>4, <1>14 DEF CheckLimit, TypeInv, Pcs
<1>15. ASSUME NEW w \in Workers, VolCreate(w)
       PROVE  TypeInv'
  <2> DEFINE pc == IF op[w].hosts # {} THEN "map"
                   ELSE IF setup.fc THEN "delMeta" ELSE "delVol"
             new == [op[w] EXCEPT !.id = nextId, !.todo = op[w].hosts, !.pc = pc]
  <2>1. nextId \in 0 .. MaxId /\ nextId + 1 \in 1 .. MaxId + 1
        /\ op[w].name \in Names \cup {NoName}
    BY <1>0, <1>5, <1>n, <1>15 DEF VolCreate, ArrayTyped, CallType
  <2>2. ArrayTyped'
    BY <1>0, <1>15, <2>1 DEF VolCreate, ArrayTyped
  <2>3. pc \in Pcs \ {"attach"}
    BY DEF Pcs
  <2> HIDE DEF pc
  <2>4. new \in CallType /\ new.pc = pc
    BY <1>5, <2>1, <2>3 DEF CallType
  <2>5. op' = [op EXCEPT ![w] = new] \/ Return(w)
    BY <1>15 DEF VolCreate, pc
  <2> HIDE DEF new
  <2>6. OpTyped'
    BY <1>0, <1>3, <2>3, <2>4, <2>5, OpChanges
  <2> QED
    BY <1>0, <1>1, <1>2, <1>15, <2>2, <2>6 DEF VolCreate, TypeInv
<1>16. ASSUME NEW w \in Workers, NEW h \in Hosts, Mapping(w, h)
       PROVE  TypeInv'
  <2>1. PICK l \in 0 .. MaxLun :
          /\ SetLun(h, op[w].id, l)
          /\ \/ op' = [op EXCEPT ![w].lun = IF l > @ THEN l ELSE @,
                         ![w].todo = @ \ {h},
                         ![w].pc = IF op[w].todo = {h} THEN "attach" ELSE "map"]
             \/ VolDestroy(w)
    BY <1>16 DEF Mapping
  <2> DEFINE new == [op[w] EXCEPT !.lun = IF l > op[w].lun THEN l ELSE op[w].lun,
                       !.todo = op[w].todo \ {h},
                       !.pc = IF op[w].todo = {h} THEN "attach" ELSE "map"]
  <2>2. l \in LunOrNone /\ op[w].lun \in LunOrNone
    BY <1>5, ConstantsAssumption DEF LunOrNone, NoLun, CallType
  <2>3. new \in CallType
    BY <1>5, <2>2 DEF CallType, Pcs
  <2>4. new.lun # NoLun /\ new.id \in Ids
    BY <1>5, <1>16, <2>2, ConstantsAssumption
    DEF CallType, NoLun, LunOrNone, Mapping, Live, Existing
  <2>5. op' = [op EXCEPT ![w] = new] \/ VolDestroy(w)
    BY <2>1
  <2> HIDE DEF new
  <2>6. OpTyped'
    BY <1>0, <1>6, <2>3, <2>4, <2>5, OpChanges
  <2>7. ArrayTyped'
    BY <1>7, <1>16, <2>1, <2>2 DEF Mapping
  <2> QED
    BY <1>0, <1>1, <1>2, <1>16, <2>6, <2>7 DEF Mapping, TypeInv
<1>17. ASSUME NEW w \in Workers, NEW h \in Hosts, MappingFails(w, h)
       PROVE  TypeInv'
  BY <1>0, <1>1, <1>2, <1>6, <1>17 DEF MappingFails, TypeInv
<1>18. ASSUME NEW w \in Workers, AttachMetadata(w)
       PROVE  TypeInv'
  <2>1. OpTyped'
    BY <1>3, <1>4, <1>18 DEF AttachMetadata, Pcs
  <2>2. op[w].id \in Ids /\ op[w].lun # NoLun /\ op[w].lun \in LunOrNone
    BY <1>0, <1>5, <1>18 DEF AttachMetadata, At, OpTyped, LunKnown, CallType
  <2>3. PvTyped'
    BY <1>0, <1>18, <2>2 DEF AttachMetadata, PvTyped
  <2>4. meta' \in SUBSET Ids
    BY <1>0, <1>18, <2>2 DEF AttachMetadata, ArrayTyped
  <2> QED
    BY <1>0, <1>1, <1>2, <1>18, <2>1, <2>3, <2>4 DEF AttachMetadata, TypeInv, ArrayTyped
<1>19. ASSUME NEW w \in Workers, AttachMetadataFails(w)
       PROVE  TypeInv'
  BY <1>0, <1>1, <1>2, <1>4, <1>19 DEF AttachMetadataFails, TypeInv, Pcs
<1>20. ASSUME NEW w \in Workers, NEW h \in Hosts, UndoMapping(w, h)
       PROVE  TypeInv'
  <2> DEFINE new == [op[w] EXCEPT !.todo = op[w].todo \ {h}]
  <2>1. new \in CallType /\ new.pc = "unmap"
    BY <1>5, <1>20 DEF CallType, UndoMapping, At
  <2>2. VolDestroy(w) \/ op' = [op EXCEPT ![w] = new]
    BY <1>20 DEF UndoMapping
  <2> HIDE DEF new
  <2>3. OpTyped'
    BY <1>0, <1>6, <2>1, <2>2, OpChanges
  <2>4. ArrayTyped'
    BY <1>7, <1>9, <1>n, <1>20 DEF UndoMapping
  <2> QED
    BY <1>0, <1>1, <1>2, <1>20, <2>3, <2>4 DEF UndoMapping, TypeInv
<1>21. ASSUME NEW w \in Workers, DetachMetadata(w)
       PROVE  TypeInv'
  <2>1. OpTyped'
    <3>1. CASE Return(w)
      BY <1>3, <3>1
    <3>2. ASSUME NEW found \in SUBSET op[w].hosts,
                 op' = [op EXCEPT ![w].todo = found,
                          ![w].pc = IF found = {} THEN "delVol" ELSE "delMap"]
          PROVE  OpTyped'
      <4> DEFINE new == [op[w] EXCEPT !.todo = found,
                           !.pc = IF found = {} THEN "delVol" ELSE "delMap"]
      <4>1. new \in CallType /\ new.pc # "attach"
        BY <1>5 DEF CallType, Pcs
      <4>2. op' = [op EXCEPT ![w] = new]
        BY <3>2
      <4> HIDE DEF new
      <4> QED
        BY <1>0, <4>1, <4>2, OpChanges
    <3> QED
      BY <1>21, <3>1, <3>2 DEF DetachMetadata
  <2>2. ArrayTyped' /\ FaultsTyped'
    BY <1>0, <1>1, <1>2, <1>8, <1>21 DEF DetachMetadata, ArrayTyped
  <2> QED
    BY <1>0, <1>1, <1>21, <2>1, <2>2 DEF DetachMetadata, TypeInv
<1>22. ASSUME NEW w \in Workers, NEW h \in Hosts, UnMap(w, h)
       PROVE  TypeInv'
  <2> DEFINE new == [op[w] EXCEPT !.todo = op[w].todo \ {h},
                       !.pc = IF op[w].todo = {h} THEN "delVol" ELSE "delMap"]
  <2>1. new \in CallType /\ new.pc # "attach"
    BY <1>5 DEF CallType, Pcs
  <2>2. Return(w) \/ op' = [op EXCEPT ![w] = new]
    BY <1>22 DEF UnMap
  <2> HIDE DEF new
  <2>3. OpTyped'
    BY <1>0, <1>3, <2>1, <2>2, OpChanges
  <2>4. ArrayTyped'
    BY <1>7, <1>9, <1>n, <1>22 DEF UnMap
  <2> QED
    BY <1>0, <1>1, <1>2, <1>8, <1>22, <2>3, <2>4 DEF UnMap, TypeInv
<1>23. ASSUME NEW w \in Workers, DeleteVolume(w)
       PROVE  TypeInv'
  <2>1. ArrayTyped'
    BY <1>0, <1>23, DestroyTyped DEF DeleteVolume
  <2>2. PvTyped'
    BY <1>0, <1>23 DEF DeleteVolume, PvTyped
  <2> QED
    BY <1>0, <1>1, <1>2, <1>3, <1>23, <2>1, <2>2 DEF DeleteVolume, TypeInv
<1>24. ASSUME NEW n \in Hosts, NodeEvent(n)
       PROVE  TypeInv'
  <2>1. nodes' \in SUBSET Hosts /\ changes' \in 0 .. MaxChanges
    BY <1>0, <1>n, <1>24 DEF NodeEvent, NodesTyped
  <2>2. handler' \in [map : SUBSET (Ids \X Hosts), unmap : SUBSET (Ids \X Hosts)]
    <3>1. ASSUME NEW found \in SUBSET nodes',
                 handler' = [map |-> pvCache \X found,
                             unmap |-> IF n \in nodes THEN pvCache \X {n} ELSE {}]
          PROVE  handler' \in [map : SUBSET (Ids \X Hosts), unmap : SUBSET (Ids \X Hosts)]
      BY <1>0, <2>1, <3>1 DEF PvTyped
    <3> QED
      BY <1>0, <1>24, <3>1 DEF NodeEvent, NodesTyped
  <2> QED
    BY <1>0, <1>1, <1>2, <1>24, <2>1, <2>2 DEF NodeEvent, HostList, NodesTyped, TypeInv
<1>25. CASE SyncVolumes
  BY <1>0, <1>1, <1>25 DEF SyncVolumes, PvTyped, TypeInv
<1>26. ASSUME NEW i \in Ids, NEW h \in Hosts, UpdateMapping(i, h) \/ UnmapNode(i, h)
       PROVE  TypeInv'
  <2>1. NodesTyped'
    BY <1>0, <1>26 DEF UpdateMapping, UnmapNode, NodesTyped
  <2>2. pvLun[i] \in LunOrNone
    BY <1>0 DEF PvTyped
  <2>3. ArrayTyped'
    BY <1>7, <1>9, <1>n, <1>26, <2>2 DEF UpdateMapping, UnmapNode
  <2> QED
    BY <1>0, <1>1, <1>2, <1>26, <2>1, <2>3 DEF UpdateMapping, UnmapNode, TypeInv
<1>27. CASE Crash
  <2>1. OpTyped'
    BY <1>27, IdleTyped DEF Crash, OpTyped, LunKnown
  <2>2. NodesTyped'
    BY <1>0, <1>27 DEF Crash, NodesTyped, NoHandler
  <2> QED
    BY <1>0, <1>1, <1>2, <1>27, <2>1, <2>2 DEF Crash, TypeInv
<1>28. CASE UNCHANGED vars
  BY <1>0, <1>1, <1>28 DEF vars, TypeInv
<1> QED
  BY <1>11, <1>12, <1>13, <1>14, <1>15, <1>16, <1>17, <1>18, <1>19, <1>20, <1>21,
     <1>22, <1>23, <1>24, <1>25, <1>26, <1>27, <1>28
  DEF Next, Provision, Delete, HandlerStep

\* The types are an invariant, with the part that makes them inductive.
LEMMA Typed == Spec => []TypeInv
<1>1. Init => TypeInv
  BY TypeInit
<1>2. TypeInv /\ [Next]_vars => TypeInv'
  BY TypeStep
<1> QED
  BY <1>1, <1>2, PTL DEF Spec

\* The state keeps its types, and every PV that was made has a LUN.
THEOREM TypeCorrect == Spec => []TypeOK
BY Typed, Parts, PTL

----------------------------------------------------------------------------
(* The limit.  A call that was let through holds a place until it created   *)
(* its volume or failed, so LimitOvershoot is inductive as it stands.       *)

\* Both sets are finite.
LEMMA Finite == /\ IsFiniteSet(Existing) /\ Cardinality(Existing) \in Nat
                /\ IsFiniteSet(Creating) /\ Cardinality(Creating) \in Nat
                /\ Cardinality(Workers) \in Nat
<1>1. IsFiniteSet(Ids)
  BY FS_Interval, ConstantsAssumption DEF Ids
<1>2. Existing \subseteq Ids /\ Creating \subseteq Workers
  BY DEF Existing, Creating
<1> QED
  BY <1>1, <1>2, FS_Subset, FS_CardinalityType, ConstantsAssumption

\* Fewer volumes and fewer calls that are about to create one.
LEMMA LimitShrinks ==
  ASSUME LimitOvershoot, Existing' \subseteq Existing, Creating' \subseteq Creating,
         faults.kinds \subseteq faults'.kinds
  PROVE  LimitOvershoot'
<1>1. /\ Cardinality(Existing') \in Nat /\ Cardinality(Existing') <= Cardinality(Existing)
      /\ Cardinality(Creating') \in Nat /\ Cardinality(Creating') <= Cardinality(Creating)
  BY Finite, FS_Subset, FS_CardinalityType
<1>2. MaxVolume \in Nat
  BY ConstantsAssumption
<1> QED
  BY <1>1, <1>2, Finite DEF LimitOvershoot

\* Faults are remembered.
LEMMA FaultsStay ==
  ASSUME TypeInv, NEW f, NoFault \/ Fault(f)
  PROVE  /\ faults.kinds \subseteq faults'.kinds
         /\ Fault(f) => f \in faults'.kinds
BY DEF TypeInv, FaultsTyped, NoFault, Fault

\* A call that ends, or goes anywhere but to "create", is not about to create.
LEMMA CreatingShrinks ==
  ASSUME TypeInv, NEW w \in Workers, NEW new, op' = [op EXCEPT ![w] = new],
         new.pc # "create"
  PROVE  Creating' = Creating \ {w}
BY DEF TypeInv, OpTyped, Creating, At

\* A call that ends, undoes its volume or moves on is not about to create.
LEMMA CallLeaves ==
  ASSUME TypeInv, NEW w \in Workers, NEW new, new.pc # "create",
         \/ Return(w) \/ VolDestroy(w) \/ Loop(w, "unmap")
         \/ op' = [op EXCEPT ![w] = new]
  PROVE  Creating' = Creating \ {w}
<1>1. op[w] \in CallType
  BY DEF TypeInv, OpTyped
<1>2. CASE Return(w)
  BY <1>2, IdleTyped, CreatingShrinks DEF Return
<1>3. ASSUME NEW pc, pc # "create",
             \/ op' = [op EXCEPT ![w].pc = pc]
             \/ op' = [op EXCEPT ![w].pc = pc, ![w].todo = op[w].hosts]
      PROVE  Creating' = Creating \ {w}
  <2> DEFINE new1 == [op[w] EXCEPT !.pc = pc]
             new2 == [op[w] EXCEPT !.pc = pc, !.todo = op[w].hosts]
  <2>1. new1.pc = pc /\ new2.pc = pc
    BY <1>1 DEF CallType
  <2>2. op' = [op EXCEPT ![w] = new1] \/ op' = [op EXCEPT ![w] = new2]
    BY <1>3
  <2> HIDE DEF new1, new2
  <2> QED
    BY <1>3, <2>1, <2>2, CreatingShrinks
<1>4. CASE VolDestroy(w) \/ Loop(w, "unmap")
  BY <1>3, <1>4 DEF VolDestroy, Goto, Loop
<1> QED
  BY <1>2, <1>4, CreatingShrinks

\* Every step of a call but the check of the limit and the creation.
LEMMA OtherSteps ==
  ASSUME TypeInv, NEW w \in Workers,
         \/ \E n \in Names : StartProvision(w, n)
         \/ \E i \in Ids : StartDelete(w, i)
         \/ PrepareFails(w) \/ VolCreateFails(w)
         \/ AttachMetadata(w) \/ AttachMetadataFails(w)
         \/ \E h \in Hosts : \/ Mapping(w, h) \/ MappingFails(w, h)
                             \/ UndoMapping(w, h) \/ UnMap(w, h)
         \/ DetachMetadata(w) \/ DeleteVolume(w) \/ DeleteVolumeFails(w)
  PROVE  /\ Existing' \subseteq Existing /\ Creating' \subseteq Creating
         /\ faults.kinds \subseteq faults'.kinds
<1>1. Existing' \subseteq Existing
  <2>1. UNCHANGED vol => Existing' = Existing
    BY DEF Existing
  <2>2. CASE DeleteVolume(w)
    BY <2>2 DEF DeleteVolume, Destroy, Existing, TypeInv, ArrayTyped
  <2> QED
    BY <2>1, <2>2
    DEF StartProvision, StartDelete, PrepareFails, VolCreateFails, AttachMetadata,
        AttachMetadataFails, Mapping, MappingFails, UndoMapping, UnMap,
        DetachMetadata, DeleteVolumeFails, arrayVars
<1>2. faults.kinds \subseteq faults'.kinds
  BY FaultsStay
  DEF StartProvision, HostList, StartDelete, PrepareFails, VolCreateFails, AttachMetadata,
      AttachMetadataFails, Mapping, MappingFails, UndoMapping, UnMap,
      DetachMetadata, DeleteVolume, DeleteVolumeFails, StepFault, NoFault
<1>3. Creating' \subseteq Creating
  <2> DEFINE keeps == Return(w) \/ VolDestroy(w) \/ Loop(w, "unmap")
             sets == \E new : new.pc # "create" /\ op' = [op EXCEPT ![w] = new]
  <2>0. op[w] \in CallType
    BY DEF TypeInv, OpTyped
  <2>1. ASSUME keeps PROVE Creating' \subseteq Creating
    BY <2>1, CallLeaves, IdleTyped
  <2>2. ASSUME sets PROVE Creating' \subseteq Creating
    BY <2>2, CallLeaves
  <2>3. CASE \E n \in Names : StartProvision(w, n)
    <3>1. PICK n \in Names : StartProvision(w, n)
      BY <2>3
    <3>2. PICK found \in SUBSET nodes :
            op' = [op EXCEPT ![w].pc = "count", ![w].name = n, ![w].hosts = found]
      BY <3>1 DEF StartProvision
    <3> DEFINE new == [op[w] EXCEPT !.pc = "count", !.name = n, !.hosts = found]
    <3>3. new.pc = "count" /\ op' = [op EXCEPT ![w] = new]
      BY <2>0, <3>2 DEF CallType
    <3> QED
      BY <2>2, <3>3
  <2>4. CASE \E i \in Ids : StartDelete(w, i)
    <3>1. PICK i \in Ids : StartDelete(w, i)
      BY <2>4
    <3>2. [op[w] EXCEPT !.pc = "delMeta", !.id = i, !.hosts = nodes].pc = "delMeta"
      BY <2>0 DEF CallType
    <3>3. op' = [op EXCEPT ![w] = [op[w] EXCEPT !.pc = "delMeta", !.id = i, !.hosts = nodes]]
      BY <3>1 DEF StartDelete
    <3> QED
      BY <2>2, <3>2, <3>3
  <2>5. CASE \E h \in Hosts : Mapping(w, h)
    <3>1. PICK h \in Hosts : Mapping(w, h)
      BY <2>5
    <3>2. PICK l \in 0 .. MaxLun :
            \/ op' = [op EXCEPT ![w].lun = IF l > @ THEN l ELSE @,
                        ![w].todo = @ \ {h},
                        ![w].pc = IF op[w].todo = {h} THEN "attach" ELSE "map"]
            \/ VolDestroy(w)
      BY <3>1 DEF Mapping
    <3> DEFINE new == [op[w] EXCEPT !.lun = IF l > op[w].lun THEN l ELSE op[w].lun,
                         !.todo = op[w].todo \ {h},
                         !.pc = IF op[w].todo = {h} THEN "attach" ELSE "map"]
    <3>3. new.pc # "create"
      BY <2>0 DEF CallType
    <3>4. op' = [op EXCEPT ![w] = new] \/ VolDestroy(w)
      BY <3>2
    <3> HIDE DEF new
    <3> QED
      BY <2>1, <2>2, <3>3, <3>4
  <2>6. CASE \E h \in Hosts : UndoMapping(w, h)
    <3>1. PICK h \in Hosts : UndoMapping(w, h)
      BY <2>6
    <3> DEFINE new == [op[w] EXCEPT !.todo = op[w].todo \ {h}]
    <3>2. new.pc # "create"
      BY <2>0, <3>1 DEF CallType, UndoMapping, At
    <3>3. VolDestroy(w) \/ op' = [op EXCEPT ![w] = new]
      BY <3>1 DEF UndoMapping
    <3> HIDE DEF new
    <3> QED
      BY <2>1, <2>2, <3>2, <3>3
  <2>7. CASE \E h \in Hosts : UnMap(w, h)
    <3>1. PICK h \in Hosts : UnMap(w, h)
      BY <2>7
    <3> DEFINE new == [op[w] EXCEPT !.todo = op[w].todo \ {h},
                         !.pc = IF op[w].todo = {h} THEN "delVol" ELSE "delMap"]
    <3>2. new.pc # "create"
      BY <2>0 DEF CallType
    <3>3. Return(w) \/ op' = [op EXCEPT ![w] = new]
      BY <3>1 DEF UnMap
    <3> HIDE DEF new
    <3> QED
      BY <2>1, <2>2, <3>2, <3>3
  <2>8. CASE DetachMetadata(w)
    <3>1. CASE Return(w)
      BY <2>1, <3>1
    <3>2. ASSUME NEW found \in SUBSET op[w].hosts,
                 op' = [op EXCEPT ![w].todo = found,
                          ![w].pc = IF found = {} THEN "delVol" ELSE "delMap"]
          PROVE  Creating' \subseteq Creating
      <4> DEFINE new == [op[w] EXCEPT !.todo = found,
                           !.pc = IF found = {} THEN "delVol" ELSE "delMap"]
      <4>1. new.pc # "create"
        BY <2>0 DEF CallType
      <4>2. op' = [op EXCEPT ![w] = new]
        BY <3>2
      <4> HIDE DEF new
      <4> QED
        BY <2>2, <4>1, <4>2
    <3> QED
      BY <2>8, <3>1, <3>2 DEF DetachMetadata
  <2>9. CASE \/ PrepareFails(w) \/ VolCreateFails(w)
             \/ AttachMetadata(w) \/ AttachMetadataFails(w)
             \/ (\E h \in Hosts : MappingFails(w, h))
             \/ DeleteVolume(w) \/ DeleteVolumeFails(w)
    BY <2>1, <2>9
    DEF PrepareFails, VolCreateFails, AttachMetadata, AttachMetadataFails,
        MappingFails, DeleteVolume, DeleteVolumeFails
  <2> QED
    BY <2>3, <2>4, <2>5, <2>6, <2>7, <2>8, <2>9
<1> QED
  BY <1>1, <1>2, <1>3

\* A place is taken only while there are fewer than MaxVolume volumes, or the
\* count failed, and given back when the volume is created.
LEMMA LimitStep ==
  ASSUME TypeInv, LimitOvershoot, [Next]_vars
  PROVE  LimitOvershoot'
<1>0. MaxVolume \in Nat
  BY ConstantsAssumption
<1>1. ASSUME NEW w \in Workers, CheckLimit(w)
      PROVE  LimitOvershoot'
  <2>1. Existing' = Existing /\ faults.kinds \subseteq faults'.kinds
    BY <1>1, FaultsStay DEF CheckLimit, Existing, arrayVars
  <2>2. PICK counted \in {Cardinality(Existing), 0} :
          /\ IF counted = Cardinality(Existing) THEN NoFault ELSE Fault("countError")
          /\ IF counted >= MaxVolume THEN Return(w) ELSE Goto(w, "create")
    BY <1>1 DEF CheckLimit
  <2>3. CASE Return(w)
    BY <2>1, <2>3, CallLeaves, IdleTyped, LimitShrinks
  <2>4. CASE Fault("countError")
    BY <2>4, FaultsStay DEF LimitOvershoot
  <2>5. CASE counted = Cardinality(Existing) /\ ~(counted >= MaxVolume)
    <3>1. Creating' \subseteq Workers
      BY DEF Creating
    <3>2. Cardinality(Creating') \in Nat /\ Cardinality(Creating') <= Cardinality(Workers)
      BY <3>1, FS_Subset, FS_CardinalityType, ConstantsAssumption
    <3> QED
      BY <1>0, <2>1, <2>5, <3>2, Finite DEF LimitOvershoot
  <2> QED
    BY <2>2, <2>3, <2>4, <2>5
<1>2. ASSUME NEW w \in Workers, VolCreate(w)
      PROVE  LimitOvershoot'
  <2>0. op[w] \in CallType
    BY DEF TypeInv, OpTyped
  <2>1. Creating' = Creating \ {w} /\ w \in Creating
    <3> DEFINE pc == IF op[w].hosts # {} THEN "map"
                     ELSE IF setup.fc THEN "delMeta" ELSE "delVol"
               new == [op[w] EXCEPT !.id = nextId, !.todo = op[w].hosts, !.pc = pc]
    <3>1. new.pc = pc /\ pc # "create"
      BY <2>0 DEF CallType
    <3>2. op' = [op EXCEPT ![w] = new] \/ Return(w)
      BY <1>2 DEF VolCreate
    <3> HIDE DEF new, pc
    <3>3. Creating' = Creating \ {w}
      BY <3>1, <3>2, CallLeaves
    <3> QED
      BY <1>2, <3>3 DEF VolCreate, Creating, At
  <2>2. Existing' \subseteq Existing \cup {nextId}
    BY <1>2 DEF VolCreate, Existing, TypeInv, ArrayTyped
  <2>3. Cardinality(Creating') = Cardinality(Creating) - 1
    BY <2>1, Finite, FS_RemoveElement
  <2>4. /\ IsFiniteSet(Existing \cup {nextId})
        /\ Cardinality(Existing \cup {nextId}) <= Cardinality(Existing) + 1
        /\ Cardinality(Existing \cup {nextId}) \in Nat
    BY Finite, FS_AddElement, FS_CardinalityType
  <2>5. /\ Cardinality(Existing') <= Cardinality(Existing) + 1
        /\ Cardinality(Existing') \in Nat
    BY <2>2, <2>4, Finite, FS_Subset, FS_CardinalityType
  <2>6. faults.kinds \subseteq faults'.kinds
    BY <1>2, FaultsStay DEF VolCreate
  <2> QED
    BY <1>0, <2>3, <2>5, <2>6, Finite DEF LimitOvershoot
<1>3. CASE /\ UNCHANGED <<vol, op>>
           /\ NoFault \/ \E f : Fault(f)
  <2>1. Existing' = Existing /\ Creating' = Creating
    BY <1>3 DEF Existing, Creating, At
  <2> QED
    BY <1>3, <2>1, FaultsStay, LimitShrinks
<1>4. CASE Crash
  <2>1. Existing' = Existing
    BY <1>4 DEF Crash, arrayVars, Existing
  <2>2. Creating' = {}
    BY <1>4, IdleTyped DEF Crash, Creating, At
  <2> QED
    BY <1>4, <2>1, <2>2, FaultsStay, LimitShrinks DEF Crash
<1>5. ASSUME NEW n \in Hosts, NodeEvent(n)
      PROVE  LimitOvershoot'
  BY <1>3, <1>5 DEF NodeEvent, HostList, arrayVars
<1>6. ASSUME NEW i \in Ids, NEW h \in Hosts, UpdateMapping(i, h) \/ UnmapNode(i, h)
      PROVE  LimitOvershoot'
  BY <1>3, <1>6 DEF UpdateMapping, UnmapNode
<1>7. CASE SyncVolumes \/ UNCHANGED vars
  BY <1>3, <1>7 DEF SyncVolumes, vars, arrayVars, NoFault
<1>8. ASSUME NEW w \in Workers,
             \/ \E n \in Names : StartProvision(w, n)
             \/ \E i \in Ids : StartDelete(w, i)
             \/ Provision(w) \/ Delete(w)
      PROVE  LimitOvershoot'
  BY <1>1, <1>2, <1>8, OtherSteps, LimitShrinks DEF Provision, Delete
<1> QED
  BY <1>4, <1>5, <1>6, <1>7, <1>8 DEF Next, HandlerStep

\* Any number of Provisions that pass the limit with the same count
\* (iscsi/provision.go:321-329) exceed it by fewer volumes than there are
\* calls, unless the count failed.
THEOREM LimitKept == Spec => []LimitOvershoot
<1>1. Init => LimitOvershoot
  <2> SUFFICES ASSUME Init PROVE LimitOvershoot
    OBVIOUS
  <2>1. Existing = {} /\ Creating = {}
    BY IdleTyped DEF Init, Existing, Creating, At
  <2>2. Cardinality(Workers) # 0 /\ MaxVolume \in Nat
    BY ConstantsAssumption, FS_EmptySet
  <2> QED
    BY <2>1, <2>2, Finite, FS_EmptySet DEF LimitOvershoot
<1>2. TypeInv /\ LimitOvershoot /\ [Next]_vars => LimitOvershoot'
  BY LimitStep
<1> QED
  BY <1>1, <1>2, Typed, PTL DEF Spec

----------------------------------------------------------------------------
(* Whose volume it is: that of the call that created it, until that call    *)
(* returned a PV or undid it, and then that of the one call that deletes    *)
(* it.  The handler of node events only touches volumes with a PV.          *)

Waiting == {"idle", "count", "create"}
Making == {"map", "attach"}
Exists(i) == vol[i] # NoName
Unmapped(i) == \A h \in Hosts : lun[h][i] = NoLun
MappedIn(i, H) == \A h \in Hosts \ H : lun[h][i] = NoLun

\* No rollback was disturbed; GetHostList left a node out; iscsi found no address.
Tolerated == {"error", "countError", "skippedHost", "noAddress"}
Clean == faults.kinds \subseteq Tolerated
Skipped == "skippedHost" \in faults.kinds
Panicked == "noAddress" \in faults.kinds

\* What a call can rely on at each of its steps.
CallOK(w) ==
  LET c == op[w]
      i == c.id
      at(P) == c.pc \in P
      undoing == pv[i] = "none"
  IN  /\ c.todo \subseteq c.hosts
      /\ at(Waiting) => i = 0 /\ c.lun = NoLun /\ c.todo = {}
      /\ at({"count", "create"}) => c.name \in Names
      /\ at(Making \cup {"count", "create"}) /\ changes = 0 /\ ~Skipped
           => c.hosts = nodes
      /\ ~at(Waiting) => i \in Ids /\ i < nextId /\ pv[i] # "ready"
      /\ at(Making \cup {"unmap"}) => undoing
      /\ at(Making) =>
           /\ Exists(i) /\ c.hosts # {}
           /\ \A h \in Hosts :
                lun[h][i] = IF h \in c.hosts \ c.todo THEN c.lun ELSE NoLun
      /\ at({"map"}) /\ c.lun = NoLun => c.hosts \subseteq c.todo
      /\ at({"attach"}) => c.todo = {}
      /\ ~at(Waiting) /\ undoing => MappedIn(i, c.hosts)
      /\ at({"delMap"}) /\ undoing /\ Clean => MappedIn(i, c.todo)
      /\ at({"delVol"}) /\ undoing /\ Clean /\ setup.fc => Unmapped(i)

\* What holds of a volume, used or not, with a PV or without.
Unused(i) == i >= nextId => ~Exists(i) /\ pv[i] = "none" /\ Unmapped(i)
Complete(i) ==
  pv[i] = "ready" =>
    /\ Exists(i) /\ i \in meta
    /\ changes = 0 => /\ \E h \in Hosts : lun[h][i] # NoLun
                      /\ ~Skipped => \A h \in nodes : lun[h][i] # NoLun
OneLun(i) ==
  pv[i] \in {"ready", "doomed"} =>
    \A h \in Hosts : lun[h][i] # NoLun => lun[h][i] = pvLun[i]
Kept(i) ==
  Clean /\ Exists(i) => \/ pv[i] # "none" \/ \E w \in Workers : op[w].id = i
                        \/ LeftMapped(i) \/ (Panicked /\ i \in meta)
VolumeOK(i) == Unused(i) /\ Complete(i) /\ OneLun(i) /\ Kept(i)

\* A volume has at most one call.
OneCall ==
  \A w, x \in Workers :
    op[w].pc \notin Waiting /\ op[x].pc \notin Waiting /\ op[w].id = op[x].id => w = x

\* The handler and the cache it works from know only volumes with a PV, and
\* nothing is unmapped before a node left.
HandlerOK ==
  /\ \A i \in pvCache : pv[i] # "none"
  /\ \A p \in handler.map \cup handler.unmap : pv[p[1]] # "none"
  /\ changes = 0 => handler.unmap = {}

OwnerInv ==
  /\ \A w \in Workers : CallOK(w)
  /\ \A i \in Ids : VolumeOK(i)
  /\ OneCall
  /\ HandlerOK

\* Nothing happens to volume i and its PV.
Same(i) ==
  /\ vol'[i] = vol[i] /\ pv'[i] = pv[i] /\ pvLun'[i] = pvLun[i]
  /\ i \in meta' <=> i \in meta
  /\ \A h \in Hosts : lun'[h][i] = lun[h][i]

\* Faults are remembered.
FaultsGrow ==
  (Clean' => Clean) /\ (Skipped => Skipped') /\ (Panicked => Panicked')

\* What a call says of its volume stays true while nothing happens to it.
LEMMA CallStays ==
  ASSUME TypeInv, TypeInv', OwnerInv, NEW x \in Workers, op'[x] = op[x],
         op[x].pc \notin Waiting => Same(op[x].id),
         FaultsGrow, nextId <= nextId',
         UNCHANGED <<setup, nodes, changes>>
  PROVE  CallOK(x)'
<1>1. CallOK(x) /\ op[x] \in CallType
  BY DEF OwnerInv, TypeInv, OpTyped
<1>2. CASE op[x].pc \in Waiting
  BY <1>1, <1>2 DEF CallOK, Waiting, Making, FaultsGrow
<1>3. CASE op[x].pc \notin Waiting
  <2>1. PICK k \in Ids : k = op[x].id /\ k < nextId /\ k < nextId'
    BY <1>1, <1>3 DEF CallOK, TypeInv, ArrayTyped, Ids
  <2>2. Same(k)
    BY <1>3, <2>1
  <2>3. /\ Exists(k)' <=> Exists(k)
        /\ \A H \in SUBSET Hosts : MappedIn(k, H) => MappedIn(k, H)'
        /\ Unmapped(k) => Unmapped(k)'
    BY <2>2 DEF Same, Exists, MappedIn, Unmapped
  <2> QED
    BY <1>1, <1>3, <2>1, <2>2, <2>3
    DEF CallOK, CallType, Same, Waiting, Making, FaultsGrow
<1> QED
  BY <1>2, <1>3

\* A call's step concerns one volume d, which no other call has.
LEMMA OneCallMoves ==
  ASSUME TypeInv, TypeInv', OwnerInv, NEW w \in Workers, NEW d,
         \A x \in Workers \ {w} : op'[x] = op[x],
         \A i \in Ids \ {d} : Same(i),
         FaultsGrow, nextId <= nextId',
         UNCHANGED <<setup, nodes, changes, handler, pvCache>>,
         op[w].id \in {0, d},
         \A x \in Workers \ {w} : op[x].pc \notin Waiting => op[x].id # d,
         d \in Ids => VolumeOK(d)' /\ (pv[d] # "none" => pv'[d] # "none"),
         CallOK(w)',
         op'[w].pc \notin Waiting => op'[w].id = d
  PROVE  OwnerInv'
<1>1. ASSUME NEW x \in Workers PROVE CallOK(x)'
  <2> SUFFICES ASSUME x # w PROVE CallOK(x)'
    OBVIOUS
  <2>1. op[x].pc \notin Waiting => op[x].id \in Ids
    BY DEF OwnerInv, CallOK
  <2> QED
    BY <2>1, CallStays
<1>2. ASSUME NEW i \in Ids PROVE VolumeOK(i)'
  <2> SUFFICES ASSUME i # d PROVE VolumeOK(i)'
    OBVIOUS
  <2>1. Same(i) /\ VolumeOK(i) /\ i # 0
    BY DEF OwnerInv, Ids
  <2>2. Unused(i)'
    BY <2>1 DEF VolumeOK, Same, Unused, Exists, Unmapped, TypeInv, ArrayTyped, Ids
  <2>3. Complete(i)'
    BY <2>1 DEF VolumeOK, Same, Complete, Exists, FaultsGrow, TypeInv, NodesTyped
  <2>4. OneLun(i)'
    BY <2>1 DEF VolumeOK, Same, OneLun
  <2>5. Kept(i)'
    <3>1. LeftMapped(i) => LeftMapped(i)'
      BY <2>1 DEF Same, LeftMapped, Mapped
    <3> QED
      BY <2>1, <3>1 DEF VolumeOK, Same, Kept, Exists, FaultsGrow
  <2> QED
    BY <2>2, <2>3, <2>4, <2>5 DEF VolumeOK
<1>3. OneCall'
  BY DEF OwnerInv, OneCall
<1>4. HandlerOK'
  <2>1. \A i \in Ids : pv[i] # "none" => pv'[i] # "none"
    BY DEF Same
  <2>2. /\ pvCache \subseteq Ids
        /\ \A p \in handler.map \cup handler.unmap : p[1] \in Ids
    BY DEF TypeInv, PvTyped, NodesTyped
  <2> QED
    BY <2>1, <2>2 DEF OwnerInv, HandlerOK
<1> QED
  BY <1>1, <1>2, <1>3, <1>4 DEF OwnerInv

\* A step of a call that has no volume yet, and gets none.
LEMMA WaitingMoves ==
  ASSUME TypeInv, TypeInv', OwnerInv, NEW w \in Workers, op[w].pc \in Waiting,
         \A x \in Workers \ {w} : op'[x] = op[x],
         op'[w].pc \in Waiting, CallOK(w)',
         UNCHANGED <<setup, arrayVars, nodeVars, pvVars>>, FaultsGrow
  PROVE  OwnerInv'
<1>1. \A i \in Ids \ {0} : Same(i)
  BY DEF Same, arrayVars, pvVars
<1>2. op[w].id = 0 /\ 0 \notin Ids /\ \A x \in Workers : op[x].pc \notin Waiting => op[x].id # 0
  BY DEF OwnerInv, CallOK, Ids
<1>3. nextId <= nextId' /\ UNCHANGED <<setup, nodes, changes, handler, pvCache>>
  BY DEF arrayVars, nodeVars, pvVars, TypeInv, ArrayTyped
<1> QED
  BY <1>1, <1>2, <1>3, OneCallMoves

\* A step of w on the volume it has.
LEMMA OwnStep ==
  ASSUME TypeInv, TypeInv', OwnerInv, NEW w \in Workers, op[w].pc \notin Waiting,
         NEW d, d = op[w].id,
         \A x \in Workers \ {w} : op'[x] = op[x],
         \A i \in Ids \ {d} : Same(i),
         FaultsGrow, nextId' = nextId,
         UNCHANGED <<setup, nodes, changes, handler, pvCache>>,
         Complete(d)' /\ OneLun(d)' /\ Kept(d)',
         pv[d] # "none" => pv'[d] # "none",
         CallOK(w)',
         op'[w].pc \notin Waiting => op'[w].id = d
  PROVE  OwnerInv'
<1>1. d \in Ids /\ d < nextId /\ nextId \in Nat
  BY DEF OwnerInv, CallOK, TypeInv, ArrayTyped
<1>2. Unused(d)'
  BY <1>1 DEF Unused, Ids
<1>3. VolumeOK(d)'
  BY <1>2 DEF VolumeOK
<1>4. \A x \in Workers \ {w} : op[x].pc \notin Waiting => op[x].id # d
  BY DEF OwnerInv, OneCall
<1>5. nextId <= nextId'
  BY <1>1
<1> QED
  BY <1>1, <1>3, <1>4, <1>5, OneCallMoves

\* A call that has not returned a PV goes on with its volume.
LEMMA OwnerGoesOn ==
  ASSUME TypeInv, TypeInv', OwnerInv, NEW w \in Workers, op[w].pc \notin Waiting,
         NEW d, d = op[w].id, pv[d] = "none",
         \A x \in Workers \ {w} : op'[x] = op[x],
         \A i \in Ids \ {d} : Same(i),
         FaultsGrow, nextId' = nextId,
         UNCHANGED <<setup, nodeVars, pvVars>>,
         op'[w].id = d, CallOK(w)'
  PROVE  OwnerInv'
<1>1. pv'[d] = "none" /\ UNCHANGED <<setup, nodes, changes, handler, pvCache>>
  BY DEF pvVars, nodeVars
<1>2. Complete(d)' /\ OneLun(d)' /\ Kept(d)'
  BY <1>1 DEF Complete, OneLun, Kept
<1> QED
  BY <1>1, <1>2, OwnStep

\* A call that returns leaves its worker without a volume.
LEMMA ReturnEffect ==
  ASSUME TypeInv, NEW w \in Workers, Return(w)
  PROVE  /\ \A x \in Workers \ {w} : op'[x] = op[x]
         /\ CallOK(w)' /\ op'[w].pc \in Waiting
<1>1. /\ \A x \in Workers \ {w} : op'[x] = op[x]
      /\ op'[w].pc = "idle" /\ op'[w].id = 0 /\ op'[w].lun = NoLun
      /\ op'[w].todo = {} /\ op'[w].hosts = {}
  BY DEF TypeInv, OpTyped, Return, Idle
<1> QED
  BY <1>1 DEF CallOK, Waiting, Making

\* A call that goes on keeps its volume.
LEMMA GotoEffect ==
  ASSUME TypeInv, NEW w \in Workers, NEW pc, Goto(w, pc)
  PROVE  /\ \A x \in Workers \ {w} : op'[x] = op[x]
         /\ op'[w].pc = pc /\ op'[w].id = op[w].id /\ op'[w].name = op[w].name
         /\ op'[w].hosts = op[w].hosts /\ op'[w].todo = op[w].todo
         /\ op'[w].lun = op[w].lun
BY DEF TypeInv, OpTyped, CallType, Goto

\* A step without a fault, and one with a fault.
LEMMA CleanStays ==
  ASSUME TypeInv, NEW f, NoFault \/ Fault(f)
  PROVE  /\ FaultsGrow
         /\ Fault(f) /\ f \notin Tolerated => ~Clean'
BY FaultsStay DEF FaultsGrow, Clean, Skipped, Panicked

\* The volume of a call that fails is still mapped at most to the call's hosts.
LEMMA UndoBegins ==
  ASSUME TypeInv, TypeInv', OwnerInv, NEW w \in Workers,
         op[w].pc \in Making \cup {"unmap"}, VolDestroy(w),
         NEW d, d = op[w].id, NEW H, H = op[w].hosts, MappedIn(d, H)',
         \A i \in Ids \ {d} : Same(i),
         FaultsGrow, nextId' = nextId,
         UNCHANGED <<setup, nodeVars, pvVars>>
  PROVE  OwnerInv'
<1>1. CallOK(w) /\ op[w].pc \notin Waiting
  BY DEF OwnerInv, Making, Waiting
<1>2. d \in Ids /\ d < nextId /\ pv[d] = "none" /\ pv'[d] = "none"
  BY <1>1 DEF CallOK, pvVars
<1>3. PICK pc \in {"delMeta", "delVol"} : Goto(w, pc) /\ (pc = "delVol" => ~setup.fc)
  BY DEF VolDestroy
<1>4. /\ \A x \in Workers \ {w} : op'[x] = op[x]
      /\ op'[w].pc = pc /\ op'[w].id = d /\ op'[w].hosts = H
      /\ op'[w].todo = op[w].todo
  BY <1>3, GotoEffect
<1>5. op[w].todo \subseteq H
  BY <1>1 DEF CallOK
<1>6. CallOK(w)'
  BY <1>2, <1>3, <1>4, <1>5 DEF CallOK, Waiting, Making
<1> QED
  BY <1>1, <1>2, <1>4, <1>6, OwnerGoesOn

\* mapVolumeToHost.
LEMMA MappingOwner ==
  ASSUME TypeInv, TypeInv', OwnerInv, NEW w \in Workers, NEW h \in Hosts,
         Mapping(w, h)
  PROVE  OwnerInv'
<1>0. CallOK(w) /\ op[w] \in CallType /\ op[w].pc = "map" /\ h \in op[w].todo
  BY DEF OwnerInv, TypeInv, OpTyped, Mapping, At
<1>1. PICK d \in Ids : d = op[w].id /\ d < nextId /\ pv[d] = "none" /\ Exists(d)
  BY <1>0 DEF CallOK, Waiting, Making
<1>2. PICK H \in SUBSET Hosts : H = op[w].hosts
  BY <1>0 DEF CallType
<1>3. PICK T \in SUBSET H : T = op[w].todo
  BY <1>0, <1>2 DEF CallOK
<1>4. PICK l \in 0 .. MaxLun :
        /\ MayGet(w, h, l) /\ SetLun(h, op[w].id, l)
        /\ \/ /\ NoFault
              /\ op' = [op EXCEPT ![w].lun = IF l > @ THEN l ELSE @,
                          ![w].todo = @ \ {h},
                          ![w].pc = IF op[w].todo = {h} THEN "attach" ELSE "map"]
           \/ Fault("lostAnswer") /\ VolDestroy(w)
  BY DEF Mapping
<1>5. \A g \in Hosts : lun[g][d] = IF g \in H \ T THEN op[w].lun ELSE NoLun
  BY <1>0, <1>1, <1>2, <1>3 DEF CallOK, Making
<1>6. /\ \A g \in Hosts \ {h} : lun'[g] = lun[g]
      /\ lun'[h] = [lun[h] EXCEPT ![d] = l]
  BY <1>1, <1>4 DEF SetLun, TypeInv, ArrayTyped
<1>7. /\ lun'[h][d] = l
      /\ \A i \in Ids \ {d} : lun'[h][i] = lun[h][i]
  BY <1>6 DEF TypeInv, ArrayTyped
<1>8. UNCHANGED <<setup, vol, meta, nextId, nodes, changes, handler, pv, pvLun, pvCache>>
  BY DEF Mapping, nodeVars, pvVars
<1>9. \A i \in Ids \ {d} : Same(i)
  BY <1>6, <1>7, <1>8 DEF Same
<1>10. FaultsGrow
  BY <1>4, CleanStays
<1>11. op[w].lun \in Int /\ op[w].lun >= -1 /\ l \in Int /\ l >= 0 /\ NoLun = -1
  BY <1>0, ConstantsAssumption DEF CallType, LunOrNone, NoLun
<1>12. op[w].lun = NoLun \/ l = op[w].lun
  BY <1>4, <1>11 DEF MayGet
<1>13. CASE VolDestroy(w)
  <2>1. MappedIn(d, H)'
    BY <1>0, <1>3, <1>5, <1>6 DEF MappedIn
  <2>2. nextId' = nextId /\ UNCHANGED <<setup, nodeVars, pvVars>>
    BY <1>8 DEF nodeVars, pvVars
  <2> QED
    BY <1>0, <1>1, <1>2, <1>9, <1>10, <1>13, <2>1, <2>2, UndoBegins DEF Making
<1>14. CASE op' = [op EXCEPT ![w].lun = IF l > @ THEN l ELSE @,
                     ![w].todo = @ \ {h},
                     ![w].pc = IF op[w].todo = {h} THEN "attach" ELSE "map"]
  <2>1. /\ \A x \in Workers \ {w} : op'[x] = op[x]
        /\ op'[w].pc = IF T = {h} THEN "attach" ELSE "map"
        /\ op'[w].todo = T \ {h} /\ op'[w].hosts = H /\ op'[w].id = d
        /\ op'[w].lun = IF l > op[w].lun THEN l ELSE op[w].lun
    BY <1>0, <1>1, <1>2, <1>3, <1>14 DEF TypeInv, OpTyped, CallType
  <2>2. op'[w].lun = l
    BY <1>11, <1>12, <2>1
  <2>3. op[w].lun = NoLun => H \subseteq T
    BY <1>0, <1>2, <1>3 DEF CallOK
  <2>4. \A g \in Hosts : lun'[g][d] = IF g \in H \ (T \ {h}) THEN l ELSE NoLun
    <3>1. h \in H
      BY <1>0, <1>3
    <3> SUFFICES ASSUME NEW g \in Hosts, g # h
                 PROVE  lun'[g][d] = IF g \in H \ T THEN l ELSE NoLun
      BY <1>7, <3>1
    <3>2. lun'[g][d] = IF g \in H \ T THEN op[w].lun ELSE NoLun
      BY <1>5, <1>6
    <3> QED
      BY <1>12, <2>3, <3>2
  <2>5. H # {} /\ (changes' = 0 /\ ~Skipped' => H = nodes')
    BY <1>0, <1>2, <1>8, <1>10 DEF CallOK, Making, FaultsGrow
  <2>6. Exists(d)' /\ pv'[d] = "none" /\ d < nextId'
    BY <1>1, <1>8 DEF Exists
  <2>7. MappedIn(d, H)'
    BY <2>4 DEF MappedIn
  <2>8. l # NoLun /\ T \ {h} \subseteq H
    BY <1>11
  <2>9. CallOK(w)'
    BY <2>1, <2>2, <2>4, <2>5, <2>6, <2>7, <2>8 DEF CallOK, Making, Waiting
  <2>10. op[w].pc \notin Waiting /\ UNCHANGED <<setup, nodeVars, pvVars>>
    BY <1>0, <1>8 DEF Waiting, nodeVars, pvVars
  <2> QED
    BY <1>1, <1>8, <1>9, <1>10, <2>1, <2>9, <2>10, OwnerGoesOn
<1> QED
  BY <1>4, <1>13, <1>14

\* AttachMetadata, with which Provision returns.
LEMMA AttachOwner ==
  ASSUME TypeInv, TypeInv', OwnerInv, NEW w \in Workers,
         AttachMetadata(w) \/ AttachMetadataFails(w)
  PROVE  OwnerInv'
<1>0. CallOK(w) /\ op[w] \in CallType /\ op[w].pc = "attach" /\ op[w].lun # NoLun
  BY DEF OwnerInv, TypeInv, OpTyped, LunKnown, AttachMetadata, AttachMetadataFails, At
<1>1. PICK d \in Ids : d = op[w].id /\ d < nextId /\ pv[d] = "none" /\ Exists(d)
  BY <1>0 DEF CallOK, Waiting, Making
<1>2. PICK H \in SUBSET Hosts : H = op[w].hosts
  BY <1>0 DEF CallType
<1>3. PICK l \in LunOrNone : l = op[w].lun /\ l # NoLun
  BY <1>0 DEF CallType
<1>4. \A h \in Hosts : lun[h][d] = IF h \in H THEN l ELSE NoLun
  BY <1>0, <1>1, <1>2, <1>3 DEF CallOK, Making
<1>5. /\ UNCHANGED <<setup, vol, lun, nextId, nodes, changes, handler, pvCache>>
      /\ \A i \in Ids \ {d} : i \in meta' <=> i \in meta
  BY <1>1 DEF AttachMetadata, AttachMetadataFails, arrayVars, nodeVars, pvVars
<1>6. FaultsGrow
  BY CleanStays DEF AttachMetadata, AttachMetadataFails
<1>7. op[w].pc \notin Waiting
  BY <1>0 DEF Waiting
<1>8. CASE Return(w) /\ UNCHANGED <<pv, pvLun>>
  <2>1. Panicked' /\ d \in meta'
    <3>1. ~Loop(w, "unmap")
      <4>1. op'[w].pc = "idle"
        BY <1>8 DEF Return, Idle, TypeInv, OpTyped
      <4>2. Loop(w, "unmap") => op'[w].pc = "unmap"
        BY DEF Loop, TypeInv, OpTyped, CallType
      <4> QED
        BY <4>1, <4>2
    <3>2. pv' # [pv EXCEPT ![op[w].id] = "ready"]
      BY <1>1, <1>8 DEF TypeInv, PvTyped
    <3>3. Fault("noAddress") /\ meta' = meta \cup {d}
      BY <1>1, <3>1, <3>2 DEF AttachMetadata, AttachMetadataFails
    <3> QED
      BY <3>3, FaultsStay DEF Panicked
  <2>2. \A i \in Ids \ {d} : Same(i)
    BY <1>5, <1>8 DEF Same
  <2>3. Complete(d)' /\ OneLun(d)' /\ Kept(d)' /\ pv'[d] = pv[d]
    BY <1>1, <1>8, <2>1 DEF Complete, OneLun, Kept
  <2> QED
    BY <1>1, <1>5, <1>6, <1>7, <1>8, <2>2, <2>3, ReturnEffect, OwnStep
<1>9. CASE /\ Return(w) /\ d \in meta'
           /\ pv' = [pv EXCEPT ![op[w].id] = "ready"]
           /\ pvLun' = [pvLun EXCEPT ![op[w].id] = op[w].lun]
  <2>1. /\ pv'[d] = "ready" /\ pvLun'[d] = l
        /\ \A i \in Ids \ {d} : pv'[i] = pv[i] /\ pvLun'[i] = pvLun[i]
    BY <1>1, <1>3, <1>9 DEF TypeInv, PvTyped
  <2>2. \A i \in Ids \ {d} : Same(i)
    BY <1>5, <2>1 DEF Same
  <2>3. Complete(d)'
    <3>1. Exists(d)'
      BY <1>1, <1>5 DEF Exists
    <3>2. H # {} /\ (changes = 0 /\ ~Skipped => nodes = H)
      BY <1>0, <1>2 DEF CallOK, Making
    <3>3. changes' = 0 => /\ \E h \in Hosts : lun'[h][d] # NoLun
                          /\ ~Skipped' => \A h \in nodes' : lun'[h][d] # NoLun
      BY <1>3, <1>4, <1>5, <1>6, <3>2 DEF FaultsGrow, TypeInv, NodesTyped
    <3> QED
      BY <1>9, <3>1, <3>3 DEF Complete
  <2>4. OneLun(d)' /\ Kept(d)'
    BY <1>4, <1>5, <2>1 DEF OneLun, Kept
  <2> QED
    BY <1>1, <1>5, <1>6, <1>7, <1>9, <2>1, <2>2, <2>3, <2>4, ReturnEffect, OwnStep
<1>10. CASE Loop(w, "unmap") /\ UNCHANGED <<pv, pvLun>>
  <2>1. /\ \A x \in Workers \ {w} : op'[x] = op[x]
        /\ op'[w].pc = "unmap" /\ op'[w].id = d /\ op'[w].hosts = H /\ op'[w].todo = H
    BY <1>0, <1>1, <1>2, <1>10 DEF Loop, TypeInv, OpTyped, CallType
  <2>2. \A i \in Ids \ {d} : Same(i)
    BY <1>5, <1>10 DEF Same
  <2>3. MappedIn(d, H)' /\ pv'[d] = "none" /\ d < nextId'
    BY <1>1, <1>4, <1>5, <1>10 DEF MappedIn
  <2>4. CallOK(w)'
    BY <2>1, <2>3 DEF CallOK, Waiting, Making
  <2>5. UNCHANGED <<setup, nodeVars, pvVars>>
    BY <1>5, <1>10 DEF nodeVars, pvVars
  <2> QED
    BY <1>1, <1>5, <1>6, <1>7, <2>1, <2>2, <2>4, <2>5, OwnerGoesOn
<1> QED
  <2>1. AttachMetadata(w) => d \in meta'
    BY <1>1 DEF AttachMetadata
  <2> QED
    BY <2>1, <1>8, <1>9, <1>10 DEF AttachMetadata, AttachMetadataFails, pvVars

\* A host that refuses, and the deferred loop over the hosts.
LEMMA UndoOwner ==
  ASSUME TypeInv, TypeInv', OwnerInv, NEW w \in Workers, NEW h \in Hosts,
         MappingFails(w, h) \/ UndoMapping(w, h)
  PROVE  OwnerInv'
<1>0. /\ CallOK(w) /\ op[w] \in CallType /\ op[w].pc \in {"map", "unmap"}
      /\ op[w].pc \in Making \cup {"unmap"} /\ op[w].pc \notin Waiting
  BY DEF OwnerInv, TypeInv, OpTyped, MappingFails, UndoMapping, At, Making, Waiting
<1>1. PICK d \in Ids : d = op[w].id /\ d < nextId /\ pv[d] = "none"
  BY <1>0 DEF CallOK
<1>2. PICK H \in SUBSET Hosts : H = op[w].hosts
  BY <1>0 DEF CallType
<1>3. MappedIn(d, H)
  BY <1>0, <1>1, <1>2 DEF CallOK
<1>4. /\ nextId' = nextId /\ vol' = vol /\ meta' = meta
      /\ UNCHANGED <<setup, nodeVars, pvVars>>
  BY DEF MappingFails, UndoMapping, arrayVars
<1>5. lun' = lun \/ lun' = [lun EXCEPT ![h][d] = NoLun]
  BY <1>1 DEF MappingFails, UndoMapping, SetLun, arrayVars
<1>6. \A g \in Hosts : /\ lun'[g][d] \in {lun[g][d], NoLun}
                       /\ \A i \in Ids \ {d} : lun'[g][i] = lun[g][i]
  BY <1>5 DEF TypeInv, ArrayTyped
<1>7. \A i \in Ids \ {d} : Same(i)
  BY <1>4, <1>6 DEF Same, pvVars
<1>8. MappedIn(d, H)'
  BY <1>3, <1>6 DEF MappedIn
<1>9. FaultsGrow
  BY CleanStays DEF MappingFails, UndoMapping
<1>10. CASE VolDestroy(w)
  BY <1>0, <1>1, <1>2, <1>4, <1>7, <1>8, <1>9, <1>10, UndoBegins
<1>11. CASE op[w].pc = "unmap" /\ op' = [op EXCEPT ![w].todo = @ \ {h}]
  <2>1. /\ \A x \in Workers \ {w} : op'[x] = op[x]
        /\ op'[w].pc = "unmap" /\ op'[w].id = d /\ op'[w].hosts = H
        /\ op'[w].todo = op[w].todo \ {h}
    BY <1>0, <1>1, <1>2, <1>11 DEF TypeInv, OpTyped, CallType
  <2>2. op'[w].todo \subseteq H /\ pv'[d] = "none" /\ d < nextId'
    BY <1>0, <1>1, <1>2, <1>4, <2>1 DEF CallOK, pvVars
  <2>3. CallOK(w)'
    BY <1>8, <2>1, <2>2 DEF CallOK, Waiting, Making
  <2> QED
    BY <1>0, <1>1, <1>4, <1>7, <1>9, <2>1, <2>3, OwnerGoesOn
<1> QED
  BY <1>10, <1>11 DEF MappingFails, UndoMapping, At

\* A failed call of a rollback is a fault that NoOrphan excludes.
LEMMA StepFaultClean ==
  ASSUME TypeInv, NEW w \in Workers, NEW d \in Ids, d = op[w].id,
         NoFault \/ StepFault(w) \/ Fault("lostAnswer")
  PROVE  /\ FaultsGrow
         /\ StepFault(w) /\ pv[d] = "none" => ~Clean'
         /\ Fault("lostAnswer") => ~Clean'
BY CleanStays DEF StepFault, Tolerated

\* Delete and the rollback: a step that leaves the PV as it is, and unmaps the
\* volume at most.
LEMMA DeleterMoves ==
  ASSUME TypeInv, TypeInv', OwnerInv, NEW w \in Workers,
         op[w].pc \in {"delMeta", "delMap", "delVol"},
         NEW d \in Ids, d = op[w].id,
         \A x \in Workers \ {w} : op'[x] = op[x],
         \A g \in Hosts : lun'[g][d] \in {lun[g][d], NoLun},
         \A i \in Ids \ {d} : Same(i), vol' = vol,
         FaultsGrow, nextId' = nextId,
         UNCHANGED <<setup, nodeVars, pvVars>>,
         CallOK(w)',
         op'[w].pc \notin Waiting => op'[w].id = d,
         \/ op'[w].id = d \/ pv[d] # "none" \/ ~Clean'
         \/ LeftMapped(d)' \/ ~Exists(d)
  PROVE  OwnerInv'
<1>1. op[w].pc \notin Waiting /\ pv[d] # "ready"
  BY DEF Waiting, OwnerInv, CallOK
<1>2. UNCHANGED <<setup, nodes, changes, handler, pv, pvLun, pvCache>>
  BY DEF nodeVars, pvVars
<1>3. Complete(d)'
  BY <1>1, <1>2 DEF Complete
<1>4. OneLun(d)'
  BY <1>2 DEF OneLun, OwnerInv, VolumeOK
<1>5. Kept(d)'
  BY <1>2 DEF Kept, Exists
<1> QED
  BY <1>1, <1>2, <1>3, <1>4, <1>5, OwnStep

\* DetachMetadata and the hosts it reads.
LEMMA DetachOwner ==
  ASSUME TypeInv, TypeInv', OwnerInv, NEW w \in Workers, DetachMetadata(w)
  PROVE  OwnerInv'
<1>0. /\ CallOK(w) /\ op[w] \in CallType /\ op[w].pc = "delMeta"
      /\ op[w].pc \notin Waiting
  BY DEF OwnerInv, TypeInv, OpTyped, DetachMetadata, At, Waiting
<1>1. PICK d \in Ids : d = op[w].id /\ d < nextId /\ pv[d] # "ready"
  BY <1>0 DEF CallOK
<1>2. PICK H \in SUBSET Hosts : H = op[w].hosts
  BY <1>0 DEF CallType
<1>3. pv[d] = "none" => MappedIn(d, H)
  BY <1>0, <1>1, <1>2 DEF CallOK
<1>4. /\ nextId' = nextId /\ vol' = vol /\ lun' = lun
      /\ UNCHANGED <<setup, nodeVars, pvVars>> /\ pv' = pv
      /\ \A i \in Ids \ {d} : i \in meta' <=> i \in meta
  BY <1>1 DEF DetachMetadata, pvVars
<1>5. /\ \A i \in Ids \ {d} : Same(i)
      /\ \A g \in Hosts : lun'[g][d] \in {lun[g][d], NoLun}
  BY <1>4 DEF Same, pvVars
<1>6. FaultsGrow
  BY <1>1, StepFaultClean DEF DetachMetadata
<1>7. CASE /\ Return(w)
           /\ StepFault(w) \/ Fault("lostAnswer") \/ ~Live(d)
           /\ NoFault \/ StepFault(w) \/ Fault("lostAnswer")
  <2>1. pv[d] # "none" \/ ~Clean' \/ ~Exists(d)
    BY <1>1, <1>7, StepFaultClean DEF Live, Existing, Exists
  <2> QED
    BY <1>0, <1>1, <1>4, <1>5, <1>6, <1>7, <2>1, ReturnEffect, DeleterMoves
<1>8. ASSUME NEW found \in SUBSET H,
             IF found = H THEN NoFault ELSE StepFault(w),
             op' = [op EXCEPT ![w].todo = found,
                      ![w].pc = IF found = {} THEN "delVol" ELSE "delMap"]
      PROVE  OwnerInv'
  <2>1. /\ \A x \in Workers \ {w} : op'[x] = op[x]
        /\ op'[w].pc = IF found = {} THEN "delVol" ELSE "delMap"
        /\ op'[w].id = d /\ op'[w].hosts = H /\ op'[w].todo = found
    BY <1>0, <1>1, <1>2, <1>8 DEF TypeInv, OpTyped, CallType
  <2>2. pv[d] = "none" /\ Clean' => found = H
    BY <1>1, <1>8, StepFaultClean
  <2>3. pv'[d] = "none" => MappedIn(d, H)'
    BY <1>3, <1>4 DEF MappedIn
  <2>4. pv'[d] = "none" /\ Clean' => MappedIn(d, found)'
    BY <1>4, <2>2, <2>3
  <2>5. MappedIn(d, {})' => Unmapped(d)'
    BY DEF MappedIn, Unmapped
  <2>6. d < nextId' /\ pv'[d] # "ready"
    BY <1>1, <1>4
  <2>7. CallOK(w)'
    BY <2>1, <2>3, <2>4, <2>5, <2>6 DEF CallOK, Waiting, Making
  <2> QED
    BY <1>0, <1>1, <1>4, <1>5, <1>6, <2>1, <2>7, DeleterMoves
<1> QED
  BY <1>1, <1>2, <1>7, <1>8 DEF DetachMetadata

\* UnMap of one host.
LEMMA UnMapOwner ==
  ASSUME TypeInv, TypeInv', OwnerInv, NEW w \in Workers, NEW h \in Hosts, UnMap(w, h)
  PROVE  OwnerInv'
<1>0. /\ CallOK(w) /\ op[w] \in CallType /\ op[w].pc = "delMap"
      /\ op[w].pc \notin Waiting
  BY DEF OwnerInv, TypeInv, OpTyped, UnMap, At, Waiting
<1>1. PICK d \in Ids : d = op[w].id /\ d < nextId /\ pv[d] # "ready"
  BY <1>0 DEF CallOK
<1>2. PICK H \in SUBSET Hosts : H = op[w].hosts
  BY <1>0 DEF CallType
<1>3. PICK T \in SUBSET H : T = op[w].todo
  BY <1>0, <1>2 DEF CallOK
<1>4. /\ pv[d] = "none" => MappedIn(d, H)
      /\ pv[d] = "none" /\ Clean => MappedIn(d, T)
  BY <1>0, <1>1, <1>2, <1>3 DEF CallOK
<1>5. /\ nextId' = nextId /\ vol' = vol /\ meta' = meta
      /\ UNCHANGED <<setup, nodeVars, pvVars>> /\ pv' = pv
  BY DEF UnMap, pvVars
<1>6. lun' = lun \/ lun' = [lun EXCEPT ![h][d] = NoLun]
  BY <1>1 DEF UnMap, SetLun
<1>7. \A g \in Hosts : /\ lun'[g][d] \in {lun[g][d], NoLun}
                       /\ \A i \in Ids \ {d} : lun'[g][i] = lun[g][i]
  BY <1>6 DEF TypeInv, ArrayTyped
<1>8. \A i \in Ids \ {d} : Same(i)
  BY <1>5, <1>7 DEF Same, pvVars
<1>9. FaultsGrow
  BY <1>1, StepFaultClean DEF UnMap
<1>10. CASE Return(w) /\ (StepFault(w) \/ Fault("lostAnswer"))
  <2>1. pv[d] # "none" \/ ~Clean'
    BY <1>1, <1>10, StepFaultClean
  <2> QED
    BY <1>0, <1>1, <1>5, <1>7, <1>8, <1>9, <1>10, <2>1, ReturnEffect, DeleterMoves
<1>11. CASE /\ SetLun(h, d, NoLun)
            /\ op' = [op EXCEPT ![w].todo = @ \ {h},
                        ![w].pc = IF op[w].todo = {h} THEN "delVol" ELSE "delMap"]
  <2>1. /\ \A x \in Workers \ {w} : op'[x] = op[x]
        /\ op'[w].pc = IF T = {h} THEN "delVol" ELSE "delMap"
        /\ op'[w].id = d /\ op'[w].hosts = H /\ op'[w].todo = T \ {h}
    BY <1>0, <1>1, <1>2, <1>3, <1>11 DEF TypeInv, OpTyped, CallType
  <2>2. lun'[h][d] = NoLun
    BY <1>11 DEF SetLun, TypeInv, ArrayTyped
  <2>3. pv'[d] = "none" => MappedIn(d, H)'
    BY <1>4, <1>5, <1>7 DEF MappedIn
  <2>4. pv'[d] = "none" /\ Clean' => MappedIn(d, T \ {h})'
    BY <1>4, <1>5, <1>7, <1>9, <2>2 DEF MappedIn, FaultsGrow
  <2>5. T = {h} /\ MappedIn(d, T \ {h})' => Unmapped(d)'
    BY DEF MappedIn, Unmapped
  <2>6. d < nextId' /\ pv'[d] # "ready" /\ T \ {h} \subseteq H
    BY <1>1, <1>5
  <2>7. CallOK(w)'
    BY <2>1, <2>3, <2>4, <2>5, <2>6 DEF CallOK, Waiting, Making
  <2> QED
    BY <1>0, <1>1, <1>5, <1>7, <1>8, <1>9, <2>1, <2>7, DeleterMoves
<1> QED
  BY <1>1, <1>10, <1>11 DEF UnMap

\* The last step of a Delete or a rollback: a rollback without faults finds the
\* volume unmapped, or an array that does not mind, or it is iscsi's.
LEMMA DeleteVolumeOwner ==
  ASSUME TypeInv, TypeInv', OwnerInv, NEW w \in Workers,
         DeleteVolume(w) \/ DeleteVolumeFails(w)
  PROVE  OwnerInv'
<1>0. /\ CallOK(w) /\ op[w] \in CallType /\ op[w].pc = "delVol"
      /\ op[w].pc \notin Waiting
  BY DEF OwnerInv, TypeInv, OpTyped, DeleteVolume, DeleteVolumeFails, At, Waiting
<1>1. PICK d \in Ids : d = op[w].id /\ d < nextId /\ pv[d] # "ready"
  BY <1>0 DEF CallOK
<1>2. FaultsGrow
  BY <1>1, StepFaultClean DEF DeleteVolume, DeleteVolumeFails
<1>3. Return(w)
  BY DEF DeleteVolume, DeleteVolumeFails
<1>4. CASE DeleteVolume(w)
  <2>1. /\ \A i \in Ids \ {d} : vol'[i] = vol[i] /\ (i \in meta' <=> i \in meta)
        /\ \A h \in Hosts : \A i \in Ids \ {d} : lun'[h][i] = lun[h][i]
        /\ vol'[d] = NoName /\ nextId' = nextId
        /\ \A h \in Hosts : lun'[h][d] = NoLun
    BY <1>1, <1>4 DEF DeleteVolume, Destroy, TypeInv, ArrayTyped
  <2>2. /\ pvLun' = pvLun /\ \A i \in Ids \ {d} : pv'[i] = pv[i]
        /\ pv'[d] # "ready" /\ (pv[d] # "none" => pv'[d] # "none")
        /\ UNCHANGED <<setup, nodes, changes, handler, pvCache>>
    BY <1>1, <1>4 DEF DeleteVolume, TypeInv, PvTyped, nodeVars
  <2>3. \A i \in Ids \ {d} : Same(i)
    BY <2>1, <2>2 DEF Same
  <2>4. Complete(d)' /\ OneLun(d)' /\ Kept(d)'
    BY <2>1, <2>2 DEF Complete, OneLun, Kept, Exists
  <2> QED
    BY <1>0, <1>1, <1>2, <1>3, <2>1, <2>2, <2>3, <2>4, ReturnEffect, OwnStep
<1>5. CASE DeleteVolumeFails(w)
  <2>1. /\ nextId' = nextId /\ vol' = vol /\ meta' = meta /\ lun' = lun
        /\ UNCHANGED <<setup, nodeVars, pvVars>>
    BY <1>5 DEF DeleteVolumeFails, arrayVars
  <2>2. /\ \A i \in Ids \ {d} : Same(i)
        /\ \A g \in Hosts : lun'[g][d] \in {lun[g][d], NoLun}
    BY <2>1 DEF Same, pvVars
  <2>3. ASSUME pv[d] = "none", Clean', Exists(d)
        PROVE  LeftMapped(d)'
    <3>1. ~MayDestroy(d)
      BY <1>1, <1>5, <2>3, StepFaultClean DEF DeleteVolumeFails
    <3>2. setup.fc => Unmapped(d)
      BY <1>0, <1>1, <1>2, <2>3 DEF CallOK, FaultsGrow
    <3> QED
      BY <2>1, <2>3, <3>1, <3>2
      DEF MayDestroy, Live, Existing, Exists, Mapped, Unmapped, LeftMapped
  <2> QED
    BY <1>0, <1>1, <1>2, <1>3, <2>1, <2>2, <2>3, ReturnEffect, DeleterMoves
<1> QED
  BY <1>4, <1>5

\* Provision before it has a volume.
LEMMA WaitingOwner ==
  ASSUME TypeInv, TypeInv', OwnerInv, NEW w \in Workers,
         \/ \E n \in Names : StartProvision(w, n)
         \/ PrepareFails(w) \/ CheckLimit(w) \/ VolCreateFails(w)
  PROVE  OwnerInv'
<1>0. /\ CallOK(w) /\ op[w] \in CallType /\ op[w].pc \in Waiting
  BY DEF OwnerInv, TypeInv, OpTyped, StartProvision, PrepareFails, CheckLimit,
     VolCreateFails, At, Waiting
<1>1. UNCHANGED <<setup, arrayVars, nodeVars, pvVars>>
  BY DEF StartProvision, PrepareFails, CheckLimit, VolCreateFails
<1>2. FaultsGrow
  BY CleanStays
  DEF StartProvision, HostList, PrepareFails, CheckLimit, VolCreateFails, NoFault
<1>3. CASE Return(w)
  BY <1>0, <1>1, <1>2, <1>3, ReturnEffect, WaitingMoves
<1>4. ASSUME NEW n \in Names, StartProvision(w, n)
      PROVE  OwnerInv'
  <2>0. PICK found \in SUBSET nodes :
          /\ HostList(nodes, found)
          /\ op' = [op EXCEPT ![w].pc = "count", ![w].name = n, ![w].hosts = found]
    BY <1>4 DEF StartProvision
  <2>1. /\ \A x \in Workers \ {w} : op'[x] = op[x]
        /\ op'[w].pc = "count" /\ op'[w].name = n /\ op'[w].hosts = found
        /\ op'[w].id = op[w].id /\ op'[w].lun = op[w].lun /\ op'[w].todo = op[w].todo
    BY <2>0 DEF TypeInv, OpTyped, CallType
  <2>2. op[w].id = 0 /\ op[w].lun = NoLun /\ op[w].todo = {} /\ nodes' = nodes
    BY <1>0, <1>1 DEF CallOK, nodeVars
  <2>3. found = nodes \/ Skipped'
    BY <2>0, FaultsStay DEF HostList, Skipped
  <2>4. CallOK(w)' /\ op'[w].pc \in Waiting
    BY <2>1, <2>2, <2>3 DEF CallOK, Waiting, Making
  <2> QED
    BY <1>0, <1>1, <1>2, <2>1, <2>4, WaitingMoves
<1>5. CASE op[w].pc = "count" /\ Goto(w, "create")
  <2>1. /\ \A x \in Workers \ {w} : op'[x] = op[x]
        /\ op'[w].pc = "create" /\ op'[w].name = op[w].name
        /\ op'[w].hosts = op[w].hosts /\ op'[w].id = op[w].id
        /\ op'[w].lun = op[w].lun /\ op'[w].todo = op[w].todo
    BY <1>5, GotoEffect
  <2>2. nodes' = nodes /\ changes' = changes
    BY <1>1 DEF nodeVars
  <2>3. CallOK(w)' /\ op'[w].pc \in Waiting
    BY <1>0, <1>2, <1>5, <2>1, <2>2 DEF CallOK, Waiting, Making, FaultsGrow
  <2> QED
    BY <1>0, <1>1, <1>2, <2>1, <2>3, WaitingMoves
<1> QED
  BY <1>3, <1>4, <1>5 DEF PrepareFails, CheckLimit, VolCreateFails, At

\* A fresh volume belongs to the call that created it.
LEMMA VolCreateOwner ==
  ASSUME TypeInv, TypeInv', OwnerInv, NEW w \in Workers, VolCreate(w)
  PROVE  OwnerInv'
<1>0. /\ CallOK(w) /\ op[w] \in CallType /\ op[w].pc = "create"
  BY DEF OwnerInv, TypeInv, OpTyped, VolCreate, At
<1>1. PICK d \in Ids : d = nextId
  BY DEF VolCreate, TypeInv, ArrayTyped, Ids
<1>2. PICK H \in SUBSET Hosts : H = op[w].hosts
  BY <1>0 DEF CallType
<1>3. /\ op[w].name \in Names /\ op[w].id = 0 /\ op[w].lun = NoLun
      /\ changes = 0 /\ ~Skipped => H = nodes
  BY <1>0, <1>2 DEF CallOK, Waiting
<1>4. /\ \A j \in Ids \ {d} : vol'[j] = vol[j]
      /\ vol'[d] = op[w].name /\ nextId' = d + 1
      /\ UNCHANGED <<setup, meta, lun, nodes, changes, handler, pv, pvLun, pvCache>>
  BY <1>1 DEF VolCreate, nodeVars, pvVars, TypeInv, ArrayTyped
<1>5. Unused(d)
  BY DEF OwnerInv, VolumeOK
<1>6. pv[d] = "none" /\ Unmapped(d)
  BY <1>1, <1>5 DEF Unused, Ids
<1>7. /\ Exists(d)' /\ pv'[d] = "none" /\ Unmapped(d)' /\ MappedIn(d, H)'
      /\ d < nextId' /\ ~(d >= nextId')
  BY <1>1, <1>3, <1>4, <1>6, ConstantsAssumption DEF Exists, Unmapped, MappedIn, Ids
<1>8. \A j \in Ids \ {d} : Same(j)
  BY <1>4 DEF Same
<1>9. FaultsGrow
  BY CleanStays DEF VolCreate
<1>10. \A x \in Workers \ {w} : op[x].pc \notin Waiting => op[x].id # d
  BY <1>1 DEF OwnerInv, CallOK, Ids
<1>11. /\ \A x \in Workers \ {w} : op'[x] = op[x]
       /\ CallOK(w)' /\ (op'[w].pc \notin Waiting => op'[w].id = d)
       /\ Clean' => op'[w].id = d
  <2>1. CASE Return(w) /\ Fault("lostAnswer")
    BY <2>1, ReturnEffect, CleanStays DEF Tolerated
  <2>2. CASE op' = [op EXCEPT ![w].id = nextId, ![w].todo = op[w].hosts,
                      ![w].pc = IF op[w].hosts # {} THEN "map"
                                ELSE IF setup.fc THEN "delMeta" ELSE "delVol"]
    <3>1. /\ \A x \in Workers \ {w} : op'[x] = op[x]
          /\ op'[w].pc = IF H # {} THEN "map"
                         ELSE IF setup.fc THEN "delMeta" ELSE "delVol"
          /\ op'[w].id = d /\ op'[w].todo = H /\ op'[w].hosts = H
          /\ op'[w].lun = op[w].lun
      BY <1>0, <1>1, <1>2, <2>2 DEF TypeInv, OpTyped, CallType
    <3>2. \A h \in Hosts : lun'[h][d] = NoLun
      BY <1>7 DEF Unmapped
    <3>3. changes' = 0 /\ ~Skipped' => H = nodes'
      BY <1>3, <1>4, <1>9 DEF FaultsGrow
    <3>4. CallOK(w)'
      BY <1>3, <1>7, <3>1, <3>2, <3>3 DEF CallOK, Waiting, Making
    <3> QED
      BY <3>1, <3>4
  <2> QED
    BY <2>1, <2>2 DEF VolCreate
<1>12. VolumeOK(d)'
  BY <1>7, <1>11 DEF VolumeOK, Unused, Complete, OneLun, Kept
<1>13. nextId <= nextId'
  BY <1>1, <1>4 DEF Ids
<1> QED
  BY <1>3, <1>4, <1>6, <1>8, <1>9, <1>10, <1>11, <1>12, <1>13, OneCallMoves

\* A PV that is deleted gets the one call that deletes it.
LEMMA StartDeleteOwner ==
  ASSUME TypeInv, TypeInv', OwnerInv, NEW w \in Workers, NEW d \in Ids,
         StartDelete(w, d)
  PROVE  OwnerInv'
<1>0. CallOK(w) /\ op[w] \in CallType /\ op[w].pc = "idle"
  BY DEF OwnerInv, TypeInv, OpTyped, StartDelete, At
<1>1. op[w].id = 0 /\ op[w].todo = {}
  BY <1>0 DEF CallOK, Waiting
<1>2. /\ \A x \in Workers \ {w} : op'[x] = op[x] /\ op[x].id # d
      /\ op'[w].pc = "delMeta" /\ op'[w].id = d /\ op'[w].todo = op[w].todo
      /\ op'[w].hosts = nodes
  BY DEF StartDelete, TypeInv, OpTyped, CallType
<1>3. /\ UNCHANGED <<setup, vol, meta, lun, nextId, faults, nodes, changes, handler,
                     pvLun, pvCache>>
      /\ \A i \in Ids \ {d} : pv'[i] = pv[i]
      /\ pv'[d] = "doomed" /\ pv[d] \in {"ready", "doomed"}
  BY DEF StartDelete, arrayVars, nodeVars, TypeInv, PvTyped
<1>4. VolumeOK(d)
  BY DEF OwnerInv
<1>5. nextId \in Nat /\ d < nextId
  BY <1>3, <1>4 DEF VolumeOK, Unused, TypeInv, ArrayTyped, Ids
<1>6. VolumeOK(d)'
  <2>1. Unused(d)' /\ Complete(d)' /\ Kept(d)'
    BY <1>3, <1>5 DEF Unused, Complete, Kept, Ids
  <2>2. OneLun(d)'
    BY <1>3, <1>4 DEF VolumeOK, OneLun
  <2> QED
    BY <2>1, <2>2 DEF VolumeOK
<1>7. CallOK(w)'
  BY <1>1, <1>2, <1>3, <1>5 DEF CallOK, Waiting, Making
<1>8. /\ \A i \in Ids \ {d} : Same(i)
      /\ FaultsGrow
  BY <1>3 DEF Same, FaultsGrow, Clean, Skipped, Panicked
<1>9. nextId <= nextId'
  BY <1>3, <1>5
<1> QED
  BY <1>1, <1>2, <1>3, <1>6, <1>7, <1>8, <1>9, OneCallMoves

\* The handler's POST and DELETE touch a volume with a PV, which no call relies
\* on.
LEMMA HandlerOwner ==
  ASSUME TypeInv, TypeInv', OwnerInv, NEW d \in Ids, NEW h \in Hosts,
         UpdateMapping(d, h) \/ UnmapNode(d, h)
  PROVE  OwnerInv'
<1>0. /\ UNCHANGED <<setup, vol, meta, nextId, nodes, changes, pv, pvLun, pvCache, op>>
      /\ FaultsGrow
  BY CleanStays DEF UpdateMapping, UnmapNode, pvVars
<1>1. pv[d] # "none"
  <2>1. <<d, h>> \in handler.map \cup handler.unmap
    BY DEF UpdateMapping, UnmapNode
  <2>2. <<d, h>>[1] = d
    OBVIOUS
  <2> QED
    BY <2>1, <2>2 DEF OwnerInv, HandlerOK
<1>2. pvLun[d] # NoLun
  BY <1>1 DEF TypeInv, PvTyped
<1>3. PICK l \in {pvLun[d], NoLun} :
        /\ lun' = lun \/ lun' = [lun EXCEPT ![h][d] = l]
        /\ changes = 0 => l = pvLun[d]
  <2>1. CASE UpdateMapping(d, h)
    BY <2>1 DEF UpdateMapping, SetLun
  <2>2. CASE UnmapNode(d, h)
    BY <2>2 DEF UnmapNode, SetLun, OwnerInv, HandlerOK
  <2> QED
    BY <2>1, <2>2
<1>4. \A g \in Hosts : /\ lun'[g][d] \in {lun[g][d], l}
                       /\ \A i \in Ids \ {d} : lun'[g][i] = lun[g][i]
  BY <1>3 DEF TypeInv, ArrayTyped
<1>5. \A i \in Ids \ {d} : Same(i)
  BY <1>0, <1>4 DEF Same
<1>6. ASSUME NEW x \in Workers PROVE CallOK(x)'
  <2>1. CallOK(x) /\ op'[x] = op[x] /\ op[x] \in CallType
    BY <1>0 DEF OwnerInv, TypeInv, OpTyped
  <2>2. CASE op[x].pc \notin Waiting => op[x].id # d
    <3>1. op[x].pc \notin Waiting => Same(op[x].id)
      BY <1>5, <2>1, <2>2 DEF CallOK
    <3>2. nextId <= nextId'
      BY <1>0 DEF TypeInv, ArrayTyped
    <3> QED
      BY <1>0, <2>1, <3>1, <3>2, CallStays
  <2>3. CASE op[x].pc \notin Waiting /\ op[x].id = d
    BY <1>0, <1>1, <2>1, <2>3 DEF CallOK, Making, Waiting, FaultsGrow
  <2> QED
    BY <2>2, <2>3
<1>7. ASSUME NEW i \in Ids PROVE VolumeOK(i)'
  <2>0. VolumeOK(i)
    BY DEF OwnerInv
  <2>1. Kept(i)'
    <3>1. i # d => (LeftMapped(i) => LeftMapped(i)')
      BY <1>0, <1>5 DEF Same, LeftMapped, Mapped
    <3> QED
      BY <1>0, <1>1, <2>0, <3>1 DEF VolumeOK, Kept, Exists, FaultsGrow
  <2>2. CASE i # d
    BY <1>0, <1>5, <2>0, <2>1, <2>2
    DEF VolumeOK, Unused, Complete, OneLun, Exists, Unmapped, Same, FaultsGrow,
        TypeInv, NodesTyped
  <2>3. CASE i = d
    <3>1. Unused(d)'
      BY <1>0, <1>1, <2>0, <2>3 DEF VolumeOK, Unused
    <3>2. Complete(d)'
      BY <1>0, <1>2, <1>3, <1>4, <2>0, <2>3
      DEF VolumeOK, Complete, Exists, FaultsGrow, TypeInv, NodesTyped
    <3>3. OneLun(d)'
      BY <1>0, <1>4, <2>0, <2>3 DEF VolumeOK, OneLun
    <3> QED
      BY <2>1, <2>3, <3>1, <3>2, <3>3 DEF VolumeOK
  <2> QED
    BY <2>2, <2>3
<1>8. OneCall'
  BY <1>0 DEF OwnerInv, OneCall
<1>9. HandlerOK'
  <2>1. handler'.map \subseteq handler.map /\ handler'.unmap \subseteq handler.unmap
    BY DEF UpdateMapping, UnmapNode, TypeInv, NodesTyped
  <2> QED
    BY <1>0, <2>1 DEF OwnerInv, HandlerOK
<1> QED
  BY <1>6, <1>7, <1>8, <1>9 DEF OwnerInv

\* A node event, the informer and a crash.
LEMMA OutsideOwner ==
  ASSUME TypeInv, TypeInv', OwnerInv,
         (\E n \in Hosts : NodeEvent(n)) \/ SyncVolumes \/ Crash \/ UNCHANGED vars
  PROVE  OwnerInv'
<1>1. ASSUME NEW n \in Hosts, NodeEvent(n)
      PROVE  OwnerInv'
  <2>1. /\ UNCHANGED <<setup, vol, meta, lun, nextId, pv, pvLun, pvCache, op>>
        /\ changes' # 0
    BY <1>1 DEF NodeEvent, arrayVars, pvVars, TypeInv, NodesTyped
  <2>2. FaultsGrow
    BY <1>1, CleanStays DEF NodeEvent, HostList
  <2>3. ASSUME NEW x \in Workers PROVE CallOK(x)'
    BY <2>1, <2>2 DEF OwnerInv, CallOK, Exists, MappedIn, Unmapped, FaultsGrow
  <2>4. ASSUME NEW i \in Ids PROVE VolumeOK(i)'
    BY <2>1, <2>2
    DEF OwnerInv, VolumeOK, Unused, Complete, OneLun, Kept, LeftMapped, Mapped, Exists,
        Unmapped, FaultsGrow
  <2>5. HandlerOK'
    <3>1. CASE handler' = handler
      BY <2>1, <3>1 DEF OwnerInv, HandlerOK
    <3>2. ASSUME NEW found,
                 handler' = [map |-> pvCache \X found,
                             unmap |-> IF n \in nodes THEN pvCache \X {n} ELSE {}]
          PROVE  HandlerOK'
      <4>1. \A p \in handler'.map \cup handler'.unmap : p[1] \in pvCache
        BY <3>2
      <4> QED
        BY <2>1, <4>1 DEF OwnerInv, HandlerOK
    <3> QED
      BY <1>1, <3>1, <3>2 DEF NodeEvent
  <2> QED
    BY <2>1, <2>3, <2>4, <2>5 DEF OwnerInv, OneCall
<1>2. CASE SyncVolumes
  <2>1. UNCHANGED <<setup, vol, meta, lun, nextId, faults, nodes, changes, handler,
                    pv, pvLun, op>>
    BY <1>2 DEF SyncVolumes, arrayVars, nodeVars
  <2>2. \A i \in pvCache' : pv'[i] # "none"
    BY <1>2, <2>1 DEF SyncVolumes
  <2> QED
    BY <2>1, <2>2
    DEF OwnerInv, CallOK, VolumeOK, Unused, Complete, OneLun, Kept, Exists, Unmapped,
        MappedIn, Clean, Skipped, Panicked, LeftMapped, Mapped, OneCall, HandlerOK
<1>3. CASE Crash
  <2>1. /\ UNCHANGED <<setup, vol, meta, lun, nextId, nodes, changes, pv, pvLun, pvCache>>
        /\ handler' = NoHandler
    BY <1>3 DEF Crash, arrayVars, pvVars
  <2>2. ~Clean' /\ (Skipped => Skipped')
    BY <1>3, CleanStays DEF Crash, Tolerated, FaultsGrow
  <2>3. ASSUME NEW x \in Workers
        PROVE  /\ op'[x].pc = "idle" /\ op'[x].id = 0 /\ op'[x].lun = NoLun
               /\ op'[x].todo = {} /\ op'[x].hosts = {}
    BY <1>3 DEF Crash, Idle
  <2>4. ASSUME NEW x \in Workers PROVE CallOK(x)'
    BY <2>3 DEF CallOK, Waiting, Making
  <2>5. ASSUME NEW i \in Ids PROVE VolumeOK(i)'
    BY <2>1, <2>2
    DEF OwnerInv, VolumeOK, Unused, Complete, OneLun, Kept, Exists, Unmapped
  <2>6. OneCall'
    BY <2>3 DEF OneCall, Waiting
  <2>7. HandlerOK'
    BY <2>1 DEF OwnerInv, HandlerOK, NoHandler
  <2> QED
    BY <2>4, <2>5, <2>6, <2>7 DEF OwnerInv
<1>4. CASE UNCHANGED vars
  BY <1>4
  DEF vars, arrayVars, nodeVars, pvVars, OwnerInv, CallOK, VolumeOK, Unused, Complete,
      OneLun, Kept, Exists, Unmapped, MappedIn, Clean, Skipped, Panicked, LeftMapped,
      Mapped, OneCall, HandlerOK
<1> QED
  BY <1>1, <1>2, <1>3, <1>4

\* Initially no volume exists and no call has one.
LEMMA OwnerInit == Init => OwnerInv
<1> SUFFICES ASSUME Init PROVE OwnerInv
  OBVIOUS
<1>1. ASSUME NEW x \in Workers
      PROVE  /\ op[x].pc = "idle" /\ op[x].id = 0 /\ op[x].lun = NoLun
             /\ op[x].todo = {} /\ op[x].hosts = {}
  BY DEF Init, Idle
<1>2. ASSUME NEW x \in Workers PROVE CallOK(x)
  BY <1>1 DEF CallOK, Waiting, Making
<1>3. ASSUME NEW i \in Ids PROVE VolumeOK(i)
  BY DEF Init, VolumeOK, Unused, Complete, OneLun, Kept, Exists, Unmapped
<1>4. OneCall
  BY <1>1 DEF OneCall, Waiting
<1>5. HandlerOK
  BY DEF Init, HandlerOK, NoHandler
<1> QED
  BY <1>2, <1>3, <1>4, <1>5 DEF OwnerInv

\* Ownership is an invariant.
LEMMA Owned == Spec => [](TypeInv /\ OwnerInv)
<1>1. ASSUME TypeInv, TypeInv', OwnerInv, [Next]_vars
      PROVE  OwnerInv'
  <2>1. ASSUME NEW w \in Workers,
               \/ \E n \in Names : StartProvision(w, n)
               \/ \E i \in Ids : StartDelete(w, i)
               \/ Provision(w) \/ Delete(w)
        PROVE  OwnerInv'
    BY <1>1, <2>1, WaitingOwner, VolCreateOwner, StartDeleteOwner, MappingOwner,
       AttachOwner, UndoOwner, DetachOwner, UnMapOwner, DeleteVolumeOwner
    DEF Provision, Delete
  <2> QED
    BY <1>1, <2>1, HandlerOwner, OutsideOwner DEF Next, HandlerStep
<1>2. TypeInv /\ TypeInv' /\ OwnerInv /\ [Next]_vars => OwnerInv'
  BY <1>1
<1> QED
  BY <1>2, OwnerInit, Typed, PTL DEF Spec

\* Every host that sees a volume sees it under the LUN in the PV, whatever node
\* events race with Provision and Delete (iscsi/provision.go:394): the handler
\* asks for the LUN in the PV, and only for volumes that have one.
THEOREM SameLunAlways == Spec => []SameLun
<1>1. TypeInv /\ OwnerInv => SameLun
  BY DEF OwnerInv, VolumeOK, OneLun, SameLun, Mapped
<1> QED
  BY <1>1, Owned, PTL

\* A returned PV names a volume that is there with its metadata and, before the
\* first node event, is mapped to some node, and to every node unless GetHostList
\* left one out without an error (iscsi/provision.go:221-304,
\* lib/commons/common.go:297-320).
THEOREM ReadyAlwaysComplete == Spec => []ReadyComplete
<1>1. TypeInv /\ OwnerInv => ReadyComplete
  BY DEF OwnerInv, VolumeOK, Complete, Skipped, Exists, ReadyComplete, Live, Existing,
         Mapped
<1> QED
  BY <1>1, Owned, PTL

\* On both back ends and on every kind of array, a failed Provision leaves no
\* volume without a PV and without a call that will return or undo it
\* (iscsi/provision.go:249-300, fc's rollback), except: one that iscsi's rollback
\* left mapped on an array that destroys no mapped volume (LeftMapped), one that
\* iscsi's panic on IPList[0] left complete (LeftByPanic), and those of runs in
\* which a call of a rollback failed, an answer got lost or the process died.
THEOREM NothingOrphaned == Spec => []NoOrphan
<1>1. TypeInv /\ OwnerInv => NoOrphan
  BY DEF OwnerInv, VolumeOK, Kept, Clean, Tolerated, Panicked, Exists, NoOrphan,
         Existing, LeftByPanic
<1> QED
  BY <1>1, Owned, PTL
=============================================================================
