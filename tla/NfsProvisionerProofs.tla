------------------------ MODULE NfsProvisionerProofs ------------------------
(***************************************************************************)
(* For any number of workers, names, filesystems and faults: the types of  *)
(* NfsProvisioner, how far concurrent calls exceed max_fs, and that the    *)
(* volumes Provision returned are complete and those it failed to make are *)
(* gone.                                                                   *)
(***************************************************************************)
EXTENDS NfsProvisioner, FiniteSetTheorems, TLAPS

CallType == [pc : Pcs, name : Names \cup {NoName}, dir : 0 .. MaxId, exp : BOOLEAN]

\* A worker without a call is well formed.
LEMMA IdleTyped == Idle \in CallType /\ Idle.pc = "idle"
BY ConstantsAssumption DEF Idle, CallType, Pcs

\* Initially nothing exists and no call is under way.
LEMMA TypeInit == Init => TypeOK
<1> SUFFICES ASSUME Init PROVE TypeOK
  OBVIOUS
<1>1. op \in [Workers -> CallType]
  BY IdleTyped DEF Init
<1>2. faults \in [count : 0 .. MaxFaults, kinds : SUBSET Faults]
  BY ConstantsAssumption DEF Init
<1> QED
  BY <1>1, <1>2, ConstantsAssumption DEF Init, TypeOK, CallType, Ids

----------------------------------------------------------------------------
(* The type invariant, one fact per kind of variable.                       *)

\* A fault that happens stays within the bound.
LEMMA FaultTyped ==
  ASSUME TypeOK, NEW f, NoFault \/ Fault(f)
  PROVE  faults' \in [count : 0 .. MaxFaults, kinds : SUBSET Faults]
BY ConstantsAssumption DEF TypeOK, NoFault, Fault

\* A call that ends.
LEMMA ReturnTyped ==
  ASSUME TypeOK, NEW w \in Workers, Return(w)
  PROVE  op' \in [Workers -> CallType]
BY IdleTyped DEF TypeOK, Return, CallType

\* A call that moves on.
LEMMA GotoTyped ==
  ASSUME TypeOK, NEW w \in Workers, NEW pc \in Pcs, Goto(w, pc)
  PROVE  op' \in [Workers -> CallType]
<1> DEFINE next == [op[w] EXCEPT !.pc = pc]
<1>1. op[w] \in CallType
  BY DEF TypeOK, CallType
<1>2. next \in CallType
  BY <1>1 DEF CallType
<1>3. op' = [op EXCEPT ![w] = next]
  BY DEF Goto
<1> HIDE DEF next
<1> QED
  BY <1>2, <1>3 DEF TypeOK, CallType

\* The parts of the type invariant.
ArrayTyped ==
  /\ fs \in [Ids -> Names \cup {NoName}]
  /\ exports \in SUBSET Ids
  /\ meta \in SUBSET Ids
  /\ nextId \in 1 .. MaxId + 1
PvTyped ==
  /\ pv \in [Ids -> {"none", "ready", "doomed", "deleted"}]
  /\ pvExport \in [Ids -> BOOLEAN]
FaultsTyped == faults \in [count : 0 .. MaxFaults, kinds : SUBSET Faults]
OpTyped == op \in [Workers -> CallType]

\* They make up the type invariant.
LEMMA Parts == TypeOK <=> ArrayTyped /\ PvTyped /\ FaultsTyped /\ OpTyped
BY DEF TypeOK, ArrayTyped, PvTyped, FaultsTyped, OpTyped, CallType

\* Deleting a filesystem with what hangs on it.
LEMMA DestroyTyped ==
  ASSUME ArrayTyped, NEW i \in 0 .. MaxId, DestroyFs(i)
  PROVE  ArrayTyped'
BY DEF ArrayTyped, DestroyFs

\* Every step of a call keeps the types.
LEMMA TypeStep ==
  ASSUME TypeOK, [Next]_vars
  PROVE  TypeOK'
<1> USE DEF NoFault
<1>0. ArrayTyped /\ PvTyped /\ FaultsTyped /\ OpTyped
  BY Parts
<1>p. ArrayTyped' /\ PvTyped' /\ FaultsTyped' /\ OpTyped' => TypeOK'
  BY DEF TypeOK, ArrayTyped, PvTyped, FaultsTyped, OpTyped, CallType
<1>1. /\ UNCHANGED arrayVars => ArrayTyped'
      /\ UNCHANGED pvVars => PvTyped'
      /\ UNCHANGED faults => FaultsTyped'
  BY <1>0 DEF ArrayTyped, PvTyped, FaultsTyped, arrayVars, pvVars
<1>2. \A f : Fault(f) => FaultsTyped'
  BY FaultTyped DEF FaultsTyped
<1>3. \A w \in Workers : Return(w) => OpTyped'
  BY ReturnTyped DEF OpTyped
<1>4. \A w \in Workers : \A pc \in Pcs : Goto(w, pc) => OpTyped'
  BY GotoTyped DEF OpTyped
<1>5. \A w \in Workers : op[w] \in CallType /\ op[w].dir \in 0 .. MaxId
  BY <1>0 DEF OpTyped, CallType
<1>6. ASSUME NEW w \in Workers, NEW n \in Names, StartProvision(w, n)
      PROVE  TypeOK'
  <2> DEFINE next == [op[w] EXCEPT !.pc = "count", !.name = n]
  <2>1. next \in CallType
    BY <1>5 DEF CallType, Pcs
  <2>2. op' = [op EXCEPT ![w] = next]
    BY <1>6 DEF StartProvision
  <2> HIDE DEF next
  <2>3. OpTyped'
    BY <1>0, <2>1, <2>2 DEF OpTyped
  <2> QED
    BY <1>1, <1>6, <2>3, <1>p DEF StartProvision
<1>7. ASSUME NEW w \in Workers, NEW i \in Ids, StartDelete(w, i)
      PROVE  TypeOK'
  <2> DEFINE next == [op[w] EXCEPT !.pc = "delExport", !.dir = i]
  <2>0. i \in 0 .. MaxId
    BY DEF Ids
  <2>1. next \in CallType
    BY <1>5, <2>0 DEF CallType, Pcs
  <2>2. op' = [op EXCEPT ![w] = next]
    BY <1>7 DEF StartDelete
  <2> HIDE DEF next
  <2>3. OpTyped'
    BY <1>0, <2>1, <2>2 DEF OpTyped
  <2>4. PvTyped'
    BY <1>0, <1>7 DEF PvTyped, StartDelete
  <2> QED
    BY <1>1, <1>7, <2>3, <2>4, <1>p DEF StartDelete
<1>8. ASSUME NEW w \in Workers,
             \/ ValidationFails(w) \/ CreateDirectoryFails(w)
             \/ DeleteDirectoryFails(w) \/ Crash(w)
      PROVE  TypeOK'
  BY <1>1, <1>2, <1>3, <1>8, <1>p
  DEF ValidationFails, CreateDirectoryFails, DeleteDirectoryFails, Crash
<1>9. ASSUME NEW w \in Workers,
             \/ CreateExportFails(w) \/ AttachMetadataFails(w) \/ GetServerFails(w)
      PROVE  TypeOK'
  BY <1>1, <1>2, <1>4, <1>9, <1>p
  DEF CreateExportFails, AttachMetadataFails, GetServerFails, Pcs
<1>10. ASSUME NEW w \in Workers, CheckLimit(w)
       PROVE  TypeOK'
  BY <1>1, <1>3, <1>4, <1>10, <1>p DEF CheckLimit, Pcs
<1>11. ASSUME NEW w \in Workers, CreateDirectory(w)
       PROVE  TypeOK'
  <2> DEFINE next == [op[w] EXCEPT !.pc = "export", !.dir = nextId]
  <2>1. nextId \in Ids /\ nextId \in 0 .. MaxId /\ op[w].name \in Names \cup {NoName}
    BY <1>0, <1>5, <1>11, ConstantsAssumption
    DEF CreateDirectory, ArrayTyped, Ids, CallType
  <2>2. ArrayTyped'
    BY <1>0, <1>11, <2>1, ConstantsAssumption DEF CreateDirectory, ArrayTyped, Ids
  <2>3. next \in CallType
    BY <1>5, <2>1 DEF CallType, Pcs
  <2> HIDE DEF next
  <2>4. op' = [op EXCEPT ![w] = next] => OpTyped'
    BY <1>0, <2>3 DEF OpTyped
  <2>5. op' = [op EXCEPT ![w] = next] \/ Return(w)
    BY <1>11 DEF CreateDirectory, next
  <2>6. FaultsTyped' /\ PvTyped'
    BY <1>1, <1>2, <1>11 DEF CreateDirectory
  <2> QED
    BY <1>3, <2>2, <2>4, <2>5, <2>6, <1>p
<1>12. ASSUME NEW w \in Workers, CreateExport(w)
       PROVE  TypeOK'
  <2> DEFINE next == [op[w] EXCEPT !.pc = "attach", !.exp = TRUE]
  <2>1. next \in CallType
    BY <1>5 DEF CallType, Pcs
  <2> HIDE DEF next
  <2>2. op' = [op EXCEPT ![w] = next] => OpTyped'
    BY <1>0, <2>1 DEF OpTyped
  <2>3. Goto(w, "attach") \/ Goto(w, "undoDir") \/ op' = [op EXCEPT ![w] = next]
    BY <1>12 DEF CreateExport, next
  <2>4. OpTyped'
    BY <1>4, <2>2, <2>3 DEF Pcs
  <2>5. ArrayTyped'
    BY <1>0, <1>12 DEF CreateExport, ArrayTyped, Live, Existing
  <2> QED
    BY <1>1, <1>2, <1>12, <2>4, <2>5, <1>p DEF CreateExport
<1>13. ASSUME NEW w \in Workers, AttachMetadata(w)
       PROVE  TypeOK'
  <2>1. ArrayTyped'
    BY <1>0, <1>13 DEF AttachMetadata, ArrayTyped, Live, Existing
  <2> QED
    BY <1>1, <1>2, <1>4, <1>13, <2>1, <1>p DEF AttachMetadata, Pcs
<1>14. ASSUME NEW w \in Workers, GetServer(w)
       PROVE  TypeOK'
  <2>1. op[w].exp \in BOOLEAN
    BY <1>5 DEF CallType
  <2>2. PvTyped'
    BY <1>0, <1>14, <2>1 DEF GetServer, PvTyped
  <2> QED
    BY <1>1, <1>3, <1>14, <2>2, <1>p DEF GetServer
<1>15. ASSUME NEW w \in Workers, UndoMeta(w) \/ UndoExport(w)
       PROVE  TypeOK'
  <2>1. ArrayTyped'
    BY <1>0, <1>15 DEF UndoMeta, UndoExport, ArrayTyped
  <2> QED
    BY <1>1, <1>2, <1>4, <1>15, <2>1, <1>p DEF UndoMeta, UndoExport, Pcs
<1>16. ASSUME NEW w \in Workers, UndoDir(w)
       PROVE  TypeOK'
  <2>1. ArrayTyped'
    BY <1>0, <1>1, <1>5, <1>16, DestroyTyped DEF UndoDir
  <2> QED
    BY <1>1, <1>2, <1>3, <1>16, <2>1, <1>p DEF UndoDir
<1>17. ASSUME NEW w \in Workers, DeleteExport(w) \/ DetachMetadata(w)
       PROVE  TypeOK'
  <2>1. ArrayTyped'
    BY <1>0, <1>17 DEF DeleteExport, DetachMetadata, ArrayTyped
  <2> QED
    BY <1>1, <1>2, <1>3, <1>4, <1>17, <2>1, <1>p
    DEF DeleteExport, DetachMetadata, Pcs
<1>18. ASSUME NEW w \in Workers, DeleteDirectory(w)
       PROVE  TypeOK'
  <2>1. ArrayTyped'
    BY <1>0, <1>5, <1>18, DestroyTyped DEF DeleteDirectory
  <2>2. PvTyped'
    BY <1>0, <1>18 DEF DeleteDirectory, PvTyped
  <2> QED
    BY <1>1, <1>2, <1>3, <1>18, <2>1, <2>2, <1>p DEF DeleteDirectory
<1>19. CASE UNCHANGED vars
  BY <1>0, <1>1, <1>19, <1>p DEF vars, OpTyped
<1> QED
  BY <1>6, <1>7, <1>8, <1>9, <1>10, <1>11, <1>12, <1>13, <1>14, <1>15, <1>16,
     <1>17, <1>18, <1>19 DEF Next, Provision, Delete

\* The state keeps its types, the position of every call among them.
THEOREM TypeCorrect == Spec => []TypeOK
<1>1. Init => TypeOK
  BY TypeInit
<1>2. TypeOK /\ [Next]_vars => TypeOK'
  BY TypeStep
<1> QED
  BY <1>1, <1>2, PTL DEF Spec

----------------------------------------------------------------------------
(* The limit.  A call that was let through holds a place until it created   *)
(* its filesystem or failed, so LimitOvershoot is inductive as it stands.   *)

\* Both sets are finite.
LEMMA Finite == /\ IsFiniteSet(Existing) /\ Cardinality(Existing) \in Nat
                /\ IsFiniteSet(Creating) /\ Cardinality(Creating) \in Nat
                /\ Cardinality(Workers) \in Nat
<1>1. IsFiniteSet(Ids)
  BY FS_Interval, ConstantsAssumption DEF Ids
<1>2. Existing \subseteq Ids /\ Creating \subseteq Workers
  BY DEF Existing, Creating
<1> QED
  BY <1>1, <1>2, FS_Subset, FS_CardinalityType, ConstantsAssumption

\* Fewer filesystems and fewer calls that are about to create one.
LEMMA LimitShrinks ==
  ASSUME LimitOvershoot, Existing' \subseteq Existing, Creating' \subseteq Creating
  PROVE  LimitOvershoot'
<1>1. /\ Cardinality(Existing') \in Nat /\ Cardinality(Existing') <= Cardinality(Existing)
      /\ Cardinality(Creating') \in Nat /\ Cardinality(Creating') <= Cardinality(Creating)
  BY Finite, FS_Subset, FS_CardinalityType
<1>2. Cardinality(Existing)' = Cardinality(Existing') /\ Cardinality(Creating)' = Cardinality(Creating')
  OBVIOUS
<1> QED
  BY <1>1, <1>2, Finite, ConstantsAssumption DEF LimitOvershoot

\* Deleting a filesystem adds none.
LEMMA DestroyShrinks ==
  ASSUME TypeOK, NEW i, DestroyFs(i)
  PROVE  Existing' \subseteq Existing
BY DEF TypeOK, DestroyFs, Existing

\* A call that ends, or goes anywhere but to "create", is not about to create.
LEMMA CreatingShrinks ==
  ASSUME TypeOK, NEW w \in Workers, NEW new, op' = [op EXCEPT ![w] = new],
         new.pc # "create"
  PROVE  Creating' = Creating \ {w}
BY DEF TypeOK, Creating, At

\* A place is taken only while there are at most MaxFs filesystems, and given
\* back when the filesystem is created.
LEMMA LimitStep ==
  ASSUME TypeOK, LimitOvershoot, [Next]_vars
  PROVE  LimitOvershoot'
<1>1. \A w \in Workers : Return(w) => Creating' = Creating \ {w}
  BY IdleTyped, CreatingShrinks DEF Return
<1>2. \A w \in Workers : \A pc : Goto(w, pc) /\ pc # "create" => Creating' = Creating \ {w}
  <2> SUFFICES ASSUME NEW w \in Workers, NEW pc, Goto(w, pc), pc # "create"
               PROVE  Creating' = Creating \ {w}
    OBVIOUS
  <2> DEFINE next == [op[w] EXCEPT !.pc = pc]
  <2>1. next.pc = pc
    BY DEF TypeOK
  <2>2. op' = [op EXCEPT ![w] = next]
    BY DEF Goto
  <2> HIDE DEF next
  <2> QED
    BY <2>1, <2>2, CreatingShrinks
<1>3. UNCHANGED arrayVars \/ UNCHANGED fs => Existing' = Existing
  BY DEF arrayVars, Existing
<1>4. ASSUME NEW w \in Workers, NEW n \in Names, StartProvision(w, n)
      PROVE  LimitOvershoot'
  <2> DEFINE next == [op[w] EXCEPT !.pc = "count", !.name = n]
  <2>1. next.pc = "count"
    BY DEF TypeOK
  <2>2. op' = [op EXCEPT ![w] = next]
    BY <1>4 DEF StartProvision
  <2> HIDE DEF next
  <2>3. Creating' \subseteq Creating
    BY <2>1, <2>2, CreatingShrinks
  <2> QED
    BY <1>3, <1>4, <2>3, LimitShrinks DEF StartProvision
<1>5. ASSUME NEW w \in Workers, NEW i \in Ids, StartDelete(w, i)
      PROVE  LimitOvershoot'
  <2> DEFINE next == [op[w] EXCEPT !.pc = "delExport", !.dir = i]
  <2>1. next.pc = "delExport"
    BY DEF TypeOK
  <2>2. op' = [op EXCEPT ![w] = next]
    BY <1>5 DEF StartDelete
  <2> HIDE DEF next
  <2>3. Creating' \subseteq Creating
    BY <2>1, <2>2, CreatingShrinks
  <2> QED
    BY <1>3, <1>5, <2>3, LimitShrinks DEF StartDelete
<1>6. ASSUME NEW w \in Workers, CheckLimit(w)
      PROVE  LimitOvershoot'
  <2>1. Existing' = Existing
    BY <1>3, <1>6 DEF CheckLimit
  <2>2. CASE Return(w)
    BY <1>1, <2>1, <2>2, LimitShrinks
  <2>3. CASE ~(Cardinality(Existing) > MaxFs) /\ Goto(w, "create")
    <3>1. w \notin Creating /\ Creating' \subseteq Workers
      BY <1>6 DEF CheckLimit, Creating, At
    <3>2. Cardinality(Creating') \in Nat /\ Cardinality(Creating') <= Cardinality(Workers)
      BY <3>1, FS_Subset, FS_CardinalityType, ConstantsAssumption
    <3> QED
      BY <2>1, <2>3, <3>2, Finite, ConstantsAssumption DEF LimitOvershoot
  <2> QED
    BY <1>6, <2>2, <2>3 DEF CheckLimit
<1>7. ASSUME NEW w \in Workers, CreateDirectory(w)
      PROVE  LimitOvershoot'
  <2>1. Creating' = Creating \ {w} /\ w \in Creating
    <3> DEFINE next == [op[w] EXCEPT !.pc = "export", !.dir = nextId]
    <3>1. next.pc = "export"
      BY DEF TypeOK
    <3>2. op' = [op EXCEPT ![w] = next] \/ Return(w)
      BY <1>7 DEF CreateDirectory
    <3> HIDE DEF next
    <3> QED
      BY <1>1, <1>7, <3>1, <3>2, CreatingShrinks DEF CreateDirectory, Creating, At
  <2>2. Existing' \subseteq Existing \cup {nextId}
    BY <1>7 DEF CreateDirectory, Existing, TypeOK
  <2>3. Cardinality(Creating') = Cardinality(Creating) - 1
    BY <2>1, Finite, FS_RemoveElement
  <2>4. /\ IsFiniteSet(Existing \cup {nextId})
        /\ Cardinality(Existing \cup {nextId}) <= Cardinality(Existing) + 1
        /\ Cardinality(Existing \cup {nextId}) \in Nat
    BY Finite, FS_AddElement, FS_CardinalityType
  <2>5. /\ Cardinality(Existing') <= Cardinality(Existing) + 1
        /\ Cardinality(Existing') \in Nat
    BY <2>2, <2>4, Finite, FS_Subset, FS_CardinalityType
  <2> QED
    BY <2>3, <2>5, Finite, ConstantsAssumption DEF LimitOvershoot
<1>8. ASSUME NEW w \in Workers, CreateExport(w)
      PROVE  LimitOvershoot'
  <2> DEFINE next == [op[w] EXCEPT !.pc = "attach", !.exp = TRUE]
  <2>1. next.pc = "attach"
    BY DEF TypeOK
  <2>2. Goto(w, "attach") \/ Goto(w, "undoDir") \/ op' = [op EXCEPT ![w] = next]
    BY <1>8 DEF CreateExport
  <2> HIDE DEF next
  <2>3. Creating' \subseteq Creating
    BY <1>2, <2>1, <2>2, CreatingShrinks
  <2> QED
    BY <1>3, <1>8, <2>3, LimitShrinks DEF CreateExport
<1>9. ASSUME NEW w \in Workers,
             \/ ValidationFails(w) \/ CreateDirectoryFails(w) \/ GetServer(w)
             \/ DeleteDirectoryFails(w) \/ Crash(w) \/ CreateExportFails(w)
             \/ AttachMetadataFails(w) \/ GetServerFails(w) \/ AttachMetadata(w)
      PROVE  LimitOvershoot'
  <2>1. Creating' \subseteq Creating
    BY <1>1, <1>2, <1>9
    DEF ValidationFails, CreateDirectoryFails, DeleteDirectoryFails, Crash, GetServer,
        CreateExportFails, AttachMetadataFails, GetServerFails, AttachMetadata
  <2>2. Existing' = Existing
    BY <1>3, <1>9
    DEF ValidationFails, CreateDirectoryFails, DeleteDirectoryFails, Crash, GetServer,
        CreateExportFails, AttachMetadataFails, GetServerFails, AttachMetadata
  <2> QED
    BY <2>1, <2>2, LimitShrinks
<1>10. ASSUME NEW w \in Workers,
              \/ UndoMeta(w) \/ UndoExport(w) \/ DeleteExport(w) \/ DetachMetadata(w)
       PROVE  LimitOvershoot'
  <2>1. Creating' \subseteq Creating
    BY <1>1, <1>2, <1>10 DEF UndoMeta, UndoExport, DeleteExport, DetachMetadata
  <2>2. Existing' = Existing
    BY <1>3, <1>10 DEF UndoMeta, UndoExport, DeleteExport, DetachMetadata
  <2> QED
    BY <2>1, <2>2, LimitShrinks
<1>11. ASSUME NEW w \in Workers, UndoDir(w) \/ DeleteDirectory(w)
       PROVE  LimitOvershoot'
  <2>1. Creating' \subseteq Creating
    BY <1>1, <1>11 DEF UndoDir, DeleteDirectory
  <2>2. Existing' \subseteq Existing
    BY <1>3, <1>11, DestroyShrinks DEF UndoDir, DeleteDirectory
  <2> QED
    BY <2>1, <2>2, LimitShrinks
<1>12. CASE UNCHANGED vars
  <2>1. Creating' = Creating /\ Existing' = Existing
    BY <1>12, <1>3 DEF vars, Creating, At
  <2> QED
    BY <2>1, LimitShrinks
<1> QED
  BY <1>4, <1>5, <1>6, <1>7, <1>8, <1>9, <1>10, <1>11, <1>12
  DEF Next, Provision, Delete

\* Any number of Provisions that pass the limit with the same count
\* (nfs/provision.go:387) exceed it by at most their number.
THEOREM LimitKept == Spec => []LimitOvershoot
<1>1. Init => LimitOvershoot
  <2> SUFFICES ASSUME Init PROVE LimitOvershoot
    OBVIOUS
  <2>1. Existing = {} /\ Creating = {}
    BY IdleTyped DEF Init, Existing, Creating, At
  <2> QED
    BY <2>1, Finite, FS_EmptySet, ConstantsAssumption DEF LimitOvershoot
<1>2. TypeOK /\ LimitOvershoot /\ [Next]_vars => LimitOvershoot'
  BY LimitStep
<1> QED
  BY <1>1, <1>2, TypeCorrect, PTL DEF Spec

----------------------------------------------------------------------------
(* Returned volumes are complete and failed calls leave nothing behind.     *)
(* Both rest on who owns a filesystem: the one call that created it, until  *)
(* that call has returned a PV or undone it; after that, the calls that     *)
(* delete the PV.                                                           *)

Owning == {"export", "attach", "server", "undoMeta", "undoExport", "undoDir"}
Deleting == {"delExport", "delMeta", "delDir"}
Exists(i) == fs[i] # NoName

\* Nothing happened but failed calls of Provision and Delete.
Clean == faults.kinds \subseteq {"error"}

\* What a call can rely on at each of its steps.
CallOK(w) ==
  LET i == op[w].dir
      at(P) == op[w].pc \in P
  IN  /\ at({"count", "create"}) => op[w].name \in Names
      /\ at({"idle", "count", "create"}) => i = 0
      /\ at({"idle", "count", "create", "export"}) => ~op[w].exp
      /\ at(Owning) => i \in Ids /\ i < nextId /\ pv[i] = "none"
      /\ at(Deleting) => i \in Ids /\ pv[i] \in {"doomed", "deleted"}
      /\ at({"export", "attach", "server"}) => Exists(i)
      /\ at({"export"}) => i \notin exports
      /\ at({"attach", "server"}) /\ op[w].exp => i \in exports
      /\ at({"server"}) => i \in meta
      /\ at({"attach", "server", "undoMeta", "undoExport"}) /\ Clean /\ i \in exports
           => op[w].exp
      /\ at({"undoDir"}) /\ Clean => i \notin exports

\* An id that was not given out is not in use; what a PV that nobody deletes
\* relies on is there; and what is there has a PV or a call.
Unused(i) == i >= nextId => ~Exists(i) /\ pv[i] = "none" /\ i \notin exports
Complete(i) ==
  pv[i] = "ready" => Exists(i) /\ i \in meta /\ (pvExport[i] => i \in exports)
Kept(i) ==
  Clean /\ Exists(i) => pv[i] # "none" \/ \E w \in Workers : op[w].dir = i

\* A filesystem has one owner.
OneOwner ==
  \A w, x \in Workers :
    op[w].pc \in Owning /\ op[x].pc \in Owning /\ op[w].dir = op[x].dir => w = x

OwnerInv ==
  /\ \A w \in Workers : CallOK(w)
  /\ \A i \in Ids : Unused(i) /\ Complete(i) /\ Kept(i)
  /\ OneOwner

\* Nothing happens to filesystem i and its PV.
Same(i) ==
  /\ fs'[i] = fs[i] /\ pv'[i] = pv[i] /\ pvExport'[i] = pvExport[i]
  /\ (i \in exports' <=> i \in exports) /\ (i \in meta' <=> i \in meta)

\* A call's step concerns one filesystem d, which no other call owns.
LEMMA OneCallMoves ==
  ASSUME TypeOK, TypeOK', OwnerInv, NEW w \in Workers, NEW d,
         \A x \in Workers \ {w} : op'[x] = op[x],
         \A i \in Ids \ {d} : Same(i),
         Clean' => Clean, nextId <= nextId',
         op[w].dir \in {0, d},
         \A x \in Workers \ {w} : op[x].pc \in Owning => op[x].dir # d,
         d \in Ids /\ pv[d] \in {"doomed", "deleted"}
           => pv'[d] \in {"doomed", "deleted"},
         d \in Ids => Unused(d)' /\ Complete(d)' /\ Kept(d)',
         CallOK(w)',
         op'[w].pc \in Owning => op'[w].dir = d
  PROVE  OwnerInv'
<1> USE DEF OwnerInv
<1>1. ASSUME NEW x \in Workers PROVE CallOK(x)'
  <2> SUFFICES ASSUME x # w PROVE CallOK(x)'
    OBVIOUS
  <2>1. op'[x] = op[x] /\ CallOK(x)
    OBVIOUS
  <2>2. CASE op[x].pc \in Owning
    <3>1. op[x].dir \in Ids /\ Same(op[x].dir) /\ op[x].dir < nextId /\ op[x].dir < nextId'
      BY <2>1, <2>2 DEF CallOK, TypeOK, Ids
    <3> QED
      BY <2>1, <2>2, <3>1 DEF CallOK, Same, Owning, Deleting, Exists
  <2>3. CASE op[x].pc \in Deleting
    <3>1. op[x].dir \in Ids /\ pv'[op[x].dir] \in {"doomed", "deleted"}
      BY <2>1, <2>3 DEF CallOK, Same
    <3> QED
      BY <2>1, <2>3, <3>1 DEF CallOK, Owning, Deleting
  <2>4. CASE op[x].pc \notin Owning \cup Deleting
    BY <2>1, <2>4 DEF CallOK, Owning, Deleting
  <2> QED
    BY <2>2, <2>3, <2>4
<1>2. ASSUME NEW i \in Ids PROVE Unused(i)' /\ Complete(i)' /\ Kept(i)'
  <2> SUFFICES ASSUME i # d PROVE Unused(i)' /\ Complete(i)' /\ Kept(i)'
    OBVIOUS
  <2>1. Same(i) /\ Unused(i) /\ Complete(i) /\ Kept(i) /\ i # 0
    BY DEF Ids
  <2>2. Unused(i)'
    BY <2>1 DEF Same, Unused, Exists, TypeOK, Ids
  <2>3. Complete(i)'
    BY <2>1 DEF Same, Complete, Exists
  <2>4. Kept(i)'
    BY <2>1 DEF Same, Kept, Exists
  <2> QED
    BY <2>2, <2>3, <2>4
<1>3. OneOwner'
  BY DEF OneOwner
<1> QED
  BY <1>1, <1>2, <1>3

\* The owner of a filesystem, or a call that deletes it, is its only owner.
LEMMA SoleOwner ==
  ASSUME OwnerInv, NEW w \in Workers, NEW x \in Workers \ {w}, op[x].pc \in Owning
  PROVE  op[w].pc \in Pcs => op[x].dir # op[w].dir
<1>1. CallOK(w) /\ CallOK(x) /\ op[x].dir \in Ids /\ op[x].dir # 0 /\ pv[op[x].dir] = "none"
  BY DEF OwnerInv, CallOK, Ids
<1> QED
  BY <1>1 DEF OwnerInv, OneOwner, CallOK, Owning, Deleting, Pcs

\* A step of w on the filesystem it is about.
LEMMA OwnStep ==
  ASSUME TypeOK, TypeOK', OwnerInv, NEW w \in Workers, NEW d, d = op[w].dir,
         \A x \in Workers \ {w} : op'[x] = op[x],
         \A i \in Ids \ {d} : Same(i),
         Clean' => Clean, nextId' = nextId,
         d \in Ids =>
           /\ Complete(d)' /\ Kept(d)'
           /\ pv[d] \in {"doomed", "deleted"} => pv'[d] \in {"doomed", "deleted"},
         CallOK(w)',
         op'[w].pc \in Owning => op'[w].dir = d
  PROVE  OwnerInv'
<1>1. CallOK(w) /\ op[w].pc \in Pcs /\ nextId \in Nat /\ d \in 0 .. MaxId
  BY DEF OwnerInv, TypeOK, CallType
<1>2. d \in Ids => d < nextId
  <2>1. CASE op[w].pc \in Owning
    BY <1>1, <2>1 DEF CallOK
  <2>2. CASE op[w].pc \in Deleting
    BY <1>1, <2>2 DEF CallOK, OwnerInv, Unused, Ids
  <2>3. CASE op[w].pc \notin Owning \cup Deleting
    BY <1>1, <2>3 DEF CallOK, Owning, Deleting, Pcs, Ids
  <2> QED
    BY <2>1, <2>2, <2>3
<1>3. d \in Ids => Unused(d)'
  BY <1>1, <1>2 DEF Unused, Ids
<1>4. nextId <= nextId'
  BY <1>1
<1>5. \A x \in Workers \ {w} : op[x].pc \in Owning => op[x].dir # d
  BY <1>1, SoleOwner
<1> QED
  BY <1>3, <1>4, <1>5, OneCallMoves

\* A call that returns leaves its worker without a filesystem.
LEMMA ReturnEffect ==
  ASSUME TypeOK, NEW w \in Workers, Return(w)
  PROVE  /\ \A x \in Workers \ {w} : op'[x] = op[x]
         /\ op'[w].pc = "idle" /\ op'[w].dir = 0 /\ ~op'[w].exp
         /\ CallOK(w)' /\ op'[w].pc \notin Owning
<1>1. /\ \A x \in Workers \ {w} : op'[x] = op[x]
      /\ op'[w].pc = "idle" /\ op'[w].dir = 0 /\ ~op'[w].exp
  BY DEF TypeOK, Return, Idle
<1> QED
  BY <1>1 DEF CallOK, Owning, Deleting

\* A call that goes on keeps its filesystem.
LEMMA GotoEffect ==
  ASSUME TypeOK, NEW w \in Workers, NEW pc, Goto(w, pc)
  PROVE  /\ \A x \in Workers \ {w} : op'[x] = op[x]
         /\ op'[w].pc = pc /\ op'[w].dir = op[w].dir
         /\ op'[w].exp = op[w].exp /\ op'[w].name = op[w].name
BY DEF TypeOK, Goto

\* Faults are remembered.
LEMMA CleanStays ==
  ASSUME TypeOK, NEW f, NoFault \/ Fault(f)
  PROVE  /\ Clean' => Clean
         /\ Fault(f) /\ f # "error" => ~Clean'
BY DEF TypeOK, NoFault, Fault, Clean

\* A call that ends without another change had nothing to own, or broke off.
LEMMA CallEnds ==
  ASSUME TypeOK, TypeOK', OwnerInv, NEW w \in Workers, Return(w),
         UNCHANGED arrayVars, UNCHANGED pvVars, Clean' => Clean,
         op[w].pc \notin Owning \/ ~Clean' \/ ~Exists(op[w].dir)
  PROVE  OwnerInv'
<1>1. \A i \in Ids : Same(i)
  BY DEF arrayVars, pvVars, Same
<1>2. nextId' = nextId
  BY DEF arrayVars
<1>3. CallOK(w) /\ op[w].pc \in Pcs
  BY DEF OwnerInv, TypeOK, CallType
<1>0. PICK d \in 0 .. MaxId : d = op[w].dir
  BY DEF TypeOK
<1>4. ASSUME d \in Ids
      PROVE  Complete(d)' /\ Kept(d)'
  <2>1. Complete(d)'
    BY <1>1, <1>4 DEF OwnerInv, Complete, Same, Exists
  <2>2. CASE op[w].pc \notin Owning
    <3>1. op[w].pc \in Deleting
      BY <1>0, <1>3, <1>4, <2>2 DEF CallOK, Owning, Deleting, Pcs, Ids
    <3>2. pv[d] # "none"
      BY <1>0, <1>3, <3>1 DEF CallOK
    <3> QED
      BY <1>1, <1>4, <2>1, <3>2 DEF Kept, Same
  <2>3. CASE ~Clean' \/ ~Exists(op[w].dir)
    BY <1>0, <1>1, <1>4, <2>1, <2>3 DEF Kept, Same, Exists
  <2> QED
    BY <2>2, <2>3
<1>5. d \in Ids => pv'[d] = pv[d]
  BY <1>1 DEF Same
<1> QED
  BY <1>0, <1>1, <1>2, <1>4, <1>5, ReturnEffect, OwnStep

\* The owner goes on to another step of its call.
LEMMA OwnerGoesOn ==
  ASSUME TypeOK, TypeOK', OwnerInv, NEW w \in Workers, op[w].pc \in Owning,
         \A x \in Workers \ {w} : op'[x] = op[x],
         op'[w].pc \in Owning, op'[w].dir = op[w].dir, CallOK(w)',
         \A i \in Ids \ {op[w].dir} : Same(i),
         UNCHANGED pvVars, nextId' = nextId, Clean' => Clean
  PROVE  OwnerInv'
<1>1. PICK d \in 0 .. MaxId : d = op[w].dir
  BY DEF TypeOK
<1>2. d \in Ids /\ pv'[d] = "none"
  BY <1>1 DEF OwnerInv, CallOK, pvVars
<1>3. Complete(d)' /\ Kept(d)'
  BY <1>1, <1>2 DEF Complete, Kept
<1>4. pv[d] \in {"doomed", "deleted"} => pv'[d] \in {"doomed", "deleted"}
  BY DEF pvVars
<1> QED
  BY <1>1, <1>3, <1>4, OwnStep

\* A step of a Delete.
LEMMA DeleterMoves ==
  ASSUME TypeOK, TypeOK', OwnerInv, NEW w \in Workers, op[w].pc \in Deleting,
         \A x \in Workers \ {w} : op'[x] = op[x],
         op'[w].pc \notin Owning, CallOK(w)',
         \A i \in Ids \ {op[w].dir} : Same(i),
         pv'[op[w].dir] \in {"doomed", "deleted"},
         nextId' = nextId, Clean' => Clean
  PROVE  OwnerInv'
<1>1. PICK d \in 0 .. MaxId : d = op[w].dir
  BY DEF TypeOK
<1>2. Complete(d)' /\ Kept(d)'
  BY <1>1 DEF Complete, Kept
<1> QED
  BY <1>1, <1>2, OwnStep

\* Every step keeps ownership.
LEMMA OwnerStep ==
  ASSUME TypeOK, OwnerInv, [Next]_vars
  PROVE  OwnerInv'
<1>0. TypeOK'
  BY TypeStep
<1>c. ASSUME NEW f, NoFault \/ Fault(f)
      PROVE  (Clean' => Clean) /\ (Fault(f) /\ f # "error" => ~Clean')
  BY <1>c, CleanStays
<1>s. ASSUME UNCHANGED arrayVars, UNCHANGED pvVars
      PROVE  (\A i \in Ids : Same(i)) /\ nextId' = nextId
  BY <1>s DEF arrayVars, pvVars, Same
<1>k. ASSUME NEW w \in Workers PROVE CallOK(w) /\ op[w] \in CallType
  BY DEF OwnerInv, TypeOK, CallType
<1>1. ASSUME NEW w \in Workers, NEW n \in Names, StartProvision(w, n)
      PROVE  OwnerInv'
  <2>1. /\ \A x \in Workers \ {w} : op'[x] = op[x]
        /\ op'[w].pc = "count" /\ op'[w].name = n /\ op'[w].dir = op[w].dir
        /\ op'[w].exp = op[w].exp
    BY <1>1 DEF StartProvision, TypeOK
  <2>2. op[w].dir = 0 /\ ~op[w].exp
    BY <1>1, <1>k DEF StartProvision, At, CallOK
  <2>3. CallOK(w)' /\ op'[w].pc \notin Owning /\ 0 \notin Ids
    BY <2>1, <2>2 DEF CallOK, Owning, Deleting, Ids
  <2>4. (\A i \in Ids : Same(i)) /\ nextId' = nextId /\ Clean' = Clean
    BY <1>1, <1>s DEF StartProvision, Clean
  <2> QED
    BY <1>0, <2>1, <2>2, <2>3, <2>4, OwnStep
<1>2. ASSUME NEW w \in Workers, NEW i \in Ids, StartDelete(w, i)
      PROVE  OwnerInv'
  <2>1. /\ \A x \in Workers \ {w} : op'[x] = op[x]
        /\ op'[w].pc = "delExport" /\ op'[w].dir = i
    BY <1>2 DEF StartDelete, TypeOK
  <2>2. op[w].dir = 0
    BY <1>2, <1>k DEF StartDelete, At, CallOK
  <2>3. /\ UNCHANGED <<fs, exports, meta, nextId, pvExport>> /\ Clean' = Clean
        /\ pv'[i] = "doomed" /\ pv[i] # "none"
        /\ \A j \in Ids \ {i} : pv'[j] = pv[j]
    BY <1>2 DEF StartDelete, arrayVars, Clean, TypeOK
  <2>4. CallOK(w)' /\ op'[w].pc \notin Owning
    BY <2>1, <2>3 DEF CallOK, Owning, Deleting
  <2>5. \A j \in Ids \ {i} : Same(j)
    BY <2>3 DEF Same
  <2>6. \A x \in Workers \ {w} : op[x].pc \in Owning => op[x].dir # i
    BY <1>k, <2>3 DEF CallOK
  <2>7. Unused(i)
    BY DEF OwnerInv
  <2>8. Unused(i)' /\ Complete(i)' /\ Kept(i)'
    BY <2>3, <2>7 DEF Unused, Complete, Kept
  <2>9. nextId <= nextId'
    BY <2>3 DEF TypeOK
  <2> QED
    BY <1>0, <2>1, <2>2, <2>3, <2>4, <2>5, <2>6, <2>8, <2>9, OneCallMoves
<1>3. ASSUME NEW w \in Workers,
             \/ ValidationFails(w) \/ CreateDirectoryFails(w)
             \/ DeleteDirectoryFails(w) \/ Crash(w)
      PROVE  OwnerInv'
  <2>1. Return(w) /\ UNCHANGED arrayVars /\ UNCHANGED pvVars
    BY <1>3 DEF ValidationFails, CreateDirectoryFails, DeleteDirectoryFails, Crash
  <2>2. Clean' => Clean
    BY <1>3, <1>c DEF ValidationFails, CreateDirectoryFails, DeleteDirectoryFails, Crash
  <2>3. op[w].pc \notin Owning \/ ~Clean'
    <3>1. CASE Crash(w)
      BY <1>c, <3>1 DEF Crash
    <3>2. CASE ~Crash(w)
      BY <1>3, <3>2
      DEF ValidationFails, CreateDirectoryFails, DeleteDirectoryFails, At, Owning
    <3> QED
      BY <3>1, <3>2
  <2> QED
    BY <1>0, <2>1, <2>2, <2>3, CallEnds
<1>4. ASSUME NEW w \in Workers, CheckLimit(w)
      PROVE  OwnerInv'
  <2>1. /\ op[w].pc = "count" /\ UNCHANGED arrayVars /\ UNCHANGED pvVars
        /\ Clean' = Clean
    BY <1>4 DEF CheckLimit, At, Clean
  <2>2. CASE Return(w)
    BY <1>0, <2>1, <2>2, CallEnds DEF Owning
  <2>3. CASE Goto(w, "create")
    <3>1. /\ \A x \in Workers \ {w} : op'[x] = op[x]
          /\ op'[w].pc = "create" /\ op'[w].dir = op[w].dir
          /\ op'[w].exp = op[w].exp /\ op'[w].name = op[w].name
      BY <2>3, GotoEffect
    <3>2. op[w].dir = 0 /\ 0 \notin Ids
      BY <1>k, <2>1 DEF CallOK, Ids
    <3>3. CallOK(w)' /\ op'[w].pc \notin Owning
      BY <1>k, <2>1, <3>1 DEF CallOK, Owning, Deleting
    <3> QED
      BY <1>0, <1>s, <2>1, <3>1, <3>2, <3>3, OwnStep
  <2> QED
    BY <1>4, <2>2, <2>3 DEF CheckLimit
<1>5. ASSUME NEW w \in Workers, CreateDirectory(w)
      PROVE  OwnerInv'
  <2>0. PICK d \in Ids : d = nextId
    BY <1>5 DEF CreateDirectory, TypeOK, Ids
  <2>1. /\ \A j \in Ids \ {d} : fs'[j] = fs[j]
        /\ fs'[d] = op[w].name
        /\ nextId' = d + 1 /\ UNCHANGED <<exports, meta, pv, pvExport>>
    BY <1>5, <2>0 DEF CreateDirectory, pvVars, TypeOK
  <2>2. op[w].name \in Names /\ op[w].dir = 0 /\ ~op[w].exp
    BY <1>5, <1>k DEF CreateDirectory, At, CallOK
  <2>3. Unused(d)
    BY DEF OwnerInv
  <2>4. /\ fs'[d] # NoName /\ pv'[d] = "none" /\ d \notin exports' /\ d < nextId'
    BY <2>0, <2>1, <2>2, <2>3, ConstantsAssumption DEF Unused, Ids
  <2>5. \A j \in Ids \ {d} : Same(j)
    BY <2>1 DEF Same
  <2>6. Clean' => Clean
    BY <1>5, <1>c DEF CreateDirectory
  <2>7. \A x \in Workers \ {w} : op[x].pc \in Owning => op[x].dir # d
    BY <1>k, <2>0 DEF CallOK, Ids
  <2>8. /\ \A x \in Workers \ {w} : op'[x] = op[x]
        /\ CallOK(w)' /\ (op'[w].pc \in Owning => op'[w].dir = d)
        /\ Clean' => op'[w].dir = d
    <3>1. CASE Return(w) /\ Fault("lostAnswer")
      BY <1>c, <3>1, ReturnEffect
    <3>2. CASE op' = [op EXCEPT ![w].pc = "export", ![w].dir = nextId]
      <4>1. /\ \A x \in Workers \ {w} : op'[x] = op[x]
            /\ op'[w].pc = "export" /\ op'[w].dir = d /\ op'[w].exp = op[w].exp
        BY <2>0, <3>2 DEF TypeOK
      <4> QED
        BY <2>2, <2>4, <4>1 DEF CallOK, Owning, Deleting, Exists
    <3> QED
      BY <1>5, <3>1, <3>2 DEF CreateDirectory
  <2>9. Unused(d)' /\ Complete(d)' /\ Kept(d)'
    BY <2>0, <2>4, <2>8, <1>0 DEF Unused, Complete, Kept, Ids, TypeOK
  <2>10. nextId <= nextId' /\ op[w].dir \in {0, d}
    BY <2>0, <2>1, <2>2 DEF Ids
  <2>11. pv[d] \in {"doomed", "deleted"} => pv'[d] \in {"doomed", "deleted"}
    BY <2>1
  <2> QED
    BY <1>0, <2>5, <2>6, <2>7, <2>8, <2>9, <2>10, <2>11, OneCallMoves
<1>6. ASSUME NEW w \in Workers,
             \/ CreateExport(w) \/ CreateExportFails(w)
             \/ AttachMetadata(w) \/ AttachMetadataFails(w) \/ GetServerFails(w)
             \/ UndoMeta(w) \/ UndoExport(w)
      PROVE  OwnerInv'
  <2>1. op[w].pc \in Owning
    BY <1>6 DEF CreateExport, CreateExportFails, AttachMetadata, AttachMetadataFails,
       GetServerFails, UndoMeta, UndoExport, At, Owning
  <2>2. nextId' = nextId /\ UNCHANGED pvVars /\ \A i \in Ids : fs'[i] = fs[i]
    BY <1>6 DEF CreateExport, CreateExportFails, AttachMetadata, AttachMetadataFails,
       GetServerFails, UndoMeta, UndoExport, arrayVars
  <2>3. Clean' => Clean
    BY <1>6, <1>c DEF CreateExport, CreateExportFails, AttachMetadata,
       AttachMetadataFails, GetServerFails, UndoMeta, UndoExport
  <2>4. \A i \in Ids \ {op[w].dir} :
          (i \in exports' <=> i \in exports) /\ (i \in meta' <=> i \in meta)
    BY <1>6 DEF CreateExport, CreateExportFails, AttachMetadata, AttachMetadataFails,
       GetServerFails, UndoMeta, UndoExport, arrayVars
  <2>5. \A i \in Ids \ {op[w].dir} : Same(i)
    BY <2>2, <2>4 DEF Same, pvVars
  <2>6. /\ \A x \in Workers \ {w} : op'[x] = op[x]
        /\ op'[w].dir = op[w].dir
    <3>1. CASE \E pc \in Pcs : Goto(w, pc)
      BY <3>1, GotoEffect
    <3>2. CASE op' = [op EXCEPT ![w].pc = "attach", ![w].exp = TRUE]
      BY <3>2 DEF TypeOK
    <3> QED
      BY <1>6, <3>1, <3>2
      DEF CreateExport, CreateExportFails, AttachMetadata, AttachMetadataFails,
          GetServerFails, UndoMeta, UndoExport, Pcs
  <2>7. PICK d \in Ids : d = op[w].dir /\ op'[w].dir = d /\ pv'[d] = "none" /\ d < nextId'
    BY <1>k, <2>1, <2>2, <2>6 DEF CallOK, pvVars
  <2>8. op'[w].pc \in Owning /\ CallOK(w)'
    <3>1. CASE CreateExport(w)
      <4>1. Exists(d) /\ d \notin exports /\ ~op[w].exp
        BY <1>k, <2>7, <3>1 DEF CreateExport, At, CallOK
      <4>2. CASE Goto(w, "attach") /\ exports' = exports
        BY <2>2, <2>7, <4>1, <4>2, GotoEffect DEF CallOK, Owning, Deleting, Exists
      <4>3. CASE /\ exports' = exports \cup {op[w].dir}
                 /\ op' = [op EXCEPT ![w].pc = "attach", ![w].exp = TRUE]
        <5>1. op'[w].pc = "attach" /\ op'[w].exp = TRUE
          BY <4>3 DEF TypeOK
        <5> QED
          BY <2>2, <2>7, <4>1, <4>3, <5>1 DEF CallOK, Owning, Deleting, Exists
      <4>4. CASE Fault("lostAnswer") /\ Goto(w, "undoDir")
        BY <1>c, <2>7, <4>4, GotoEffect DEF CallOK, Owning, Deleting
      <4> QED
        BY <3>1, <4>2, <4>3, <4>4 DEF CreateExport
    <3>2. CASE CreateExportFails(w)
      <4>1. d \notin exports /\ exports' = exports /\ Goto(w, "undoDir")
        BY <1>k, <2>7, <3>2 DEF CreateExportFails, At, CallOK, arrayVars
      <4> QED
        BY <2>7, <4>1, GotoEffect DEF CallOK, Owning, Deleting
    <3>3. CASE AttachMetadata(w)
      <4>1. /\ Exists(d) /\ exports' = exports /\ d \in meta'
            /\ op[w].exp => d \in exports
            /\ Clean /\ d \in exports => op[w].exp
        BY <1>k, <2>7, <3>3 DEF AttachMetadata, At, CallOK
      <4>2. Goto(w, "server") \/ Goto(w, "undoExport")
        BY <3>3 DEF AttachMetadata
      <4>3. Exists(d)'
        BY <2>2, <4>1 DEF Exists
      <4> QED
        BY <2>3, <2>7, <4>1, <4>2, <4>3, GotoEffect DEF CallOK, Owning, Deleting, Exists
    <3>4. CASE AttachMetadataFails(w) \/ GetServerFails(w)
      <4>1. exports' = exports /\ (Clean /\ d \in exports => op[w].exp)
        BY <1>k, <2>7, <3>4 DEF AttachMetadataFails, GetServerFails, At, CallOK, arrayVars
      <4>2. Goto(w, "undoExport") \/ Goto(w, "undoMeta")
        BY <3>4 DEF AttachMetadataFails, GetServerFails
      <4> QED
        BY <2>3, <2>7, <4>1, <4>2, GotoEffect DEF CallOK, Owning, Deleting
    <3>5. CASE UndoMeta(w)
      <4>1. /\ exports' = exports /\ (Clean /\ d \in exports => op[w].exp)
            /\ Goto(w, "undoExport")
        BY <1>k, <2>7, <3>5 DEF UndoMeta, At, CallOK
      <4> QED
        BY <2>3, <2>7, <4>1, GotoEffect DEF CallOK, Owning, Deleting
    <3>6. CASE UndoExport(w)
      <4>1. (Clean /\ d \in exports => op[w].exp) /\ Goto(w, "undoDir")
        BY <1>k, <2>7, <3>6 DEF UndoExport, At, CallOK
      <4>2. Clean' => d \notin exports'
        BY <1>c, <2>3, <2>7, <3>6, <4>1 DEF UndoExport
      <4> QED
        BY <2>7, <4>1, <4>2, GotoEffect DEF CallOK, Owning, Deleting
    <3> QED
      BY <1>6, <3>1, <3>2, <3>3, <3>4, <3>5, <3>6
  <2> QED
    BY <1>0, <2>1, <2>2, <2>3, <2>5, <2>6, <2>8, OwnerGoesOn
<1>7. ASSUME NEW w \in Workers, GetServer(w)
      PROVE  OwnerInv'
  <2>1. /\ op[w].pc = "server" /\ UNCHANGED <<fs, exports, meta, nextId>>
        /\ Return(w) /\ Clean' = Clean
    BY <1>7 DEF GetServer, At, arrayVars, Clean
  <2>2. PICK d \in Ids : d = op[w].dir
    BY <1>k, <2>1 DEF CallOK, Owning
  <2>3. /\ pv[d] = "none" /\ Exists(d) /\ d \in meta /\ (op[w].exp => d \in exports)
        /\ pv'[d] = "ready" /\ pvExport'[d] = op[w].exp
        /\ \A i \in Ids \ {d} : pv'[i] = pv[i] /\ pvExport'[i] = pvExport[i]
    BY <1>7, <1>k, <2>1, <2>2 DEF GetServer, TypeOK, CallOK, Owning
  <2>4. \A i \in Ids \ {d} : Same(i)
    BY <2>1, <2>3 DEF Same
  <2>5. Complete(d)' /\ Kept(d)'
    BY <2>1, <2>3 DEF Complete, Kept, Exists
  <2> QED
    BY <1>0, <2>1, <2>2, <2>3, <2>4, <2>5, ReturnEffect, OwnStep
<1>8. ASSUME NEW w \in Workers, UndoDir(w)
      PROVE  OwnerInv'
  <2>1. op[w].pc = "undoDir" /\ Return(w) /\ UNCHANGED pvVars
    BY <1>8 DEF UndoDir, At
  <2>2. PICK d \in Ids : d = op[w].dir
    BY <1>k, <2>1 DEF CallOK, Owning
  <2>3. pv[d] = "none" /\ (Clean => d \notin exports)
    BY <1>k, <2>1, <2>2 DEF CallOK, Owning
  <2>4. Clean' => Clean
    BY <1>8, <1>c DEF UndoDir
  <2>5. CASE UNCHANGED arrayVars
    <3>1. ~Clean' \/ ~Exists(d)
      BY <1>8, <1>c, <2>2, <2>3, <2>4, <2>5
      DEF UndoDir, Live, Existing, Exists, DestroyFs, arrayVars, TypeOK
    <3> QED
      BY <1>0, <2>1, <2>2, <2>4, <2>5, <3>1, CallEnds
  <2>6. CASE DestroyFs(d)
    <3>1. /\ \A i \in Ids \ {d} : Same(i)
          /\ fs'[d] = NoName /\ nextId' = nextId /\ pv'[d] = "none"
      BY <2>1, <2>3, <2>6 DEF DestroyFs, Same, pvVars, TypeOK
    <3>2. Complete(d)' /\ Kept(d)'
      BY <3>1 DEF Complete, Kept, Exists
    <3> QED
      BY <1>0, <2>1, <2>2, <2>3, <2>4, <3>1, <3>2, ReturnEffect, OwnStep
  <2> QED
    BY <1>8, <2>2, <2>5, <2>6 DEF UndoDir
<1>9. ASSUME NEW w \in Workers, DeleteExport(w) \/ DetachMetadata(w) \/ DeleteDirectory(w)
      PROVE  OwnerInv'
  <2>1. op[w].pc \in Deleting
    BY <1>9 DEF DeleteExport, DetachMetadata, DeleteDirectory, At, Deleting
  <2>2. PICK d \in Ids : d = op[w].dir /\ pv[d] \in {"doomed", "deleted"}
    BY <1>k, <2>1 DEF CallOK
  <2>3. nextId' = nextId
    BY <1>9 DEF DeleteExport, DetachMetadata, DeleteDirectory, DestroyFs
  <2>4. Clean' => Clean
    BY <1>9, <1>c DEF DeleteExport, DetachMetadata, DeleteDirectory
  <2>5. /\ pv'[d] \in {"doomed", "deleted"}
        /\ \A i \in Ids \ {d} : pv'[i] = pv[i] /\ pvExport'[i] = pvExport[i]
    BY <1>9, <2>2 DEF DeleteExport, DetachMetadata, DeleteDirectory, pvVars, TypeOK
  <2>6. \A i \in Ids \ {d} :
          fs'[i] = fs[i] /\ (i \in exports' <=> i \in exports) /\ (i \in meta' <=> i \in meta)
    BY <1>9, <2>2 DEF DeleteExport, DetachMetadata, DeleteDirectory, DestroyFs, TypeOK
  <2>7. \A i \in Ids \ {d} : Same(i)
    BY <2>5, <2>6 DEF Same
  <2>8. /\ \A x \in Workers \ {w} : op'[x] = op[x]
        /\ op'[w].pc \notin Owning /\ CallOK(w)'
    <3>1. CASE Return(w)
      BY <3>1, ReturnEffect
    <3>2. CASE Goto(w, "delMeta") \/ Goto(w, "delDir")
      <4>1. /\ \A x \in Workers \ {w} : op'[x] = op[x]
            /\ op'[w].pc \in {"delMeta", "delDir"} /\ op'[w].dir = d
        BY <2>2, <3>2, GotoEffect
      <4> QED
        BY <2>5, <4>1 DEF CallOK, Owning, Deleting
    <3> QED
      BY <1>9, <3>1, <3>2 DEF DeleteExport, DetachMetadata, DeleteDirectory
  <2> QED
    BY <1>0, <2>1, <2>2, <2>3, <2>4, <2>5, <2>7, <2>8, DeleterMoves
<1>10. CASE UNCHANGED vars
  BY <1>10 DEF vars, arrayVars, pvVars, OwnerInv, OneOwner, CallOK, Unused, Complete, Kept,
     Exists, Clean
<1> QED
  BY <1>1, <1>2, <1>3, <1>4, <1>5, <1>6, <1>7, <1>8, <1>9, <1>10
  DEF Next, Provision, Delete

\* Initially no filesystem exists and no call owns one.
LEMMA OwnerInit == Init => OwnerInv
<1> SUFFICES ASSUME Init PROVE OwnerInv
  OBVIOUS
<1>1. ASSUME NEW w \in Workers PROVE op[w].pc = "idle" /\ op[w].dir = 0 /\ ~op[w].exp
  BY DEF Init, Idle
<1>2. ASSUME NEW w \in Workers PROVE CallOK(w)
  BY <1>1 DEF CallOK, Owning, Deleting
<1>3. ASSUME NEW i \in Ids PROVE Unused(i) /\ Complete(i) /\ Kept(i)
  BY DEF Init, Unused, Complete, Kept, Exists
<1>4. OneOwner
  BY <1>1 DEF OneOwner, Owning
<1> QED
  BY <1>2, <1>3, <1>4 DEF OwnerInv

\* Ownership is an invariant.
LEMMA Owned == Spec => [](TypeOK /\ OwnerInv)
<1>1. TypeOK /\ OwnerInv /\ [Next]_vars => OwnerInv'
  BY OwnerStep
<1> QED
  BY <1>1, OwnerInit, TypeCorrect, PTL DEF Spec

\* A returned PV names a filesystem that is there with its metadata and the
\* export it is annotated with, however the rollbacks of other calls for the
\* same name interleave (nfs/provision.go:209-247).
THEOREM ReadyAlwaysComplete == Spec => []ReadyComplete
<1>1. TypeOK /\ OwnerInv => ReadyComplete
  BY DEF OwnerInv, Complete, Exists, ReadyComplete, Live, Existing
<1> QED
  BY <1>1, Owned, PTL

\* Where nothing but calls of Provision and Delete failed, every filesystem
\* has a PV or a call that will return or undo it (nfs/provision.go:209-247).
THEOREM NothingOrphaned == Spec => []NoOrphan
<1>1. TypeOK /\ OwnerInv => NoOrphan
  BY DEF OwnerInv, Kept, Clean, Exists, NoOrphan, Existing
<1> QED
  BY <1>1, Owned, PTL
=============================================================================
