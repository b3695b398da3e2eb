-------------------------- MODULE BlockProvisioner --------------------------
(***************************************************************************)
(* pkg/iscsi and pkg/fc, which differ in how they undo: Provision creates  *)
(* a volume on the InfiniBox, maps it to every node under one LUN and      *)
(* attaches metadata; Delete reverses that; UpdateMapping maps the         *)
(* volumes to a node that joins and unmaps them from one that leaves.      *)
(*                                                                         *)
(* One replica is modelled: its goroutines ("workers") run Provision and   *)
(* Delete, one per PV, next to the handler of node events.  Every node is  *)
(* registered as a host on the array.  The array gives each volume a fresh *)
(* id, refuses a name or a LUN that is in use, and picks any free LUN when *)
(* none is asked for.  Removing metadata that is not there is no error.    *)
(* Calls that only read, up to the count of volumes, are one step with it. *)
(***************************************************************************)
EXTENDS Integers, FiniteSets

CONSTANTS
  Setups,         \* which back end, and what kind of array; see setup
  Workers, Names, NoName,
  Hosts, InitialNodes,
  MaxLun,         \* LUNs are 0 .. MaxLun
  MaxVolume,      \* config["max_volume"]
  Faults,         \* error, undoError, lostAnswer, countError, skippedHost,
                  \* noAddress, crash
  MaxFaults,      \* bound: how many faults happen
  MaxChanges,     \* bound: node events
  MaxId           \* bound: volumes ever created

ASSUME ConstantsAssumption ==
  /\ Setups \subseteq [fc : BOOLEAN, destroyMapped : BOOLEAN]
  /\ IsFiniteSet(Workers) /\ Workers # {} /\ NoName \notin Names
  /\ InitialNodes \subseteq Hosts
  /\ {MaxLun, MaxVolume, MaxFaults, MaxChanges, MaxId} \subseteq Nat
  /\ Faults \subseteq {"error", "undoError", "lostAnswer", "countError",
                       "skippedHost", "noAddress", "crash"}

Ids == 1 .. MaxId
NoLun == -1
LunOrNone == NoLun .. MaxLun

VARIABLES
  setup,    \* fc: pkg/fc rather than pkg/iscsi; destroyMapped: the array
            \* destroys a volume that is mapped.  It never changes.
  vol,      \* vol[i]: the name of volume i, NoName if it does not exist
  meta,     \* the volumes with metadata
  lun,      \* lun[h][i]: the LUN under which host h sees volume i
  nextId,   \* the id of the next volume
  faults,   \* how many faults happened so far, and of which kinds
  nodes,    \* getNodeList()
  changes,  \* node events so far
  pv,       \* pv[i]: what became of the PV object for volume i
  pvLun,    \* pvLun[i]: the LUN in that PV
  pvCache,  \* getPVList()
  op,       \* op[w]: the Provision or Delete worker w is in
  handler   \* what is left to do of UpdateMapping

arrayVars == <<vol, meta, lun, nextId>>
nodeVars == <<nodes, changes, handler>>
pvVars == <<pv, pvLun, pvCache>>
vars == <<setup, arrayVars, faults, nodeVars, pvVars, op>>

Pcs == {"idle", "count", "create", "map", "attach", "unmap",
        "delMeta", "delMap", "delVol"}
\* hosts: GetHostList; todo: those a loop has yet to visit; lun: lunNo
Idle == [pc |-> "idle", name |-> NoName, id |-> 0, hosts |-> {}, todo |-> {},
         lun |-> NoLun]
\* The pairs of a volume and a host yet to be mapped, and those yet to be
\* unmapped from the node that left.
NoHandler == [map |-> {}, unmap |-> {}]

TypeOK ==
  /\ setup \in Setups
  /\ vol \in [Ids -> Names \cup {NoName}]
  /\ meta \in SUBSET Ids
  /\ lun \in [Hosts -> [Ids -> LunOrNone]]
  /\ nextId \in 1 .. MaxId + 1
  /\ faults \in [count : 0 .. MaxFaults, kinds : SUBSET Faults]
  /\ nodes \in SUBSET Hosts
  /\ changes \in 0 .. MaxChanges
  /\ pv \in [Ids -> {"none", "ready", "doomed", "deleted"}]
  /\ pvLun \in [Ids -> LunOrNone]
  /\ pvCache \in SUBSET Ids
  /\ op \in [Workers -> [pc : Pcs, name : Names \cup {NoName}, id : 0 .. MaxId,
                         hosts : SUBSET Hosts, todo : SUBSET Hosts,
                         lun : LunOrNone]]
  /\ handler \in [map : SUBSET (Ids \X Hosts), unmap : SUBSET (Ids \X Hosts)]
  /\ \A i \in Ids : pv[i] # "none" => pvLun[i] # NoLun

Init ==
  /\ setup \in Setups
  /\ vol = [i \in Ids |-> NoName]
  /\ meta = {} /\ nextId = 1 /\ changes = 0
  /\ faults = [count |-> 0, kinds |-> {}]
  /\ lun = [h \in Hosts |-> [i \in Ids |-> NoLun]]
  /\ nodes = InitialNodes
  /\ pv = [i \in Ids |-> "none"]
  /\ pvLun = [i \in Ids |-> NoLun]
  /\ pvCache = {}
  /\ op = [w \in Workers |-> Idle]
  /\ handler = NoHandler

Fault(f) ==
  /\ f \in Faults /\ faults.count < MaxFaults
  /\ faults' = [count |-> faults.count + 1, kinds |-> faults.kinds \cup {f}]
NoFault == UNCHANGED faults
At(w, pc) == op[w].pc = pc
Goto(w, pc) == op' = [op EXCEPT ![w].pc = pc]
Loop(w, pc) == op' = [op EXCEPT ![w].pc = pc, ![w].todo = op[w].hosts]
Return(w) == op' = [op EXCEPT ![w] = Idle]
Existing == {i \in Ids : vol[i] # NoName}
Live(i) == i \in Existing
Mapped(h, i) == lun[h][i] # NoLun
LunFree(h, l) == \A i \in Ids : lun[h][i] # l
SetLun(h, i, l) == lun' = [lun EXCEPT ![h][i] = l]

----------------------------------------------------------------------------
(* Provision.                                                               *)

\* GetHostList for the nodes ns: a node for which the answer of the array
\* cannot be decoded, or has no metadata, is left out, which is no error.
HostList(ns, found) ==
  /\ found \subseteq ns
  /\ IF found = ns THEN NoFault ELSE Fault("skippedHost")

\* scheduleOperation runs one Provision per PV name at a time.
StartProvision(w, n) ==
  /\ At(w, "idle")
  /\ \A x \in Workers : op[x].name # n
  /\ \E found \in SUBSET nodes :
       /\ HostList(nodes, found)
       /\ op' = [op EXCEPT ![w].pc = "count", ![w].name = n, ![w].hosts = found]
  /\ UNCHANGED <<setup, arrayVars, nodeVars, pvVars>>

\* A network space, the pool, the target ports or the hosts cannot be read.
PrepareFails(w) ==
  /\ At(w, "count")
  /\ Fault("error")
  /\ Return(w)
  /\ UNCHANGED <<setup, arrayVars, nodeVars, pvVars>>

\* Mutant: the comparison lets one more than max_volume through.
CheckLimitLate(w) ==
  /\ At(w, "count")
  /\ IF Cardinality(Existing) > MaxVolume THEN Return(w) ELSE Goto(w, "create")
  /\ UNCHANGED <<setup, arrayVars, faults, nodeVars, pvVars>>

\* getNumberOfVolumes and the limit.  When the count fails, that is logged
\* and the limit is compared with 0.
CheckLimit(w) ==
  /\ At(w, "count")
  /\ \E counted \in {Cardinality(Existing), 0} :
       /\ IF counted = Cardinality(Existing) THEN NoFault ELSE Fault("countError")
       /\ IF counted >= MaxVolume THEN Return(w) ELSE Goto(w, "create")
  /\ UNCHANGED <<setup, arrayVars, nodeVars, pvVars>>

\* Mutant: fc's rollback deletes the volume without unmapping it.
VolDestroyMapped(w) == Goto(w, "delVol")

\* The rollback: iscsi's volDestroy deletes the volume, fc's first detaches
\* the metadata and unmaps the hosts, like Delete.
VolDestroy(w) == Goto(w, IF setup.fc THEN "delMeta" ELSE "delVol")

\* POST api/rest/volumes.  A volume without a host to map it to is undone.
VolCreate(w) ==
  /\ At(w, "create")
  /\ nextId <= MaxId
  /\ \A i \in Ids : vol[i] # op[w].name
  /\ vol' = [vol EXCEPT ![nextId] = op[w].name]
  /\ nextId' = nextId + 1
  /\ \/ /\ NoFault
        /\ op' = [op EXCEPT ![w].id = nextId, ![w].todo = op[w].hosts,
                    ![w].pc = IF op[w].hosts # {} THEN "map"
                              ELSE IF setup.fc THEN "delMeta" ELSE "delVol"]
     \/ Fault("lostAnswer") /\ Return(w)
  /\ UNCHANGED <<setup, meta, lun, nodeVars, pvVars>>

\* The name is taken, the array has no more room (the bound MaxId), or the
\* call fails.
VolCreateFails(w) ==
  /\ At(w, "create")
  /\ IF nextId > MaxId \/ \E i \in Ids : vol[i] = op[w].name
     THEN NoFault ELSE Fault("error")
  /\ Return(w)
  /\ UNCHANGED <<setup, arrayVars, nodeVars, pvVars>>

\* Mutant: LUN 0 is taken for "no LUN yet".
MayGetFromZero(w, h, l) == LunFree(h, l) /\ (op[w].lun > 0 => l = op[w].lun)

\* The array may map the volume to h as l: the first host gets a free LUN,
\* the others are asked for that one.
MayGet(w, h, l) == LunFree(h, l) /\ (op[w].lun > NoLun => l = op[w].lun)

\* Mutant: the LUN of the answer is not kept.
MappingForgetsLun(w, h) ==
  /\ At(w, "map")
  /\ h \in op[w].todo
  /\ Live(op[w].id)
  /\ \E l \in 0 .. MaxLun : MayGet(w, h, l) /\ SetLun(h, op[w].id, l)
  /\ NoFault
  /\ op' = [op EXCEPT ![w].todo = @ \ {h},
              ![w].pc = IF op[w].todo = {h} THEN "attach" ELSE "map"]
  /\ UNCHANGED <<setup, vol, meta, nextId, nodeVars, pvVars>>

\* One round of mapVolumeToHost.
Mapping(w, h) ==
  /\ At(w, "map")
  /\ h \in op[w].todo
  /\ Live(op[w].id)
  /\ \E l \in 0 .. MaxLun :
       /\ MayGet(w, h, l)
       /\ SetLun(h, op[w].id, l)
       /\ \/ /\ NoFault
             /\ op' = [op EXCEPT ![w].lun = IF l > @ THEN l ELSE @,
                         ![w].todo = @ \ {h},
                         ![w].pc = IF op[w].todo = {h} THEN "attach" ELSE "map"]
          \/ Fault("lostAnswer") /\ VolDestroy(w)
  /\ UNCHANGED <<setup, vol, meta, nextId, nodeVars, pvVars>>

\* Mutant: a host that refuses is skipped.
MappingFailsSkip(w, h) ==
  /\ At(w, "map")
  /\ h \in op[w].todo
  /\ Fault("error")
  /\ op' = [op EXCEPT ![w].lun = IF @ = NoLun THEN 0 ELSE @, ![w].todo = @ \ {h},
              ![w].pc = IF op[w].todo = {h} THEN "attach" ELSE "map"]
  /\ UNCHANGED <<setup, arrayVars, nodeVars, pvVars>>

\* The LUN is taken on this host, or the call fails.
MappingFails(w, h) ==
  /\ At(w, "map")
  /\ h \in op[w].todo
  /\ IF \E l \in 0 .. MaxLun : MayGet(w, h, l) THEN Fault("error") ELSE NoFault
  /\ VolDestroy(w)
  /\ UNCHANGED <<setup, arrayVars, nodeVars, pvVars>>

\* AttachMetadata; then the PV is returned, unless iscsi's network space has
\* no address: IPList[0] panics when nothing is left to undo the volume.
AttachMetadata(w) ==
  /\ At(w, "attach")
  /\ meta' = meta \cup {op[w].id}
  /\ \/ /\ NoFault
        /\ pv' = [pv EXCEPT ![op[w].id] = "ready"]
        /\ pvLun' = [pvLun EXCEPT ![op[w].id] = op[w].lun]
        /\ Return(w)
     \/ ~setup.fc /\ Fault("noAddress") /\ Return(w) /\ UNCHANGED <<pv, pvLun>>
     \/ Fault("lostAnswer") /\ Loop(w, "unmap") /\ UNCHANGED <<pv, pvLun>>
  /\ UNCHANGED <<setup, vol, lun, nextId, nodeVars, pvCache>>

AttachMetadataFails(w) ==
  /\ At(w, "attach")
  /\ Fault("error")
  /\ Loop(w, "unmap")
  /\ UNCHANGED <<setup, arrayVars, nodeVars, pvVars>>

\* The deferred loop over the hosts; its errors are ignored.
UndoMapping(w, h) ==
  /\ At(w, "unmap")
  /\ h \in op[w].todo
  /\ \/ NoFault /\ SetLun(h, op[w].id, NoLun)
     \/ Fault("undoError") /\ UNCHANGED lun
  /\ IF op[w].todo = {h} THEN VolDestroy(w) ELSE op' = [op EXCEPT ![w].todo = @ \ {h}]
  /\ UNCHANGED <<setup, vol, meta, nextId, nodeVars, pvVars>>

----------------------------------------------------------------------------
(* Delete, and the rollback from volDestroy on.                             *)

StartDelete(w, i) ==
  /\ At(w, "idle")
  /\ \A x \in Workers : op[x].id # i
  /\ pv[i] \in {"ready", "doomed"}
  /\ pv' = [pv EXCEPT ![i] = "doomed"]
  /\ op' = [op EXCEPT ![w].pc = "delMeta", ![w].id = i, ![w].hosts = nodes]
  /\ UNCHANGED <<setup, arrayVars, faults, nodeVars, pvLun, pvCache>>

\* A call of a rollback fails, or one of a Delete.
StepFault(w) == Fault(IF pv[op[w].id] = "none" THEN "undoError" ELSE "error")

\* DetachMetadata, then GetHostList: when it fails, that is logged and the
\* hosts found so far are unmapped; a node it leaves out is not unmapped either.
DetachMetadata(w) ==
  LET i == op[w].id
  IN  /\ At(w, "delMeta")
      /\ \/ /\ Live(i)
            /\ meta' = meta \ {i}
            /\ \E found \in SUBSET op[w].hosts :
                 /\ IF found = op[w].hosts THEN NoFault ELSE StepFault(w)
                 /\ op' = [op EXCEPT ![w].todo = found,
                             ![w].pc = IF found = {} THEN "delVol" ELSE "delMap"]
         \/ Live(i) /\ StepFault(w) /\ Return(w) /\ UNCHANGED meta
         \/ Live(i) /\ Fault("lostAnswer") /\ Return(w) /\ meta' = meta \ {i}
         \/ ~Live(i) /\ NoFault /\ Return(w) /\ UNCHANGED meta
      /\ UNCHANGED <<setup, vol, lun, nextId, nodeVars, pvVars>>

\* LUN_NOT_FOUND is ignored, every other error ends the loop.
UnMap(w, h) ==
  LET i == op[w].id
  IN  /\ At(w, "delMap")
      /\ h \in op[w].todo
      /\ \/ /\ NoFault
            /\ SetLun(h, i, NoLun)
            /\ op' = [op EXCEPT ![w].todo = @ \ {h},
                        ![w].pc = IF op[w].todo = {h} THEN "delVol" ELSE "delMap"]
         \/ StepFault(w) /\ Return(w) /\ UNCHANGED lun
         \/ Fault("lostAnswer") /\ Return(w) /\ SetLun(h, i, NoLun)
      /\ UNCHANGED <<setup, vol, meta, nextId, nodeVars, pvVars>>

\* The array destroys volume i with what hangs on it.
Destroy(i) ==
  /\ vol' = [vol EXCEPT ![i] = NoName]
  /\ meta' = meta \ {i}
  /\ lun' = [h \in Hosts |-> [lun[h] EXCEPT ![i] = NoLun]]
  /\ UNCHANGED nextId

MayDestroy(i) == Live(i) /\ (setup.destroyMapped \/ \A h \in Hosts : ~Mapped(h, i))

DeleteVolume(w) ==
  LET i == op[w].id
  IN  /\ At(w, "delVol")
      /\ MayDestroy(i)
      /\ Destroy(i)
      /\ \/ NoFault /\ pv' = [pv EXCEPT ![i] = IF @ = "doomed" THEN "deleted" ELSE @]
         \/ Fault("lostAnswer") /\ UNCHANGED pv
      /\ Return(w)
      /\ UNCHANGED <<setup, nodeVars, pvLun, pvCache>>

DeleteVolumeFails(w) ==
  /\ At(w, "delVol")
  /\ IF MayDestroy(op[w].id) THEN StepFault(w) ELSE NoFault
  /\ Return(w)
  /\ UNCHANGED <<setup, arrayVars, nodeVars, pvVars>>

----------------------------------------------------------------------------
(* Node events: UpdateMapping.                                              *)

\* The volume informer catches up.
SyncVolumes ==
  /\ pvCache' = {i \in Ids : pv[i] \in {"ready", "doomed"}}
  /\ UNCHANGED <<setup, arrayVars, faults, nodeVars, pv, pvLun, op>>

HandlerIdle == handler.map = {} /\ handler.unmap = {}

\* The informer updates its cache and calls the handler, which returns at
\* once when the hosts cannot be read; or nodeDeleted is handed a tombstone and
\* does not call it.
NodeEvent(n) ==
  /\ HandlerIdle
  /\ changes < MaxChanges
  /\ changes' = changes + 1
  /\ nodes' = IF n \in nodes THEN nodes \ {n} ELSE nodes \cup {n}
  /\ \/ \E found \in SUBSET nodes' :
          /\ HostList(nodes', found)
          /\ handler' = [map |-> pvCache \X found,
                         unmap |-> IF n \in nodes THEN pvCache \X {n} ELSE {}]
     \/ Fault("error") /\ UNCHANGED handler
  /\ UNCHANGED <<setup, arrayVars, pvVars, op>>

\* One POST of the loop over the volumes and the hosts, which asks for the
\* LUN in the PV.  Errors are logged and forgotten.
UpdateMapping(i, h) ==
  /\ <<i, h>> \in handler.map
  /\ handler' = [handler EXCEPT !.map = @ \ {<<i, h>>}]
  /\ IF Live(i) /\ ~Mapped(h, i) /\ LunFree(h, pvLun[i])
     THEN \/ NoFault /\ SetLun(h, i, pvLun[i])
          \/ Fault("error") /\ UNCHANGED lun
     ELSE NoFault /\ UNCHANGED lun
  /\ UNCHANGED <<setup, vol, meta, nextId, nodes, changes, pvVars, op>>

\* After that, the volumes are unmapped from the node that left.
UnmapNode(i, h) ==
  /\ handler.map = {}
  /\ <<i, h>> \in handler.unmap
  /\ handler' = [handler EXCEPT !.unmap = @ \ {<<i, h>>}]
  /\ \/ NoFault /\ SetLun(h, i, NoLun)
     \/ Fault("error") /\ UNCHANGED lun
  /\ UNCHANGED <<setup, vol, meta, nextId, nodes, changes, pvVars, op>>

\* The process dies and is started again.
Crash ==
  /\ Fault("crash")
  /\ op' = [w \in Workers |-> Idle]
  /\ handler' = NoHandler
  /\ UNCHANGED <<setup, arrayVars, nodes, changes, pvVars>>

----------------------------------------------------------------------------
Provision(w) ==
  \/ PrepareFails(w) \/ CheckLimit(w)
  \/ VolCreate(w) \/ VolCreateFails(w)
  \/ AttachMetadata(w) \/ AttachMetadataFails(w)
  \/ \E h \in Hosts : Mapping(w, h) \/ MappingFails(w, h) \/ UndoMapping(w, h)

Delete(w) ==
  \/ DetachMetadata(w)
  \/ \E h \in Hosts : UnMap(w, h)
  \/ DeleteVolume(w) \/ DeleteVolumeFails(w)

HandlerStep ==
  \E i \in Ids, h \in Hosts : UpdateMapping(i, h) \/ UnmapNode(i, h)

Next ==
  \/ \E w \in Workers :
       \/ \E n \in Names : StartProvision(w, n)
       \/ \E i \in Ids : StartDelete(w, i)
       \/ Provision(w) \/ Delete(w)
  \/ \E n \in Hosts : NodeEvent(n)
  \/ SyncVolumes \/ HandlerStep \/ Crash

Spec == Init /\ [][Next]_vars

----------------------------------------------------------------------------
(* Properties.                                                              *)

\* "because we want same lun number to all host for single volume"
\* (iscsi/provision.go:394): every host that sees a volume sees it under the
\* LUN in the PV, also after node events that race with Provision and Delete.
SameLun ==
  \A i \in Ids, h \in Hosts :
    pv[i] \in {"ready", "doomed"} /\ Mapped(h, i) => lun[h][i] = pvLun[i]

\* A volume that Provision returned and that nobody has begun to delete exists
\* and has its metadata and, as long as no node came or went, is mapped to some
\* node, and to every node unless GetHostList left one out, which it does
\* without an error (iscsi/provision.go:221-304, lib/commons/common.go:297-320).
ReadyComplete ==
  \A i \in Ids : pv[i] = "ready" =>
    /\ Live(i) /\ i \in meta
    /\ changes = 0 =>
         /\ \E h \in Hosts : Mapped(h, i)
         /\ "skippedHost" \notin faults.kinds => \A h \in nodes : Mapped(h, i)

\* What iscsi's rollback of a failed mapping leaves on an array that does not
\* destroy mapped volumes: it unmaps none of the hosts (iscsi/provision.go:252).
LeftMapped(i) ==
  ~setup.fc /\ ~setup.destroyMapped /\ \E h \in Hosts : Mapped(h, i)

\* What iscsi's panic on IPList[0] leaves: a complete volume
\* (iscsi/provision.go:198).
LeftByPanic(i) == "noAddress" \in faults.kinds /\ i \in meta

\* A failed Provision leaves nothing behind: every volume has a PV, or a call
\* that will return or undo it (iscsi/provision.go:249-300).  The exceptions are
\* the two of iscsi above, and runs in which a call of the rollback failed too,
\* an answer got lost or the process died.
NoOrphan ==
  faults.kinds \subseteq {"error", "countError", "skippedHost", "noAddress"} =>
    \A i \in Existing :
      \/ pv[i] # "none" \/ \E w \in Workers : op[w].id = i
      \/ LeftMapped(i) \/ LeftByPanic(i)

\* max_volume is a limit: calls that were let through count the same volumes,
\* so there can be too many, but never as many as one for each call that runs,
\* unless the count failed and the limit was compared with 0
\* (iscsi/provision.go:321-329).
Creating == {w \in Workers : At(w, "create")}
LimitOvershoot ==
  "countError" \notin faults.kinds =>
    Cardinality(Existing) + Cardinality(Creating) < MaxVolume + Cardinality(Workers)
=============================================================================
