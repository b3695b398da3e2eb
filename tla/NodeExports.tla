---------------------------- MODULE NodeExports ----------------------------
(***************************************************************************)
(* Which nodes of the cluster may mount which NFS volume.  Provision       *)
(* exports a new volume to the nodes that were in the controller's cache   *)
(* when it was called; after that only the handlers of node events         *)
(* (lib/controller nodeAdded, nodeDeleted and pkg/nfs UpdateMapping)       *)
(* change the export, with a GET and a PUT of its permissions per volume.  *)
(* Every replica handles every node event, one after the other, and sees   *)
(* volumes and nodes through caches of its own.  A node stands for its one *)
(* address.                                                                *)
(***************************************************************************)
EXTENDS Integers, Sequences, FiniteSets

CONSTANTS
  Controllers, Nodes, Volumes,
  InitialNodes,   \* the nodes when the replicas started
  InitialVolumes, \* the volumes that exist already
  MaxChanges,     \* bound: node additions and deletions
  MaxFaults,      \* bound: REST calls that fail
  MaxTombstones   \* bound: deletions that a relist of the nodes discovers

ASSUME ConstantsAssumption ==
  /\ InitialNodes \subseteq Nodes /\ InitialNodes # {}
  /\ IsFiniteSet(InitialNodes)
  /\ InitialVolumes \subseteq Volumes
  /\ {"idle", "get"} \cap Volumes = {}   \* a handler's pc may be a volume
  /\ MaxChanges \in Nat /\ MaxFaults \in Nat /\ MaxTombstones \in Nat

VARIABLES
  nodes,      \* the nodes of the cluster
  changes,    \* node events so far
  faults,     \* faults so far
  tombstones, \* tombstones so far
  volume,     \* volume[v]: none, being provisioned, created, or saved as a PV
  nodelist,   \* nodelist[v]: the nodes Provision was called with for v
  exports,    \* the volumes that have an export
  grant,      \* grant[v]: the nodes in the permissions of v's export
  queue,      \* queue[k]: the node events k's informer has yet to handle
  nodeCache,  \* nodeCache[k]: getNodeList()
  pvCache,    \* pvCache[k]: getPVList()
  handler     \* handler[k]: the UpdateMapping call of k in progress

clusterVars == <<nodes, changes>>
volumeVars == <<volume, nodelist, exports>>
boundVars == <<faults, tombstones>>
vars == <<clusterVars, volumeVars, boundVars, grant, queue, nodeCache, pvCache,
          handler>>

Events == [added : BOOLEAN, node : Nodes]
\* event: what happened; todo: the volumes still to come; known: the node
\* list; read: the permissions the GET returned.
Handlers == [pc : {"idle", "get"} \cup Volumes, event : Events,
             todo : SUBSET Volumes, known : SUBSET Nodes, read : SUBSET Nodes]
Idle == [pc |-> "idle", event |-> [added |-> TRUE, node |-> CHOOSE n \in Nodes : TRUE],
         todo |-> {}, known |-> {}, read |-> {}]

TypeOK ==
  /\ nodes \in SUBSET Nodes
  /\ changes \in 0 .. MaxChanges
  /\ faults \in 0 .. MaxFaults
  /\ tombstones \in 0 .. MaxTombstones
  /\ volume \in [Volumes -> {"none", "started", "created", "saved"}]
  /\ nodelist \in [Volumes -> SUBSET Nodes]
  /\ exports \in SUBSET Volumes
  /\ grant \in [Volumes -> SUBSET Nodes]
  /\ queue \in [Controllers -> Seq(Events)]
  /\ nodeCache \in [Controllers -> SUBSET Nodes]
  /\ pvCache \in [Controllers -> SUBSET Volumes]
  /\ handler \in [Controllers -> Handlers]

\* The orders in which an informer may be told of the nodes it lists first.
FirstEvents ==
  {s \in [1 .. Cardinality(InitialNodes) ->
           [added : {TRUE}, node : InitialNodes]] :
     \A i, j \in DOMAIN s : s[i] = s[j] => i = j}

\* The replicas have started: their volume informers have the first list, their
\* node informers are about to handle theirs.
Init ==
  /\ nodes = InitialNodes
  /\ changes = 0 /\ faults = 0 /\ tombstones = 0
  /\ volume = [v \in Volumes |-> IF v \in InitialVolumes THEN "saved" ELSE "none"]
  /\ nodelist = [v \in Volumes |-> {}]
  /\ exports = InitialVolumes
  /\ grant = [v \in Volumes |-> IF v \in InitialVolumes THEN InitialNodes ELSE {}]
  /\ queue \in [Controllers -> FirstEvents]
  /\ nodeCache = [k \in Controllers |-> {}]
  /\ pvCache = [k \in Controllers |-> InitialVolumes]
  /\ handler = [k \in Controllers |-> Idle]

Fault == faults < MaxFaults /\ faults' = faults + 1
Saved == {v \in Volumes : volume[v] = "saved"}

----------------------------------------------------------------------------
(* The cluster.                                                             *)

\* A node joins or leaves; every replica's informer will hear of it.
NodeEvent(e) ==
  /\ changes < MaxChanges
  /\ changes' = changes + 1
  /\ e.added <=> e.node \notin nodes
  /\ nodes' = IF e.added THEN nodes \cup {e.node} ELSE nodes \ {e.node}
  /\ queue' = [k \in Controllers |-> Append(queue[k], e)]
  /\ UNCHANGED <<volumeVars, boundVars, grant, nodeCache, pvCache, handler>>

\* provisionClaimOperation calls Provision with the nodes in k's cache.
StartProvision(k, v) ==
  /\ volume[v] = "none"
  /\ volume' = [volume EXCEPT ![v] = "started"]
  /\ nodelist' = [nodelist EXCEPT ![v] = nodeCache[k]]
  /\ UNCHANGED <<clusterVars, boundVars, exports, grant, queue, nodeCache,
                 pvCache, handler>>

\* Mutant: no look at the length of the node list.
CreateExportUnchecked(v) ==
  /\ volume[v] = "started"
  /\ volume' = [volume EXCEPT ![v] = "created"]
  /\ nodelist' = [nodelist EXCEPT ![v] = {}]
  /\ exports' = exports \cup {v}
  /\ grant' = [grant EXCEPT ![v] = nodelist[v]]
  /\ UNCHANGED <<clusterVars, boundVars, queue, nodeCache, pvCache, handler>>

\* createExport: the export of a new volume lists the nodes of the call; if
\* there are none, no export is made and that is no error: the PV's Export_Id
\* is 0, which is no export's.
CreateExport(v) ==
  /\ volume[v] = "started"
  /\ volume' = [volume EXCEPT ![v] = "created"]
  /\ nodelist' = [nodelist EXCEPT ![v] = {}]
  /\ IF nodelist[v] = {}
     THEN UNCHANGED <<exports, grant>>
     ELSE /\ exports' = exports \cup {v}
          /\ grant' = [grant EXCEPT ![v] = nodelist[v]]
  /\ UNCHANGED <<clusterVars, boundVars, queue, nodeCache, pvCache, handler>>

\* A call of Provision fails, or the save of the PV does: what was made is
\* taken back.
ProvisionFails(v) ==
  /\ volume[v] \in {"started", "created"}
  /\ Fault
  /\ volume' = [volume EXCEPT ![v] = "none"]
  /\ nodelist' = [nodelist EXCEPT ![v] = {}]
  /\ exports' = exports \ {v}
  /\ grant' = [grant EXCEPT ![v] = {}]
  /\ UNCHANGED <<clusterVars, tombstones, queue, nodeCache, pvCache, handler>>

\* provisionClaimOperation saves the PV object.
SaveVolume(v) ==
  /\ volume[v] = "created"
  /\ volume' = [volume EXCEPT ![v] = "saved"]
  /\ UNCHANGED <<clusterVars, boundVars, nodelist, exports, grant, queue,
                 nodeCache, pvCache, handler>>

\* The volume informer catches up.
SyncVolumes(k) ==
  /\ pvCache' = [pvCache EXCEPT ![k] = Saved]
  /\ UNCHANGED <<clusterVars, volumeVars, boundVars, grant, queue, nodeCache,
                 handler>>

----------------------------------------------------------------------------
(* nodeAdded, nodeDeleted and UpdateMapping.                                *)

\* The rest of the loop over the volumes.
Continue(k, rest) ==
  handler' = [handler EXCEPT ![k] =
    IF rest = {} THEN Idle ELSE [@ EXCEPT !.pc = "get", !.todo = rest, !.read = {}]]

\* The node cache after event e.
CacheAfter(k, e) ==
  IF e.added THEN nodeCache[k] \cup {e.node} ELSE nodeCache[k] \ {e.node}

\* An event is taken from the informer's queue: the cache is updated, then
\* UpdateMapping is called with the volumes and nodes cached now.  It returns
\* at once if there are none.
HandleEvent(k) ==
  LET e == Head(queue[k])
      known == CacheAfter(k, e)
  IN  /\ handler[k].pc = "idle"
      /\ queue[k] # <<>>
      /\ queue' = [queue EXCEPT ![k] = Tail(@)]
      /\ nodeCache' = [nodeCache EXCEPT ![k] = known]
      /\ handler' = [handler EXCEPT ![k] =
           IF pvCache[k] = {} \/ known = {}
           THEN Idle
           ELSE [pc |-> "get", event |-> e, todo |-> pvCache[k],
                 known |-> known, read |-> {}]]
      /\ UNCHANGED <<clusterVars, volumeVars, boundVars, grant, pvCache>>

\* The informer lost its watch and learns of a deletion from a new list: it
\* hands nodeDeleted a DeletedFinalStateUnknown, which is no *v1.Node, and
\* nodeDeleted returns.
HandleTombstone(k) ==
  /\ tombstones < MaxTombstones
  /\ tombstones' = tombstones + 1
  /\ handler[k].pc = "idle"
  /\ queue[k] # <<>>
  /\ ~Head(queue[k]).added
  /\ queue' = [queue EXCEPT ![k] = Tail(@)]
  /\ nodeCache' = [nodeCache EXCEPT ![k] = CacheAfter(k, Head(queue[k]))]
  /\ UNCHANGED <<clusterVars, volumeVars, faults, grant, pvCache, handler>>

\* The GET of the export of v; a node that is in it already is not added.  The
\* GET of export 0 is refused, and the error ends UpdateMapping.
GetExport(k, v) ==
  /\ handler[k].pc = "get"
  /\ v \in handler[k].todo
  /\ IF v \notin exports
     THEN Continue(k, {})
     ELSE IF handler[k].event.added /\ handler[k].event.node \in grant[v]
     THEN Continue(k, handler[k].todo \ {v})
     ELSE handler' = [handler EXCEPT ![k].pc = v, ![k].read = grant[v]]
  /\ UNCHANGED <<clusterVars, volumeVars, boundVars, grant, queue, nodeCache,
                 pvCache>>

\* Mutant: after an addition the new node alone is PUT.
NewPermissionsAddedOnly(h) ==
  IF h.event.added THEN {h.event.node} ELSE h.known

\* Mutant: the node object is added rather than its address.
NewPermissionsObject(h) ==
  IF h.event.added THEN h.read \cup {h.event} ELSE h.known

\* What is PUT: the permissions read and the added node, or after a deletion
\* the whole node list.
NewPermissions(h) ==
  IF h.event.added THEN h.read \cup {h.event.node} ELSE h.known

\* callUpdateExportRules; it PUTs nothing if there are no permissions.
PutExport(k, v) ==
  /\ handler[k].pc = v
  /\ grant' = [grant EXCEPT ![v] =
       IF NewPermissions(handler[k]) = {} THEN @ ELSE NewPermissions(handler[k])]
  /\ Continue(k, handler[k].todo \ {v})
  /\ UNCHANGED <<clusterVars, volumeVars, boundVars, queue, nodeCache, pvCache>>

\* An error of a GET or a PUT ends UpdateMapping: the volumes that would have
\* come later are not updated either.
UpdateFails(k) ==
  /\ handler[k].pc # "idle"
  /\ Fault
  /\ handler' = [handler EXCEPT ![k] = Idle]
  /\ UNCHANGED <<clusterVars, volumeVars, tombstones, grant, queue, nodeCache,
                 pvCache>>

----------------------------------------------------------------------------
UpdateMapping(k) ==
  \E v \in Volumes : GetExport(k, v) \/ PutExport(k, v)

Next ==
  \/ \E e \in Events : NodeEvent(e)
  \/ \E v \in Volumes : CreateExport(v) \/ ProvisionFails(v) \/ SaveVolume(v)
  \/ \E k \in Controllers :
       \/ \E v \in Volumes : StartProvision(k, v)
       \/ SyncVolumes(k) \/ HandleEvent(k) \/ HandleTombstone(k)
       \/ UpdateMapping(k) \/ UpdateFails(k)

Spec == Init /\ [][Next]_vars

\* Informers deliver, handlers run, a volume that is started is made and saved.
Fairness ==
  /\ \A v \in Volumes : WF_vars(CreateExport(v)) /\ WF_vars(SaveVolume(v))
  /\ \A k \in Controllers :
       WF_vars(SyncVolumes(k)) /\ WF_vars(HandleEvent(k))
         /\ WF_vars(UpdateMapping(k))

FairSpec == Spec /\ Fairness

----------------------------------------------------------------------------
(* Properties.                                                              *)

\* No interleaving of handlers, provisioning and failed calls ever makes an
\* export that lists no node, or takes its last node out of it
\* (provision.go:460, 517-523, 575-598): UpdateMapping could not handle such an
\* export, whose first permission it reads (550).
AlwaysMountable == \A v \in exports : grant[v] # {}

\* Once nodes stop coming and going, every volume the replicas started with is
\* exported to exactly the nodes of the cluster, for good.
ExportsRight == <>[](\A v \in InitialVolumes : grant[v] = nodes)

\* Nothing went wrong in a cluster with a single replica: it was never without
\* nodes, no call failed, and no PV was saved without an export.
NoTrouble ==
  /\ Cardinality(Controllers) = 1 /\ nodes # {}
  /\ faults = 0 /\ Saved \subseteq exports

\* A single replica handles the node events one after the other, with a read
\* and a write per export (provision.go:525-595), from its first list of nodes
\* on and while volumes are provisioned: if nothing went wrong and no deletion
\* of a node was learnt from a relist only (controller.go:502-505: the handler
\* drops it, and the exports keep the node), the exports become right.
ExportsConverge == [](NoTrouble /\ tombstones = 0) => ExportsRight
=============================================================================
