------------------------- MODULE NodeExportsProofs -------------------------
(***************************************************************************)
(* For any number of replicas, nodes, volumes, node events and failed      *)
(* calls: the types of NodeExports, and that every export lists a node.    *)
(***************************************************************************)
EXTENDS NodeExports, FiniteSetTheorems, TLAPS

----------------------------------------------------------------------------
MountInv == TypeOK /\ AlwaysMountable

\* A handler that is not running is well formed.
LEMMA IdleOK == Idle \in Handlers /\ Idle.pc = "idle"
<1>1. (CHOOSE n \in Nodes : TRUE) \in Nodes
  <2>1. Nodes # {}
    BY ConstantsAssumption
  <2> QED
    BY <2>1, Zenon
<1> QED
  BY <1>1 DEF Idle, Handlers, Events

\* The first events are events.
LEMMA FirstEventsOK == FirstEvents \subseteq Seq(Events)
<1>1. Cardinality(InitialNodes) \in Nat
  BY ConstantsAssumption, FS_CardinalityType
<1>2. [added : {TRUE}, node : InitialNodes] \subseteq Events
  BY ConstantsAssumption DEF Events
<1>3. ASSUME NEW s \in FirstEvents
      PROVE  s \in Seq(Events)
  <2>1. PICK n \in Nat : s \in [1 .. n -> [added : {TRUE}, node : InitialNodes]]
    BY <1>1, <1>3 DEF FirstEvents
  <2>2. s \in [1 .. n -> Events]
    BY <1>2, <2>1
  <2> QED
    BY <2>2
<1> QED
  BY <1>3

\* Volumes that exist from the start are exported to the first nodes.
LEMMA MountInit == Init => MountInv
<1> SUFFICES ASSUME Init PROVE MountInv
  OBVIOUS
<1>1. queue \in [Controllers -> Seq(Events)]
  BY FirstEventsOK DEF Init
<1>2. handler \in [Controllers -> Handlers]
  BY IdleOK DEF Init
<1>3. TypeOK
  BY <1>1, <1>2, ConstantsAssumption DEF Init, TypeOK
<1>4. AlwaysMountable
  BY ConstantsAssumption DEF Init, AlwaysMountable
<1> QED
  BY <1>3, <1>4 DEF MountInv

\* Setting a replica's handler to a well-formed one.
LEMMA SetHandler ==
  ASSUME handler \in [Controllers -> Handlers],
         NEW k \in Controllers, NEW h \in Handlers,
         handler' = [handler EXCEPT ![k] = h]
  PROVE  handler' \in [Controllers -> Handlers]
OBVIOUS

\* Going on with the loop, or ending it.
LEMMA ContinueOK ==
  ASSUME handler \in [Controllers -> Handlers], NEW k \in Controllers,
         NEW rest \in SUBSET Volumes, Continue(k, rest)
  PROVE  handler' \in [Controllers -> Handlers]
<1>1. CASE rest = {}
  BY <1>1, IdleOK, SetHandler DEF Continue
<1>2. CASE rest # {}
  <2> DEFINE h == [handler[k] EXCEPT !.pc = "get", !.todo = rest, !.read = {}]
  <2>1. h \in Handlers
    BY DEF Handlers
  <2>2. handler' = [handler EXCEPT ![k] = h]
    BY <1>2 DEF Continue
  <2> HIDE DEF h
  <2> QED
    BY <2>1, <2>2, SetHandler
<1> QED
  BY <1>1, <1>2

\* What is PUT are nodes.
LEMMA NewPermissionsOK ==
  ASSUME NEW h \in Handlers
  PROVE  NewPermissions(h) \in SUBSET Nodes
BY DEF NewPermissions, Handlers, Events

\* The queue without its first event, and the cache after it.
LEMMA TakeEvent ==
  ASSUME TypeOK, NEW k \in Controllers, queue[k] # <<>>
  PROVE  /\ Head(queue[k]) \in Events /\ Tail(queue[k]) \in Seq(Events)
         /\ CacheAfter(k, Head(queue[k])) \in SUBSET Nodes
<1>1. queue[k] \in Seq(Events)
  BY DEF TypeOK
<1>2. Head(queue[k]) \in Events /\ Tail(queue[k]) \in Seq(Events)
  BY <1>1
<1> QED
  BY <1>2 DEF CacheAfter, TypeOK, Events

\* Every step keeps every export mountable.
LEMMA MountStep ==
  ASSUME MountInv, [Next]_vars
  PROVE  MountInv'
<1> USE DEF MountInv, clusterVars, volumeVars, boundVars
<1>1. ASSUME NEW e \in Events, NodeEvent(e)
      PROVE  MountInv'
  <2>1. nodes' \in SUBSET Nodes /\ changes' \in 0 .. MaxChanges
    BY <1>1, ConstantsAssumption DEF NodeEvent, TypeOK, Events
  <2>2. queue' \in [Controllers -> Seq(Events)]
    BY <1>1 DEF NodeEvent, TypeOK
  <2> QED
    BY <1>1, <2>1, <2>2 DEF NodeEvent, TypeOK, AlwaysMountable
<1>2. ASSUME NEW v \in Volumes, SaveVolume(v)
      PROVE  MountInv'
  BY <1>2 DEF SaveVolume, TypeOK, AlwaysMountable
<1>3. ASSUME NEW k \in Controllers, NEW v \in Volumes, StartProvision(k, v)
      PROVE  MountInv'
  BY <1>3 DEF StartProvision, TypeOK, AlwaysMountable
<1>4. ASSUME NEW v \in Volumes, CreateExport(v)
      PROVE  MountInv'
  <2>1. CASE nodelist[v] = {}
    BY <1>4, <2>1 DEF CreateExport, TypeOK, AlwaysMountable
  <2>2. CASE nodelist[v] # {}
    BY <1>4, <2>2 DEF CreateExport, TypeOK, AlwaysMountable
  <2> QED
    BY <2>1, <2>2
<1>5. ASSUME NEW v \in Volumes, ProvisionFails(v)
      PROVE  MountInv'
  BY <1>5, ConstantsAssumption DEF ProvisionFails, Fault, TypeOK, AlwaysMountable
<1>6. ASSUME NEW k \in Controllers, SyncVolumes(k)
      PROVE  MountInv'
  BY <1>6 DEF SyncVolumes, TypeOK, AlwaysMountable, Saved
<1>7. ASSUME NEW k \in Controllers, HandleEvent(k)
      PROVE  MountInv'
  <2> DEFINE e == Head(queue[k])
             known == CacheAfter(k, e)
             h == IF pvCache[k] = {} \/ known = {} THEN Idle
                  ELSE [pc |-> "get", event |-> e, todo |-> pvCache[k],
                        known |-> known, read |-> {}]
  <2>1. e \in Events /\ Tail(queue[k]) \in Seq(Events) /\ known \in SUBSET Nodes
    BY <1>7, TakeEvent DEF HandleEvent
  <2>2. /\ handler' = [handler EXCEPT ![k] = h]
        /\ nodeCache' = [nodeCache EXCEPT ![k] = known]
        /\ queue' = [queue EXCEPT ![k] = Tail(queue[k])]
        /\ UNCHANGED <<clusterVars, volumeVars, boundVars, grant, pvCache>>
    BY <1>7 DEF HandleEvent
  <2> HIDE DEF e, known
  <2>3. h \in Handlers
    BY <2>1, IdleOK DEF TypeOK, Handlers
  <2> HIDE DEF h
  <2>4. handler' \in [Controllers -> Handlers]
    BY <2>2, <2>3, SetHandler DEF TypeOK
  <2> QED
    BY <2>1, <2>2, <2>4 DEF TypeOK, AlwaysMountable
<1>8. ASSUME NEW k \in Controllers, HandleTombstone(k)
      PROVE  MountInv'
  <2>1. Tail(queue[k]) \in Seq(Events) /\ CacheAfter(k, Head(queue[k])) \in SUBSET Nodes
    BY <1>8, TakeEvent DEF HandleTombstone
  <2>2. tombstones' \in 0 .. MaxTombstones
    BY <1>8, ConstantsAssumption DEF HandleTombstone, TypeOK
  <2> QED
    BY <1>8, <2>1, <2>2 DEF HandleTombstone, TypeOK, AlwaysMountable
<1>9. ASSUME NEW k \in Controllers, NEW v \in Volumes, GetExport(k, v)
      PROVE  MountInv'
  <2>1. handler' \in [Controllers -> Handlers]
    <3>0. handler[k] \in Handlers
      BY DEF TypeOK
    <3>1. ASSUME NEW rest \in {{}, handler[k].todo \ {v}}, Continue(k, rest)
          PROVE  handler' \in [Controllers -> Handlers]
      <4>1. rest \in SUBSET Volumes
        BY <3>0 DEF Handlers
      <4> QED
        BY <3>1, <4>1, ContinueOK DEF TypeOK
    <3>2. CASE handler' = [handler EXCEPT ![k].pc = v, ![k].read = grant[v]]
      <4> DEFINE h == [handler[k] EXCEPT !.pc = v, !.read = grant[v]]
      <4>1. h \in Handlers
        BY <3>0 DEF TypeOK, Handlers
      <4>2. handler' = [handler EXCEPT ![k] = h]
        BY <3>2
      <4> HIDE DEF h
      <4> QED
        BY <4>1, <4>2, SetHandler DEF TypeOK
    <3> QED
      BY <1>9, <3>1, <3>2 DEF GetExport
  <2> QED
    BY <1>9, <2>1 DEF GetExport, TypeOK, AlwaysMountable
<1>10. ASSUME NEW k \in Controllers, NEW v \in Volumes, PutExport(k, v)
       PROVE  MountInv'
  <2>1. handler[k] \in Handlers
    BY DEF TypeOK
  <2>2. handler' \in [Controllers -> Handlers]
    <3>1. handler[k].todo \ {v} \in SUBSET Volumes
      BY <2>1 DEF Handlers
    <3> QED
      BY <1>10, <3>1, ContinueOK DEF PutExport, TypeOK
  <2>3. grant' \in [Volumes -> SUBSET Nodes] /\ AlwaysMountable'
    BY <1>10, <2>1, NewPermissionsOK DEF PutExport, TypeOK, AlwaysMountable
  <2> QED
    BY <1>10, <2>2, <2>3 DEF PutExport, TypeOK
<1>11. ASSUME NEW k \in Controllers, UpdateFails(k)
       PROVE  MountInv'
  <2>1. handler' \in [Controllers -> Handlers]
    BY <1>11, IdleOK, SetHandler DEF UpdateFails, TypeOK
  <2> QED
    BY <1>11, <2>1, ConstantsAssumption DEF UpdateFails, Fault, TypeOK, AlwaysMountable
<1>12. CASE UNCHANGED vars
  BY <1>12 DEF vars, TypeOK, AlwaysMountable
<1> QED
  BY <1>1, <1>2, <1>3, <1>4, <1>5, <1>6, <1>7, <1>8, <1>9, <1>10, <1>11, <1>12
  DEF Next, UpdateMapping

\* createExport's early return for an empty node list (provision.go:460) and
\* the check before a PUT (598) are enough: whatever the replicas overwrite of
\* each other's work, no export is made or left without a node.
THEOREM MountableAlways == Spec => []AlwaysMountable
<1>1. MountInv => AlwaysMountable
  BY DEF MountInv
<1> QED
  BY MountInit, MountStep, <1>1, PTL DEF Spec

\* Every export, cache, queue and handler keeps its type.
THEOREM TypeCorrect == Spec => []TypeOK
<1>1. MountInv => TypeOK
  BY DEF MountInv
<1> QED
  BY MountInit, MountStep, <1>1, PTL DEF Spec
=============================================================================
