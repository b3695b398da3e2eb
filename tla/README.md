# TLA+ verification of the InfiniBox Kubernetes provisioner

The program (`src/`) is a Kubernetes external provisioner: it watches
PersistentVolumeClaims (PVCs), creates NFS filesystems or iSCSI/FC volumes on an
Infinidat InfiniBox over REST, publishes them as PersistentVolumes (PVs) and
removes them when the claim is gone. It may run as several replicas.

This directory holds eight models of it and an abstract specification that the
largest of them implements, the TLC configurations that check them
on small instances, and TLAPS proofs of all their safety properties, for all
values of the constants. `PROJECT.json` lists the runs, the mutants that show
that each property can fail, the source lines behind each definition, the
hazards, the findings and the theorems.

Contents: [inventory](#1-inventory) · [modules](#2-the-modules-and-the-code) ·
[runs](#3-the-runs) · [bounds](#4-bounds) · [fairness](#5-fairness) ·
[proofs](#6-proofs) · [limits](#7-what-is-not-modelled) · [plan](#8-plan)

## 1. Inventory

| Component | State | Operations | What makes it correct |
|---|---|---|---|
| Provision controller, `lib/controller/controller.go` | informer caches of claims, PVs, classes, nodes, config; `runningOperations`, `leaderElectors`, failure statistics | `addClaim`, `updateClaim`, `updateVolume`, node handlers, `lockProvisionClaimOperation`, `provisionClaimOperation`, `deleteVolumeOperation` | a PV in use has its asset; no asset is forgotten; PV objects go after their assets; claims are served, released volumes reclaimed; in short, the abstract life cycle of a claim's volume |
| Result watch, `watchProvisioning`, `watchPVC` in `controller.go` | two goroutines per lock operation, three API watches, two unbuffered channels, two stop channels | relay events, turn them into results, hand these to `acquire`/`renew` | waiting ends only for a reason, its own claim's; a result is noticed; the goroutines end |
| Leader election, `lib/leaderelection` | the lease record in an annotation of the claim; the record and time a candidate last observed | `acquire`, `renew`, `tryAcquireOrRenew`, `Run` | one leader at a time; the lease is never stuck; a term ends |
| Node events and exports, `nodeAdded`, `nodeDeleted`, NFS `UpdateMapping` | permissions of every export; per-replica caches of nodes and PVs | read and write back the permissions per volume | a volume stays mountable; the exports end up with the nodes of the cluster |
| NFS provisioner, `pkg/nfs` | filesystems, exports, metadata on the array; the round robin counters | `Provision` with deferred rollback, `Delete` | a returned volume is complete; a failed call leaves nothing; `max_fs`; a repeated `Delete` succeeds |
| iSCSI and FC provisioners, `pkg/iscsi`, `pkg/fc` | volumes, LUN mappings, metadata on the array | `Provision` with rollback, `Delete`, `UpdateMapping` | all hosts see a volume under one LUN; as for NFS otherwise |
| Configuration, `getConfiguration`, `OneTimeValidation` | the ConfigMap's map in the informer cache, shared by all calls | override by class parameters, validate network spaces, read | a volume gets its own class's parameters, else the defaults; some network space is left |
| Number allocator, `lib/allocator/minmax.go` | range, used numbers, free count | `SetRange`, `Allocate`, `AllocateNext`, `Release`, `Has` | the count is exact; `AllocateNext` finds a number whenever there is one |
| Gid allocator, `lib/gidallocator` | a table of number allocators per class | `AllocateNext`, `Release`, `getGidTable`, `collectGids` | no gid is given out twice, none is lost (imported by no other package) |
| REST helpers, `lib/commons` | the REST client | `AttachMetadata`, `DetachMetadata`, `UnMap`, `GetHostList`, validation | part of the steps above |
| `lib/util`, `main.go` | – | access mode tests; flags and wiring | not modelled: no state |

**Interaction.** The controller schedules one goroutine per operation. For a
claim it first runs a leader election whose record is stored in the claim, then
calls `Provision` of the registered back end, saves the PV and announces the end
of the task through the claim's events. `deleteVolumeOperation` calls `Delete`
and then removes the PV; nothing elects a deleter. Node events go to the back
end's `UpdateMapping` with the cached PV and node lists. Every `Provision` gets
the cached ConfigMap's own map. Between two steps everything another goroutine,
another replica, the array or Kubernetes does may happen.

**What is hard**: operations that outlive the lease that protects them; calls
that take effect and report an error; a rollback that runs while somebody else
uses what it destroys; repeated deletions; caches that are behind when a handler
runs; read-modify-write on the array by several replicas; a map shared by
goroutines; check-then-act on limits; counters at their threshold; the lease's
clocks. `PROJECT.json` lists them under "hazards" at their lines.

## 2. The modules and the code

`MC…` modules only add symmetry sets and constant values for TLC. `…Proofs`
modules hold theorems and extend the module they are about; the refinement of
ClaimLifecycle is proved in ProvisionControllerProofs, and the lemmas about
MinMaxAllocator in GidAllocatorProofs.

### ProvisionController
Replicas × claims. State: what the claim asks for (`claim`), the lease and each
replica's part in the election, the PV object and asset of each claim, the
running provision operation per replica and claim (`prov`, a record of program
counter, asset id and retry), the running delete operations per replica, claim
and asset (`del`), failure statistics, running or dead processes.

The PV's name is a function of the claim's UID, and the array refuses a name
twice, so a claim has at most one PV and one asset at a time; assets carry fresh
ids and PVs record them. `ProvCheck … ProvCleanupFails` are the stretches of
`provisionClaimOperation` between two calls that other actors can see,
`DelCheck … DelRemove` those of `deleteVolumeOperation`. A call either succeeds,
fails without effect, or takes effect and reports failure (`Faults`).
`HitThreshold` is the write to a nil map in `shouldProvision` and
`shouldDelete`, which ends the process; `Crash` is any other end, `Restart`
starts with empty caches and statistics. The clocks of the lease are in
LeaderElection; here a candidate gets the lease when no other one is in its
renew loop, while an operation may well outlive it, as in the code. Its wait
(`AcquireOver`) ends when the claim needs no volume any more or, as a fault, when
a claim of the same name elsewhere does. `faults`
says how many faults may still happen and which kinds did, so that a property
can name the ones it does not survive; a panic at a threshold is recorded there
as well but needs no fault.

### ClaimLifecycle
What the controllers promise, without controllers: a claim is requested, gets a
volume with storage behind it, is bound, withdrawn and its volume released;
then the storage is destroyed and, after it, the volume removed. Everything may
go wrong once an answer to a PV Create is lost (`sure`). ProvisionController's
`Lifecycle` instantiates it with `backed` = "the PV's asset is the one on the
array", and `ImplementsLifecycle` states the refinement.

### WatchProvisioning
One lock operation with the goroutine of `watchPVC` (the relay), that of
`watchProvisioning` (the watcher) and the elector that receives. A send on an
unbuffered channel is a state (`Sending`) that ends only together with the
receiver's step. Watches deliver in order, but there are three of them; the API
server may refuse or close any at any time. The claim is watched from the
version in the informer's cache: before the operation `queue["pvc"]` collects
what that version misses, which `RefreshCache` shortens and `StartLock` hands to
the watch. The watch covers all namespaces and selects by name only, so the end of a
same-named claim (`NamesakeEnds`) arrives on it too, and the watcher compares
neither namespace nor UID.
`watch.Error` carries a Status object, for which the switch has no case.

### LeaderElection
The election for one claim, with time in ticks. `acquire` and `renew` are loops
around `tryAcquireOrRenew`, which is two API calls (get, update), each of at most
`MaxCall` ticks, with the API server's version check on the update. A candidate
measures the age of the record it has observed by its own clock. Ages stop at
the last value the code tells apart, which keeps the state space finite. The
term limit is the timer goroutine of `Run` (`TermRunning`).

### NfsProvisioner, BlockProvisioner
The back ends call by call. A worker is one running `Provision` or `Delete`; its
record holds the program counter, the name and the id of what it created. The
deferred functions of `createVolume` are the `Undo…` steps (NFS) and the
undo branches of `AttachMetadataFails`, `MappingFails` (block). BlockProvisioner covers iSCSI and FC:
`setup`, chosen initially, says which, and whether the array destroys mapped
volumes. The two differ in whether the rollback of a failed mapping unmaps.
`HostList` is `GetHostList`, which leaves a node out, without an error, when the
array's answer about it cannot be used.
`HandlerStep` is `UpdateMapping` on node events, racing the workers. `faults`
records the kinds of fault that happened, so that a property can say which ones
it tolerates.

### NodeExports
`nodeAdded`/`nodeDeleted` and NFS `UpdateMapping` on several replicas, with a
queue of events per replica and a GET and a PUT per volume. A replica starts
with an empty node cache and its first list still to be handled, in any order. A
volume is exported to the nodes that were cached when `Provision` was called; if
there were none it has no export, and its PV the `Export_Id` 0, whose GET ends
every later `UpdateMapping`. `HandleTombstone` is a deletion that the informer
learns from a relist: the cache forgets the node, `nodeDeleted` returns.
`nodeUpdated` is never registered (`UpdateFunc: nil`) and has no action.

### SharedConfig
A heap of maps, one of them in the cache; a call writes its class's parameters
into it one by one, validates the network spaces, writes the valid ones back and
reads the map when it creates the volume. Then `getServer` reads the counter of
the first network space (`GetServer`) and writes it back (`NextAddress`): two
steps, since concurrent calls share that map too.

### MinMaxAllocator, GidAllocator
Every method of the number allocator holds its mutex throughout, so
MinMaxAllocator is a set of functions on a table. GidAllocator has one such
table per class as its state and cuts `AllocateNext` and `Release` where another
call can run: the lookup, the List of the PVs and the filling of a new table,
the second lookup with the insertion, and the operation on the table. Its
callers (external) save and delete PVs, replace the class by one with another
range, and die. `happened` records the three things that cost or share a gid.

## 3. The runs

Passing runs:

| Run | Shows |
|---|---|
| `controller_safety` | two replicas, one fault of any kind (a same-named claim's end is one): types; as long as no answer to a PV Create is lost a PV in use is backed (`SavedVolumeBacked`); no asset is left that nobody will save or destroy unless an array call failed or a process died (`AssetTracked`); PV objects are removed after their assets (`RemovalFollowsDestruction`); the controllers implement ClaimLifecycle (`ImplementsLifecycle`) |
| `claim_served` | thresholds on, three faults, crashes and same-named claims among them: a pending claim is served (`ClaimServed`) unless a process died between `Provision` and the save and left an asset that nobody owns, which every later `Provision` finds in its way; a deleted claim's PV and asset go for good (`VolumeReclaimed`) unless a process died. A failing removal of the PV is left to `redelete` |
| `lease` | one leader at a time (`OneLeader`), nobody waits for the lease in vain (`LeaderEmerges`), and nobody leads for ever (`LeadershipEnds`), with lost answers, failed calls and crashes |
| `watch` | `acquire()` gives up only if there is nothing left to do, or because of a same-named claim (`OverExplained`); while the watches work it learns of that (`ResultNoticed`); after the operation its goroutines and watches end, unless one of the two waits for ever to send (`GoroutinesEnd`) |
| `nfs` | two concurrent calls, two faults of any kind: a returned volume is complete whatever other calls undo (`ReadyComplete`); a failed `Provision` leaves no filesystem unless its rollback fails too (`NoOrphan`); `max_fs` is exceeded by at most one filesystem per running call (`LimitOvershoot`); a repeated `Delete` gets through (`DeleteCompletes`) |
| `exports` | no export is made without a node, and no interleaving takes its last one out (`AlwaysMountable`); a single replica brings the exports in line with the nodes (`ExportsConverge`) unless a call failed, a deletion came as a tombstone or a PV without an export was saved |
| `block` | iSCSI on an array that destroys mapped volumes and on one that refuses, FC on one that refuses: all hosts see a volume under the PV's LUN (`SameLun`); before the first node event a returned volume is mapped to some node, and to every node unless `GetHostList` left one out (`ReadyComplete`); a failed `Provision` leaves no volume behind (`NoOrphan`) except the one that iSCSI's rollback does not unmap and the array refuses to destroy (`LeftMapped`), the complete one that iSCSI's panic for want of an address leaves (`LeftByPanic`), and those of runs in which the rollback failed too, an answer got lost or the process died; `max_volume` is exceeded by fewer volumes than calls run, unless the count failed (`LimitOvershoot`) |
| `config_spaces` | concurrent calls never empty the shared list of network spaces (`SpacesLeft`); an address is handed out at most 2 times more often than another one of its space, and 2 more for each lost update of the counter (`AddressesBalanced`; both numbers are sharp) |
| `gid` | two volumes, three gids, four sets of class parameters: exact counts (`FreeExact`), no gid held twice unless one is released twice (`GidUnique`), none lost unless a volume was given up before it had a PV, the class could not be read, or a gid was released twice (`NoGidLost`) |

Runs in which the code does something else than its comments say; each
counterexample is a few steps long:

| Run | What happens |
|---|---|
| `lost_save_answer` | the answer to a PV Create that took effect is lost; the retries find the name taken, and the rollback destroys the asset of the saved PV (controller.go:980) |
| `redelete` | if only the PV object's deletion fails, every later `Delete` fails on the missing asset and the PV stays for good (1204). `DelDestroy` takes this from `Delete` of the back ends, which look the asset up first |
| `config_mixed` | two concurrent calls read each other's class parameters from the one cached map (nfs/provision.go:193) |

What the models do in agreement with the code, although a comment promises
something else, and no run states:

- The end of a claim of the same name in another namespace ends `acquire()` while
  this claim is pending and nobody announced a volume (controller.go:1084,
  1041-1056). It can be seen by giving `OverIsRight` as an invariant to the `watch`
  instance. The next resync starts over, so the claim is still served
  (`claim_served`).
- A node leaves while the informer's watch is broken; the relist hands
  `nodeDeleted` a `DeletedFinalStateUnknown`, it returns, and the exports keep the
  node (502), although they "should be updated in case of node addition and
  deletion" (nfs/provision.go:507). `ExportsConverge` without `tombstones = 0` is
  false for that reason.
- An operation outlives its lease, so two replicas may provision a claim
  together (controller.go:775); `controller_safety` shows that
  this alone loses no asset and no PV.
- Reaching a failure threshold writes to a nil map: the process dies, forgets
  its counts and tries again (670), action `HitThreshold`.
- `TermLimit` 0 ends the term at once (leaderelection.go:132).
- A goroutine of `watchProvisioning` that is about to send when the elector
  stops waits for ever, and its three watches stay open (controller.go:1048);
  a candidate whose watch was closed never learns that its claim is gone (1121).
- `OnStartedLeading` schedules an operation although the threshold is reached
  (777); the panic may then interrupt it and orphan its asset.
- `Release` of a gid goes on with an empty class when the class cannot be read
  (gidallocator/allocator.go:90).
- NFS creates one filesystem more than `max_fs` (`>` at nfs/provision.go:387); a
  failed count of volumes counts as 0 (iscsi/provision.go:326).
- With an empty node cache NFS `Provision` returns a volume without an export
  (nfs/provision.go:460); from then on `UpdateMapping` ends with an error when it
  comes to that PV, and the volumes after it are not updated.
- A node about which the array's answer cannot be used does not get the volume,
  and `Provision` succeeds (common.go:298).
- iSCSI's `Provision` panics on `IPList[0]` when the network space has no address,
  after the volume is complete; nothing undoes it (iscsi/provision.go:198).
- A node that joins while a volume is being provisioned is never given access,
  and PUTs of two replicas overwrite each other (controller.go:494,
  nfs/provision.go:583).
- iSCSI's rollback of a failed mapping deletes the volume without unmapping it; on
  an array that refuses to destroy mapped volumes it stays (iscsi/provision.go:249).
- A class parameter stays in the cached map as everybody's default
  (controller.go:1273).

## 4. Bounds

Every bound is a constant named `Max…`. Deadlock is checked in every run but
`watch`: a lock operation ends.

- *Replicas, workers: 2* (1 in the liveness run `claim_served` and in `exports`).
  All races found or excluded here are between two actors (two provisioners of
  one name, writer and rollback, deleter and deleter). The theorems have no such
  bound; `MountableAlways` covers any number of replicas for `exports`.
- *Claims: 1.* Claims share only the process that dies at a threshold; the
  theorems cover any number, with any reclaim policies.
- *Faults: 1–3 (6 for the lease).* A failed step, a failed retry, a failed
  rollback; for more than one fault with two replicas the theorems.
- *`RetryCount` 1–3, `Threshold` 0 or 1*: first, middle and last turn of a loop.
- *Ids (`MaxId`)*: enough for an asset to be replaced while operations on the
  previous one are still running.
- *LUNs 0..1, 2 hosts*: a LUN that is taken on one host and free on the other.
- *Lease*: `RenewDeadline` 2, `RetryPeriod` 1, `MaxCall` 1, `LeaseDuration` 7.
  `OneLeader` needs `LeaseDuration ≥ RenewDeadline + 5·MaxCall`; the bound is
  sharp in the model (6 is not enough: an update may begin at the end of the
  deadline, be applied late, and its answer come later still). The program's
  15 s, 10 s leave 1 s per call.
- *Addresses 2, 4 calls of `getServer`*: the counter wraps and two calls overlap.
- *Watch*: 2 updates, 2 failures and a same-named claim (`MaxNamesakes` 1), so that
  both channels are full and more comes.
- *Block*: three `Setups`, iSCSI on both kinds of array and FC on the one that
  refuses to destroy mapped volumes; the theorems cover every combination.
- *Tombstones: 1* (`MaxTombstones`): one dropped deletion, and later events that repair
  what it left or do not.
- *Gids 1..3, 2 volumes*: a range that shrinks below a gid in use and grows again.
- *Node events: 1 (block) and 4 (exports)*: a join, a leave and a re-join while a
  handler runs.

Symmetry is declared over replicas, volumes, or workers, names and hosts, in
`controller_safety`, `gid` and `block`, which have no liveness property.

## 5. Fairness

Weak fairness of the steps of a running goroutine (a goroutine that can run
does), of the informers' deliveries (Kubernetes resends; the resync period
repeats), and of a dead pod's restart (its Deployment restarts it). Weak fairness
of the Kubernetes PV controller's `BindVolume` and `ReleaseVolume`. Faults and
user actions have none, nor has `AcquireOver`, because a candidate whose watch
was closed never hears. In WatchProvisioning each case of a select that stays
ready is taken some time (Go chooses at random), the elector goes round its
loops and terms end; the API server owes nothing. NfsProvisioner assumes strong fairness
that a `Delete` which failed is started again, because the controller's resync
calls `updateVolume` for a released PV for ever, while all workers may be
busy in between. The clock (`Tick`) is weakly fair: time goes on.

## 6. Proofs

Every safety property that a passing run checks is a theorem.

| Module | Theorem | Statement |
|---|---|---|
| ProvisionControllerProofs | `TypeCorrect` | `Spec => []TypeOK` |
| | `RemovalOrder` | `Spec => RemovalFollowsDestruction`, under all faults |
| | `SavedVolumeSafe` | `Spec => []SavedVolumeBacked` (without its condition it is false: `lost_save_answer`) |
| | `AssetAlwaysTracked` | `Spec => []AssetTracked` |
| | `LifecycleImplemented` | `Spec => ImplementsLifecycle`: ProvisionController refines ClaimLifecycle |
| LeaderElectionProofs | `TypeCorrect` | `Spec => []TypeOK` |
| | `OneLeaderAlways` | `LeaseLongEnough` implies `Spec => []OneLeader` |
| WatchProvisioningProofs | `TypeCorrect`, `OverAlwaysExplained` | `Spec => []TypeOK`, `[]OverExplained` |
| | `OverRightForUniqueNames` | `MaxNamesakes = 0` implies `Spec => []OverIsRight` (without it it is false, section 3) |
| NfsProvisionerProofs | `TypeCorrect`, `LimitKept`, `ReadyAlwaysComplete`, `NothingOrphaned` | `Spec => []TypeOK`, `[]LimitOvershoot`, `[]ReadyComplete`, `[]NoOrphan` |
| BlockProvisionerProofs | `TypeCorrect`, `LimitKept`, `SameLunAlways`, `ReadyAlwaysComplete`, `NothingOrphaned` | `Spec => []TypeOK`, `[]LimitOvershoot`, `[]SameLun`, `[]ReadyComplete`, `[]NoOrphan` |
| NodeExportsProofs | `TypeCorrect`, `MountableAlways` | `Spec => []TypeOK`, `[]AlwaysMountable` |
| SharedConfigProofs | `TypeCorrect`, `SpacesAlwaysLeft`, `BalancedAlways` | `Spec => []TypeOK`, `[]SpacesLeft`, `[]AddressesBalanced` |
| GidAllocatorProofs | `TypeCorrect`, `CountExact`, `UniqueGids`, `GidsKept` | `Spec => []TypeOK`, `[]FreeExact`, `[]GidUnique`, `[]NoGidLost` |

They hold for every value of the constants that satisfies the `ASSUME` of the
module: any number of replicas, candidates, claims, nodes, hosts, volumes,
retries and faults. Two of them have a hypothesis on the constants in addition,
named in the table and discussed below; the run `lease` uses values that satisfy
the first.

**ProvisionControllerProofs.** `TypeOK` is inductive. The other invariants are
about PV, asset, next id and the operations of one claim, and 26 actions can
change those in few ways; lemma `StepEffect` first reduces every step to one of
six effects on one claim, so that each invariant is proved over six cases.
`RemovalFollowsDestruction` needs `OrderInv`: ids in use were given out, an
operation about to remove a PV knows that its asset is gone (`Removing`), and
delete operations are about the current or an earlier PV. `SavedVolumeBacked`
needs in addition `BackedInv`, which holds as long as no answer to a PV Create
was lost (`SureInv`): an operation that still wants to save its PV
means that there is no PV of that asset yet (`Unsaved`, which is what a lost
answer breaks), what it saves exists (`SavesExisting`), and a deletion is under
way only for a released PV (`DeletesReleased`).
`AssetTracked` is carried by the same effects: an asset
comes with an operation that holds it, which gives it up only to a PV, by
destroying it, or in a fault. For the refinement the initial states map to
initial states, and each effect on one claim is a step of ClaimLifecycle or a
stutter; the storage of a PV in use stays (`SavedVolumeSafe`'s invariant), and a
PV goes after it (`OrderInv`).

**LeaderElectionProofs.** `OneLeader` says nothing of clocks, and whoever takes
the lease looks only at its own, so the invariant relates the two. `LeaseInv`:
the record names the leader, and already names a candidate whose write was
applied before its answer arrives (`HolderLeads`); a candidate about to take
over has known the record for `LeaseDuration` (`Waited`); and nobody who knows
the leader's record will have waited that long before the leader has stopped
(`LeaseLasts`): the age by the other's clock plus the time the leader can go on
for at most (`Left`) is less than `LeaseDuration`. `Left` counts the rest of the
deadline and the two tries, of two calls each, that may be made after it; the
write that starts it can itself be one call old. This is where
`LeaseLongEnough`, `LeaseDuration >= RenewDeadline + 5 * MaxCall`, comes from.
The code does not ensure it: `NewLeaderElector` checks only
`LeaseDuration > RenewDeadline`, and calls have no timeout of their own. With the
program's 15 s and 10 s it says that a call takes at most 1 s, and TLC shows that
one tick less is not enough.

**WatchProvisioningProofs.** `OverExplained` follows from the truth of what is on
its way to the elector (`OverInv`): what an event reports has happened and stays
so, for the events in the queues of the three watches, the one the relay is about
to send and the result the watcher is about to send. An event of a same-named
claim is true of that claim only; where there is none (`MaxNamesakes = 0`),
`OverExplained` is `OverIsRight`.

**NfsProvisionerProofs.** `LimitOvershoot` is inductive as it stands because it
counts the calls that passed the comparison and have not created yet; the steps
are arithmetic on the cardinalities of both sets. `ReadyComplete` and `NoOrphan`
share `OwnerInv`: a filesystem has one owner, the call that created it, until
that call has returned a PV or undone it (`OneOwner`), so that a rollback
destroys only what is its own; `CallOK` says for every step of a call what it
may rely on, such as that the `exp` flag tells whether there is an export to undo.

**BlockProvisionerProofs.** `TypeOK` needs `LunKnown`: by the time the PV is made
the volume has a LUN. The other three invariants rest on `OwnerInv`, which
differs from that of NFS in the mappings: while a call maps its volume, exactly
the hosts it is done with see it, under the call's LUN; a rollback knows all the
hosts that may still see it; the node handler, and the cache it works from, know
only volumes with a PV. So a handler never adds a mapping under the feet of a
rollback. `ReadyComplete` rests on the call's host list being the nodes,
or a fault of `GetHostList` having happened, and on its not being empty. For
`NoOrphan` the last step of a rollback is where the back ends differ: FC finds the
volume unmapped, so the array destroys it; iSCSI may find it mapped, and then it
is gone or `LeftMapped`, which stays so because nobody owns it any more. A complete
volume of a call that panicked keeps its metadata for the same reason (`LeftByPanic`).

**NodeExportsProofs.** `AlwaysMountable` is inductive with the types (`MountInv`):
`createExport` makes no export for an empty list, and a PUT of an empty list is
none; after an addition the list has the added node.

**SharedConfigProofs.** `CallsOK` says that a list about to be written back is not
empty (the error return of the validation) and that only parameters of the
class are written. `AddressesBalanced` needs a sharper bound that the counter
determines (`BalanceInv`): up to two for every lost update, one address is ahead
of another by the difference of their `Excess`, one for having had its turn in
this round and one for the first address, whose first turn does not move the
counter on. The step to the next address is arithmetic with remainders
(`Division`, `RemainderOfNext`, `ExcessMoves`).

**GidAllocatorProofs.** First lemmas about MinMaxAllocator: each operation on a
table keeps `free` equal to the number of unused numbers in the range, whatever
range and numbers came before, and `NextFree` exists when `free > 0`.
`BaseInv` is types and counts. `HoldInv`: holders have
distinct gids; once the class has a table every holder's gid is marked in it;
while it has none, no volume is held without being saved, and in every table
being filled for the class the gid of each saved volume is marked or still on
the list to be collected; a call for a volume released meanwhile works without
the class. `LostInv` is the converse for the marks.

TLC checked the inductive invariants as invariants of small instances before
they were proved.

Only model-checked: the liveness properties `ClaimServed`, `VolumeReclaimed`,
`LeaderEmerges`, `LeadershipEnds`, `ResultNoticed`, `GoroutinesEnd`,
`DeleteCompletes` and `ExportsConverge`, because fairness and ENABLED are beyond
the prover, and the three violations. No module uses a RECURSIVE operator.

## 7. What is not modelled

- The provisioner annotation's choice of back end, and Kubernetes before 1.8.
- `RetryCount` is at least 1, as in the program: with 0 the operation would
  announce success without a PV.
- `IgnoredError` and the `createdBy` test of `Delete`: the value is a constant of
  the program, so the branch is not taken.
- A PV's UID is identified with its asset's id.
- `deleteVolumeOperation` reads the PV again; if that is a later PV which has
  reached the threshold, the panic happens in the operation's goroutine (715), where
  goroutinemap recovers it and `failedDeleteStatsMutex` stays locked. The model
  leaves such a PV to the volume informer's panic, `HitThreshold`. The difference is
  that the process hangs in its deletions, and goes on provisioning, instead of
  dying; the properties about what must not happen see fewer steps, and
  `VolumeReclaimed` excepts both.
- NodeExports starts with the volume informer's first list received; node events
  that come before it find no PVs. A PV that was saved without an export is not
  counted among those that must follow the nodes.
- Detaching metadata that is not there is assumed to succeed on the array.
- BlockProvisioner has one replica; every node is a registered host; the order
  of the loops over hosts and volumes is arbitrary. NodeExports: a node has one
  address.
- SharedConfig: the list of network spaces is written after the other
  parameters, and the Go runtime's abort on concurrent map writes is left out.
- GidAllocator: several replicas, each with its own tables, which could hand out
  one gid twice; PVs without a gid.
- The rotation of iSCSI's network spaces; sizes, pools,
  ssd flags and other attributes of volumes; logging.
- Vendored code, `.bak` files, deployment files.

## 8. Plan

In the order of importance; 1–12 are done.

1. ProvisionController, its runs, `TypeCorrect`, `RemovalOrder`, `SavedVolumeSafe`.
2. LeaderElection with clocks, and the end of terms.
3. MinMaxAllocator. 4. NfsProvisioner. 5. NodeExports. 6. BlockProvisioner.
7. SharedConfig with `getServer`'s counters.
8. WatchProvisioning. 9. GidAllocator with its proofs.
10. ClaimLifecycle and the refinement, `AssetAlwaysTracked`; the overshoot of the
    limits, proved for NFS.
11. Theorems: `ReadyComplete` and `NoOrphan` for NFS; all invariants of block;
    `OneLeader` from a timing invariant; `OverExplained`; `AddressesBalanced`;
    `TypeOK` of the remaining modules.
12. Same-named claims, tombstones, the cold node cache and the hosts that
    `GetHostList` leaves out, in the models and the proofs.
13. Two replicas and a repeated `Delete` in BlockProvisioner, with its ownership
    invariant extended.
14. Action properties of the back ends and the election, proved from the
    invariants there are: who may destroy a volume, who may overwrite the lease.
