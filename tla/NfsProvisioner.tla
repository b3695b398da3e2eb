--------------------------- MODULE NfsProvisioner ---------------------------
(***************************************************************************)
(* pkg/nfs: Provision creates a filesystem, an export and metadata on the  *)
(* InfiniBox with one REST call each, and undoes them in reverse order     *)
(* when a later step fails; Delete removes them again.  A worker is a      *)
(* goroutine of some replica that runs one Provision or Delete at a time,  *)
(* so two workers may provision the same PV name.                          *)
(*                                                                         *)
(* Filesystem names are unique on the array, ids are never reused.  There  *)
(* is one export per filesystem, identified with it.  Whether the array    *)
(* deletes an exported filesystem or refuses to is left open.  Removing    *)
(* metadata that is not there is no error.  Every call may fail without    *)
(* effect, or take effect and lose its answer; every panic inside a call   *)
(* is recovered and returned as its error.                                 *)
(***************************************************************************)
EXTENDS Integers, FiniteSets

CONSTANTS
  Workers,    \* concurrent Provision and Delete calls
  Names,      \* PV names
  NoName,
  MaxFs,      \* config["max_fs"]
  NodesMayBeUnknown, \* whether the node cache can still be empty
  Faults,     \* kinds of fault: "error", "undoError", "lostAnswer", "crash"
  MaxFaults,  \* bound: how many faults happen
  MaxId       \* bound: filesystems ever created

ASSUME ConstantsAssumption ==
  /\ IsFiniteSet(Workers)
  /\ NoName \notin Names
  /\ MaxFs \in Nat /\ MaxFaults \in Nat /\ MaxId \in Nat
  /\ NodesMayBeUnknown \in BOOLEAN
  /\ Faults \subseteq {"error", "undoError", "lostAnswer", "crash"}

Ids == 1 .. MaxId

VARIABLES
  fs,       \* fs[i]: the name of filesystem i, NoName if it does not exist
  exports,  \* the filesystems that are exported
  meta,     \* the filesystems with metadata
  nextId,   \* the id of the next filesystem
  faults,   \* how many faults happened so far, and of which kinds
  pv,       \* pv[i]: what became of the PV object for filesystem i
  pvExport, \* pvExport[i]: that PV is annotated with an export
  op        \* op[w]: the call worker w is in

arrayVars == <<fs, exports, meta, nextId>>
pvVars == <<pv, pvExport>>
vars == <<arrayVars, faults, pvVars, op>>

Pcs == {"idle", "count", "create", "export", "attach", "server",
        "undoMeta", "undoExport", "undoDir", "delExport", "delMeta", "delDir"}
Idle == [pc |-> "idle", name |-> NoName, dir |-> 0, exp |-> FALSE]

TypeOK ==
  /\ fs \in [Ids -> Names \cup {NoName}]
  /\ exports \in SUBSET Ids
  /\ meta \in SUBSET Ids
  /\ nextId \in 1 .. MaxId + 1
  /\ faults \in [count : 0 .. MaxFaults, kinds : SUBSET Faults]
  /\ pv \in [Ids -> {"none", "ready", "doomed", "deleted"}]
  /\ pvExport \in [Ids -> BOOLEAN]
  /\ op \in [Workers -> [pc : Pcs, name : Names \cup {NoName},
                         dir : 0 .. MaxId, exp : BOOLEAN]]

Init ==
  /\ fs = [i \in Ids |-> NoName]
  /\ exports = {} /\ meta = {} /\ nextId = 1
  /\ faults = [count |-> 0, kinds |-> {}]
  /\ pv = [i \in Ids |-> "none"]
  /\ pvExport = [i \in Ids |-> FALSE]
  /\ op = [w \in Workers |-> Idle]

Fault(f) ==
  /\ f \in Faults /\ faults.count < MaxFaults
  /\ faults' = [count |-> faults.count + 1, kinds |-> faults.kinds \cup {f}]
NoFault == UNCHANGED faults
At(w, pc) == op[w].pc = pc
Goto(w, pc) == op' = [op EXCEPT ![w].pc = pc]
Return(w) == op' = [op EXCEPT ![w] = Idle]
Existing == {i \in Ids : fs[i] # NoName}
Live(i) == i \in Existing

----------------------------------------------------------------------------
(* Provision                                                                *)

StartProvision(w, n) ==
  /\ At(w, "idle")
  /\ op' = [op EXCEPT ![w].pc = "count", ![w].name = n]
  /\ UNCHANGED <<arrayVars, faults, pvVars>>

\* The secret, the pool or the network spaces are not valid, or a GET fails.
ValidationFails(w) ==
  /\ At(w, "count")
  /\ Fault("error")
  /\ Return(w)
  /\ UNCHANGED <<arrayVars, pvVars>>

\* Mutant: the comparison lets two more than max_fs through.
CheckLimitLate(w) ==
  /\ At(w, "count")
  /\ IF Cardinality(Existing) > MaxFs + 1 THEN Return(w) ELSE Goto(w, "create")
  /\ UNCHANGED <<arrayVars, faults, pvVars>>

\* The filesystems are counted and compared with max_fs; the comparison lets
\* one more than max_fs through.
CheckLimit(w) ==
  /\ At(w, "count")
  /\ IF Cardinality(Existing) > MaxFs THEN Return(w) ELSE Goto(w, "create")
  /\ UNCHANGED <<arrayVars, faults, pvVars>>

\* Mutant: that the array has no more room goes unnoticed.
CreateDirectoryUnchecked(w) ==
  /\ At(w, "create")
  /\ fs' = [fs EXCEPT ![nextId] = op[w].name]
  /\ nextId' = nextId + 1
  /\ NoFault
  /\ op' = [op EXCEPT ![w].pc = "export", ![w].dir = nextId]
  /\ UNCHANGED <<exports, meta, pvVars>>

\* POST api/rest/filesystems.
CreateDirectory(w) ==
  /\ At(w, "create")
  /\ nextId <= MaxId
  /\ \A i \in Ids : fs[i] # op[w].name
  /\ fs' = [fs EXCEPT ![nextId] = op[w].name]
  /\ nextId' = nextId + 1
  /\ \/ NoFault /\ op' = [op EXCEPT ![w].pc = "export", ![w].dir = nextId]
     \/ Fault("lostAnswer") /\ Return(w)
  /\ UNCHANGED <<exports, meta, pvVars>>

\* Mutant: a conflict is rolled back like any later failure, by name.
CreateDirectoryFailsUndo(w) ==
  /\ At(w, "create")
  /\ \E i \in Ids : /\ fs[i] = op[w].name
                    /\ op' = [op EXCEPT ![w].pc = "undoDir", ![w].dir = i]
  /\ UNCHANGED <<arrayVars, faults, pvVars>>

\* The name is taken, the array has no more room (the bound MaxId), or the
\* call fails; nothing is undone.
CreateDirectoryFails(w) ==
  /\ At(w, "create")
  /\ IF nextId > MaxId \/ \E i \in Ids : fs[i] = op[w].name
     THEN NoFault ELSE Fault("error")
  /\ Return(w)
  /\ UNCHANGED <<arrayVars, pvVars>>

\* Without nodes, createExport does nothing and reports success.
CreateExport(w) ==
  /\ At(w, "export")
  /\ \/ /\ NodesMayBeUnknown
        /\ NoFault
        /\ Goto(w, "attach")
        /\ UNCHANGED exports
     \/ /\ Live(op[w].dir)
        /\ exports' = exports \cup {op[w].dir}
        /\ \/ NoFault /\ op' = [op EXCEPT ![w].pc = "attach", ![w].exp = TRUE]
           \/ Fault("lostAnswer") /\ Goto(w, "undoDir")
  /\ UNCHANGED <<fs, meta, nextId, pvVars>>

CreateExportFails(w) ==
  /\ At(w, "export")
  /\ IF Live(op[w].dir) THEN Fault("error") ELSE NoFault
  /\ Goto(w, "undoDir")
  /\ UNCHANGED <<arrayVars, pvVars>>

AttachMetadata(w) ==
  /\ At(w, "attach")
  /\ Live(op[w].dir)
  /\ meta' = meta \cup {op[w].dir}
  /\ \/ NoFault /\ Goto(w, "server")
     \/ Fault("lostAnswer") /\ Goto(w, "undoExport")
  /\ UNCHANGED <<fs, exports, nextId, pvVars>>

\* Mutant: the deferred functions run in the order they were deferred.
AttachMetadataFailsDirFirst(w) ==
  /\ At(w, "attach")
  /\ IF Live(op[w].dir) THEN Fault("error") ELSE NoFault
  /\ Goto(w, "undoDir")
  /\ UNCHANGED <<arrayVars, pvVars>>

AttachMetadataFails(w) ==
  /\ At(w, "attach")
  /\ IF Live(op[w].dir) THEN Fault("error") ELSE NoFault
  /\ Goto(w, "undoExport")
  /\ UNCHANGED <<arrayVars, pvVars>>

\* getServer finds an address; the PV object is returned.
GetServer(w) ==
  /\ At(w, "server")
  /\ pv' = [pv EXCEPT ![op[w].dir] = "ready"]
  /\ pvExport' = [pvExport EXCEPT ![op[w].dir] = op[w].exp]
  /\ Return(w)
  /\ UNCHANGED <<arrayVars, faults>>

GetServerFails(w) ==
  /\ At(w, "server")
  /\ Fault("error")
  /\ Goto(w, "undoMeta")
  /\ UNCHANGED <<arrayVars, pvVars>>

\* The deferred functions, last one first.  Their errors are ignored.
UndoMeta(w) ==
  /\ At(w, "undoMeta")
  /\ \/ NoFault /\ meta' = meta \ {op[w].dir}
     \/ Fault("undoError") /\ UNCHANGED meta
  /\ Goto(w, "undoExport")
  /\ UNCHANGED <<fs, exports, nextId, pvVars>>

UndoExport(w) ==
  /\ At(w, "undoExport")
  /\ \/ NoFault /\ exports' = IF op[w].exp THEN exports \ {op[w].dir} ELSE exports
     \/ op[w].exp /\ Fault("undoError") /\ UNCHANGED exports
  /\ Goto(w, "undoDir")
  /\ UNCHANGED <<fs, meta, nextId, pvVars>>

\* The array deletes a filesystem with what hangs on it.
DestroyFs(i) ==
  /\ fs' = [fs EXCEPT ![i] = NoName]
  /\ exports' = exports \ {i}
  /\ meta' = meta \ {i}
  /\ UNCHANGED nextId

\* deleteDirectory in the rollback: it may find the filesystem gone, or be
\* refused because an export is left.
UndoDir(w) ==
  /\ At(w, "undoDir")
  /\ \/ Live(op[w].dir) /\ NoFault /\ DestroyFs(op[w].dir)
     \/ /\ ~Live(op[w].dir) \/ op[w].dir \in exports
        /\ NoFault
        /\ UNCHANGED arrayVars
     \/ Fault("undoError") /\ UNCHANGED arrayVars
  /\ Return(w)
  /\ UNCHANGED pvVars

----------------------------------------------------------------------------
(* Delete, called for a PV that Provision returned, as often as needed.     *)

StartDelete(w, i) ==
  /\ At(w, "idle")
  /\ pv[i] \in {"ready", "doomed"}
  /\ pv' = [pv EXCEPT ![i] = "doomed"]
  /\ op' = [op EXCEPT ![w].pc = "delExport", ![w].dir = i]
  /\ UNCHANGED <<arrayVars, faults, pvExport>>

\* Mutant: a missing export is an error.
DeleteExportStrict(w) ==
  LET i == op[w].dir
  IN  /\ At(w, "delExport")
      /\ \/ i \in exports /\ NoFault /\ Goto(w, "delMeta")
         \/ i \notin exports /\ NoFault /\ Return(w)
         \/ Fault("error") /\ Return(w)
      /\ exports' = exports \ {i}
      /\ UNCHANGED <<fs, meta, nextId, pvVars>>

\* EXPORT_NOT_FOUND is ignored.
DeleteExport(w) ==
  LET i == op[w].dir
      gone == IF pvExport[i] THEN exports \ {i} ELSE exports
  IN  /\ At(w, "delExport")
      /\ \/ NoFault /\ exports' = gone /\ Goto(w, "delMeta")
         \/ Fault("error") /\ UNCHANGED exports /\ Return(w)
         \/ Fault("lostAnswer") /\ exports' = gone /\ Return(w)
      /\ UNCHANGED <<fs, meta, nextId, pvVars>>

DetachMetadata(w) ==
  LET i == op[w].dir
  IN  /\ At(w, "delMeta")
      /\ \/ Live(i) /\ NoFault /\ meta' = meta \ {i} /\ Goto(w, "delDir")
         \/ ~Live(i) /\ NoFault /\ UNCHANGED meta /\ Return(w)
         \/ Live(i) /\ Fault("error") /\ UNCHANGED meta /\ Return(w)
         \/ Live(i) /\ Fault("lostAnswer") /\ meta' = meta \ {i} /\ Return(w)
      /\ UNCHANGED <<fs, exports, nextId, pvVars>>

DeleteDirectory(w) ==
  LET i == op[w].dir
  IN  /\ At(w, "delDir")
      /\ Live(i)
      /\ DestroyFs(i)
      /\ \/ NoFault /\ pv' = [pv EXCEPT ![i] = "deleted"]
         \/ Fault("lostAnswer") /\ UNCHANGED pv
      /\ Return(w)
      /\ UNCHANGED pvExport

DeleteDirectoryFails(w) ==
  LET i == op[w].dir
  IN  /\ At(w, "delDir")
      /\ IF Live(i) /\ i \notin exports THEN Fault("error") ELSE NoFault
      /\ Return(w)
      /\ UNCHANGED <<arrayVars, pvVars>>

\* The process of the worker dies.
Crash(w) ==
  /\ ~At(w, "idle")
  /\ Fault("crash")
  /\ Return(w)
  /\ UNCHANGED <<arrayVars, pvVars>>

----------------------------------------------------------------------------
Provision(w) ==
  \/ ValidationFails(w) \/ CheckLimit(w)
  \/ CreateDirectory(w) \/ CreateDirectoryFails(w)
  \/ CreateExport(w) \/ CreateExportFails(w)
  \/ AttachMetadata(w) \/ AttachMetadataFails(w)
  \/ GetServer(w) \/ GetServerFails(w)
  \/ UndoMeta(w) \/ UndoExport(w) \/ UndoDir(w)

Delete(w) ==
  \/ DeleteExport(w) \/ DetachMetadata(w)
  \/ DeleteDirectory(w) \/ DeleteDirectoryFails(w)

Next == \E w \in Workers :
  \/ \E n \in Names : StartProvision(w, n)
  \/ \E i \in Ids : StartDelete(w, i)
  \/ Provision(w) \/ Delete(w) \/ Crash(w)

Spec == Init /\ [][Next]_vars

\* A call that began goes on; the controller deletes a doomed PV again at
\* every resync until it succeeds.
Fairness ==
  /\ \A w \in Workers : WF_vars(Provision(w)) /\ WF_vars(Delete(w))
  /\ \A i \in Ids :
       SF_vars(pv[i] = "doomed" /\ \E w \in Workers : StartDelete(w, i))

FairSpec == Spec /\ Fairness

----------------------------------------------------------------------------
(* Properties.                                                              *)

\* A volume that Provision returned and that nobody has begun to delete is
\* complete on the array, export included if its PV names one, whatever the
\* rollbacks of other calls for the same name do (provision.go:209-247).
ReadyComplete ==
  \A i \in Ids : pv[i] = "ready" =>
    Live(i) /\ i \in meta /\ (pvExport[i] => i \in exports)

\* A failed Provision leaves nothing behind: every filesystem has a PV, or a
\* call that will return or undo it (provision.go:209-247), unless a call of
\* the rollback failed too, an answer got lost or the process died.
NoOrphan ==
  faults.kinds \subseteq {"error"} =>
    \A i \in Existing :
      \/ pv[i] # "none"
      \/ \E w \in Workers : op[w].dir = i

\* max_fs is a limit: calls that were let through count the same filesystems,
\* and the comparison lets one more through (provision.go:387), so there can be
\* too many, but never more than one for each call that runs.
Creating == {w \in Workers : At(w, "create")}
LimitOvershoot ==
  Cardinality(Existing) + Cardinality(Creating) <= MaxFs + Cardinality(Workers)

\* A Delete that failed half way can be repeated until it succeeds, unless the
\* answer of the last call got lost (delete.go:29-80).
DeleteCompletes ==
  \A i \in Ids :
    pv[i] = "doomed" ~> pv[i] = "deleted" \/ "lostAnswer" \in faults.kinds
=============================================================================
