---------------------------- MODULE GidAllocator ----------------------------
(***************************************************************************)
(* lib/gidallocator/allocator.go: gids for the volumes of a storage class. *)
(* The gids in use are kept in a table per class, made on first use from   *)
(* the gids in the annotations of the class's PVs.  AllocateNext and       *)
(* Release run concurrently, one call per volume; a call is cut into steps *)
(* where others can run: the lookup of the table, the List of the PVs, the *)
(* insertion of the new table, the operation on the table.                 *)
(*                                                                         *)
(* The volumes belong to the callers: a provisioner calls AllocateNext,    *)
(* saves a PV with the gid, calls Release when it deletes the volume, and  *)
(* then the PV object goes.  All volumes modelled are of one class; calls  *)
(* for other classes touch other tables.  PVs without a gid, or with one   *)
(* that does not parse, are skipped by the code and not modelled.          *)
(***************************************************************************)
EXTENDS MinMaxAllocator

CONSTANTS
  Volumes,
  AbsMin, AbsMax,  \* absoluteGidMin, absoluteGidMax (2000, 2^31 - 1)
  ParamSets        \* the parameters the class has in turn

ASSUME GidAssumption ==
  /\ AbsMin \in Nat /\ AbsMax \in Nat /\ AbsMin <= AbsMax
  /\ \A p \in ParamSets : /\ DOMAIN p \subseteq {"gidmin", "gidmax"}
                          /\ \A k \in DOMAIN p : p[k] \in Int

Gids == 0 .. AbsMax
Class == "class"
NoClass == ""  \* the name of the zero StorageClass
EmptyTable == NewMinMaxAllocator(0, AbsMax)
NoCall == [class |-> Class, min |-> 0, max |-> 0]

VARIABLES
  params,    \* the class object's parameters
  tables,    \* gidTable
  volume,    \* what there is of each volume
  at,        \* where the call for the volume is, "idle" if there is none
  gid,       \* the gid of the volume
  call,      \* the class and the range the call works with
  new,       \* newGidTable of the call
  todo,      \* the PVs of pvList whose gids are still to be put into it
  happened   \* what happened that a gid is lost or shared by

vars == <<params, tables, volume, at, gid, call, new, todo, happened>>

Table == [min : Gids, max : Gids, free : Int, used : SUBSET Gids]

\* volume: "held" means that AllocateNext returned its gid, "saved" that the
\* PV object was saved with it, "released" that Release returned and the PV
\* object is still there.  A call for a volume that is not there is an
\* AllocateNext, for one with a PV object a Release.
\* at: "get" is before the lookup of the table, "fill" while a new one is
\* filled, "use" before the operation on the table.
TypeOK ==
  /\ params \in ParamSets
  /\ DOMAIN tables \subseteq {Class, NoClass}
  /\ \A c \in DOMAIN tables : tables[c] \in Table
  /\ volume \in [Volumes -> {"none", "held", "saved", "released"}]
  /\ at \in [Volumes -> {"idle", "get", "fill", "use"}]
  /\ gid \in [Volumes -> Gids]
  /\ call \in [Volumes -> [class : {Class, NoClass}, min : Gids, max : Gids]]
  /\ new \in [Volumes -> Table]
  /\ todo \in [Volumes -> SUBSET (Volumes \X Gids)]
  /\ happened \subseteq {"classError", "discarded", "again"}
  /\ \A v \in Volumes : at[v] = "use" => call[v].class \in DOMAIN tables

\* New
Init ==
  /\ params \in ParamSets
  /\ tables = [c \in {} |-> EmptyTable]
  /\ volume = [v \in Volumes |-> "none"]
  /\ at = [v \in Volumes |-> "idle"]
  /\ gid = [v \in Volumes |-> 0]
  /\ call = [v \in Volumes |-> NoCall]
  /\ new = [v \in Volumes |-> EmptyTable]
  /\ todo = [v \in Volumes |-> {}]
  /\ happened = {}

----------------------------------------------------------------------------
\* parseClassParameters; defaultGidMin and Max are the absolute ones.

GidMin(p) == IF "gidmin" \in DOMAIN p THEN p["gidmin"] ELSE AbsMin
GidMax(p) == IF "gidmax" \in DOMAIN p THEN p["gidmax"] ELSE AbsMax

\* Mutant: gidMax is not compared with absoluteGidMax.
ParsesNoUpperBound(p) ==
  /\ \A k \in DOMAIN p : AbsMin <= p[k]
  /\ GidMin(p) <= GidMax(p)

ParsesParameters(p) ==
  /\ \A k \in DOMAIN p : AbsMin <= p[k] /\ p[k] <= AbsMax
  /\ GidMin(p) <= GidMax(p)

NoParameters == [k \in {} |-> 0]

----------------------------------------------------------------------------
\* A call begins with the parameters p of the class named c; if they do not
\* parse it returns at once.
Begin(v, c, p) ==
  /\ ParsesParameters(p)
  /\ at' = [at EXCEPT ![v] = "get"]
  /\ call' = [call EXCEPT
                ![v] = [class |-> c, min |-> GidMin(p), max |-> GidMax(p)]]
  /\ UNCHANGED <<params, tables, volume, gid, new, todo>>

\* AllocateNext(options), for a new volume.
StartAllocateNext(v) ==
  /\ volume[v] = "none" /\ at[v] = "idle"
  /\ Begin(v, Class, params)
  /\ UNCHANGED happened

\* Release(volume), while the PV is deleted; again if an earlier deletion
\* did not get as far as the PV object.
StartRelease(v) ==
  /\ volume[v] \in {"saved", "released"} /\ at[v] = "idle"
  /\ Begin(v, Class, params)
  /\ happened' = IF volume[v] = "released" THEN happened \cup {"again"}
                                           ELSE happened

\* The class cannot be read.  The error is overwritten, and Release goes on
\* with the zero StorageClass: no name, no parameters.
StartReleaseNoClass(v) ==
  /\ volume[v] \in {"saved", "released"} /\ at[v] = "idle"
  /\ Begin(v, NoClass, NoParameters)
  /\ happened' = happened \cup {"classError"}

\* The call of v is over, and its local variables are gone.
Return(v) ==
  /\ at' = [at EXCEPT ![v] = "idle"]
  /\ call' = [call EXCEPT ![v] = NoCall]

\* The table of the call's class is there: it gets the call's range.
UseTable(v) ==
  /\ tables' = [tables EXCEPT ![call[v].class] =
                  SetRange(@, call[v].min, call[v].max)]
  /\ at' = [at EXCEPT ![v] = "use"]
  /\ new' = [new EXCEPT ![v] = EmptyTable]
  /\ UNCHANGED <<params, volume, gid, call, todo, happened>>

\* getGidTable, the first lookup.
FindTable(v) ==
  /\ at[v] = "get" /\ call[v].class \in DOMAIN tables
  /\ UseTable(v)

\* The PVs of the class, each with its gid.
PVList(c) ==
  {p \in Volumes \X Gids : /\ c = Class
                           /\ volume[p[1]] \in {"saved", "released"}
                           /\ p[2] = gid[p[1]]}

\* There is none: a new one is made, and the PVs are listed.
ListPVs(v) ==
  /\ at[v] = "get" /\ call[v].class \notin DOMAIN tables
  /\ at' = [at EXCEPT ![v] = "fill"]
  /\ new' = [new EXCEPT ![v] = EmptyTable]
  /\ todo' = [todo EXCEPT ![v] = PVList(call[v].class)]
  /\ UNCHANGED <<params, tables, volume, gid, call, happened>>

\* The List fails, and with it the call.
ListFails(v) ==
  /\ at[v] = "get" /\ call[v].class \notin DOMAIN tables
  /\ Return(v)
  /\ UNCHANGED <<params, tables, volume, gid, new, todo, happened>>

\* collectGids marks the gid of one PV; ErrConflict is ignored.
CollectGid(v) ==
  /\ at[v] = "fill"
  /\ \E p \in todo[v] :
       /\ new' = [new EXCEPT ![v] = IF CanAllocate(@, p[2])
                                    THEN Allocate(@, p[2]) ELSE @]
       /\ todo' = [todo EXCEPT ![v] = @ \ {p}]
  /\ UNCHANGED <<params, tables, volume, at, gid, call, happened>>

\* Mutant: the table is inserted even if one appeared in the meantime.
InsertTableBlindly(v) ==
  LET c == call[v].class
  IN  /\ at[v] = "fill" /\ todo[v] = {}
      /\ tables' = [k \in DOMAIN tables \cup {c} |->
                      IF k = c
                      THEN SetRange(new[v], call[v].min, call[v].max)
                      ELSE tables[k]]
      /\ at' = [at EXCEPT ![v] = "use"]
      /\ new' = [new EXCEPT ![v] = EmptyTable]
      /\ UNCHANGED <<params, volume, gid, call, todo, happened>>

\* The second lookup and the insertion, under the lock.
InsertTable(v) ==
  LET c == call[v].class
  IN  /\ at[v] = "fill" /\ todo[v] = {} /\ c \notin DOMAIN tables
      /\ tables' = [k \in DOMAIN tables \cup {c} |->
                      IF k = c
                      THEN SetRange(new[v], call[v].min, call[v].max)
                      ELSE tables[k]]
      /\ at' = [at EXCEPT ![v] = "use"]
      /\ new' = [new EXCEPT ![v] = EmptyTable]
      /\ UNCHANGED <<params, volume, gid, call, todo, happened>>

\* In the meantime a table appeared.
DropNewTable(v) ==
  /\ at[v] = "fill" /\ todo[v] = {} /\ call[v].class \in DOMAIN tables
  /\ UseTable(v)

----------------------------------------------------------------------------
\* AllocateNext reserves a gid and returns it.
ReserveGid(v) ==
  LET t == tables[Class]
  IN  /\ volume[v] = "none" /\ at[v] = "use"
      /\ CanAllocateNext(t)
      /\ tables' = [tables EXCEPT ![Class] = Allocate(t, NextFree(t))]
      /\ gid' = [gid EXCEPT ![v] = NextFree(t)]
      /\ volume' = [volume EXCEPT ![v] = "held"]
      /\ Return(v)
      /\ UNCHANGED <<params, new, todo, happened>>

\* ErrRangeFull
ReserveFails(v) ==
  /\ volume[v] = "none" /\ at[v] = "use"
  /\ ~CanAllocateNext(tables[Class])
  /\ Return(v)
  /\ UNCHANGED <<params, tables, volume, gid, new, todo, happened>>

\* Release frees the gid in the table of the class it works with.
ReleaseGid(v) ==
  /\ volume[v] \in {"saved", "released"} /\ at[v] = "use"
  /\ tables' = [tables EXCEPT ![call[v].class] = Release(@, gid[v])]
  /\ volume' = [volume EXCEPT ![v] = "released"]
  /\ Return(v)
  /\ UNCHANGED <<params, gid, new, todo, happened>>

----------------------------------------------------------------------------
\* The callers.

\* The controller saves the PV with the gid in its annotation.
SavePV(v) ==
  /\ volume[v] = "held"
  /\ volume' = [volume EXCEPT ![v] = "saved"]
  /\ UNCHANGED <<params, tables, at, gid, call, new, todo, happened>>

\* Provision fails after AllocateNext: there is no PV to call Release with.
Discard(v) ==
  /\ volume[v] = "held"
  /\ volume' = [volume EXCEPT ![v] = "none"]
  /\ gid' = [gid EXCEPT ![v] = 0]
  /\ happened' = happened \cup {"discarded"}
  /\ UNCHANGED <<params, tables, at, call, new, todo>>

\* The PV object goes.
RemovePV(v) ==
  /\ volume[v] = "released" /\ at[v] = "idle"
  /\ volume' = [volume EXCEPT ![v] = "none"]
  /\ gid' = [gid EXCEPT ![v] = 0]
  /\ UNCHANGED <<params, tables, at, call, new, todo, happened>>

\* The class is replaced by one with other parameters.
ReplaceClass(p) ==
  /\ p # params
  /\ params' = p
  /\ UNCHANGED <<tables, volume, at, gid, call, new, todo, happened>>

\* The process dies with its tables and calls; the PV objects remain, and
\* those that were being deleted will be deleted from the start.
Crash ==
  /\ tables' = [c \in {} |-> EmptyTable]
  /\ at' = [v \in Volumes |-> "idle"]
  /\ call' = [v \in Volumes |-> NoCall]
  /\ new' = [v \in Volumes |-> EmptyTable]
  /\ todo' = [v \in Volumes |-> {}]
  /\ volume' = [v \in Volumes |->
                  IF volume[v] = "held" THEN "none"
                  ELSE IF volume[v] = "released" THEN "saved" ELSE volume[v]]
  /\ happened' = IF \E v \in Volumes : volume[v] = "released"
                 THEN happened \cup {"again"}
                 ELSE happened
  /\ gid' = [v \in Volumes |-> IF volume[v] = "held" THEN 0 ELSE gid[v]]
  /\ UNCHANGED params

Call(v) ==
  \/ StartAllocateNext(v) \/ StartRelease(v) \/ StartReleaseNoClass(v)
  \/ FindTable(v) \/ ListPVs(v) \/ ListFails(v) \/ CollectGid(v)
  \/ InsertTable(v) \/ DropNewTable(v)
  \/ ReserveGid(v) \/ ReserveFails(v) \/ ReleaseGid(v)

Caller(v) == SavePV(v) \/ Discard(v) \/ RemovePV(v)

Next ==
  \/ \E v \in Volumes : Call(v) \/ Caller(v)
  \/ \E p \in ParamSets : ReplaceClass(p)
  \/ Crash

Spec == Init /\ [][Next]_vars

----------------------------------------------------------------------------
\* The volumes that hold their gid: it was returned and is not released.
Holders == {v \in Volumes : volume[v] \in {"held", "saved"}}

\* The incremental count of every table is exact, in use or being filled,
\* whatever ranges the class had: free is the number of unused gids in the
\* range, so AllocateNext refuses only when there is none and its scan always
\* finds one (minmax.go:98-104, 123, 133-148, 163).
FreeExact ==
  /\ \A c \in DOMAIN tables :
       tables[c].free = Cardinality(Unused(tables[c]))
  /\ \A v \in Volumes : new[v].free = Cardinality(Unused(new[v]))

\* "no two PVs of the same SC get the same GID" (allocator.go:49-50): holds of
\* one process across its restarts, racing fills of the table and class
\* changes, as long as no PV's gid is released twice.
GidUnique ==
  "again" \notin happened =>
    \A v, w \in Holders : gid[v] = gid[w] => v = w

\* No gid is lost: a gid marked in the class's table belongs to a volume,
\* unless a volume was given up before it had a PV, the class could not be
\* read in Release (allocator.go:90), or a gid was released twice.
NoGidLost ==
  happened = {} /\ Class \in DOMAIN tables =>
    tables[Class].used \subseteq {gid[v] : v \in Holders}
=============================================================================
