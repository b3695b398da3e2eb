------------------------ MODULE GidAllocatorProofs ------------------------
(***************************************************************************)
(* For every number of volumes, every range of gids and every parameters   *)
(* of the class: the counts of the tables are exact, no two volumes hold   *)
(* the same gid, and no gid is lost, each under the condition GidAllocator *)
(* states it with.  They rest on what the operations of MinMaxAllocator do *)
(* to a table: each keeps the count of free numbers exact, and with an     *)
(* exact count AllocateNext's quick check and its scan agree.              *)
(***************************************************************************)
EXTENDS GidAllocator, FiniteSetTheorems, WellFoundedInduction, TLAPS

----------------------------------------------------------------------------
(* MinMaxAllocator.                                                         *)

\* Tables over the natural numbers.
NatTable == [min : Nat, max : Nat, free : Int, used : SUBSET Nat]

\* The count of free numbers is right.
Exact(t) == t.free = Cardinality(Unused(t))

\* The numbers of a range that are not in u.
Gap(lo, hi, u) == (lo .. hi) \ u

\* They are finitely many.
LEMMA GapFinite ==
  ASSUME NEW lo \in Nat, NEW hi \in Nat, NEW u
  PROVE  /\ IsFiniteSet(Gap(lo, hi, u))
         /\ Cardinality(Gap(lo, hi, u)) \in Nat
<1>1. IsFiniteSet(lo .. hi)
  BY FS_Interval
<1>2. Gap(lo, hi, u) \subseteq lo .. hi
  BY DEF Gap
<1>3. IsFiniteSet(Gap(lo, hi, u))
  BY <1>1, <1>2, FS_Subset
<1> QED  BY <1>3, FS_CardinalityType

\* The formula SetRange computes the count with (minmax.go:98-104).
LEMMA Recount ==
  ASSUME NEW lo \in Nat, NEW hi \in Nat, lo <= hi, NEW u \in SUBSET Nat
  PROVE  1 + hi - lo - Cardinality({i \in u : lo <= i /\ i <= hi})
           = Cardinality(Gap(lo, hi, u))
<1> DEFINE s == lo .. hi
           t == {i \in u : lo <= i /\ i <= hi}
<1>1. IsFiniteSet(s) /\ Cardinality(s) = 1 + hi - lo
  <2>1. IsFiniteSet(lo .. hi) /\ Cardinality(lo .. hi) = IF lo > hi THEN 0 ELSE hi - lo + 1
    BY FS_Interval
  <2> QED  BY <2>1
<1>2. t = s \cap u
  <2>1. \A i \in u : i \in s <=> lo <= i /\ i <= hi
    OBVIOUS
  <2> HIDE DEF s
  <2> QED  BY <2>1, Zenon DEF t
<1>3. IsFiniteSet(t)
  BY <1>1, <1>2, FS_Subset
<1>4. Cardinality(s \ u) = Cardinality(s) - Cardinality(s \cap u)
  BY <1>1, FS_Difference
<1>5. Cardinality(s) \in Nat /\ Cardinality(t) \in Nat
  BY <1>1, <1>3, FS_CardinalityType
<1>6. Gap(lo, hi, u) = s \ u
  BY DEF Gap
<1> HIDE DEF s, t
<1>7. 1 + hi - lo - Cardinality(t) = Cardinality(Gap(lo, hi, u))
  BY <1>1, <1>2, <1>4, <1>5, <1>6
<1> QED  BY <1>7 DEF t

\* A new table's count is exact.
LEMMA NewExact ==
  ASSUME NEW lo \in Nat, NEW hi \in Nat, lo <= hi
  PROVE  /\ NewMinMaxAllocator(lo, hi) \in NatTable
         /\ Exact(NewMinMaxAllocator(lo, hi))
<1>1. Cardinality(lo .. hi) = IF lo > hi THEN 0 ELSE hi - lo + 1
  BY FS_Interval
<1>2. Unused(NewMinMaxAllocator(lo, hi)) = lo .. hi
  BY DEF Unused, NewMinMaxAllocator
<1> QED  BY <1>1, <1>2 DEF Exact, NewMinMaxAllocator, NatTable

\* SetRange recounts, or keeps an exact count (minmax.go:80-107).
LEMMA SetRangeExact ==
  ASSUME NEW t \in NatTable, Exact(t),
         NEW lo \in Nat, NEW hi \in Nat, lo <= hi
  PROVE  /\ SetRange(t, lo, hi) \in NatTable
         /\ Exact(SetRange(t, lo, hi))
         /\ SetRange(t, lo, hi).used = t.used
         /\ SetRange(t, lo, hi).min = lo
         /\ SetRange(t, lo, hi).max = hi
<1> DEFINE r == SetRange(t, lo, hi)
           n == Cardinality({i \in t.used : lo <= i /\ i <= hi})
<1>1. /\ r.min = lo /\ r.max = hi /\ r.used = t.used
      /\ r.free = IF lo = t.min /\ hi = t.max THEN t.free ELSE 1 + hi - lo - n
  BY DEF SetRange, NatTable
<1>2. Unused(r) = Gap(lo, hi, t.used) /\ Unused(t) = Gap(t.min, t.max, t.used)
  BY <1>1 DEF Unused, Gap
<1>3. t.used \in SUBSET Nat /\ t.min \in Nat /\ t.max \in Nat
  BY DEF NatTable
<1>4. 1 + hi - lo - n = Cardinality(Gap(lo, hi, t.used))
  BY <1>3, Recount
<1>5. t.free = Cardinality(Gap(t.min, t.max, t.used))
  BY <1>2 DEF Exact
<1>6. r.free = Cardinality(Gap(lo, hi, t.used))
  <2> HIDE DEF n, r
  <2>1. CASE lo = t.min /\ hi = t.max
    BY <2>1, <1>1, <1>5
  <2>2. CASE ~(lo = t.min /\ hi = t.max)
    BY <2>2, <1>1, <1>4
  <2> QED  BY <2>1, <2>2
<1>7. r.free \in Nat
  BY <1>6, <1>3, GapFinite
<1>8. r \in NatTable
  BY <1>1, <1>3, <1>7 DEF SetRange, NatTable
<1>9. Exact(r)
  <2> HIDE DEF r
  <2> QED  BY <1>2, <1>6 DEF Exact
<1> QED  BY <1>1, <1>8, <1>9

\* Allocating an unused number of the range makes one unused number less
\* (minmax.go:122-124, 141-143).
LEMMA AllocateExact ==
  ASSUME NEW t \in NatTable, Exact(t), NEW i \in Unused(t)
  PROVE  /\ Allocate(t, i) \in NatTable
         /\ Exact(Allocate(t, i))
         /\ Allocate(t, i).used = t.used \cup {i}
         /\ Allocate(t, i).min = t.min /\ Allocate(t, i).max = t.max
<1> DEFINE r == Allocate(t, i)
<1>1. /\ r.min = t.min /\ r.max = t.max /\ r.used = t.used \cup {i}
      /\ r.free = t.free - 1
  BY DEF Allocate, NatTable
<1>2. t.min \in Nat /\ t.max \in Nat /\ t.used \in SUBSET Nat /\ t.free \in Int
  BY DEF NatTable
<1>3. i \in Nat
  BY <1>2 DEF Unused
<1>4. Unused(t) = Gap(t.min, t.max, t.used)
  BY DEF Unused, Gap
<1>5. Unused(r) = Unused(t) \ {i}
  BY <1>1 DEF Unused
<1>6. Cardinality(Unused(t) \ {i}) = Cardinality(Unused(t)) - 1
  <2>1. IsFiniteSet(Unused(t))
    BY <1>2, <1>4, GapFinite
  <2> QED  BY <2>1, FS_RemoveElement
<1>7. r \in NatTable
  BY <1>2, <1>3 DEF Allocate, NatTable
<1>8. Exact(r)
  <2> HIDE DEF r
  <2> QED  BY <1>1, <1>5, <1>6 DEF Exact
<1> QED  BY <1>1, <1>7, <1>8

\* Releasing a used number adds one unused number if it is in the range
\* (minmax.go:151-172).
LEMMA ReleaseExact ==
  ASSUME NEW t \in NatTable, Exact(t), NEW i \in Nat
  PROVE  /\ Release(t, i) \in NatTable
         /\ Exact(Release(t, i))
         /\ Release(t, i).used = t.used \ {i}
         /\ Release(t, i).min = t.min /\ Release(t, i).max = t.max
<1> DEFINE r == Release(t, i)
<1>1. /\ r.min = t.min /\ r.max = t.max /\ r.used = t.used \ {i}
      /\ r.free = IF i \in t.used /\ InRange(t, i) THEN t.free + 1 ELSE t.free
  BY DEF Release, NatTable
<1>2. t.min \in Nat /\ t.max \in Nat /\ t.used \in SUBSET Nat /\ t.free \in Int
  BY DEF NatTable
<1>3. IsFiniteSet(Unused(t))
  BY <1>2, GapFinite DEF Unused, Gap
<1>4. Exact(r)
  <2> HIDE DEF r
  <2>1. CASE i \in t.used /\ InRange(t, i)
    <3>1. Unused(r) = Unused(t) \cup {i} /\ i \notin Unused(t)
      BY <1>1, <1>2, <2>1 DEF Unused, InRange
    <3>2. Cardinality(Unused(t) \cup {i}) = Cardinality(Unused(t)) + 1
      BY <1>3, <3>1, FS_AddElement
    <3> QED  BY <3>1, <3>2, <2>1, <1>1 DEF Exact
  <2>2. CASE ~(i \in t.used /\ InRange(t, i))
    <3>1. Unused(r) = Unused(t)
      BY <1>1, <1>2, <2>2 DEF Unused, InRange
    <3> QED  BY <3>1, <2>2, <1>1 DEF Exact
  <2> QED  BY <2>1, <2>2
<1>5. r \in NatTable
  BY <1>2 DEF Release, NatTable
<1> QED  BY <1>1, <1>4, <1>5

\* A set of natural numbers that is not empty has a least element.
LEMMA LeastNatural ==
  ASSUME NEW S \in SUBSET Nat, S # {}
  PROVE  \E i \in S : \A j \in S : i <= j
<1> DEFINE R == OpToRel(<, Nat)
<1>1. IsWellFoundedOn(R, Nat)
  BY NatLessThanWellFounded
<1>2. \A x, y \in Nat : <<y, x>> \in R <=> y < x
  BY DEF OpToRel
<1> HIDE DEF R
<1>3. \E x \in S : \A y \in S : ~(<<y, x>> \in R)
  BY <1>1, WFMin, Zenon
<1>4. PICK x \in S : \A y \in S : ~(<<y, x>> \in R)
  BY <1>3
<1>5. ASSUME NEW y \in S PROVE x <= y
  <2>1. x \in Nat /\ y \in Nat
    OBVIOUS
  <2>2. ~(y < x)
    BY <2>1, <1>2, <1>4, Zenon
  <2> QED  BY <2>1, <2>2
<1> QED  BY <1>5

\* With an exact count, AllocateNext's quick check and its scan agree: it
\* refuses only when the range is full, and otherwise finds a number of the
\* range that is not in use (minmax.go:133-148).
LEMMA AllocateNextRight ==
  ASSUME NEW t \in NatTable, Exact(t)
  PROVE  /\ CanAllocateNext(t) => NextFree(t) \in Unused(t)
         /\ ~CanAllocateNext(t) => Unused(t) = {}
<1>1. t.min \in Nat /\ t.max \in Nat /\ t.used \in SUBSET Nat /\ t.free \in Int
  BY DEF NatTable
<1>2. IsFiniteSet(Unused(t)) /\ Cardinality(Unused(t)) \in Nat
  BY <1>1, GapFinite DEF Unused, Gap
<1>3. Cardinality(Unused(t)) = 0 <=> Unused(t) = {}
  BY <1>2, FS_EmptySet
<1>4. ASSUME Unused(t) # {} PROVE NextFree(t) \in Unused(t)
  <2>1. Unused(t) \in SUBSET Nat
    BY <1>1 DEF Unused
  <2>2. \E i \in Unused(t) : \A j \in Unused(t) : i <= j
    BY <1>4, <2>1, LeastNatural
  <2> QED  BY <2>2 DEF NextFree
<1> QED  BY <1>2, <1>3, <1>4 DEF Exact, CanAllocateNext

----------------------------------------------------------------------------
(* GidAllocator.                                                            *)

\* A table whose gids are in bounds and whose count is right.
Sound(t) == t \in Table /\ Exact(t)

\* Every call has a range that is not empty; only Release works without a
\* class; a volume whose gid is held is not being worked on; the tables being
\* filled have the full range.
CallsInv ==
  /\ \A v \in Volumes :
       /\ at[v] # "idle" => call[v].min <= call[v].max
       /\ at[v] # "idle" /\ volume[v] = "none" => call[v].class = Class
       /\ volume[v] = "held" => at[v] = "idle"
       /\ new[v].min = 0 /\ new[v].max = AbsMax

BaseInv == TypeOK /\ FreeExact /\ CallsInv

\* While there is no table of the class nobody holds an unsaved gid, and a
\* call that fills one has marked, or will mark, the gid of every saved PV.
\* Once there is one, it has the gids of all holders.
HoldInv ==
  "again" \notin happened =>
    /\ \A v, w \in Holders : gid[v] = gid[w] => v = w
    /\ \A v \in Volumes : volume[v] = "released" /\ at[v] # "idle"
                            => call[v].class = NoClass
    /\ Class \in DOMAIN tables =>
         \A w \in Holders : gid[w] \in tables[Class].used
    /\ Class \notin DOMAIN tables =>
         /\ \A w \in Volumes : volume[w] # "held"
         /\ \A v, w \in Volumes :
              at[v] = "fill" /\ call[v].class = Class /\ volume[w] = "saved"
                => gid[w] \in new[v].used \/ <<w, gid[w]>> \in todo[v]

\* As long as nothing happened every call is for the class, a table has only
\* gids of holders, and while there is no table nothing is released and what
\* a call has listed is still there.
LostInv ==
  happened = {} =>
    /\ \A v \in Volumes : at[v] # "idle" => call[v].class = Class
    /\ Class \in DOMAIN tables =>
         \A g \in tables[Class].used : \E w \in Holders : gid[w] = g
    /\ Class \notin DOMAIN tables =>
         /\ \A w \in Volumes : volume[w] \in {"none", "saved"}
         /\ \A v \in Volumes : at[v] = "fill" =>
              /\ \A g \in new[v].used : \E w \in Holders : gid[w] = g
              /\ \A p \in todo[v] : p[1] \in Holders /\ p[2] = gid[p[1]]

----------------------------------------------------------------------------
\* Gids are numbers, and the bounds of a new table are gids.
LEMMA GidsNat == Gids \subseteq Nat /\ 0 \in Gids /\ AbsMax \in Gids
BY GidAssumption DEF Gids

\* A table of gids is a table of numbers.
LEMMA TableNat == ASSUME NEW t \in Table PROVE t \in NatTable
BY GidsNat DEF Table, NatTable

\* A table of numbers whose range and marks are gids is a table of gids.
LEMMA InTable ==
  ASSUME NEW t \in NatTable, t.min \in Gids, t.max \in Gids, t.used \subseteq Gids
  PROVE  t \in Table
BY DEF Table, NatTable

\* SetRange keeps a table sound and its marks.
LEMMA SetRangeSound ==
  ASSUME NEW t, Sound(t), NEW lo \in Gids, NEW hi \in Gids, lo <= hi
  PROVE  /\ Sound(SetRange(t, lo, hi))
         /\ SetRange(t, lo, hi).used = t.used
<1>1. t \in NatTable /\ Exact(t) /\ t.used \subseteq Gids
  BY TableNat DEF Sound, Table
<1>2. lo \in Nat /\ hi \in Nat
  BY GidsNat
<1>3. /\ SetRange(t, lo, hi) \in NatTable
      /\ Exact(SetRange(t, lo, hi))
      /\ SetRange(t, lo, hi).used = t.used
      /\ SetRange(t, lo, hi).min = lo
      /\ SetRange(t, lo, hi).max = hi
  BY <1>1, <1>2, SetRangeExact
<1>4. SetRange(t, lo, hi) \in Table
  BY <1>1, <1>3, InTable
<1> QED  BY <1>3, <1>4 DEF Sound

\* Allocating a free gid keeps a table sound and marks just that gid.
LEMMA AllocateSound ==
  ASSUME NEW t, Sound(t), NEW i \in Unused(t)
  PROVE  /\ Sound(Allocate(t, i)) /\ i \in Gids
         /\ Allocate(t, i).used = t.used \cup {i}
         /\ Allocate(t, i).min = t.min /\ Allocate(t, i).max = t.max
<1>1. /\ t \in NatTable /\ Exact(t) /\ t.used \subseteq Gids
      /\ t.min \in Gids /\ t.max \in Gids
  BY TableNat DEF Sound, Table
<1>2. i \in Gids
  BY <1>1, GidAssumption DEF Unused, Gids
<1>3. /\ Allocate(t, i) \in NatTable
      /\ Exact(Allocate(t, i))
      /\ Allocate(t, i).used = t.used \cup {i}
      /\ Allocate(t, i).min = t.min /\ Allocate(t, i).max = t.max
  BY <1>1, AllocateExact
<1>4. Allocate(t, i) \in Table
  BY <1>1, <1>2, <1>3, InTable
<1> QED  BY <1>2, <1>3, <1>4 DEF Sound

\* Release keeps a table sound and takes just that mark away.
LEMMA ReleaseSound ==
  ASSUME NEW t, Sound(t), NEW i \in Gids
  PROVE  Sound(Release(t, i)) /\ Release(t, i).used = t.used \ {i}
<1>1. /\ t \in NatTable /\ Exact(t) /\ t.used \subseteq Gids
      /\ t.min \in Gids /\ t.max \in Gids
  BY TableNat DEF Sound, Table
<1>2. i \in Nat
  BY GidsNat
<1>3. /\ Release(t, i) \in NatTable
      /\ Exact(Release(t, i))
      /\ Release(t, i).used = t.used \ {i}
      /\ Release(t, i).min = t.min /\ Release(t, i).max = t.max
  BY <1>1, <1>2, ReleaseExact
<1>4. Release(t, i) \in Table
  BY <1>1, <1>3, InTable
<1> QED  BY <1>3, <1>4 DEF Sound

\* What a new table is.
LEMMA EmptySound ==
  Sound(EmptyTable) /\ EmptyTable.used = {}
    /\ EmptyTable.min = 0 /\ EmptyTable.max = AbsMax
<1>1. 0 \in Nat /\ AbsMax \in Nat /\ 0 <= AbsMax
  BY GidAssumption
<1>2. NewMinMaxAllocator(0, AbsMax) \in NatTable /\ Exact(EmptyTable)
  BY <1>1, NewExact DEF EmptyTable
<1>3. EmptyTable.used = {} /\ EmptyTable.min = 0 /\ EmptyTable.max = AbsMax
  BY DEF EmptyTable, NewMinMaxAllocator
<1>4. EmptyTable \in Table
  BY <1>2, <1>3, GidsNat, InTable DEF EmptyTable
<1> QED  BY <1>2, <1>3, <1>4 DEF Sound

\* The parameters that parse give a range in bounds that is not empty.
LEMMA ParametersInBounds ==
  ASSUME NEW p \in ParamSets \cup {NoParameters}, ParsesParameters(p)
  PROVE  GidMin(p) \in Gids /\ GidMax(p) \in Gids /\ GidMin(p) <= GidMax(p)
<1>1. \A k \in DOMAIN p : p[k] \in Int
  BY GidAssumption DEF NoParameters
<1> QED  BY <1>1, GidAssumption DEF ParsesParameters, GidMin, GidMax, Gids

\* The invariant in terms of sound tables.
LEMMA SoundTables ==
  BaseInv => /\ \A c \in DOMAIN tables : Sound(tables[c])
             /\ \A v \in Volumes : Sound(new[v])
<1> SUFFICES ASSUME BaseInv PROVE /\ \A c \in DOMAIN tables : Sound(tables[c])
                                  /\ \A v \in Volumes : Sound(new[v])
  OBVIOUS
<1>1. \A c \in DOMAIN tables : tables[c] \in Table
  BY DEF BaseInv, TypeOK
<1>2. \A v \in Volumes : new[v] \in Table
  BY DEF BaseInv, TypeOK
<1> QED  BY <1>1, <1>2 DEF BaseInv, FreeExact, Sound, Exact

----------------------------------------------------------------------------
\* The invariant without the tables: what a step does to the volumes and the
\* calls.
Rest ==
  /\ params \in ParamSets
  /\ volume \in [Volumes -> {"none", "held", "saved", "released"}]
  /\ at \in [Volumes -> {"idle", "get", "fill", "use"}]
  /\ gid \in [Volumes -> Gids]
  /\ call \in [Volumes -> [class : {Class, NoClass}, min : Gids, max : Gids]]
  /\ todo \in [Volumes -> SUBSET (Volumes \X Gids)]
  /\ happened \subseteq {"classError", "discarded", "again"}
  /\ \A v \in Volumes :
       /\ at[v] = "use" => call[v].class \in DOMAIN tables
       /\ at[v] # "idle" => call[v].min <= call[v].max
       /\ at[v] # "idle" /\ volume[v] = "none" => call[v].class = Class
       /\ volume[v] = "held" => at[v] = "idle"

\* The shared tables, and the ones being filled.
Shared ==
  /\ DOMAIN tables \subseteq {Class, NoClass}
  /\ \A c \in DOMAIN tables : Sound(tables[c])

Filling ==
  /\ new \in [Volumes -> Table]
  /\ \A v \in Volumes : Sound(new[v]) /\ new[v].min = 0 /\ new[v].max = AbsMax

\* The three parts are the invariant.
LEMMA Parts == BaseInv <=> Rest /\ Shared /\ Filling
<1>1. BaseInv => Rest
  BY DEF BaseInv, TypeOK, CallsInv, Rest
<1>2. BaseInv => Shared /\ Filling
  BY SoundTables DEF BaseInv, TypeOK, CallsInv, Shared, Filling
<1>3. Rest /\ Shared /\ Filling => TypeOK
  BY DEF TypeOK, Rest, Shared, Filling, Sound
<1>4. Rest /\ Shared /\ Filling => FreeExact
  BY DEF FreeExact, Shared, Filling, Sound, Exact
<1>5. Rest /\ Shared /\ Filling => CallsInv
  BY DEF CallsInv, Rest, Filling
<1> QED  BY <1>1, <1>2, <1>3, <1>4, <1>5 DEF BaseInv

\* A step that leaves the tables alone keeps them as they are.
LEMMA SameTables ==
  /\ Shared /\ UNCHANGED tables => Shared'
  /\ Filling /\ UNCHANGED new => Filling'
BY DEF Shared, Filling

\* A call that drops or begins its own table.
LEMMA FreshTable ==
  ASSUME Filling, NEW v \in Volumes, new' = [new EXCEPT ![v] = EmptyTable]
  PROVE  Filling'
BY EmptySound DEF Filling, Sound

\* A shared table is replaced by a sound one.
LEMMA OneTable ==
  ASSUME Shared, NEW c \in DOMAIN tables, NEW t, Sound(t),
         tables' = [tables EXCEPT ![c] = t]
  PROVE  Shared'
BY DEF Shared

\* What setting the range of a class's table does.
LEMMA UseTableTables ==
  ASSUME BaseInv, NEW v \in Volumes, at[v] # "idle",
         call[v].class \in DOMAIN tables, UseTable(v)
  PROVE  /\ Shared' /\ Filling' /\ DOMAIN tables' = DOMAIN tables
         /\ \A c \in DOMAIN tables : tables'[c].used = tables[c].used
<1> DEFINE c == call[v].class
           t == SetRange(tables[c], call[v].min, call[v].max)
<1>1. call[v].min \in Gids /\ call[v].max \in Gids /\ call[v].min <= call[v].max
  BY DEF BaseInv, TypeOK, CallsInv
<1>2. Sound(tables[c])
  BY SoundTables
<1>3. Sound(t) /\ t.used = tables[c].used
  BY <1>1, <1>2, SetRangeSound
<1>4. tables' = [tables EXCEPT ![c] = t]
  BY DEF UseTable
<1> HIDE DEF t
<1>5. Shared'
  BY <1>3, <1>4, OneTable, Parts
<1>6. Filling'
  BY FreshTable, Parts DEF UseTable
<1> QED  BY <1>3, <1>4, <1>5, <1>6

\* What inserting a filled table does.
LEMMA InsertTableTables ==
  ASSUME BaseInv, NEW v \in Volumes, InsertTable(v)
  PROVE  /\ Shared' /\ Filling'
         /\ DOMAIN tables' = DOMAIN tables \cup {call[v].class}
         /\ tables'[call[v].class].used = new[v].used
         /\ \A c \in DOMAIN tables : tables'[c] = tables[c]
<1> DEFINE c == call[v].class
           t == SetRange(new[v], call[v].min, call[v].max)
<1>1. /\ call[v].min \in Gids /\ call[v].max \in Gids /\ c \in {Class, NoClass}
      /\ call[v].min <= call[v].max
  BY DEF BaseInv, TypeOK, CallsInv, InsertTable
<1>2. Sound(new[v])
  BY SoundTables
<1>3. Sound(t) /\ t.used = new[v].used
  BY <1>1, <1>2, SetRangeSound
<1>4. /\ tables' = [k \in DOMAIN tables \cup {c} |->
                      IF k = c THEN t ELSE tables[k]]
      /\ c \notin DOMAIN tables
  BY DEF InsertTable
<1> HIDE DEF t, c
<1>5. Shared'
  BY <1>1, <1>3, <1>4, Parts DEF Shared
<1>6. Filling'
  BY FreshTable, Parts DEF InsertTable
<1>7. /\ DOMAIN tables' = DOMAIN tables \cup {c}
      /\ tables'[c].used = new[v].used
      /\ \A k \in DOMAIN tables : tables'[k] = tables[k]
  BY <1>3, <1>4
<1> QED  BY <1>5, <1>6, <1>7 DEF c

\* What marking the gid of a PV does.
LEMMA CollectTables ==
  ASSUME BaseInv, NEW v \in Volumes, CollectGid(v)
  PROVE  /\ Filling'
         /\ \E p \in todo[v] :
              /\ todo' = [todo EXCEPT ![v] = @ \ {p}]
              /\ new'[v].used = new[v].used \cup {p[2]}
         /\ \A w \in Volumes \ {v} : new'[w] = new[w]
<1>1. PICK p \in todo[v] :
        /\ new' = [new EXCEPT ![v] = IF CanAllocate(@, p[2])
                                     THEN Allocate(@, p[2]) ELSE @]
        /\ todo' = [todo EXCEPT ![v] = @ \ {p}]
  BY DEF CollectGid
<1> DEFINE t == new[v]
           r == IF CanAllocate(t, p[2]) THEN Allocate(t, p[2]) ELSE t
<1>2. Filling /\ new \in [Volumes -> Table]
  BY Parts DEF Filling
<1>3. Sound(t) /\ t.min = 0 /\ t.max = AbsMax
  BY <1>2 DEF Filling
<1>4. p[2] \in Gids
  BY DEF BaseInv, TypeOK
<1>5. /\ Sound(r) /\ r.min = 0 /\ r.max = AbsMax
      /\ r.used = t.used \cup {p[2]}
  <2>1. CASE p[2] \in t.used
    <3>1. r = t
      BY <2>1 DEF CanAllocate
    <3> HIDE DEF r, t
    <3> QED  BY <2>1, <3>1, <1>3
  <2>2. CASE p[2] \notin t.used
    <3>1. p[2] \in Unused(t) /\ CanAllocate(t, p[2])
      BY <2>2, <1>3, <1>4, GidAssumption DEF Unused, CanAllocate, InRange, Gids
    <3>2. /\ Sound(Allocate(t, p[2]))
          /\ Allocate(t, p[2]).used = t.used \cup {p[2]}
          /\ Allocate(t, p[2]).min = t.min /\ Allocate(t, p[2]).max = t.max
      BY <3>1, <1>3, AllocateSound
    <3> QED  BY <3>1, <3>2, <1>3
  <2> QED  BY <2>1, <2>2
<1>6. new' = [new EXCEPT ![v] = r]
  BY <1>1
<1> HIDE DEF r
<1>7. r \in Table
  BY <1>5 DEF Sound
<1>8. Filling'
  BY <1>2, <1>5, <1>6, <1>7 DEF Filling
<1> QED  BY <1>1, <1>2, <1>5, <1>6, <1>8

\* What reserving a gid does: it was not used.
LEMMA ReserveTables ==
  ASSUME BaseInv, NEW v \in Volumes, ReserveGid(v)
  PROVE  \E g \in Gids :
           /\ g \notin tables[Class].used
           /\ gid' = [gid EXCEPT ![v] = g]
           /\ Class \in DOMAIN tables
           /\ Shared' /\ DOMAIN tables' = DOMAIN tables
           /\ tables'[Class].used = tables[Class].used \cup {g}
<1> DEFINE t == tables[Class]
           g == NextFree(t)
<1>1. Class \in DOMAIN tables
  BY DEF BaseInv, TypeOK, CallsInv, ReserveGid
<1>2. Sound(t)
  BY <1>1, SoundTables
<1>3. g \in Unused(t)
  BY <1>2, TableNat, AllocateNextRight DEF Sound, ReserveGid
<1>4. /\ Sound(Allocate(t, g)) /\ g \in Gids
      /\ Allocate(t, g).used = t.used \cup {g}
  BY <1>2, <1>3, AllocateSound
<1>5. tables' = [tables EXCEPT ![Class] = Allocate(t, g)]
      /\ gid' = [gid EXCEPT ![v] = g]
  BY DEF ReserveGid
<1>6. g \notin t.used
  BY <1>3 DEF Unused
<1> HIDE DEF g
<1>7. Shared'
  BY <1>1, <1>4, <1>5, OneTable, Parts
<1>8. tables'[Class].used = tables[Class].used \cup {g}
      /\ DOMAIN tables' = DOMAIN tables
  BY <1>1, <1>4, <1>5
<1> QED  BY <1>1, <1>4, <1>5, <1>6, <1>7, <1>8

\* What releasing a gid does.
LEMMA ReleaseTables ==
  ASSUME BaseInv, NEW v \in Volumes, ReleaseGid(v)
  PROVE  /\ Shared' /\ DOMAIN tables' = DOMAIN tables
         /\ call[v].class \in DOMAIN tables
         /\ tables'[call[v].class].used = tables[call[v].class].used \ {gid[v]}
         /\ \A c \in DOMAIN tables \ {call[v].class} : tables'[c] = tables[c]
<1> DEFINE c == call[v].class
           t == Release(tables[c], gid[v])
<1>1. c \in DOMAIN tables /\ gid[v] \in Gids
  BY DEF BaseInv, TypeOK, ReleaseGid
<1>2. Sound(tables[c])
  BY <1>1, SoundTables
<1>3. Sound(t) /\ t.used = tables[c].used \ {gid[v]}
  BY <1>1, <1>2, ReleaseSound
<1>4. tables' = [tables EXCEPT ![c] = t]
  BY DEF ReleaseGid
<1> HIDE DEF t
<1>5. Shared'
  BY <1>1, <1>3, <1>4, OneTable, Parts
<1> QED  BY <1>1, <1>3, <1>4, <1>5

----------------------------------------------------------------------------
\* A new allocator satisfies the invariants.
LEMMA AllInit == Init => BaseInv /\ HoldInv /\ LostInv
<1> SUFFICES ASSUME Init PROVE BaseInv /\ HoldInv /\ LostInv
  OBVIOUS
<1>1. Rest
  BY GidsNat DEF Init, Rest, NoCall
<1>2. Shared
  BY DEF Init, Shared
<1>3. Filling
  BY EmptySound DEF Init, Filling, Sound
<1>4. HoldInv
  BY DEF Init, HoldInv, Holders
<1>5. LostInv
  BY DEF Init, LostInv
<1> QED  BY <1>1, <1>2, <1>3, <1>4, <1>5, Parts

\* Every step preserves BaseInv.
LEMMA BaseStep == BaseInv /\ [Next]_vars => BaseInv'
<1> SUFFICES ASSUME BaseInv, [Next]_vars PROVE BaseInv'
  OBVIOUS
<1> USE GidsNat
<1>p. Rest /\ Shared /\ Filling
  BY Parts
<1>q. Rest' /\ Shared' /\ Filling' => BaseInv'
  BY Parts, PTL
<1>t. /\ params \in ParamSets
      /\ volume \in [Volumes -> {"none", "held", "saved", "released"}]
      /\ at \in [Volumes -> {"idle", "get", "fill", "use"}]
      /\ gid \in [Volumes -> Gids]
      /\ call \in [Volumes -> [class : {Class, NoClass}, min : Gids, max : Gids]]
      /\ todo \in [Volumes -> SUBSET (Volumes \X Gids)]
  BY <1>p DEF Rest
<1>1. CASE UNCHANGED vars
  <2>1. Rest'
    BY <1>1, <1>p DEF Rest, vars
  <2> QED  BY <2>1, <1>1, <1>p, <1>q, SameTables DEF vars
<1>2. ASSUME NEW v \in Volumes, NEW c \in {Class, NoClass},
             NEW p \in ParamSets \cup {NoParameters}, Begin(v, c, p),
             at[v] = "idle", volume[v] # "held",
             volume[v] = "none" => c = Class,
             happened' \subseteq {"classError", "discarded", "again"}
      PROVE  BaseInv'
  <2>1. GidMin(p) \in Gids /\ GidMax(p) \in Gids /\ GidMin(p) <= GidMax(p)
    BY <1>2, ParametersInBounds DEF Begin
  <2>2. Rest'
    BY <1>2, <2>1, <1>p DEF Rest, Begin
  <2> QED  BY <2>2, <1>2, <1>p, <1>q, SameTables DEF Begin
<1>3. ASSUME NEW v \in Volumes, UseTable(v), at[v] # "idle",
             call[v].class \in DOMAIN tables
      PROVE  BaseInv'
  <2>1. Shared' /\ Filling' /\ DOMAIN tables' = DOMAIN tables
    BY <1>3, UseTableTables
  <2>2. Rest'
    BY <2>1, <1>3, <1>p DEF Rest, UseTable
  <2> QED  BY <2>1, <2>2, <1>q
<1>4. ASSUME NEW v \in Volumes, ListPVs(v) PROVE BaseInv'
  <2>1. PVList(call[v].class) \subseteq Volumes \X Gids
    BY DEF PVList
  <2>2. Rest'
    BY <2>1, <1>4, <1>p DEF Rest, ListPVs
  <2>3. Filling'
    BY <1>4, <1>p, FreshTable DEF ListPVs
  <2> QED  BY <2>2, <2>3, <1>4, <1>p, <1>q, SameTables DEF ListPVs
<1>5. ASSUME NEW v \in Volumes, ListFails(v) \/ ReserveFails(v) PROVE BaseInv'
  <2>1. /\ at' = [at EXCEPT ![v] = "idle"] /\ call' = [call EXCEPT ![v] = NoCall]
        /\ UNCHANGED <<params, tables, volume, gid, todo, happened>>
    BY <1>5 DEF ListFails, ReserveFails, Return
  <2>2. Rest'
    BY <2>1, <1>p DEF Rest, NoCall
  <2> QED  BY <2>2, <1>5, <1>p, <1>q, SameTables DEF ListFails, ReserveFails
<1>6. ASSUME NEW v \in Volumes, CollectGid(v) PROVE BaseInv'
  <2>1. PICK p \in todo[v] : todo' = [todo EXCEPT ![v] = @ \ {p}]
    BY <1>6, CollectTables
  <2>2. Filling'
    BY <1>6, CollectTables
  <2>3. Rest'
    BY <2>1, <1>6, <1>p DEF Rest, CollectGid
  <2> QED  BY <2>2, <2>3, <1>6, <1>p, <1>q, SameTables DEF CollectGid
<1>7. ASSUME NEW v \in Volumes, InsertTable(v) PROVE BaseInv'
  <2>1. Shared' /\ Filling' /\ DOMAIN tables' = DOMAIN tables \cup {call[v].class}
    BY <1>7, InsertTableTables
  <2>2. Rest'
    BY <2>1, <1>7, <1>p DEF Rest, InsertTable
  <2> QED  BY <2>1, <2>2, <1>q
<1>8. ASSUME NEW v \in Volumes, ReserveGid(v) PROVE BaseInv'
  <2>1. PICK g \in Gids : /\ gid' = [gid EXCEPT ![v] = g]
                          /\ Shared' /\ DOMAIN tables' = DOMAIN tables
    BY <1>8, ReserveTables
  <2>2. Rest'
    BY <2>1, <1>8, <1>p DEF Rest, ReserveGid, Return, NoCall
  <2> QED  BY <2>1, <2>2, <1>8, <1>p, <1>q, SameTables DEF ReserveGid
<1>9. ASSUME NEW v \in Volumes, ReleaseGid(v) PROVE BaseInv'
  <2>1. Shared' /\ DOMAIN tables' = DOMAIN tables
    BY <1>9, ReleaseTables
  <2>2. Rest'
    BY <2>1, <1>9, <1>p DEF Rest, ReleaseGid, Return, NoCall
  <2> QED  BY <2>1, <2>2, <1>9, <1>p, <1>q, SameTables DEF ReleaseGid
<1>10. ASSUME NEW v \in Volumes, Caller(v) PROVE BaseInv'
  <2>1. Rest'
    <3>1. CASE SavePV(v)
      BY <3>1, <1>p DEF Rest, SavePV
    <3>2. CASE Discard(v)
      BY <3>2, <1>p DEF Rest, Discard
    <3>3. CASE RemovePV(v)
      BY <3>3, <1>p DEF Rest, RemovePV
    <3> QED  BY <3>1, <3>2, <3>3, <1>10 DEF Caller
  <2> QED  BY <2>1, <1>10, <1>p, <1>q, SameTables
           DEF Caller, SavePV, Discard, RemovePV
<1>11. ASSUME NEW p \in ParamSets, ReplaceClass(p) PROVE BaseInv'
  <2>1. Rest'
    BY <1>11, <1>p DEF Rest, ReplaceClass
  <2> QED  BY <2>1, <1>11, <1>p, <1>q, SameTables DEF ReplaceClass
<1>12. CASE Crash
  <2>1. Rest'
    BY <1>12, <1>p DEF Rest, Crash, NoCall
  <2>2. Shared'
    BY <1>12 DEF Shared, Crash
  <2>3. Filling'
    BY <1>12, EmptySound DEF Filling, Crash, Sound
  <2> QED  BY <2>1, <2>2, <2>3, <1>q
<1> QED
  <2>1. ASSUME NEW v \in Volumes, Call(v) PROVE BaseInv'
    <3>1. CASE StartAllocateNext(v)
      <4>1. happened' \subseteq {"classError", "discarded", "again"}
        BY <3>1, <1>p DEF StartAllocateNext, Rest
      <4> QED  BY <4>1, <3>1, <1>t, <1>2 DEF StartAllocateNext
    <3>2. CASE StartRelease(v)
      <4>1. happened' \subseteq {"classError", "discarded", "again"}
        BY <3>2, <1>p DEF StartRelease, Rest
      <4>2. volume[v] # "none" /\ volume[v] # "held"
        BY <3>2 DEF StartRelease
      <4> QED  BY <4>1, <4>2, <3>2, <1>t, <1>2 DEF StartRelease
    <3>3. CASE StartReleaseNoClass(v)
      <4>1. happened' \subseteq {"classError", "discarded", "again"}
        BY <3>3, <1>p DEF StartReleaseNoClass, Rest
      <4>2. volume[v] # "none" /\ volume[v] # "held"
        BY <3>3 DEF StartReleaseNoClass
      <4> QED  BY <4>1, <4>2, <3>3, <1>t, <1>2 DEF StartReleaseNoClass
    <3>4. CASE FindTable(v) \/ DropNewTable(v)
      BY <3>4, <1>3 DEF FindTable, DropNewTable
    <3> QED  BY <2>1, <3>1, <3>2, <3>3, <3>4, <1>4, <1>5, <1>6, <1>7, <1>8, <1>9
             DEF Call
  <2> QED  BY <2>1, <1>1, <1>10, <1>11, <1>12 DEF Next

\* What happened stays.
LEMMA HappenedGrows ==
  ASSUME [Next]_vars PROVE happened \subseteq happened'
<1>1. ASSUME NEW v \in Volumes, Call(v) PROVE happened \subseteq happened'
  BY <1>1 DEF Call, StartAllocateNext, StartRelease, StartReleaseNoClass,
              FindTable, ListPVs, ListFails, CollectGid, InsertTable,
              DropNewTable, UseTable, ReserveGid, ReserveFails, ReleaseGid
<1>2. ASSUME NEW v \in Volumes, Caller(v) PROVE happened \subseteq happened'
  BY <1>2 DEF Caller, SavePV, Discard, RemovePV
<1> QED  BY <1>1, <1>2 DEF Next, ReplaceClass, Crash, vars

\* Every step preserves HoldInv.
LEMMA HoldStep == BaseInv /\ HoldInv /\ [Next]_vars => HoldInv'
<1> SUFFICES ASSUME BaseInv, HoldInv, [Next]_vars, "again" \notin happened'
             PROVE  HoldInv'
  BY DEF HoldInv
<1>a. "again" \notin happened
  BY HappenedGrows
<1>h. /\ \A v, w \in Holders : gid[v] = gid[w] => v = w
      /\ \A v \in Volumes : volume[v] = "released" /\ at[v] # "idle"
                              => call[v].class = NoClass
      /\ Class \in DOMAIN tables =>
           \A w \in Holders : gid[w] \in tables[Class].used
      /\ Class \notin DOMAIN tables =>
           /\ \A w \in Volumes : volume[w] # "held"
           /\ \A v, w \in Volumes :
                at[v] = "fill" /\ call[v].class = Class /\ volume[w] = "saved"
                  => gid[w] \in new[v].used \/ <<w, gid[w]>> \in todo[v]
  BY <1>a DEF HoldInv
<1>t. /\ volume \in [Volumes -> {"none", "held", "saved", "released"}]
      /\ at \in [Volumes -> {"idle", "get", "fill", "use"}]
      /\ gid \in [Volumes -> Gids]
      /\ call \in [Volumes -> [class : {Class, NoClass}, min : Gids, max : Gids]]
      /\ todo \in [Volumes -> SUBSET (Volumes \X Gids)]
      /\ new \in [Volumes -> Table]
      /\ Holders \subseteq Volumes
  BY DEF BaseInv, TypeOK, Holders
<1>n. Class # NoClass
  BY DEF Class, NoClass
<1>1. CASE UNCHANGED vars
  BY <1>1 DEF HoldInv, Holders, vars
<1>2. ASSUME NEW v \in Volumes, at[v] = "idle",
             NEW c \in {Class, NoClass}, NEW p, Begin(v, c, p),
             volume[v] = "released" => c = NoClass
      PROVE  HoldInv'
  <2>1. Holders' = Holders
    BY <1>2 DEF Begin, Holders
  <2>2. \A w \in Volumes : at'[w] = "fill" =>
          at[w] = "fill" /\ call'[w] = call[w]
    BY <1>2, <1>t DEF Begin
  <2>3. \A w \in Volumes : volume'[w] = "released" /\ at'[w] # "idle"
                             => call'[w].class = NoClass
    BY <1>2, <1>t, <1>h DEF Begin
  <2> QED  BY <2>1, <2>2, <2>3, <1>2, <1>h DEF HoldInv, Begin
<1>3. ASSUME NEW v \in Volumes, UseTable(v), at[v] # "idle",
             call[v].class \in DOMAIN tables
      PROVE  HoldInv'
  <2>1. /\ DOMAIN tables' = DOMAIN tables
        /\ \A c \in DOMAIN tables : tables'[c].used = tables[c].used
    BY <1>3, UseTableTables
  <2>2. /\ UNCHANGED <<volume, gid, call, todo>>
        /\ \A w \in Volumes : at'[w] = "fill" => at[w] = "fill" /\ w # v
        /\ \A w \in Volumes \ {v} : new'[w] = new[w]
        /\ \A w \in Volumes : at'[w] # "idle" => at[w] # "idle"
    BY <1>3, <1>t DEF UseTable
  <2>3. Holders' = Holders
    BY <2>2 DEF Holders
  <2> QED  BY <2>1, <2>2, <2>3, <1>h DEF HoldInv
<1>4. ASSUME NEW v \in Volumes, ListPVs(v) PROVE HoldInv'
  <2>1. \A w \in Volumes : volume[w] = "saved" /\ call[v].class = Class
                             => <<w, gid[w]>> \in todo'[v]
    BY <1>4, <1>t DEF ListPVs, PVList
  <2>2. /\ UNCHANGED <<tables, volume, gid, call>>
        /\ \A w \in Volumes \ {v} : /\ new'[w] = new[w] /\ todo'[w] = todo[w]
                                    /\ at'[w] = at[w]
        /\ at[v] # "idle"
    BY <1>4, <1>t DEF ListPVs
  <2>3. Holders' = Holders
    BY <2>2 DEF Holders
  <2>4. Class \notin DOMAIN tables' =>
          \A x, w \in Volumes :
             at'[x] = "fill" /\ call'[x].class = Class /\ volume'[w] = "saved"
               => gid'[w] \in new'[x].used \/ <<w, gid'[w]>> \in todo'[x]
    <3> SUFFICES ASSUME Class \notin DOMAIN tables', NEW x \in Volumes,
                        NEW w \in Volumes, at'[x] = "fill",
                        call'[x].class = Class, volume'[w] = "saved"
                 PROVE  gid'[w] \in new'[x].used \/ <<w, gid'[w]>> \in todo'[x]
      OBVIOUS
    <3>1. CASE x = v
      BY <3>1, <2>1, <2>2
    <3>2. CASE x # v
      BY <3>2, <2>2, <1>h
    <3> QED  BY <3>1, <3>2
  <2> QED  BY <2>2, <2>3, <2>4, <1>h DEF HoldInv
<1>5. ASSUME NEW v \in Volumes, ListFails(v) \/ ReserveFails(v) PROVE HoldInv'
  <2>1. /\ UNCHANGED <<tables, volume, gid, new, todo>>
        /\ at' = [at EXCEPT ![v] = "idle"] /\ call' = [call EXCEPT ![v] = NoCall]
    BY <1>5 DEF ListFails, ReserveFails, Return
  <2>2. Holders' = Holders
    BY <2>1 DEF Holders
  <2>3. \A w \in Volumes : at'[w] # "idle" => at'[w] = at[w] /\ call'[w] = call[w]
    BY <2>1, <1>t
  <2> QED  BY <2>1, <2>2, <2>3, <1>h DEF HoldInv
<1>6. ASSUME NEW v \in Volumes, CollectGid(v) PROVE HoldInv'
  <2>1. PICK p \in todo[v] : /\ todo' = [todo EXCEPT ![v] = @ \ {p}]
                             /\ new'[v].used = new[v].used \cup {p[2]}
    BY <1>6, CollectTables
  <2>2. \A w \in Volumes \ {v} : new'[w] = new[w]
    BY <1>6, CollectTables
  <2>3. UNCHANGED <<tables, volume, at, gid, call>> /\ Holders' = Holders
    BY <1>6 DEF CollectGid, Holders
  <2>4. ASSUME NEW x \in Volumes, NEW w \in Volumes,
               gid[w] \in new[x].used \/ <<w, gid[w]>> \in todo[x]
        PROVE  gid[w] \in new'[x].used \/ <<w, gid[w]>> \in todo'[x]
    <3>1. CASE x # v
      BY <3>1, <2>1, <2>2, <2>4, <1>t
    <3>2. CASE x = v
      BY <3>2, <2>1, <2>4, <1>t
    <3> QED  BY <3>1, <3>2
  <2> QED  BY <2>3, <2>4, <1>h DEF HoldInv
<1>7. ASSUME NEW v \in Volumes, InsertTable(v) PROVE HoldInv'
  <2>1. /\ DOMAIN tables' = DOMAIN tables \cup {call[v].class}
        /\ tables'[call[v].class].used = new[v].used
        /\ \A c \in DOMAIN tables : tables'[c] = tables[c]
    BY <1>7, InsertTableTables
  <2>2. /\ UNCHANGED <<volume, gid, call, todo>> /\ Holders' = Holders
        /\ at[v] = "fill" /\ todo[v] = {} /\ call[v].class \notin DOMAIN tables
        /\ \A w \in Volumes : at'[w] = "fill" => at[w] = "fill" /\ w # v
        /\ \A w \in Volumes : at'[w] # "idle" => at[w] # "idle"
        /\ \A w \in Volumes \ {v} : new'[w] = new[w]
    BY <1>7, <1>t DEF InsertTable, Holders
  <2>3. CASE call[v].class = Class
    <3>1. \A w \in Holders : gid[w] \in new[v].used
      BY <2>2, <2>3, <1>h DEF Holders
    <3> QED  BY <2>1, <2>2, <2>3, <3>1, <1>h DEF HoldInv
  <2>4. CASE call[v].class # Class
    BY <2>1, <2>2, <2>4, <1>h DEF HoldInv
  <2> QED  BY <2>3, <2>4
<1>8. ASSUME NEW v \in Volumes, ReserveGid(v) PROVE HoldInv'
  <2>1. PICK g \in Gids :
          /\ g \notin tables[Class].used
          /\ gid' = [gid EXCEPT ![v] = g]
          /\ Class \in DOMAIN tables
          /\ DOMAIN tables' = DOMAIN tables
          /\ tables'[Class].used = tables[Class].used \cup {g}
    BY <1>8, ReserveTables
  <2>2. /\ volume' = [volume EXCEPT ![v] = "held"]
        /\ at' = [at EXCEPT ![v] = "idle"] /\ call' = [call EXCEPT ![v] = NoCall]
        /\ volume[v] = "none"
    BY <1>8 DEF ReserveGid, Return
  <2>3. Holders' = Holders \cup {v} /\ v \notin Holders
    BY <2>2, <1>t DEF Holders
  <2>4. \A w \in Holders : gid'[w] = gid[w] /\ gid[w] # g
    BY <2>1, <2>3, <1>h, <1>t
  <2>5. gid'[v] = g
    BY <2>1, <1>t
  <2>6. \A w, x \in Holders' : gid'[w] = gid'[x] => w = x
    BY <2>3, <2>4, <2>5, <1>h
  <2>7. \A w \in Holders' : gid'[w] \in tables'[Class].used
    BY <2>1, <2>3, <2>4, <2>5, <1>h
  <2>8. \A w \in Volumes : volume'[w] = "released" /\ at'[w] # "idle"
                             => call'[w].class = NoClass
    BY <2>2, <1>h, <1>t
  <2> QED  BY <2>1, <2>6, <2>7, <2>8 DEF HoldInv
<1>9. ASSUME NEW v \in Volumes, ReleaseGid(v) PROVE HoldInv'
  <2>1. /\ DOMAIN tables' = DOMAIN tables /\ call[v].class \in DOMAIN tables
        /\ tables'[call[v].class].used = tables[call[v].class].used \ {gid[v]}
        /\ \A c \in DOMAIN tables \ {call[v].class} : tables'[c] = tables[c]
    BY <1>9, ReleaseTables
  <2>2. /\ volume' = [volume EXCEPT ![v] = "released"]
        /\ at' = [at EXCEPT ![v] = "idle"] /\ call' = [call EXCEPT ![v] = NoCall]
        /\ UNCHANGED <<gid, new, todo>>
        /\ volume[v] \in {"saved", "released"} /\ at[v] = "use"
    BY <1>9 DEF ReleaseGid, Return
  <2>3. Holders' = Holders \ {v}
    BY <2>2, <1>t DEF Holders
  <2>4. Class \in DOMAIN tables' => \A w \in Holders' : gid'[w] \in tables'[Class].used
    <3> SUFFICES ASSUME Class \in DOMAIN tables', NEW w \in Holders'
                 PROVE  gid[w] \in tables'[Class].used
      BY <2>2
    <3>1. gid[w] \in tables[Class].used /\ w # v /\ w \in Holders
      BY <2>1, <2>3, <1>h
    <3>2. CASE call[v].class # Class
      BY <3>1, <3>2, <2>1
    <3>3. CASE call[v].class = Class
      <4>1. volume[v] = "saved"
        BY <3>3, <2>2, <1>h, <1>n
      <4>2. v \in Holders
        BY <4>1 DEF Holders
      <4>3. gid[w] # gid[v]
        BY <4>2, <3>1, <1>h
      <4> QED  BY <3>1, <3>3, <4>3, <2>1
    <3> QED  BY <3>2, <3>3
  <2>5. \A w \in Volumes : /\ at'[w] # "idle" => /\ at'[w] = at[w] /\ w # v
                                                 /\ call'[w] = call[w]
                           /\ volume'[w] = "saved" => volume[w] = "saved"
                           /\ volume'[w] = "held" => volume[w] = "held"
                           /\ w # v => volume'[w] = volume[w]
    BY <2>2, <1>t
  <2>6. \A w, x \in Holders' : gid'[w] = gid'[x] => w = x
    BY <2>2, <2>3, <1>h
  <2>7. \A w \in Volumes : volume'[w] = "released" /\ at'[w] # "idle"
                             => call'[w].class = NoClass
    BY <2>5, <1>h
  <2>8. Class \notin DOMAIN tables' =>
          /\ \A w \in Volumes : volume'[w] # "held"
          /\ \A x, w \in Volumes :
               at'[x] = "fill" /\ call'[x].class = Class /\ volume'[w] = "saved"
                 => gid'[w] \in new'[x].used \/ <<w, gid'[w]>> \in todo'[x]
    BY <2>1, <2>2, <2>5, <1>h
  <2> QED  BY <2>4, <2>6, <2>7, <2>8 DEF HoldInv
<1>10. ASSUME NEW v \in Volumes, Caller(v) PROVE HoldInv'
  <2>0. UNCHANGED <<tables, at, call, new, todo>>
    BY <1>10 DEF Caller, SavePV, Discard, RemovePV
  <2>1. CASE SavePV(v)
    <3>1. Holders' = Holders /\ gid' = gid /\ Class \in DOMAIN tables
      BY <2>1, <1>h, <1>t DEF Holders, SavePV
    <3>2. \A w \in Volumes : volume'[w] = "released" => volume[w] = "released"
      BY <2>1, <1>t DEF SavePV
    <3> QED  BY <3>1, <3>2, <2>0, <1>h DEF HoldInv
  <2>2. CASE Discard(v) \/ RemovePV(v)
    <3>1. /\ volume' = [volume EXCEPT ![v] = "none"]
          /\ gid' = [gid EXCEPT ![v] = 0]
      BY <2>2 DEF Discard, RemovePV
    <3>2. /\ Holders' = Holders \ {v}
          /\ \A w \in Volumes : volume'[w] # "none" => /\ gid'[w] = gid[w]
                                                       /\ volume'[w] = volume[w]
      BY <3>1, <1>t DEF Holders
    <3>3. \A w \in Holders' : gid'[w] = gid[w]
      BY <3>1, <3>2, <1>t
    <3> QED  BY <3>2, <3>3, <2>0, <1>h DEF HoldInv
  <2> QED  BY <2>1, <2>2, <1>10 DEF Caller
<1>11. ASSUME NEW p \in ParamSets, ReplaceClass(p) PROVE HoldInv'
  BY <1>11 DEF HoldInv, Holders, ReplaceClass
<1>12. CASE Crash
  <2>1. \A v \in Volumes : volume[v] # "released"
    BY <1>12 DEF Crash
  <2>2. \A v \in Volumes :
          /\ volume'[v] # "none" => volume[v] = "saved" /\ gid'[v] = gid[v]
          /\ at'[v] = "idle" /\ volume'[v] # "held"
    BY <1>12, <2>1, <1>t DEF Crash
  <2>3. \A v \in Holders' : v \in Holders /\ gid'[v] = gid[v]
    BY <2>2 DEF Holders
  <2>4. Class \notin DOMAIN tables'
    BY <1>12 DEF Crash
  <2> QED  BY <2>2, <2>3, <2>4, <1>h DEF HoldInv
<1> QED
  <2>1. ASSUME NEW v \in Volumes, Call(v) PROVE HoldInv'
    <3>1. CASE StartAllocateNext(v)
      BY <3>1, <1>2 DEF StartAllocateNext
    <3>2. CASE StartRelease(v)
      BY <3>2, <1>2 DEF StartRelease
    <3>3. CASE StartReleaseNoClass(v)
      BY <3>3, <1>2 DEF StartReleaseNoClass
    <3>4. CASE FindTable(v) \/ DropNewTable(v)
      BY <3>4, <1>3 DEF FindTable, DropNewTable
    <3> QED  BY <2>1, <3>1, <3>2, <3>3, <3>4, <1>4, <1>5, <1>6, <1>7, <1>8, <1>9
             DEF Call
  <2> QED  BY <2>1, <1>1, <1>10, <1>11, <1>12 DEF Next

\* Every step preserves LostInv.
LEMMA LostStep == BaseInv /\ LostInv /\ [Next]_vars => LostInv'
<1> SUFFICES ASSUME BaseInv, LostInv, [Next]_vars, happened' = {}
             PROVE  LostInv'
  BY DEF LostInv
<1>a. happened = {}
  BY HappenedGrows
<1>h. /\ \A v \in Volumes : at[v] # "idle" => call[v].class = Class
      /\ Class \in DOMAIN tables =>
           \A g \in tables[Class].used : \E w \in Holders : gid[w] = g
      /\ Class \notin DOMAIN tables =>
           /\ \A w \in Volumes : volume[w] \in {"none", "saved"}
           /\ \A v \in Volumes : at[v] = "fill" =>
                /\ \A g \in new[v].used : \E w \in Holders : gid[w] = g
                /\ \A p \in todo[v] : p[1] \in Holders /\ p[2] = gid[p[1]]
  BY <1>a DEF LostInv
<1>t. /\ volume \in [Volumes -> {"none", "held", "saved", "released"}]
      /\ at \in [Volumes -> {"idle", "get", "fill", "use"}]
      /\ gid \in [Volumes -> Gids]
      /\ call \in [Volumes -> [class : {Class, NoClass}, min : Gids, max : Gids]]
      /\ todo \in [Volumes -> SUBSET (Volumes \X Gids)]
      /\ new \in [Volumes -> Table]
      /\ Holders \subseteq Volumes
      /\ \A v \in Volumes : at[v] = "use" => call[v].class \in DOMAIN tables
  BY DEF BaseInv, TypeOK, Holders
<1>1. CASE UNCHANGED vars
  BY <1>1 DEF LostInv, Holders, vars
<1>2. ASSUME NEW v \in Volumes, at[v] = "idle", NEW p, Begin(v, Class, p)
      PROVE  LostInv'
  <2>1. Holders' = Holders
    BY <1>2 DEF Begin, Holders
  <2>2. \A w \in Volumes : at'[w] = "fill" => at[w] = "fill"
    BY <1>2, <1>t DEF Begin
  <2>3. \A w \in Volumes : at'[w] # "idle" => call'[w].class = Class
    BY <1>2, <1>t, <1>h DEF Begin
  <2> QED  BY <2>1, <2>2, <2>3, <1>2, <1>h DEF LostInv, Begin
<1>3. ASSUME NEW v \in Volumes, UseTable(v), at[v] # "idle",
             call[v].class \in DOMAIN tables
      PROVE  LostInv'
  <2>1. /\ DOMAIN tables' = DOMAIN tables
        /\ \A c \in DOMAIN tables : tables'[c].used = tables[c].used
    BY <1>3, UseTableTables
  <2>2. /\ UNCHANGED <<volume, gid, call>>
        /\ \A w \in Volumes : at'[w] # "idle" => at[w] # "idle"
    BY <1>3, <1>t DEF UseTable
  <2>3. Holders' = Holders
    BY <2>2 DEF Holders
  <2>4. Class \in DOMAIN tables
    BY <1>3, <1>h
  <2> QED  BY <2>1, <2>2, <2>3, <2>4, <1>h DEF LostInv
<1>4. ASSUME NEW v \in Volumes, ListPVs(v) PROVE LostInv'
  <2>1. /\ UNCHANGED <<tables, volume, gid, call>>
        /\ \A w \in Volumes \ {v} : /\ new'[w] = new[w] /\ todo'[w] = todo[w]
                                    /\ at'[w] = at[w]
        /\ at[v] # "idle"
        /\ new'[v] = EmptyTable
        /\ todo'[v] = PVList(call[v].class)
    BY <1>4, <1>t DEF ListPVs
  <2>2. Holders' = Holders
    BY <2>1 DEF Holders
  <2>3. new'[v].used = {}
    BY <2>1, EmptySound
  <2>4. Class \notin DOMAIN tables
    BY <1>4, <1>h DEF ListPVs
  <2>5. \A p \in todo'[v] : p[1] \in Holders /\ p[2] = gid[p[1]]
    BY <2>1, <2>4, <1>h DEF PVList, Holders
  <2>6. ASSUME NEW w \in Volumes, at'[w] = "fill"
        PROVE  /\ \A g \in new'[w].used : \E x \in Holders : gid[x] = g
               /\ \A p \in todo'[w] : p[1] \in Holders /\ p[2] = gid[p[1]]
    <3>1. CASE w = v
      BY <3>1, <2>3, <2>5
    <3>2. CASE w # v
      BY <3>2, <2>1, <2>4, <2>6, <1>h
    <3> QED  BY <3>1, <3>2
  <2>7. \A w \in Volumes : at'[w] # "idle" => call'[w].class = Class
    BY <2>1, <1>h
  <2> QED  BY <2>1, <2>2, <2>6, <2>7, <1>h DEF LostInv
<1>5. ASSUME NEW v \in Volumes, ListFails(v) \/ ReserveFails(v) PROVE LostInv'
  <2>1. /\ UNCHANGED <<tables, volume, gid, new, todo>>
        /\ at' = [at EXCEPT ![v] = "idle"] /\ call' = [call EXCEPT ![v] = NoCall]
    BY <1>5 DEF ListFails, ReserveFails, Return
  <2>2. Holders' = Holders
    BY <2>1 DEF Holders
  <2>3. \A w \in Volumes : at'[w] # "idle" => at'[w] = at[w] /\ call'[w] = call[w]
    BY <2>1, <1>t
  <2> QED  BY <2>1, <2>2, <2>3, <1>h DEF LostInv
<1>6. ASSUME NEW v \in Volumes, CollectGid(v) PROVE LostInv'
  <2>1. PICK p \in todo[v] : /\ todo' = [todo EXCEPT ![v] = @ \ {p}]
                             /\ new'[v].used = new[v].used \cup {p[2]}
    BY <1>6, CollectTables
  <2>2. \A w \in Volumes \ {v} : new'[w] = new[w]
    BY <1>6, CollectTables
  <2>3. /\ UNCHANGED <<tables, volume, at, gid, call>> /\ Holders' = Holders
        /\ at[v] = "fill"
    BY <1>6 DEF CollectGid, Holders
  <2>4. ASSUME NEW w \in Volumes, at[w] = "fill", Class \notin DOMAIN tables
        PROVE  /\ \A g \in new'[w].used : \E x \in Holders : gid[x] = g
               /\ \A q \in todo'[w] : q[1] \in Holders /\ q[2] = gid[q[1]]
    <3>1. CASE w = v
      <4>1. p[1] \in Holders /\ p[2] = gid[p[1]]
        BY <2>3, <2>4, <1>h
      <4>2. \A g \in new[v].used : \E x \in Holders : gid[x] = g
        BY <2>3, <2>4, <1>h
      <4>3. \A g \in new'[v].used : \E x \in Holders : gid[x] = g
        BY <4>1, <4>2, <2>1
      <4>4. todo'[v] \subseteq todo[v]
        BY <2>1, <1>t
      <4> QED  BY <3>1, <4>3, <4>4, <2>3, <2>4, <1>h
    <3>2. CASE w # v
      <4>1. todo'[w] = todo[w]
        BY <3>2, <2>1, <1>t
      <4> QED  BY <3>2, <4>1, <2>2, <2>4, <1>h
    <3> QED  BY <3>1, <3>2
  <2> QED  BY <2>3, <2>4, <1>h DEF LostInv
<1>7. ASSUME NEW v \in Volumes, InsertTable(v) PROVE LostInv'
  <2>1. /\ DOMAIN tables' = DOMAIN tables \cup {call[v].class}
        /\ tables'[call[v].class].used = new[v].used
    BY <1>7, InsertTableTables
  <2>2. /\ UNCHANGED <<volume, gid, call>> /\ Holders' = Holders
        /\ at[v] = "fill" /\ call[v].class \notin DOMAIN tables
        /\ \A w \in Volumes : at'[w] # "idle" => at[w] # "idle"
    BY <1>7, <1>t DEF InsertTable, Holders
  <2>3. call[v].class = Class
    BY <2>2, <1>h
  <2>4. \A g \in new[v].used : \E w \in Holders : gid[w] = g
    BY <2>2, <2>3, <1>h
  <2> QED  BY <2>1, <2>2, <2>3, <2>4, <1>h DEF LostInv
<1>8. ASSUME NEW v \in Volumes, ReserveGid(v) PROVE LostInv'
  <2>1. PICK g \in Gids :
          /\ gid' = [gid EXCEPT ![v] = g]
          /\ Class \in DOMAIN tables
          /\ DOMAIN tables' = DOMAIN tables
          /\ tables'[Class].used = tables[Class].used \cup {g}
    BY <1>8, ReserveTables
  <2>2. /\ volume' = [volume EXCEPT ![v] = "held"]
        /\ at' = [at EXCEPT ![v] = "idle"] /\ call' = [call EXCEPT ![v] = NoCall]
        /\ volume[v] = "none"
    BY <1>8 DEF ReserveGid, Return
  <2>3. Holders' = Holders \cup {v} /\ v \notin Holders
    BY <2>2, <1>t DEF Holders
  <2>4. gid'[v] = g /\ \A w \in Holders : gid'[w] = gid[w]
    BY <2>1, <2>3, <1>t
  <2>5. \A k \in tables'[Class].used : \E w \in Holders' : gid'[w] = k
    BY <2>1, <2>3, <2>4, <1>h
  <2>6. \A w \in Volumes : at'[w] # "idle" => call'[w].class = Class
    BY <2>2, <1>h, <1>t
  <2> QED  BY <2>1, <2>5, <2>6 DEF LostInv
<1>9. ASSUME NEW v \in Volumes, ReleaseGid(v) PROVE LostInv'
  <2>1. /\ DOMAIN tables' = DOMAIN tables /\ call[v].class \in DOMAIN tables
        /\ tables'[call[v].class].used = tables[call[v].class].used \ {gid[v]}
    BY <1>9, ReleaseTables
  <2>2. /\ volume' = [volume EXCEPT ![v] = "released"]
        /\ at' = [at EXCEPT ![v] = "idle"] /\ call' = [call EXCEPT ![v] = NoCall]
        /\ UNCHANGED gid /\ at[v] = "use"
    BY <1>9 DEF ReleaseGid, Return
  <2>3. call[v].class = Class
    BY <2>2, <1>h
  <2>4. Holders' = Holders \ {v}
    BY <2>2, <1>t DEF Holders
  <2>5. \A g \in tables'[Class].used : \E w \in Holders' : gid'[w] = g
    <3> SUFFICES ASSUME NEW g \in tables'[Class].used
                 PROVE  \E w \in Holders' : gid[w] = g
      BY <2>2
    <3>1. PICK w \in Holders : gid[w] = g
      BY <2>1, <2>3, <1>h
    <3>2. w # v
      BY <3>1, <2>1, <2>3
    <3> QED  BY <3>1, <3>2, <2>4
  <2>6. \A w \in Volumes : at'[w] # "idle" => call'[w].class = Class
    BY <2>2, <1>h, <1>t
  <2> QED  BY <2>1, <2>3, <2>5, <2>6 DEF LostInv
<1>10. ASSUME NEW v \in Volumes, Caller(v) PROVE LostInv'
  <2>0. UNCHANGED <<tables, at, call, new, todo>>
    BY <1>10 DEF Caller, SavePV, Discard, RemovePV
  <2>1. CASE SavePV(v)
    <3>1. Holders' = Holders /\ gid' = gid /\ Class \in DOMAIN tables
      BY <2>1, <1>h, <1>t DEF Holders, SavePV
    <3> QED  BY <3>1, <2>0, <1>h DEF LostInv
  <2>2. CASE RemovePV(v)
    <3>1. Holders' = Holders /\ v \notin Holders /\ Class \in DOMAIN tables
      BY <2>2, <1>h, <1>t DEF Holders, RemovePV
    <3>2. \A w \in Holders : gid'[w] = gid[w]
      BY <3>1, <2>2, <1>t DEF RemovePV
    <3> QED  BY <3>1, <3>2, <2>0, <1>h DEF LostInv
  <2>3. ~Discard(v)
    BY DEF Discard
  <2> QED  BY <2>1, <2>2, <2>3, <1>10 DEF Caller
<1>11. ASSUME NEW p \in ParamSets, ReplaceClass(p) PROVE LostInv'
  BY <1>11 DEF LostInv, Holders, ReplaceClass
<1>12. CASE Crash
  <2>1. \A v \in Volumes : volume[v] # "released"
    BY <1>12 DEF Crash
  <2>2. \A v \in Volumes : at'[v] = "idle" /\ volume'[v] \in {"none", "saved"}
    BY <1>12, <2>1, <1>t DEF Crash
  <2>3. Class \notin DOMAIN tables'
    BY <1>12 DEF Crash
  <2> QED  BY <2>2, <2>3 DEF LostInv
<1> QED
  <2>1. ASSUME NEW v \in Volumes, Call(v) PROVE LostInv'
    <3>1. CASE StartAllocateNext(v)
      BY <3>1, <1>2 DEF StartAllocateNext
    <3>2. CASE StartRelease(v)
      BY <3>2, <1>2 DEF StartRelease
    <3>3. ~StartReleaseNoClass(v)
      BY DEF StartReleaseNoClass
    <3>4. CASE FindTable(v) \/ DropNewTable(v)
      BY <3>4, <1>3 DEF FindTable, DropNewTable
    <3> QED  BY <2>1, <3>1, <3>2, <3>3, <3>4, <1>4, <1>5, <1>6, <1>7, <1>8, <1>9
             DEF Call
  <2> QED  BY <2>1, <1>1, <1>10, <1>11, <1>12 DEF Next

----------------------------------------------------------------------------
\* The count of free gids of every table is exact after any interleaving of
\* calls, class changes and crashes (minmax.go:98-104, 123, 142, 163).
THEOREM CountExact == Spec => []FreeExact
<1>1. BaseInv => FreeExact
  BY DEF BaseInv
<1> QED  BY <1>1, AllInit, BaseStep, PTL DEF Spec

\* The gids, ranges and tables stay in bounds, and a call that got a table
\* finds it.
THEOREM TypeCorrect == Spec => []TypeOK
<1>1. BaseInv => TypeOK
  BY DEF BaseInv
<1> QED  BY <1>1, AllInit, BaseStep, PTL DEF Spec

\* No two volumes of the class hold the same gid, whatever calls race to make
\* the table, unless a gid was released twice (allocator.go:49-50, 120-170).
THEOREM UniqueGids == Spec => []GidUnique
<1>1. HoldInv => GidUnique
  BY DEF HoldInv, GidUnique
<1> QED  BY <1>1, AllInit, BaseStep, HoldStep, PTL DEF Spec

\* A gid marked in the class's table belongs to a volume, unless a volume was
\* given up, the class could not be read, or a gid was released twice
\* (allocator.go:89-112).
THEOREM GidsKept == Spec => []NoGidLost
<1>1. LostInv => NoGidLost
  BY DEF LostInv, NoGidLost
<1> QED  BY <1>1, AllInit, BaseStep, LostStep, PTL DEF Spec
=============================================================================
