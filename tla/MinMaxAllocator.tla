-------------------------- MODULE MinMaxAllocator --------------------------
(***************************************************************************)
(* lib/allocator/minmax.go: an allocator of numbers over a range that can  *)
(* be changed while numbers are in use.  A table is a record of the        *)
(* struct's fields; every method holds the table's mutex from start to     *)
(* end, so each one is a function of the table.  The count of free numbers *)
(* is kept incrementally; the set of used numbers is not limited to the    *)
(* range.  GidAllocator has tables as its state.                           *)
(***************************************************************************)
EXTENDS Integers, FiniteSets

InRange(t, i) == t.min <= i /\ i <= t.max

Unused(t) == (t.min .. t.max) \ t.used

\* For lo <= hi, as every caller has it; otherwise ErrInvalidRange.
NewMinMaxAllocator(lo, hi) ==
  [min |-> lo, max |-> hi, free |-> 1 + hi - lo, used |-> {}]

\* Mutant: the numbers already used are forgotten in the new count.
SetRangeAllFree(t, lo, hi) ==
  [t EXCEPT !.min = lo, !.max = hi, !.free = 1 + hi - lo]

\* For lo <= hi.  The count is made afresh, unless the range is the old one.
SetRange(t, lo, hi) ==
  [min |-> lo, max |-> hi, used |-> t.used,
   free |-> IF lo = t.min /\ hi = t.max
            THEN t.free
            ELSE 1 + hi - lo - Cardinality({i \in t.used : lo <= i /\ i <= hi})]

\* Otherwise ErrOutOfRange or ErrConflict.
CanAllocate(t, i) == InRange(t, i) /\ i \notin t.used

Allocate(t, i) == [min |-> t.min, max |-> t.max,
                   used |-> t.used \cup {i}, free |-> t.free - 1]

\* The quick check, before the scan: otherwise ErrRangeFull.
CanAllocateNext(t) == t.free > 0

\* The scan finds the least number in the range that is not used; were there
\* none, AllocateNext would return ErrInternal.
NextFree(t) == CHOOSE i \in Unused(t) : \A j \in Unused(t) : i <= j

\* Mutant: every release counts as a free number of the range.
ReleaseCountAll(t, i) ==
  [t EXCEPT !.used = t.used \ {i},
            !.free = IF i \in t.used THEN t.free + 1 ELSE t.free]

\* Mutant: a number outside the range stays used.
ReleaseInRangeOnly(t, i) ==
  IF i \in t.used /\ InRange(t, i)
  THEN [t EXCEPT !.used = t.used \ {i}, !.free = t.free + 1]
  ELSE t

\* Releasing a number that is not used is no error.
Release(t, i) ==
  [min |-> t.min, max |-> t.max, used |-> t.used \ {i},
   free |-> IF i \in t.used /\ InRange(t, i) THEN t.free + 1 ELSE t.free]
=============================================================================
