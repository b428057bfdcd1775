----------------------------- MODULE CrsRanges -----------------------------
(***************************************************************************)
(* The two loops over arrays of address ranges in src/aml-build.c, one     *)
(* action per iteration: crs_range_merge joins adjacent ranges, and        *)
(* crs_replace_with_free_ranges turns the ranges used inside [Start, End]  *)
(* into the ones that are left.                                            *)
(***************************************************************************)
EXTENDS CrsEntries

CONSTANTS
  Start, End,   \* the interval crs_replace_with_free_ranges is given
  MaxRanges     \* bound: the longest array an instance looks at

ASSUME IntervalAssumption ==
  Start \in Nat /\ End \in Nat /\ Start <= End /\ End < MaxWord
ASSUME BoundAssumption == MaxRanges \in Nat

VARIABLES
  op,      \* which of the two functions runs
  pc,      \* "start", "loop" or "done"
  ranges,  \* the sorted array
  i,       \* how many of its entries have been looked at
  st       \* the loop's variables: out (tmp, free_ranges), base, limit

vars == <<op, pc, ranges, i, st>>

ProperEntries == {r \in Entries : Proper(r)}
Arrays == UNION {[1 .. n -> ProperEntries] : n \in 0 .. MaxRanges}

(* The function is entered and has sorted its array.  The replacing one is *)
(* given disjoint ranges inside its interval, as its comment demands.      *)
Init ==
  /\ op \in {"merge", "replace"}
  /\ pc = "start"
  /\ ranges \in Arrays
  /\ Sorted(ranges)
  /\ op = "replace" => Disjoint(ranges) /\ Inside(ranges, Start, End)
  /\ i = 0
  /\ st = [out |-> << >>, base |-> 0, limit |-> 0]

(* crs_range_merge returns at once when there is nothing to merge.         *)
MergeNothing ==
  /\ op = "merge" /\ pc = "start"
  /\ Len(ranges) = 0
  /\ pc' = "done"
  /\ UNCHANGED <<op, ranges, i, st>>

MergeFirst ==
  /\ op = "merge" /\ pc = "start"
  /\ Len(ranges) > 0
  /\ st' = [out |-> << >>, base |-> ranges[1].base, limit |-> ranges[1].limit]
  /\ i' = 1
  /\ pc' = "loop"
  /\ UNCHANGED <<op, ranges>>

MergeStep ==
  /\ op = "merge" /\ pc = "loop"
  /\ i < Len(ranges)
  /\ st' = MergeEntry(st, ranges[i + 1])
  /\ i' = i + 1
  /\ UNCHANGED <<op, pc, ranges>>

MergeFlush ==
  /\ op = "merge" /\ pc = "loop"
  /\ i = Len(ranges)
  /\ st' = [st EXCEPT !.out = Append(@, Entry(st.base, st.limit))]
  /\ pc' = "done"
  /\ UNCHANGED <<op, ranges, i>>

FreeFirst ==
  /\ op = "replace" /\ pc = "start"
  /\ st' = [st EXCEPT !.base = Start]
  /\ pc' = "loop"
  /\ UNCHANGED <<op, ranges, i>>

FreeStep ==
  /\ op = "replace" /\ pc = "loop"
  /\ i < Len(ranges)
  /\ st' = FreeEntry(st, ranges[i + 1])
  /\ i' = i + 1
  /\ UNCHANGED <<op, pc, ranges>>

FreeFlush ==
  /\ op = "replace" /\ pc = "loop"
  /\ i = Len(ranges)
  /\ st' = [st EXCEPT !.out = FreeTail(st, End)]
  /\ pc' = "done"
  /\ UNCHANGED <<op, ranges, i>>

Next ==
  \/ MergeNothing \/ MergeFirst \/ MergeStep \/ MergeFlush
  \/ FreeFirst \/ FreeStep \/ FreeFlush

Spec == Init /\ [][Next]_vars

-----------------------------------------------------------------------------
TypeOK ==
  /\ op \in {"merge", "replace"}
  /\ pc \in {"start", "loop", "done"}
  /\ ranges \in Seq(Entries)
  /\ i \in 0 .. Len(ranges)
  /\ st \in [out : Seq(Entries), base : Word, limit : Word]

(* Merging changes no address's membership: the merged array covers what   *)
(* the array given to crs_range_merge covered, whatever that array was.    *)
MergeKeepsPoints ==
  op = "merge" /\ pc = "done" =>
    \A x \in Word : Covers(st.out, x) <=> Covers(ranges, x)

(* Disjoint ranges are merged as far as they can be: between two entries   *)
(* of the result there is an address neither covers.                       *)
MergeLeavesGaps ==
  op = "merge" /\ pc = "done" /\ Disjoint(ranges) =>
    \A k \in 1 .. Len(st.out) - 1 : st.out[k].limit + 1 < st.out[k + 1].base

(* No free range holds a used address or one outside the interval.         *)
FreeAvoidsUsed ==
  op = "replace" /\ pc = "done" =>
    \A x \in Word :
      Covers(st.out, x) => Start <= x /\ x <= End /\ ~Covers(ranges, x)

(* Every unused address of the interval is in a free range, except that    *)
(* the last address is lost when it is a hole of its own.                  *)
FreeIsComplete ==
  op = "replace" /\ pc = "done" =>
    \A x \in Start .. End :
      Covers(ranges, x) \/ Covers(st.out, x) \/ x = End
=============================================================================
