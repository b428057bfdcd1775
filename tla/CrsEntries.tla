----------------------------- MODULE CrsEntries -----------------------------
(***************************************************************************)
(* Address ranges as src/aml-build.c keeps them (CrsRangeEntry), and the   *)
(* bodies of the two loops that work on arrays of them.  Addresses are     *)
(* words: 0 .. MaxWord, and MaxWord + 1 is 0 again.                        *)
(***************************************************************************)
EXTENDS Integers, Sequences

CONSTANT MaxWord  \* UINT64_MAX

ASSUME WordAssumption == MaxWord \in Nat \ {0}

Word == 0 .. MaxWord
Succ(x) == IF x = MaxWord THEN 0 ELSE x + 1

Entry(b, l) == [base |-> b, limit |-> l]
Entries == [base : Word, limit : Word]

(* A range the callers insert: never empty and never at address 0.         *)
Proper(r) == 1 <= r.base /\ r.base <= r.limit

(* The array after g_ptr_array_sort with crs_range_compare.                *)
Sorted(s) == \A k, l \in 1 .. Len(s) : k < l => s[k].base <= s[l].base

Disjoint(s) == \A k, l \in 1 .. Len(s) : k < l => s[k].limit < s[l].base

Inside(s, lo, hi) ==
  \A k \in 1 .. Len(s) : lo <= s[k].base /\ s[k].limit <= hi

Covers(s, x) == \E k \in 1 .. Len(s) : s[k].base <= x /\ x <= s[k].limit

-----------------------------------------------------------------------------
(* The bodies of the loops, shared by CrsRanges and PciResources.  `base'  *)
(* stands for free_base, and for range_base in the other function.         *)

(* Seeded fault: an adjacent range replaces the joined one's start.        *)
MergeEntryRestart(st, e) ==
  IF e.base - 1 = st.limit
  THEN [st EXCEPT !.base = e.base, !.limit = e.limit]
  ELSE [out |-> Append(st.out, Entry(st.base, st.limit)),
        base |-> e.base, limit |-> e.limit]

MergeEntry(st, e) ==
  IF e.base - 1 = st.limit
  THEN [st EXCEPT !.limit = e.limit]
  ELSE [out |-> Append(st.out, Entry(st.base, st.limit)),
        base |-> e.base, limit |-> e.limit]

(* Seeded fault: the hole ends on the used range's first address.          *)
FreeEntryTouching(st, used) ==
  [st EXCEPT
    !.out = IF st.base < used.base
            THEN Append(st.out, Entry(st.base, used.base)) ELSE st.out,
    !.base = Succ(used.limit)]

FreeEntry(st, used) ==
  [st EXCEPT
    !.out = IF st.base < used.base
            THEN Append(st.out, Entry(st.base, used.base - 1)) ELSE st.out,
    !.base = Succ(used.limit)]

(* Seeded fault: what follows the last used range forgotten.               *)
FreeTailForgotten(st, end) == st.out

(* What follows the last used range.  A hole of one address is dropped.    *)
FreeTail(st, end) ==
  IF st.base < end THEN Append(st.out, Entry(st.base, end)) ELSE st.out
=============================================================================
