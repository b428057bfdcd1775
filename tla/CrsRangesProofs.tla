--------------------------- MODULE CrsRangesProofs ---------------------------
(***************************************************************************)
(* Address ranges, for arrays of any length over words of any width.       *)
(*                                                                         *)
(* CrsRanges, the two loops.  Merging: what has been put out, with the     *)
(* range being built, covers what the entries handled so far cover.        *)
(* Replacing: what has been put out is what they leave of the addresses    *)
(* below `base'.                                                           *)
(*                                                                         *)
(* PciResources, the host bridges.  The same loops as functions, on an     *)
(* array that is sorted first; then the walk over the root bus: the ranges *)
(* remembered are what the expanders passed claim, and PCI0 is given the   *)
(* rest.                                                                   *)
(***************************************************************************)
EXTENDS CrsRanges, PciResources, Recursion, FiniteSetTheorems, TLAPS

(* The addresses of a range, and of an array's first k entries.            *)
In(b, l, x) == b <= x /\ x <= l
Upto(s, k, x) == \E j \in 1 .. k : In(s[j].base, s[j].limit, x)
LoopState == [out : Seq(Entries), base : Word, limit : Word]

(* What the functions are given and what they put out.                     *)
AllProper(s) == \A k \in 1 .. Len(s) : Proper(s[k])
Gaps(s) == \A k, l \in 1 .. Len(s) : k < l => s[k].limit + 1 < s[l].base

(* The loop of crs_range_merge after k entries of s.                       *)
MergeSoFar(s, k, v) ==
  /\ 1 <= v.base /\ v.base <= v.limit /\ v.limit = s[k].limit
  /\ AllProper(v.out)
  /\ \A x \in Word : Covers(v.out, x) \/ In(v.base, v.limit, x) <=> Upto(s, k, x)
  /\ Disjoint(s) =>
       /\ Gaps(v.out)
       /\ \A j \in 1 .. Len(v.out) : v.out[j].limit + 1 < v.base

(* The loop of crs_replace_with_free_ranges: the entries are in order, an  *)
(* entry may be there more than once.                                      *)
Chain(s) == \A k, l \in 1 .. Len(s) : k < l => s[k].limit < s[l].base \/ s[k] = s[l]
Usable(s, lo) ==
  \A k \in 1 .. Len(s) : Proper(s[k]) /\ lo <= s[k].base /\ s[k].limit < MaxWord

(* A hole between used ranges: it begins behind one and ends before one.   *)
Hole(s, k, lo, e) ==
  /\ e.base <= e.limit
  /\ e.base = lo \/ \E j \in 1 .. k : e.base = s[j].limit + 1
  /\ \E j \in 1 .. k : e.limit = s[j].base - 1

FreeSoFar(s, k, v, lo) ==
  /\ lo <= v.base
  /\ v.base = IF k = 0 THEN lo ELSE s[k].limit + 1
  /\ \A j \in 1 .. k : s[j].limit < v.base
  /\ \A x \in Word : Covers(v.out, x) <=> lo <= x /\ x < v.base /\ ~Upto(s, k, x)
  /\ \A j \in 1 .. Len(v.out) : Hole(s, k, lo, v.out[j])

-----------------------------------------------------------------------------
(* The elements of a sequence are of its set.                              *)
LEMMA ElementType == ASSUME NEW S, NEW s \in Seq(S), NEW k \in 1 .. Len(s) PROVE s[k] \in S
  OBVIOUS

(* An entry of two addresses.                                              *)
LEMMA EntryType ==
  ASSUME NEW b \in Word, NEW l \in Word
  PROVE  Entry(b, l) \in Entries /\ Entry(b, l).base = b /\ Entry(b, l).limit = l
  BY DEF Entry, Entries

(* An entry's two addresses.                                               *)
LEMMA EntryWords ==
  ASSUME NEW e \in Entries
  PROVE  e.base \in Word /\ e.limit \in Word /\ e = Entry(e.base, e.limit)
  BY DEF Entry, Entries

(* Addresses are numbers.                                                  *)
LEMMA WordNat ==
  ASSUME NEW x \in Word
  PROVE  x \in Nat /\ x <= MaxWord /\ MaxWord \in Nat
  BY WordAssumption DEF Word, WordAssumption

(* An array's entry, and its addresses.                                    *)
LEMMA RangeAt ==
  ASSUME NEW s \in Seq(Entries), NEW k \in 1 .. Len(s)
  PROVE  s[k] \in Entries /\ s[k].base \in Word /\ s[k].limit \in Word
         /\ s[k].base \in Nat /\ s[k].limit \in Nat
         /\ s[k].base <= MaxWord /\ s[k].limit <= MaxWord
<1>1. s[k] \in Entries
  BY ElementType
<1> QED BY <1>1, EntryWords, WordNat

(* What Append does, element by element.                                   *)
LEMMA AppendFacts ==
  ASSUME NEW S, NEW s \in Seq(S), NEW e \in S
  PROVE  /\ Append(s, e) \in Seq(S)
         /\ Len(s) \in Nat /\ Len(Append(s, e)) = Len(s) + 1
         /\ \A k \in 1 .. Len(s) : Append(s, e)[k] = s[k]
         /\ Append(s, e)[Len(s) + 1] = e
         /\ \A k \in 1 .. Len(Append(s, e)) : k \in 1 .. Len(s) \/ k = Len(s) + 1
<1>1. /\ Append(s, e) \in Seq(S)
      /\ Len(s) \in Nat /\ Len(Append(s, e)) = Len(s) + 1
      /\ \A k \in 1 .. Len(s) : Append(s, e)[k] = s[k]
      /\ Append(s, e)[Len(s) + 1] = e
  OBVIOUS
<1> QED BY <1>1

(* An appended entry adds its own addresses.                               *)
LEMMA CoversAppend ==
  ASSUME NEW s \in Seq(Entries), NEW e \in Entries, NEW x \in Word
  PROVE  Covers(Append(s, e), x) <=> Covers(s, x) \/ In(e.base, e.limit, x)
<1> HIDE DEF Entries
<1> QED BY AppendFacts DEF Covers, In

(* One more entry adds its own addresses.                                  *)
LEMMA UptoNext ==
  ASSUME NEW s, NEW k \in Nat, NEW x
  PROVE  Upto(s, k + 1, x) <=> Upto(s, k, x) \/ In(s[k + 1].base, s[k + 1].limit, x)
  BY DEF Upto

(* All entries are the whole array.                                        *)
LEMMA UptoAll == ASSUME NEW s, NEW x PROVE Upto(s, Len(s), x) <=> Covers(s, x)
  BY DEF Upto, Covers, In

(* The loops' variables.                                                   *)
LEMMA StateType ==
  ASSUME NEW v \in LoopState
  PROVE  /\ v.out \in Seq(Entries) /\ v.base \in Word /\ v.limit \in Word
         /\ v.base \in Nat /\ v.limit \in Nat /\ v.base <= MaxWord /\ v.limit <= MaxWord
  BY WordNat DEF LoopState

(* crs_range_merge: the first entry starts the range that is built.        *)
LEMMA MergeBegin ==
  ASSUME NEW s \in Seq(Entries), AllProper(s), Len(s) > 0
  PROVE  /\ [out |-> << >>, base |-> s[1].base, limit |-> s[1].limit] \in LoopState
         /\ MergeSoFar(s, 1, [out |-> << >>, base |-> s[1].base, limit |-> s[1].limit])
<1> DEFINE v == [out |-> << >>, base |-> s[1].base, limit |-> s[1].limit]
<1>1. 1 \in 1 .. Len(s) /\ v.out = << >> /\ v.base = s[1].base /\ v.limit = s[1].limit
  OBVIOUS
<1>2. s[1].base \in Word /\ s[1].limit \in Word /\ Proper(s[1])
  BY <1>1, RangeAt DEF AllProper
<1>3. v \in LoopState
  BY <1>2 DEF LoopState
<1>4. AllProper(v.out) /\ Gaps(v.out) /\ Len(v.out) = 0 /\ \A x : ~Covers(v.out, x)
  BY <1>1 DEF AllProper, Gaps, Covers
<1>5. \A x \in Word : Covers(v.out, x) \/ In(v.base, v.limit, x) <=> Upto(s, 1, x)
  BY <1>1, <1>4 DEF Upto
<1> HIDE DEF v
<1>6. MergeSoFar(s, 1, v)
  BY <1>1, <1>2, <1>4, <1>5 DEF MergeSoFar, Proper
<1> QED BY <1>3, <1>6 DEF v

(* An iteration keeps the variables addresses.                             *)
LEMMA MergeType ==
  ASSUME NEW v \in LoopState, NEW e \in Entries
  PROVE  MergeEntry(v, e) \in LoopState
<1>1. Entry(v.base, v.limit) \in Entries
  BY StateType, EntryType
<1>2. Append(v.out, Entry(v.base, v.limit)) \in Seq(Entries)
  BY <1>1, StateType, AppendFacts
<1>3. e.base \in Word /\ e.limit \in Word
  BY EntryWords
<1> HIDE DEF Entries
<1> QED BY <1>2, <1>3 DEF MergeEntry, LoopState

(* The next entry joins the range, or the range is put out first.          *)
LEMMA MergeNext ==
  ASSUME NEW s \in Seq(Entries), NEW k \in Nat, k \in 1 .. Len(s) - 1, AllProper(s),
         NEW v \in LoopState, MergeSoFar(s, k, v)
  PROVE  MergeSoFar(s, k + 1, MergeEntry(v, s[k + 1]))
<1> DEFINE e == s[k + 1]
           cur == Entry(v.base, v.limit)
           w == MergeEntry(v, e)
<1>1. k \in 1 .. Len(s) /\ k + 1 \in 1 .. Len(s) /\ k < k + 1 /\ Len(s) \in Nat
  OBVIOUS
<1>2. /\ e \in Entries /\ Proper(e) /\ e.base \in Word /\ e.limit \in Word
      /\ e.base \in Nat /\ e.limit \in Nat
  BY <1>1, RangeAt DEF AllProper
<1>3. /\ v.out \in Seq(Entries) /\ v.base \in Word /\ v.limit \in Word
      /\ v.base \in Nat /\ v.limit \in Nat
  BY StateType
<1>4. cur \in Entries /\ cur.base = v.base /\ cur.limit = v.limit
  BY <1>3, EntryType
<1>5. Disjoint(s) => v.limit < e.base
  BY <1>1 DEF Disjoint, MergeSoFar
<1>6. \A x \in Word : Upto(s, k + 1, x) <=> Upto(s, k, x) \/ In(e.base, e.limit, x)
  BY UptoNext
<1>7. CASE e.base - 1 = v.limit
  <2>1. w.out = v.out /\ w.base = v.base /\ w.limit = e.limit
    BY <1>7 DEF MergeEntry, LoopState
  <2>2. \A x \in Word : In(v.base, e.limit, x)
                          <=> In(v.base, v.limit, x) \/ In(e.base, e.limit, x)
    BY <1>2, <1>3, <1>7, WordNat DEF In, MergeSoFar, Proper
  <2>3. 1 <= w.base /\ w.base <= w.limit /\ w.limit = s[k + 1].limit
    BY <2>1, <1>2, <1>3, <1>7 DEF MergeSoFar, Proper
  <2>4. \A x \in Word : Covers(w.out, x) \/ In(w.base, w.limit, x) <=> Upto(s, k + 1, x)
    BY <2>1, <2>2, <1>6 DEF MergeSoFar
  <2> HIDE DEF w
  <2> QED BY <2>1, <2>3, <2>4 DEF MergeSoFar, w
<1>8. CASE e.base - 1 # v.limit
  <2>1. w.out = Append(v.out, cur) /\ w.base = e.base /\ w.limit = e.limit
    BY <1>8 DEF MergeEntry
  <2>2. /\ Len(w.out) = Len(v.out) + 1 /\ Len(v.out) \in Nat
        /\ \A j \in 1 .. Len(v.out) : w.out[j] = v.out[j]
        /\ w.out[Len(v.out) + 1] = cur
        /\ \A j \in 1 .. Len(w.out) : j \in 1 .. Len(v.out) \/ j = Len(v.out) + 1
    BY <2>1, <1>3, <1>4, AppendFacts
  <2>3. 1 <= w.base /\ w.base <= w.limit /\ w.limit = s[k + 1].limit
    BY <2>1, <1>2 DEF Proper
  <2>4. AllProper(w.out)
    BY <2>2, <1>4 DEF AllProper, Proper, MergeSoFar
  <2>5. ASSUME NEW x \in Word
        PROVE  Covers(w.out, x) \/ In(w.base, w.limit, x) <=> Upto(s, k + 1, x)
    <3>1. Covers(w.out, x) <=> Covers(v.out, x) \/ In(v.base, v.limit, x)
      BY <2>1, <1>3, <1>4, CoversAppend
    <3>2. Covers(v.out, x) \/ In(v.base, v.limit, x) <=> Upto(s, k, x)
      BY DEF MergeSoFar
    <3> QED BY <3>1, <3>2, <2>1, <1>6
  <2>6. ASSUME Disjoint(s)
        PROVE  /\ Gaps(w.out)
               /\ \A j \in 1 .. Len(w.out) : w.out[j].limit + 1 < w.base
    <3>1. v.limit + 1 < e.base
      BY <2>6, <1>2, <1>3, <1>5, <1>8
    <3>2. /\ Gaps(v.out) /\ v.base <= v.limit
          /\ \A j \in 1 .. Len(v.out) : v.out[j].limit + 1 < v.base
      BY <2>6 DEF MergeSoFar
    <3>3. \A j \in 1 .. Len(v.out) : v.out[j].limit \in Nat
      BY <1>3, RangeAt
    <3>4. ASSUME NEW j \in 1 .. Len(w.out)
          PROVE  w.out[j].limit + 1 < w.base
      <4>1. CASE j \in 1 .. Len(v.out)
        <5>1. w.out[j] = v.out[j] /\ v.out[j].limit \in Nat
          BY <4>1, <2>2, <3>3
        <5>2. v.out[j].limit + 1 < v.base
          BY <4>1, <3>2
        <5>3. w.base = e.base /\ v.base <= v.limit
          BY <2>1, <3>2
        <5>4. v.out[j].limit + 1 < e.base
          <6>1. \A a, b, c, d \in Nat : a + 1 < b /\ b <= c /\ c + 1 < d => a + 1 < d
            OBVIOUS
          <6>2. v.base \in Nat /\ v.limit \in Nat /\ e.base \in Nat
            BY <1>2, <1>3
          <6> QED BY <6>1, <6>2, <5>1, <5>2, <5>3, <3>1
        <5>5. v.out[j].limit + 1 < w.base
          BY <5>3, <5>4
        <5> QED BY <5>1, <5>5
      <4>2. CASE j = Len(v.out) + 1
        BY <4>2, <3>1, <2>1, <2>2, <1>4
      <4> QED BY <4>1, <4>2, <2>2
    <3>5. ASSUME NEW i1 \in 1 .. Len(w.out), NEW i2 \in 1 .. Len(w.out), i1 < i2
          PROVE  w.out[i1].limit + 1 < w.out[i2].base
      <4>1. i1 \in 1 .. Len(v.out)
        BY <3>5, <2>2
      <4>2. CASE i2 \in 1 .. Len(v.out)
        BY <4>1, <4>2, <3>2, <3>5, <2>2 DEF Gaps
      <4>3. CASE i2 = Len(v.out) + 1
        BY <4>1, <4>3, <3>2, <2>2, <1>4
      <4> QED BY <4>2, <4>3, <2>2
    <3> HIDE DEF w
    <3> QED BY <3>4, <3>5 DEF Gaps
  <2> HIDE DEF w
  <2> QED BY <2>3, <2>4, <2>5, <2>6 DEF MergeSoFar, w
<1> QED BY <1>7, <1>8

(* When the last range is out, the array's addresses are covered.          *)
LEMMA MergeEnd ==
  ASSUME NEW s \in Seq(Entries), Len(s) > 0, NEW v \in LoopState, MergeSoFar(s, Len(s), v)
  PROVE  /\ Append(v.out, Entry(v.base, v.limit)) \in Seq(Entries)
         /\ AllProper(Append(v.out, Entry(v.base, v.limit)))
         /\ \A x \in Word : Covers(Append(v.out, Entry(v.base, v.limit)), x)
                              <=> Covers(s, x)
         /\ Disjoint(s) => Gaps(Append(v.out, Entry(v.base, v.limit)))
<1> DEFINE cur == Entry(v.base, v.limit)
           out == Append(v.out, cur)
<1>1. /\ v.out \in Seq(Entries) /\ v.base \in Word /\ v.limit \in Word
      /\ v.base \in Nat /\ v.limit \in Nat
  BY StateType
<1>2. cur \in Entries /\ cur.base = v.base /\ cur.limit = v.limit
  BY <1>1, EntryType
<1>3. /\ out \in Seq(Entries) /\ Len(out) = Len(v.out) + 1 /\ Len(v.out) \in Nat
      /\ \A j \in 1 .. Len(v.out) : out[j] = v.out[j]
      /\ out[Len(v.out) + 1] = cur
      /\ \A j \in 1 .. Len(out) : j \in 1 .. Len(v.out) \/ j = Len(v.out) + 1
  BY <1>1, <1>2, AppendFacts
<1>4. AllProper(out)
  BY <1>2, <1>3 DEF MergeSoFar, AllProper, Proper
<1>5. ASSUME NEW x \in Word
      PROVE  Covers(out, x) <=> Covers(s, x)
  <2>1. Covers(out, x) <=> Covers(v.out, x) \/ In(v.base, v.limit, x)
    BY <1>1, <1>2, CoversAppend
  <2>2. Covers(v.out, x) \/ In(v.base, v.limit, x) <=> Upto(s, Len(s), x)
    BY DEF MergeSoFar
  <2> QED BY <2>1, <2>2, UptoAll
<1>6. ASSUME Disjoint(s)
      PROVE  Gaps(out)
  <2>1. Gaps(v.out) /\ \A j \in 1 .. Len(v.out) : v.out[j].limit + 1 < v.base
    BY <1>6 DEF MergeSoFar
  <2> SUFFICES ASSUME NEW i1 \in 1 .. Len(out), NEW i2 \in 1 .. Len(out), i1 < i2
               PROVE  out[i1].limit + 1 < out[i2].base
    BY DEF Gaps
  <2>2. i1 \in 1 .. Len(v.out)
    BY <1>3
  <2>3. CASE i2 \in 1 .. Len(v.out)
    BY <2>1, <2>2, <2>3, <1>3 DEF Gaps
  <2>4. CASE i2 = Len(v.out) + 1
    BY <2>1, <2>2, <2>4, <1>2, <1>3
  <2> QED BY <2>3, <2>4, <1>3
<1> QED BY <1>3, <1>4, <1>5, <1>6
-----------------------------------------------------------------------------
(* crs_replace_with_free_ranges begins at the interval's start.            *)
LEMMA FreeBegin ==
  ASSUME NEW s, NEW lo \in Word
  PROVE  /\ [out |-> << >>, base |-> lo, limit |-> 0] \in LoopState
         /\ FreeSoFar(s, 0, [out |-> << >>, base |-> lo, limit |-> 0], lo)
<1> DEFINE v == [out |-> << >>, base |-> lo, limit |-> 0]
<1>1. v.out = << >> /\ v.base = lo /\ v.limit = 0
  OBVIOUS
<1>2. 0 \in Word /\ lo \in Nat
  BY WordNat, WordAssumption DEF Word, WordAssumption
<1>3. v \in LoopState
  BY <1>2 DEF LoopState
<1>4. Len(v.out) = 0 /\ \A x : ~Covers(v.out, x)
  BY <1>1 DEF Covers
<1>5. \A x \in Word : ~(lo <= x /\ x < lo)
  BY <1>2, WordNat
<1> HIDE DEF v
<1>6. FreeSoFar(s, 0, v, lo)
  BY <1>1, <1>2, <1>4, <1>5 DEF FreeSoFar
<1> QED BY <1>3, <1>6 DEF v

(* An iteration keeps the variables addresses.                             *)
LEMMA FreeType ==
  ASSUME NEW v \in LoopState, NEW e \in Entries
  PROVE  FreeEntry(v, e) \in LoopState
<1>1. /\ e.base \in Word /\ e.limit \in Word /\ e.base \in Nat /\ e.limit \in Nat
      /\ e.limit <= MaxWord /\ MaxWord \in Nat /\ e.base <= MaxWord
  BY EntryWords, WordNat
<1>2. v.out \in Seq(Entries) /\ v.base \in Nat /\ v.base \in Word
  BY StateType
<1>3. Succ(e.limit) \in Word
  BY <1>1 DEF Succ, Word
<1>4. CASE v.base < e.base
  <2>1. e.base - 1 \in Word
    BY <1>1, <1>2, <1>4 DEF Word
  <2>2. Append(v.out, Entry(v.base, e.base - 1)) \in Seq(Entries)
    BY <2>1, <1>2, EntryType, AppendFacts
  <2> HIDE DEF Entries
  <2> QED BY <2>2, <1>3, <1>4 DEF FreeEntry, LoopState
<1>5. CASE ~(v.base < e.base)
  BY <1>3, <1>5 DEF FreeEntry, LoopState
<1> QED BY <1>4, <1>5

(* The next used range: the hole before it is put out, if there is one.    *)
LEMMA FreeNext ==
  ASSUME NEW s \in Seq(Entries), NEW k \in 0 .. Len(s) - 1, NEW lo \in Word,
         Chain(s), Usable(s, lo), NEW v \in LoopState, FreeSoFar(s, k, v, lo)
  PROVE  FreeSoFar(s, k + 1, FreeEntry(v, s[k + 1]), lo)
<1> DEFINE e == s[k + 1]
           hole == Entry(v.base, e.base - 1)
           w == FreeEntry(v, e)
<1>1. k \in Nat /\ k + 1 \in 1 .. Len(s) /\ Len(s) \in Nat /\ lo \in Nat
  BY WordNat
<1>2. /\ e \in Entries /\ Proper(e) /\ e.base \in Word /\ e.limit \in Word
      /\ e.base \in Nat /\ e.limit \in Nat /\ e.limit < MaxWord /\ MaxWord \in Nat
      /\ lo <= e.base /\ 1 <= e.base /\ e.base <= e.limit
  BY <1>1, RangeAt, WordAssumption DEF Usable, Proper, WordAssumption
<1>3. /\ v.out \in Seq(Entries) /\ v.base \in Word /\ v.base \in Nat
  BY StateType
<1>4. /\ w.out = (IF v.base < e.base THEN Append(v.out, hole) ELSE v.out)
      /\ w.base = e.limit + 1
  BY <1>2 DEF FreeEntry, Succ, LoopState
<1>5. v.base <= e.base \/ v.base = e.limit + 1
  <2>1. CASE k = 0
    BY <2>1, <1>2 DEF FreeSoFar
  <2>2. CASE k # 0
    <3>1. k \in 1 .. Len(s) /\ k < k + 1 /\ v.base = s[k].limit + 1
      BY <2>2, <1>1 DEF FreeSoFar
    <3>2. s[k].limit < e.base \/ s[k] = e
      BY <3>1, <1>1 DEF Chain
    <3>3. s[k].limit \in Nat
      BY <3>1, RangeAt
    <3> QED BY <3>1, <3>2, <3>3, <1>2
  <2> QED BY <2>1, <2>2
<1>6. \A x \in Word : Upto(s, k + 1, x) <=> Upto(s, k, x) \/ In(e.base, e.limit, x)
  BY <1>1, UptoNext
<1>7. \A x \in Word : Upto(s, k, x) => x < v.base
  <2> SUFFICES ASSUME NEW x \in Word, NEW j \in 1 .. k, x <= s[j].limit
               PROVE  x < v.base
    BY DEF Upto, In
  <2>1. s[j].limit < v.base /\ j \in 1 .. Len(s)
    BY <1>1 DEF FreeSoFar
  <2>2. s[j].limit \in Nat /\ x \in Nat
    BY <2>1, RangeAt, WordNat
  <2> QED BY <2>1, <2>2, <1>3
<1>8. v.base < e.base =>
        /\ hole \in Entries /\ hole.base = v.base /\ hole.limit = e.base - 1
        /\ w.out = Append(v.out, hole)
  <2> SUFFICES ASSUME v.base < e.base
               PROVE  /\ hole \in Entries /\ hole.base = v.base
                      /\ hole.limit = e.base - 1 /\ w.out = Append(v.out, hole)
    OBVIOUS
  <2>1. e.base - 1 \in Word
    BY <1>2, <1>3, WordNat DEF Word
  <2> QED BY <2>1, <1>3, <1>4, EntryType
<1>9. ~(v.base < e.base) => w.out = v.out
  BY <1>4
<1> HIDE DEF w, hole
<1>10. \A x \in Word :
         Covers(w.out, x) <=> Covers(v.out, x) \/ (v.base <= x /\ x < e.base)
  <2> SUFFICES ASSUME NEW x \in Word
               PROVE  Covers(w.out, x)
                        <=> Covers(v.out, x) \/ (v.base <= x /\ x < e.base)
    OBVIOUS
  <2>1. CASE v.base < e.base
    <3>1. Covers(Append(v.out, hole), x)
            <=> Covers(v.out, x) \/ In(hole.base, hole.limit, x)
      BY <2>1, <1>3, <1>8, CoversAppend
    <3>2. In(hole.base, hole.limit, x) <=> v.base <= x /\ x < e.base
      BY <2>1, <1>2, <1>3, <1>8, WordNat DEF In
    <3> QED BY <2>1, <3>1, <3>2, <1>8
  <2>2. CASE ~(v.base < e.base)
    <3>1. ~(v.base <= x /\ x < e.base)
      BY <2>2, <1>2, <1>3, WordNat
    <3> QED BY <2>2, <3>1, <1>9
  <2> QED BY <2>1, <2>2
<1>11. \A x \in Word : Covers(w.out, x) <=> lo <= x /\ x < w.base /\ ~Upto(s, k + 1, x)
  <2> SUFFICES ASSUME NEW x \in Word
               PROVE  Covers(w.out, x) <=> lo <= x /\ x < w.base /\ ~Upto(s, k + 1, x)
    OBVIOUS
  <2>1. x \in Nat /\ lo <= v.base
    BY WordNat DEF FreeSoFar
  <2>2. Covers(v.out, x) <=> lo <= x /\ x < v.base /\ ~Upto(s, k, x)
    BY DEF FreeSoFar
  <2>3. Upto(s, k, x) => x < v.base
    BY <1>7
  <2>4. Upto(s, k + 1, x) <=> Upto(s, k, x) \/ (e.base <= x /\ x <= e.limit)
    BY <1>6 DEF In
  <2>5. Covers(w.out, x) <=> Covers(v.out, x) \/ (v.base <= x /\ x < e.base)
    BY <1>10
  <2>6. CASE v.base = e.limit + 1
    <3>1. k \in 1 .. Len(s) /\ s[k].limit + 1 = v.base
      BY <2>6, <1>1, <1>2, <1>3 DEF FreeSoFar
    <3>2. s[k] = e
      <4>1. s[k].limit \in Nat
        BY <3>1, RangeAt
      <4>2. s[k].limit < e.base \/ s[k] = e
        BY <3>1, <1>1 DEF Chain
      <4> QED BY <4>1, <4>2, <3>1, <2>6, <1>2
    <3>3. In(e.base, e.limit, x) => Upto(s, k, x)
      BY <3>1, <3>2 DEF Upto
    <3> QED BY <2>1, <2>2, <2>3, <2>4, <2>5, <2>6, <3>3, <1>2, <1>3, <1>4 DEF In
  <2>7. CASE v.base <= e.base
    BY <2>1, <2>2, <2>3, <2>4, <2>5, <2>7, <1>1, <1>2, <1>3, <1>4
  <2> QED BY <2>6, <2>7, <1>5
<1>12. \A j \in 1 .. k + 1 : s[j].limit < w.base
  <2> SUFFICES ASSUME NEW j \in 1 .. k + 1 PROVE s[j].limit < e.limit + 1
    BY <1>4
  <2>1. s[j].limit \in Nat
    BY <1>1, RangeAt
  <2>2. CASE j = k + 1
    BY <2>2, <1>2
  <2>3. CASE j \in 1 .. k
    BY <2>1, <2>3, <1>2, <1>3, <1>5 DEF FreeSoFar
  <2> QED BY <2>2, <2>3, <1>1
<1>13. ASSUME NEW j \in 1 .. Len(w.out)
       PROVE  Hole(s, k + 1, lo, w.out[j])
  <2>0. \A i1 \in 1 .. k : i1 \in 1 .. k + 1
    BY <1>1
  <2>1. \A f : Hole(s, k, lo, f) => Hole(s, k + 1, lo, f)
    BY <2>0 DEF Hole
  <2>2. CASE v.base < e.base
    <3>1. /\ \A i1 \in 1 .. Len(v.out) : w.out[i1] = v.out[i1]
          /\ w.out[Len(v.out) + 1] = hole
          /\ j \in 1 .. Len(v.out) \/ j = Len(v.out) + 1
      <4>1. hole \in Entries /\ w.out = Append(v.out, hole)
        BY <2>2, <1>8
      <4>2. /\ \A i1 \in 1 .. Len(v.out) : Append(v.out, hole)[i1] = v.out[i1]
            /\ Append(v.out, hole)[Len(v.out) + 1] = hole
            /\ \A i1 \in 1 .. Len(Append(v.out, hole)) :
                 i1 \in 1 .. Len(v.out) \/ i1 = Len(v.out) + 1
        BY <4>1, <1>3, AppendFacts
      <4> QED BY <4>1, <4>2
    <3>2. Hole(s, k + 1, lo, hole)
      <4>1. hole.base <= hole.limit
        BY <2>2, <1>2, <1>3, <1>8
      <4>2. hole.base = lo \/ \E i1 \in 1 .. k + 1 : hole.base = s[i1].limit + 1
        BY <2>2, <1>1, <1>8 DEF FreeSoFar
      <4>3. k + 1 \in 1 .. k + 1 /\ hole.limit = e.base - 1
        BY <2>2, <1>1, <1>8
      <4> QED BY <4>1, <4>2, <4>3 DEF Hole
    <3> QED BY <3>1, <3>2, <2>1 DEF FreeSoFar
  <2>3. CASE ~(v.base < e.base)
    BY <2>1, <2>3, <1>9 DEF FreeSoFar
  <2> QED BY <2>2, <2>3
<1>14. lo <= w.base /\ w.base = s[k + 1].limit + 1 /\ k + 1 # 0
  BY <1>1, <1>2, <1>4
<1> QED BY <1>11, <1>12, <1>13, <1>14 DEF FreeSoFar, w

(* A free range begins behind a used one, or at the start, and likewise.   *)
Left(s, lo, hi, e) ==
  /\ e.base <= e.limit
  /\ e.base = lo \/ \E j \in 1 .. Len(s) : e.base = s[j].limit + 1
  /\ e.limit = hi \/ \E j \in 1 .. Len(s) : e.limit = s[j].base - 1

(* After the last used range, what is left up to the interval's end.       *)
LEMMA FreeEnd ==
  ASSUME NEW s \in Seq(Entries), NEW lo \in Word, NEW hi \in Word,
         NEW v \in LoopState, FreeSoFar(s, Len(s), v, lo)
  PROVE  /\ FreeTail(v, hi) \in Seq(Entries)
         /\ \A x \in Word : Covers(FreeTail(v, hi), x)
              <=> ~Covers(s, x) /\ lo <= x /\ (x < v.base \/ (v.base < hi /\ x <= hi))
         /\ \A j \in 1 .. Len(FreeTail(v, hi)) : Left(s, lo, hi, FreeTail(v, hi)[j])
<1> DEFINE rest == Entry(v.base, hi)
           out == FreeTail(v, hi)
<1>1. /\ v.out \in Seq(Entries) /\ v.base \in Word /\ v.base \in Nat
      /\ lo \in Nat /\ hi \in Nat /\ Len(s) \in Nat
  BY StateType, WordNat
<1>2. rest \in Entries /\ rest.base = v.base /\ rest.limit = hi
  BY <1>1, EntryType
<1>3. v.base < hi => out = Append(v.out, rest)
  BY DEF FreeTail
<1>4. ~(v.base < hi) => out = v.out
  BY DEF FreeTail
<1> HIDE DEF rest, out
<1>5. out \in Seq(Entries)
  <2>1. Append(v.out, rest) \in Seq(Entries)
    BY <1>1, <1>2, AppendFacts
  <2> QED BY <2>1, <1>1, <1>3, <1>4
<1>6. \A x \in Word : Covers(s, x) => x < v.base
  <2> SUFFICES ASSUME NEW x \in Word, NEW j \in 1 .. Len(s), x <= s[j].limit
               PROVE  x < v.base
    BY DEF Covers
  <2>1. s[j].limit < v.base /\ s[j].limit \in Nat /\ x \in Nat
    BY RangeAt, WordNat DEF FreeSoFar
  <2> QED BY <2>1, <1>1
<1>7. ASSUME NEW x \in Word
      PROVE  Covers(out, x)
               <=> ~Covers(s, x) /\ lo <= x /\ (x < v.base \/ (v.base < hi /\ x <= hi))
  <2>1. /\ Covers(v.out, x) <=> lo <= x /\ x < v.base /\ ~Covers(s, x)
        /\ x \in Nat /\ lo <= v.base
    BY UptoAll, WordNat DEF FreeSoFar
  <2>2. CASE v.base < hi
    <3>1. Covers(out, x) <=> Covers(v.out, x) \/ (v.base <= x /\ x <= hi)
      <4>1. Covers(Append(v.out, rest), x)
              <=> Covers(v.out, x) \/ In(rest.base, rest.limit, x)
        BY <1>1, <1>2, CoversAppend
      <4> QED BY <4>1, <2>2, <1>2, <1>3 DEF In
    <3> QED BY <3>1, <2>1, <2>2, <1>1, <1>6
  <2>3. CASE ~(v.base < hi)
    BY <2>1, <2>3, <1>4
  <2> QED BY <2>2, <2>3
<1>8. ASSUME NEW j \in 1 .. Len(out)
      PROVE  Left(s, lo, hi, out[j])
  <2>1. \A e : Hole(s, Len(s), lo, e) => Left(s, lo, hi, e)
    BY DEF Hole, Left
  <2>2. CASE v.base < hi
    <3>1. /\ \A i1 \in 1 .. Len(v.out) : Append(v.out, rest)[i1] = v.out[i1]
          /\ Append(v.out, rest)[Len(v.out) + 1] = rest
          /\ \A i1 \in 1 .. Len(Append(v.out, rest)) :
               i1 \in 1 .. Len(v.out) \/ i1 = Len(v.out) + 1
      BY <1>1, <1>2, AppendFacts
    <3>2. Left(s, lo, hi, rest)
      BY <2>2, <1>1, <1>2 DEF Left, FreeSoFar
    <3> QED BY <3>1, <3>2, <2>1, <2>2, <1>3 DEF FreeSoFar
  <2>3. CASE ~(v.base < hi)
    BY <2>1, <2>3, <1>4 DEF FreeSoFar
  <2> QED BY <2>2, <2>3
<1> QED BY <1>5, <1>7, <1>8 DEF out

-----------------------------------------------------------------------------
(* CrsRanges: the two functions, one entry at a time.                      *)

(* The array handed to the function, which does not change.                *)
Given ==
  /\ AllProper(ranges)
  /\ op = "replace" => Disjoint(ranges) /\ Inside(ranges, Start, End)

IInv ==
  /\ TypeOK /\ Given
  /\ pc = "start" => i = 0 /\ st.out = << >> /\ st.limit = 0
  /\ op = "merge" /\ pc = "loop" => i >= 1 /\ MergeSoFar(ranges, i, st)
  /\ op = "replace" /\ pc = "loop" => FreeSoFar(ranges, i, st, Start)
  /\ MergeKeepsPoints /\ MergeLeavesGaps /\ FreeAvoidsUsed /\ FreeIsComplete

(* The loop's state and the array, typed.                                  *)
LEMMA LoopType ==
  ASSUME TypeOK
  PROVE  /\ st \in LoopState /\ ranges \in Seq(Entries) /\ Len(ranges) \in Nat
         /\ i \in 0 .. Len(ranges)
  BY DEF TypeOK, LoopState

(* Disjoint ranges inside the interval are what the loop can work on.      *)
LEMMA GivenUsable ==
  ASSUME TypeOK, Given, op = "replace"
  PROVE  Chain(ranges) /\ Usable(ranges, Start)
<1>1. Chain(ranges)
  BY DEF Given, Disjoint, Chain
<1>2. ASSUME NEW k \in 1 .. Len(ranges)
      PROVE  Proper(ranges[k]) /\ Start <= ranges[k].base /\ ranges[k].limit < MaxWord
  <2>1. ranges[k].limit \in Nat
    BY LoopType, RangeAt
  <2>2. Proper(ranges[k]) /\ Start <= ranges[k].base /\ ranges[k].limit <= End
    BY DEF Given, AllProper, Inside
  <2>3. End \in Nat /\ MaxWord \in Nat /\ End < MaxWord
    BY IntervalAssumption, WordAssumption DEF IntervalAssumption, WordAssumption
  <2> QED BY <2>1, <2>2, <2>3
<1> QED BY <1>1, <1>2 DEF Usable

(* The interval's ends are addresses.                                      *)
LEMMA IntervalWords ==
  /\ Start \in Word /\ End \in Word /\ Start \in Nat /\ End \in Nat /\ Start <= End
  BY IntervalAssumption, WordAssumption DEF IntervalAssumption, WordAssumption, Word

(* The functions are entered with nothing put out.                         *)
LEMMA InitIInv == ASSUME Init PROVE IInv
<1>1. PICK m \in Nat : ranges \in [1 .. m -> ProperEntries]
  BY BoundAssumption DEF Init, Arrays, BoundAssumption
<1>2. /\ ranges \in Seq(Entries) /\ Len(ranges) \in Nat
      /\ \A k \in 1 .. Len(ranges) : Proper(ranges[k])
  BY <1>1 DEF ProperEntries
<1>3. TypeOK
  BY <1>2, WordAssumption DEF TypeOK, Init, Word, WordAssumption
<1> QED BY <1>2, <1>3 DEF IInv, Init, Given, AllProper, MergeKeepsPoints,
                    MergeLeavesGaps, FreeAvoidsUsed, FreeIsComplete

(* An empty array is its own result.                                       *)
LEMMA StepMergeNothing == ASSUME IInv, MergeNothing PROVE IInv'
<1>1. TypeOK' /\ Given'
  BY DEF TypeOK, Given, IInv, MergeNothing
<1>2. \A s : Len(s) = 0 => Len(<< >>) = 0 /\ \A x : ~Covers(s, x)
  BY DEF Covers
<1>3. MergeKeepsPoints' /\ MergeLeavesGaps'
  BY <1>2 DEF MergeKeepsPoints, MergeLeavesGaps, IInv, MergeNothing
<1> QED BY <1>1, <1>3 DEF FreeAvoidsUsed, FreeIsComplete, IInv, MergeNothing

(* The first entry.                                                        *)
LEMMA StepMergeFirst == ASSUME IInv, MergeFirst PROVE IInv'
<1>1. /\ st' \in LoopState /\ MergeSoFar(ranges, 1, st')
  BY LoopType, MergeBegin DEF IInv, MergeFirst, Given
<1>2. TypeOK' /\ Given'
  BY <1>1, LoopType DEF TypeOK, Given, LoopState, IInv, MergeFirst
<1> QED BY <1>1, <1>2 DEF IInv, MergeFirst, MergeKeepsPoints, MergeLeavesGaps,
                    FreeAvoidsUsed, FreeIsComplete

(* One iteration of crs_range_merge.                                       *)
LEMMA StepMergeStep == ASSUME IInv, MergeStep PROVE IInv'
<1>1. /\ i \in Nat /\ i \in 1 .. Len(ranges) - 1 /\ i + 1 \in 1 .. Len(ranges)
      /\ st \in LoopState /\ ranges \in Seq(Entries) /\ AllProper(ranges)
      /\ MergeSoFar(ranges, i, st)
  BY LoopType DEF IInv, MergeStep, Given
<1>2. st' \in LoopState /\ MergeSoFar(ranges, i + 1, st')
  <2>1. ranges[i + 1] \in Entries
    BY <1>1, ElementType
  <2> QED BY <1>1, <2>1, MergeType, MergeNext DEF MergeStep
<1>3. TypeOK' /\ Given'
  BY <1>1, <1>2 DEF TypeOK, Given, LoopState, IInv, MergeStep
<1> QED BY <1>1, <1>2, <1>3 DEF IInv, MergeStep, MergeKeepsPoints, MergeLeavesGaps,
                    FreeAvoidsUsed, FreeIsComplete

(* The range being built is put out last.                                  *)
LEMMA StepMergeFlush == ASSUME IInv, MergeFlush PROVE IInv'
<1> DEFINE out == Append(st.out, Entry(st.base, st.limit))
<1>1. /\ st \in LoopState /\ ranges \in Seq(Entries) /\ Len(ranges) > 0
      /\ MergeSoFar(ranges, Len(ranges), st)
  BY LoopType DEF IInv, MergeFlush
<1>2. /\ out \in Seq(Entries)
      /\ \A x \in Word : Covers(out, x) <=> Covers(ranges, x)
      /\ Disjoint(ranges) => Gaps(out)
  BY <1>1, MergeEnd
<1>3. st' = [st EXCEPT !.out = out] /\ st'.out = out /\ st' \in LoopState
  BY <1>1, <1>2 DEF MergeFlush, LoopState
<1> HIDE DEF out
<1>4. TypeOK' /\ Given'
  BY <1>3 DEF TypeOK, Given, LoopState, IInv, MergeFlush
<1>5. ASSUME Gaps(out), NEW k \in 1 .. Len(out) - 1
      PROVE  out[k].limit + 1 < out[k + 1].base
  <2>1. k \in 1 .. Len(out) /\ k + 1 \in 1 .. Len(out) /\ k < k + 1
    BY <1>2
  <2> QED BY <1>5, <2>1 DEF Gaps
<1> QED BY <1>2, <1>3, <1>4, <1>5 DEF IInv, MergeFlush, MergeKeepsPoints,
                    MergeLeavesGaps, FreeAvoidsUsed, FreeIsComplete

(* The scan begins at Start.                                               *)
LEMMA StepFreeFirst == ASSUME IInv, FreeFirst PROVE IInv'
<1>1. st \in LoopState /\ st.out = << >> /\ st.limit = 0 /\ i = 0
  BY LoopType DEF IInv, FreeFirst
<1>2. st' = [out |-> << >>, base |-> Start, limit |-> 0]
  BY <1>1 DEF FreeFirst, LoopState
<1>3. st' \in LoopState /\ FreeSoFar(ranges, 0, st', Start)
  BY <1>2, IntervalWords, FreeBegin
<1>4. TypeOK' /\ Given'
  BY <1>3 DEF TypeOK, Given, LoopState, IInv, FreeFirst
<1> QED BY <1>1, <1>3, <1>4 DEF IInv, FreeFirst, MergeKeepsPoints, MergeLeavesGaps,
                    FreeAvoidsUsed, FreeIsComplete

(* One iteration of crs_replace_with_free_ranges.                          *)
LEMMA StepFreeStep == ASSUME IInv, FreeStep PROVE IInv'
<1>1. /\ i \in Nat /\ i \in 0 .. Len(ranges) - 1 /\ i + 1 \in 1 .. Len(ranges)
      /\ st \in LoopState /\ ranges \in Seq(Entries)
      /\ FreeSoFar(ranges, i, st, Start) /\ Chain(ranges) /\ Usable(ranges, Start)
  BY LoopType, GivenUsable DEF IInv, FreeStep
<1>2. st' \in LoopState /\ FreeSoFar(ranges, i + 1, st', Start)
  <2>1. ranges[i + 1] \in Entries
    BY <1>1, ElementType
  <2> QED BY <1>1, <2>1, IntervalWords, FreeType, FreeNext DEF FreeStep
<1>3. TypeOK' /\ Given'
  BY <1>1, <1>2 DEF TypeOK, Given, LoopState, IInv, FreeStep
<1> QED BY <1>1, <1>2, <1>3 DEF IInv, FreeStep, MergeKeepsPoints, MergeLeavesGaps,
                    FreeAvoidsUsed, FreeIsComplete

(* What follows the last used range.                                       *)
LEMMA StepFreeFlush == ASSUME IInv, FreeFlush PROVE IInv'
<1> DEFINE out == FreeTail(st, End)
<1>1. /\ st \in LoopState /\ ranges \in Seq(Entries)
      /\ FreeSoFar(ranges, Len(ranges), st, Start)
      /\ Start \in Nat /\ End \in Nat /\ st.base \in Nat
  BY LoopType, IntervalWords, StateType DEF IInv, FreeFlush
<1>2. /\ out \in Seq(Entries)
      /\ \A x \in Word : Covers(out, x) <=>
           ~Covers(ranges, x) /\ Start <= x /\ (x < st.base \/ (st.base < End /\ x <= End))
  BY <1>1, IntervalWords, FreeEnd
<1>3. st' = [st EXCEPT !.out = out] /\ st'.out = out /\ st' \in LoopState
  BY <1>1, <1>2 DEF FreeFlush, LoopState
<1> HIDE DEF out
<1>4. TypeOK' /\ Given'
  BY <1>3 DEF TypeOK, Given, LoopState, IInv, FreeFlush
<1>5. st.base <= End + 1
  <2>1. CASE Len(ranges) = 0
    BY <1>1, <2>1, IntervalWords DEF FreeSoFar
  <2>2. CASE Len(ranges) # 0
    <3>1. Len(ranges) \in 1 .. Len(ranges)
      BY <1>1, <2>2
    <3>2. /\ ranges[Len(ranges)].limit \in Nat
          /\ st.base = ranges[Len(ranges)].limit + 1
      BY <1>1, <2>2, <3>1, RangeAt DEF FreeSoFar
    <3>3. ranges[Len(ranges)].limit <= End
      BY <3>1 DEF IInv, FreeFlush, Given, Inside
    <3> QED BY <1>1, <3>2, <3>3
  <2> QED BY <2>1, <2>2
<1>6. FreeAvoidsUsed'
  <2> SUFFICES ASSUME NEW x \in Word, Covers(out, x)
               PROVE  Start <= x /\ x <= End /\ ~Covers(ranges, x)
    BY <1>3 DEF FreeAvoidsUsed, FreeFlush
  <2> QED BY <1>1, <1>2, <1>5, WordNat
<1>7. FreeIsComplete'
  <2> SUFFICES ASSUME NEW x \in Start .. End
               PROVE  Covers(ranges, x) \/ Covers(out, x) \/ x = End
    BY <1>3 DEF FreeIsComplete, FreeFlush
  <2>1. x \in Word /\ Start <= x /\ x <= End /\ x \in Nat
    BY IntervalAssumption, WordAssumption DEF IntervalAssumption, WordAssumption, Word
  <2> QED BY <1>1, <1>2, <2>1
<1> QED BY <1>4, <1>6, <1>7 DEF IInv, FreeFlush, MergeKeepsPoints, MergeLeavesGaps

(* Every step of the two functions keeps the invariant.                    *)
LEMMA StepIInv == ASSUME IInv, [Next]_vars PROVE IInv'
<1>1. CASE UNCHANGED vars
  BY <1>1 DEF IInv, vars, TypeOK, Given, MergeKeepsPoints, MergeLeavesGaps,
              FreeAvoidsUsed, FreeIsComplete
<1>2. CASE Next
  BY <1>2, StepMergeNothing, StepMergeFirst, StepMergeStep, StepMergeFlush,
     StepFreeFirst, StepFreeStep, StepFreeFlush DEF Next
<1> QED BY <1>1, <1>2

(* The inductive invariant of the two functions.                           *)
LEMMA Invariant == Spec => []IInv
  BY InitIInv, StepIInv, PTL DEF Spec

(* Bases and limits stay words: no subtraction goes below zero.            *)
THEOREM TypeCorrect == Spec => []TypeOK
  BY Invariant, PTL DEF IInv

(* crs_range_merge keeps the set of addresses.                             *)
THEOREM MergeCorrect == Spec => []MergeKeepsPoints
  BY Invariant, PTL DEF IInv

(* crs_range_merge of disjoint ranges leaves none to be merged.            *)
THEOREM MergeComplete == Spec => []MergeLeavesGaps
  BY Invariant, PTL DEF IInv

(* crs_replace_with_free_ranges frees no used address.                     *)
THEOREM FreeCorrect == Spec => []FreeAvoidsUsed
  BY Invariant, PTL DEF IInv

(* crs_replace_with_free_ranges loses at most the interval's last address. *)
THEOREM FreeComplete == Spec => []FreeIsComplete
  BY Invariant, PTL DEF IInv

-----------------------------------------------------------------------------
(* How many entries are ahead of the k-th: where the sort puts it.         *)
Rank(s, k) == Cardinality(Ahead(s, k))

(* A rank is a position.                                                   *)
LEMMA RankRange ==
  ASSUME NEW s \in Seq(Entries), NEW k \in 1 .. Len(s)
  PROVE  /\ IsFiniteSet(Ahead(s, k)) /\ Rank(s, k) \in 0 .. Len(s) - 1
         /\ k \notin Ahead(s, k)
<1>1. /\ s[k].base \in Nat /\ Len(s) \in Nat /\ k \in Int
  BY RangeAt
<1>2. k \notin Ahead(s, k) /\ Ahead(s, k) \subseteq (1 .. Len(s)) \ {k}
  BY <1>1 DEF Ahead
<1>3. /\ IsFiniteSet(1 .. Len(s)) /\ Cardinality(1 .. Len(s)) = Len(s)
  BY <1>1, FS_Interval
<1>4. /\ IsFiniteSet((1 .. Len(s)) \ {k})
      /\ Cardinality((1 .. Len(s)) \ {k}) = Len(s) - 1
  BY <1>3, FS_RemoveElement
<1>5. IsFiniteSet(Ahead(s, k)) /\ Cardinality(Ahead(s, k)) <= Len(s) - 1
  BY <1>2, <1>4, FS_Subset
<1>6. Cardinality(Ahead(s, k)) \in Nat
  BY <1>5, FS_CardinalityType
<1> QED BY <1>1, <1>2, <1>5, <1>6 DEF Rank

(* The ranks of two entries are ordered as the entries are.                *)
LEMMA RankOrder ==
  ASSUME NEW s \in Seq(Entries), NEW k \in 1 .. Len(s), NEW l \in 1 .. Len(s)
  PROVE  /\ k \in Ahead(s, l) => Rank(s, k) < Rank(s, l)
         /\ k = l \/ k \in Ahead(s, l) \/ l \in Ahead(s, k)
<1>1. /\ s[k].base \in Nat /\ s[l].base \in Nat /\ k \in Int /\ l \in Int
      /\ \A j \in 1 .. Len(s) : s[j].base \in Nat
  BY RangeAt
<1>2. ASSUME k \in Ahead(s, l)
      PROVE  Rank(s, k) < Rank(s, l)
  <2>1. Ahead(s, k) \union {k} \subseteq Ahead(s, l)
    BY <1>1, <1>2 DEF Ahead
  <2>2. /\ IsFiniteSet(Ahead(s, k) \union {k})
        /\ Cardinality(Ahead(s, k) \union {k}) = Rank(s, k) + 1
    BY RankRange, FS_AddElement DEF Rank
  <2>3. Rank(s, k) + 1 <= Rank(s, l)
    BY <2>1, <2>2, RankRange, FS_Subset DEF Rank
  <2> QED BY <2>3, RankRange
<1>3. k = l \/ k \in Ahead(s, l) \/ l \in Ahead(s, k)
  BY <1>1 DEF Ahead
<1> QED BY <1>2, <1>3

(* Every position is some entry's rank.                                    *)
LEMMA RankOnto ==
  ASSUME NEW s \in Seq(Entries), NEW j \in 1 .. Len(s)
  PROVE  \E k \in 1 .. Len(s) : Rank(s, k) = j - 1
<1> SUFFICES ASSUME \A k \in 1 .. Len(s) : Rank(s, k) # j - 1
             PROVE  FALSE
  OBVIOUS
<1> DEFINE places == (0 .. Len(s) - 1) \ {j - 1}
           f == [k \in 1 .. Len(s) |-> Rank(s, k)]
<1>1. Len(s) \in Nat /\ j - 1 \in 0 .. Len(s) - 1
  OBVIOUS
<1>2. IsFiniteSet(1 .. Len(s)) /\ Cardinality(1 .. Len(s)) = Len(s)
  BY <1>1, FS_Interval
<1>3. IsFiniteSet(0 .. Len(s) - 1) /\ Cardinality(0 .. Len(s) - 1) = Len(s)
  <2>1. 0 \in Int /\ Len(s) - 1 \in Int /\ ~(0 > Len(s) - 1) /\ Len(s) - 1 - 0 + 1 = Len(s)
    BY <1>1
  <2> QED BY <2>1, FS_Interval
<1>4. IsFiniteSet(places) /\ Cardinality(places) = Len(s) - 1
  BY <1>1, <1>3, FS_RemoveElement
<1>5. f \in [1 .. Len(s) -> places]
  BY RankRange
<1>6. PICK k \in 1 .. Len(s), l \in 1 .. Len(s) : k # l /\ f[k] = f[l]
  <2>1. Cardinality(1 .. Len(s)) > Cardinality(places)
    BY <1>1, <1>2, <1>4
  <2> HIDE DEF places, f
  <2> QED BY <2>1, <1>2, <1>4, <1>5, FS_PigeonHole
<1>7. Rank(s, k) = Rank(s, l)
  BY <1>6
<1>8. Rank(s, k) \in Nat /\ Rank(s, l) \in Nat
  BY RankRange
<1> QED BY <1>6, <1>7, <1>8, RankOrder

(* No two entries meet; or they do so only by being the same.              *)
Apart(s) == \A k, l \in 1 .. Len(s) :
  k # l => s[k].limit < s[l].base \/ s[l].limit < s[k].base
SameOrApart(s) == \A k, l \in 1 .. Len(s) :
  s[k] = s[l] \/ s[k].limit < s[l].base \/ s[l].limit < s[k].base

(* The sorted array has the same entries, in the order the loops need.     *)
LEMMA ByBaseFacts ==
  ASSUME NEW s \in Seq(Entries), AllProper(s)
  PROVE  /\ ByBase(s) \in Seq(Entries) /\ Len(ByBase(s)) = Len(s)
         /\ \A j \in 1 .. Len(s) : \E k \in 1 .. Len(s) : ByBase(s)[j] = s[k]
         /\ \A x : Covers(ByBase(s), x) <=> Covers(s, x)
         /\ SameOrApart(s) => Chain(ByBase(s))
         /\ Apart(s) => Disjoint(ByBase(s))
<1> DEFINE P(j, k) == k \in 1 .. Len(s) /\ Rank(s, k) = j - 1
           at(j) == CHOOSE k \in 1 .. Len(s) : Rank(s, k) = j - 1
           t == ByBase(s)
<1>1. Len(s) \in Nat
  OBVIOUS
<1>2. \A j \in 1 .. Len(s) : at(j) \in 1 .. Len(s) /\ Rank(s, at(j)) = j - 1
  BY RankOnto
<1>3. t = [j \in 1 .. Len(s) |-> s[at(j)]]
  BY DEF ByBase, Rank
<1> HIDE DEF at, t
<1>4. \A j \in 1 .. Len(s) : t[j] = s[at(j)] /\ s[at(j)] \in Entries
  BY <1>2, <1>3, RangeAt
<1>5. t \in Seq(Entries) /\ Len(t) = Len(s)
  <2>1. t \in [1 .. Len(s) -> Entries]
    BY <1>3, <1>4
  <2> HIDE DEF Entries
  <2> QED BY <2>1, <1>1
<1>6. ASSUME NEW k \in 1 .. Len(s)
      PROVE  \E j \in 1 .. Len(s) : at(j) = k
  <2>1. Rank(s, k) + 1 \in 1 .. Len(s) /\ (Rank(s, k) + 1) - 1 = Rank(s, k)
    BY <1>1, RankRange
  <2>2. at(Rank(s, k) + 1) \in 1 .. Len(s) /\ Rank(s, at(Rank(s, k) + 1)) = Rank(s, k)
    BY <2>1, <1>2
  <2>3. at(Rank(s, k) + 1) = k
    BY <2>1, <2>2, RankOrder
  <2> QED BY <2>1, <2>3
<1>7. \A x : Covers(t, x) <=> Covers(s, x)
  BY <1>2, <1>4, <1>5, <1>6 DEF Covers
<1>8. ASSUME NEW j \in 1 .. Len(s), NEW l \in 1 .. Len(s), j < l
      PROVE  /\ at(j) # at(l) /\ s[at(j)].base <= s[at(l)].base
             /\ s[at(j)].base \in Nat /\ s[at(l)].base \in Nat
             /\ s[at(j)].limit \in Nat /\ s[at(l)].limit \in Nat
             /\ s[at(l)].base <= s[at(l)].limit
  <2>1. at(j) \in 1 .. Len(s) /\ at(l) \in 1 .. Len(s)
    BY <1>2
  <2>2. Rank(s, at(j)) = j - 1 /\ Rank(s, at(l)) = l - 1
    BY <1>2
  <2>3. at(j) \in Ahead(s, at(l))
    BY <1>8, <2>1, <2>2, RankOrder
  <2>4. /\ s[at(j)].base \in Nat /\ s[at(l)].base \in Nat
        /\ s[at(j)].limit \in Nat /\ s[at(l)].limit \in Nat
    BY <2>1, RangeAt
  <2>5. s[at(l)].base <= s[at(l)].limit
    BY <2>1 DEF AllProper, Proper
  <2>6. s[at(j)].base <= s[at(l)].base
    BY <2>3, <2>4 DEF Ahead
  <2>7. at(j) # at(l)
    BY <2>2, <1>8
  <2> QED BY <2>4, <2>5, <2>6, <2>7
<1>9. ASSUME SameOrApart(s)
      PROVE  Chain(t)
  <2> SUFFICES ASSUME NEW j \in 1 .. Len(t), NEW l \in 1 .. Len(t), j < l
               PROVE  t[j].limit < t[l].base \/ t[j] = t[l]
    BY DEF Chain
  <2>1. j \in 1 .. Len(s) /\ l \in 1 .. Len(s) /\ t[j] = s[at(j)] /\ t[l] = s[at(l)]
    BY <1>4, <1>5
  <2>2. \/ s[at(j)] = s[at(l)] \/ s[at(j)].limit < s[at(l)].base
        \/ s[at(l)].limit < s[at(j)].base
    BY <1>9, <2>1, <1>2 DEF SameOrApart
  <2>3. /\ s[at(j)].base <= s[at(l)].base /\ s[at(l)].base <= s[at(l)].limit
        /\ s[at(j)].base \in Nat /\ s[at(l)].base \in Nat /\ s[at(l)].limit \in Nat
    BY <2>1, <1>8
  <2> QED BY <2>1, <2>2, <2>3
<1>10. ASSUME Apart(s)
       PROVE  Disjoint(t)
  <2> SUFFICES ASSUME NEW j \in 1 .. Len(t), NEW l \in 1 .. Len(t), j < l
               PROVE  t[j].limit < t[l].base
    BY DEF Disjoint
  <2>1. j \in 1 .. Len(s) /\ l \in 1 .. Len(s) /\ t[j] = s[at(j)] /\ t[l] = s[at(l)]
    BY <1>4, <1>5
  <2>2. /\ at(j) # at(l) /\ s[at(j)].base <= s[at(l)].base
        /\ s[at(l)].base <= s[at(l)].limit
        /\ s[at(j)].base \in Nat /\ s[at(l)].base \in Nat /\ s[at(l)].limit \in Nat
    BY <2>1, <1>8
  <2>3. \/ s[at(j)].limit < s[at(l)].base
        \/ s[at(l)].limit < s[at(j)].base
    BY <1>10, <2>1, <2>2, <1>2 DEF Apart
  <2> QED BY <2>1, <2>2, <2>3
<1>11. \A j \in 1 .. Len(s) : \E k \in 1 .. Len(s) : t[j] = s[k]
  BY <1>2, <1>4
<1> QED BY <1>5, <1>7, <1>9, <1>10, <1>11 DEF t

(* The loop of crs_range_merge over the array t, entry by entry.           *)
LEMMA MergeLoop ==
  ASSUME NEW t \in Seq(Entries), AllProper(t), Len(t) > 0, NEW d,
         d = (CHOOSE f : f = [k \in 0 .. Len(t) - 1 |->
                IF k = 0 THEN [out |-> << >>, base |-> t[1].base, limit |-> t[1].limit]
                         ELSE MergeEntry(f[k - 1], t[k + 1])])
  PROVE  d[Len(t) - 1] \in LoopState /\ MergeSoFar(t, Len(t), d[Len(t) - 1])
<1> DEFINE m == Len(t) - 1
           first == [out |-> << >>, base |-> t[1].base, limit |-> t[1].limit]
           P(f) == f = [k \in 0 .. m |->
                         IF k = 0 THEN first ELSE MergeEntry(f[k - 1], t[k + 1])]
           step == [k \in 1 .. m |-> [v \in LoopState |-> MergeEntry(v, t[k + 1])]]
<1>1. m \in Nat /\ Len(t) \in Nat /\ Len(t) = m + 1 /\ \A k \in 0 .. m : k + 1 \in 1 .. Len(t)
  OBVIOUS
<1>2. first \in LoopState /\ MergeSoFar(t, 1, first)
  BY MergeBegin
<1>3. step \in [1 .. m -> [LoopState -> LoopState]]
  <2>1. \A k \in 1 .. m : t[k + 1] \in Entries
    BY <1>1, RangeAt
  <2> QED BY <2>1, MergeType
<1>4. PICK r \in [0 .. m -> LoopState] : Iterates(r, m, first, step)
  <2> HIDE DEF step, m, first
  <2> QED BY <1>1, <1>2, <1>3, Iteration
<1>5. P(r)
  <2>1. \A k \in 1 .. m : r[k] = MergeEntry(r[k - 1], t[k + 1])
    <3>1. \A k \in 1 .. m : r[k - 1] \in LoopState
      BY <1>1
    <3> HIDE DEF m
    <3> QED BY <1>4, <3>1 DEF Iterates
  <2> HIDE DEF m, first
  <2> QED BY <1>1, <1>4, <2>1 DEF Iterates
<1>6. P(d)
  <2>1. d = CHOOSE f : P(f)
    OBVIOUS
  <2> HIDE DEF P
  <2> QED BY <1>5, <2>1
<1>7. d[0] = first /\ \A k \in 1 .. m : d[k] = MergeEntry(d[k - 1], t[k + 1])
  <2>1. d = [k \in 0 .. m |-> IF k = 0 THEN first ELSE MergeEntry(d[k - 1], t[k + 1])]
    BY <1>6
  <2>2. 0 \in 0 .. m /\ \A k \in 1 .. m : k \in 0 .. m /\ k # 0
    BY <1>1
  <2> HIDE DEF m, first
  <2> QED BY ONLY <2>1, <2>2
<1> DEFINE T == {k \in Nat : d[k] \in LoopState /\ MergeSoFar(t, k + 1, d[k])}
<1>8. 0 \in T
  <2> HIDE DEF first
  <2> QED BY <1>2, <1>7
<1>9. ASSUME NEW k \in 0 .. m - 1, k \in T
      PROVE  k + 1 \in T
  <2>1. /\ k + 1 \in 1 .. m /\ (k + 1) - 1 = k /\ k + 1 \in Nat
        /\ k + 1 \in 1 .. Len(t) - 1 /\ (k + 1) + 1 \in 1 .. Len(t)
    BY <1>1
  <2>2. d[k + 1] = MergeEntry(d[k], t[(k + 1) + 1])
    <3> HIDE DEF m
    <3> QED BY <1>7, <2>1
  <2>3. d[k] \in LoopState /\ MergeSoFar(t, k + 1, d[k])
    BY <1>9
  <2>4. t[(k + 1) + 1] \in Entries
    BY <2>1, RangeAt
  <2>5. d[k + 1] \in LoopState
    BY <2>2, <2>3, <2>4, MergeType
  <2>6. MergeSoFar(t, (k + 1) + 1, d[k + 1])
    BY <2>1, <2>2, <2>3, MergeNext
  <2> QED BY <2>1, <2>5, <2>6
<1>10. \A k \in 0 .. m : k \in T
  <2> HIDE DEF T, m
  <2> QED BY <1>1, <1>8, <1>9, BoundedInduction
<1> QED BY <1>1, <1>10

(* Merge as a whole, for an array in any order.                            *)
LEMMA MergeFacts ==
  ASSUME NEW s \in Seq(Entries), AllProper(s)
  PROVE  /\ Merge(s) \in Seq(Entries) /\ AllProper(Merge(s))
         /\ \A x \in Word : Covers(Merge(s), x) <=> Covers(s, x)
         /\ Apart(s) => Gaps(Merge(s))
<1>1. CASE s = << >>
  BY <1>1 DEF Merge, Gaps
<1>2. CASE s # << >>
  <2> DEFINE t == ByBase(s)
             d == CHOOSE f : f = [k \in 0 .. Len(t) - 1 |->
                IF k = 0 THEN [out |-> << >>, base |-> t[1].base, limit |-> t[1].limit]
                         ELSE MergeEntry(f[k - 1], t[k + 1])]
             last == d[Len(t) - 1]
  <2>1. Merge(s) = Append(last.out, Entry(last.base, last.limit))
    BY <1>2 DEF Merge
  <2>2. /\ t \in Seq(Entries) /\ Len(t) = Len(s) /\ Len(s) > 0
        /\ \A x \in Word : Covers(t, x) <=> Covers(s, x)
        /\ Apart(s) => Disjoint(t)
    <3>1. Len(s) > 0
      BY <1>2
    <3> QED BY <3>1, ByBaseFacts
  <2>3. AllProper(t)
    BY <2>2, ByBaseFacts DEF AllProper
  <2>4. last \in LoopState /\ MergeSoFar(t, Len(t), last)
    <3> HIDE DEF t
    <3> QED BY <2>2, <2>3, MergeLoop
  <2> HIDE DEF last, t
  <2>5. /\ Append(last.out, Entry(last.base, last.limit)) \in Seq(Entries)
        /\ AllProper(Append(last.out, Entry(last.base, last.limit)))
        /\ \A x \in Word : Covers(Append(last.out, Entry(last.base, last.limit)), x)
                              <=> Covers(t, x)
        /\ Disjoint(t) => Gaps(Append(last.out, Entry(last.base, last.limit)))
    BY <2>2, <2>4, MergeEnd
  <2> QED BY <2>1, <2>2, <2>5
<1> QED BY <1>1, <1>2

(* The loop of crs_replace_with_free_ranges over the array t.              *)
LEMMA FreeLoop ==
  ASSUME NEW t \in Seq(Entries), NEW lo \in Word, Chain(t), Usable(t, lo), NEW d,
         d = (CHOOSE f : f = [k \in 0 .. Len(t) |->
                IF k = 0 THEN [out |-> << >>, base |-> lo, limit |-> 0]
                         ELSE FreeEntry(f[k - 1], t[k])])
  PROVE  d[Len(t)] \in LoopState /\ FreeSoFar(t, Len(t), d[Len(t)], lo)
<1> DEFINE m == Len(t)
           first == [out |-> << >>, base |-> lo, limit |-> 0]
           P(f) == f = [k \in 0 .. m |-> IF k = 0 THEN first ELSE FreeEntry(f[k - 1], t[k])]
           step == [k \in 1 .. m |-> [v \in LoopState |-> FreeEntry(v, t[k])]]
<1>1. m \in Nat
  OBVIOUS
<1>2. first \in LoopState /\ FreeSoFar(t, 0, first, lo)
  BY FreeBegin
<1>3. step \in [1 .. m -> [LoopState -> LoopState]]
  BY RangeAt, FreeType
<1>4. PICK r \in [0 .. m -> LoopState] : Iterates(r, m, first, step)
  <2> HIDE DEF step, m, first
  <2> QED BY <1>1, <1>2, <1>3, Iteration
<1>5. P(r)
  <2>1. \A k \in 1 .. m : r[k] = FreeEntry(r[k - 1], t[k])
    <3>1. \A k \in 1 .. m : r[k - 1] \in LoopState
      BY <1>1
    <3> HIDE DEF m
    <3> QED BY <1>4, <3>1 DEF Iterates
  <2> HIDE DEF m, first
  <2> QED BY <1>1, <1>4, <2>1 DEF Iterates
<1>6. P(d)
  <2>1. d = CHOOSE f : P(f)
    OBVIOUS
  <2> HIDE DEF P
  <2> QED BY <1>5, <2>1
<1>7. d[0] = first /\ \A k \in 1 .. m : d[k] = FreeEntry(d[k - 1], t[k])
  <2>1. d = [k \in 0 .. m |-> IF k = 0 THEN first ELSE FreeEntry(d[k - 1], t[k])]
    BY <1>6
  <2>2. 0 \in 0 .. m /\ \A k \in 1 .. m : k \in 0 .. m /\ k # 0
    BY <1>1
  <2> HIDE DEF m, first
  <2> QED BY ONLY <2>1, <2>2
<1> DEFINE T == {k \in Nat : d[k] \in LoopState /\ FreeSoFar(t, k, d[k], lo)}
<1>8. 0 \in T
  <2> HIDE DEF first
  <2> QED BY <1>2, <1>7
<1>9. ASSUME NEW k \in 0 .. m - 1, k \in T
      PROVE  k + 1 \in T
  <2>1. k + 1 \in 1 .. m /\ (k + 1) - 1 = k /\ k + 1 \in Nat
    BY <1>1
  <2>2. d[k + 1] = FreeEntry(d[k], t[k + 1])
    <3> HIDE DEF m
    <3> QED BY <1>7, <2>1
  <2>3. d[k] \in LoopState /\ FreeSoFar(t, k, d[k], lo)
    BY <1>9
  <2>4. d[k + 1] \in LoopState
    BY <2>1, <2>2, <2>3, RangeAt, FreeType
  <2>5. FreeSoFar(t, k + 1, d[k + 1], lo)
    BY <2>2, <2>3, FreeNext
  <2> QED BY <2>1, <2>4, <2>5
<1>10. \A k \in 0 .. m : k \in T
  <2> HIDE DEF T, m
  <2> QED BY <1>1, <1>8, <1>9, BoundedInduction
<1> QED BY <1>1, <1>10

(* Where the scan ends: behind the last used range.                        *)
Top(s, lo, top) ==
  /\ top \in Word
  /\ top = lo \/ \E j \in 1 .. Len(s) : top = s[j].limit + 1
  /\ \A j \in 1 .. Len(s) : s[j].limit < top

FreeOf(s, lo, hi, top, f) ==
  /\ Top(s, lo, top)
  /\ \A x \in Word : Covers(f, x)
       <=> ~Covers(s, x) /\ lo <= x /\ (x < top \/ (top < hi /\ x <= hi))

(* FreeRanges as a whole, for an array in any order.                       *)
LEMMA FreeFacts ==
  ASSUME NEW s \in Seq(Entries), NEW lo \in Word, NEW hi \in Word,
         SameOrApart(s), Usable(s, lo)
  PROVE  /\ FreeRanges(s, lo, hi) \in Seq(Entries)
         /\ \E top : FreeOf(s, lo, hi, top, FreeRanges(s, lo, hi))
         /\ \A j \in 1 .. Len(FreeRanges(s, lo, hi)) :
              Left(s, lo, hi, FreeRanges(s, lo, hi)[j])
<1> DEFINE t == ByBase(s)
           d == CHOOSE f : f = [k \in 0 .. Len(t) |->
                IF k = 0 THEN [out |-> << >>, base |-> lo, limit |-> 0]
                         ELSE FreeEntry(f[k - 1], t[k])]
           last == d[Len(t)]
<1>1. FreeRanges(s, lo, hi) = FreeTail(last, hi)
  BY DEF FreeRanges
<1>2. AllProper(s)
  BY DEF AllProper, Usable
<1>3. /\ t \in Seq(Entries) /\ Len(t) = Len(s) /\ Len(s) \in Nat /\ Chain(t)
      /\ \A x \in Word : Covers(t, x) <=> Covers(s, x)
      /\ \A j \in 1 .. Len(s) : \E k \in 1 .. Len(s) : t[j] = s[k]
  BY <1>2, ByBaseFacts
<1>4. Usable(t, lo)
  BY <1>3 DEF Usable
<1>5. last \in LoopState /\ FreeSoFar(t, Len(t), last, lo)
  <2> HIDE DEF t
  <2> QED BY <1>3, <1>4, FreeLoop
<1> HIDE DEF last
<1>6. /\ FreeTail(last, hi) \in Seq(Entries)
      /\ \A x \in Word : Covers(FreeTail(last, hi), x)
           <=> ~Covers(t, x) /\ lo <= x /\ (x < last.base \/ (last.base < hi /\ x <= hi))
      /\ \A j \in 1 .. Len(FreeTail(last, hi)) : Left(t, lo, hi, FreeTail(last, hi)[j])
  <2> HIDE DEF t
  <2> QED BY <1>3, <1>5, FreeEnd
<1>7. Top(s, lo, last.base)
  <2> HIDE DEF t
  <2>1. last.base = lo \/ \E j \in 1 .. Len(s) : last.base = s[j].limit + 1
    <3>1. CASE Len(t) = 0
      BY <3>1, <1>5 DEF FreeSoFar
    <3>2. CASE Len(t) # 0
      <4>1. last.base = t[Len(t)].limit + 1 /\ Len(t) \in 1 .. Len(s)
        BY <3>2, <1>3, <1>5 DEF FreeSoFar
      <4> QED BY <4>1, <1>3
    <3> QED BY <3>1, <3>2
  <2>2. ASSUME NEW j \in 1 .. Len(s) PROVE s[j].limit < last.base
    <3>1. s[j].limit \in Word /\ s[j].base \in Word /\ s[j].base <= s[j].limit
      BY <1>2, RangeAt DEF AllProper, Proper
    <3>2. Covers(s, s[j].limit)
      <4>1. s[j].limit \in Nat
        BY RangeAt
      <4> QED BY <3>1, <4>1 DEF Covers
    <3>3. PICK k \in 1 .. Len(t) : s[j].limit <= t[k].limit
      BY <3>1, <3>2, <1>3 DEF Covers
    <3>4. t[k].limit < last.base /\ t[k].limit \in Nat
      BY <1>3, <1>5, RangeAt DEF FreeSoFar
    <3>5. last.base \in Nat /\ s[j].limit \in Nat
      BY <1>5, StateType, RangeAt
    <3> QED BY <3>3, <3>4, <3>5
  <2>3. last.base \in Word
    BY <1>5, StateType
  <2> QED BY <2>1, <2>2, <2>3 DEF Top
<1>8. FreeOf(s, lo, hi, last.base, FreeTail(last, hi))
  BY <1>3, <1>6, <1>7 DEF FreeOf
<1>9. \A e : Left(t, lo, hi, e) => Left(s, lo, hi, e)
  <2> HIDE DEF t
  <2> QED BY <1>3 DEF Left
<1> HIDE DEF t
<1> QED BY <1>1, <1>6, <1>8, <1>9

(* Remainders are below the divisor.                                       *)
LEMMA ModRange ==
  ASSUME NEW a \in Int, NEW b \in Nat, b > 0
  PROVE  a % b \in 0 .. b - 1
  OBVIOUS

(* A finite set as a sequence: every element once.                         *)
LEMMA SetToSeqFacts ==
  ASSUME NEW S, IsFiniteSet(S)
  PROVE  /\ SetToSeq(S) \in Seq(S)
         /\ \A e \in S : \E k \in 1 .. Len(SetToSeq(S)) : SetToSeq(S)[k] = e
         /\ \A k, l \in 1 .. Len(SetToSeq(S)) :
              k # l => SetToSeq(S)[k] # SetToSeq(S)[l]
<1> DEFINE c == Cardinality(S)
           P(f) == f \in [1 .. c -> S] /\ IsInjective(f)
<1>1. c \in Nat /\ ExistsBijection(1 .. c, S)
  BY FS_CardinalityType
<1>2. PICK b \in Bijection(1 .. c, S) : TRUE
  BY <1>1 DEF ExistsBijection
<1>3. P(b)
  BY <1>2 DEF Bijection, Injection, IsInjective
<1>4. P(SetToSeq(S))
  BY <1>3 DEF SetToSeq
<1>5. SetToSeq(S) \in [1 .. c -> S] /\ Len(SetToSeq(S)) = c /\ SetToSeq(S) \in Seq(S)
  BY <1>1, <1>4
<1>6. \A k, l \in 1 .. c : k # l => SetToSeq(S)[k] # SetToSeq(S)[l]
  BY <1>4, <1>5 DEF IsInjective
<1>7. SetToSeq(S) \in Surjection(1 .. c, S)
  <2>1. IsFiniteSet(1 .. c) /\ Cardinality(1 .. c) = c
    BY <1>1, FS_Interval
  <2>2. SetToSeq(S) \in Injection(1 .. c, S)
    BY <1>5, <1>6 DEF Injection, IsInjective
  <2> QED BY <2>1, <2>2, FS_Injection
<1>8. \A e \in S : \E k \in 1 .. c : SetToSeq(S)[k] = e
  BY <1>7 DEF Surjection
<1> QED BY <1>5, <1>6, <1>8

(* A region's range, its address space and its hole.                       *)
LEMMA RegionPlace ==
  ASSUME NEW r \in Regions
  PROVE  /\ Range64(r) \in Entries /\ Range64(r).base = r.addr
         /\ Range64(r).limit = Limit(r)
         /\ r.addr \in Nat /\ Limit(r) \in Nat /\ SpaceOf(r) \in Spaces
         /\ r.io <=> SpaceOf(r) = "io"
         /\ ~Skipped(r) =>
              /\ 1 <= r.addr /\ r.addr <= Limit(r)
              /\ SpaceOf(r) = "io" => IoStart <= r.addr /\ Limit(r) <= IoEnd
              /\ SpaceOf(r) = "mem" => HoleLo <= r.addr /\ Limit(r) <= HoleHi
              /\ SpaceOf(r) = "mem64" => Hole64Lo <= r.addr /\ Limit(r) <= Hole64Hi
<1>1. r.io \in BOOLEAN /\ r.addr \in Word /\ r.size \in Word
  BY RegionsAssumption DEF RegionsAssumption
<1>2. r.addr \in Nat /\ r.size \in Nat /\ MaxWord \in Nat
  BY <1>1, WordNat
<1>3. Limit(r) \in Word
  BY <1>2, ModRange DEF Limit, Word
<1>4. /\ Range64(r) \in Entries /\ Range64(r).base = r.addr /\ Range64(r).limit = Limit(r)
      /\ Limit(r) \in Nat
  BY <1>1, <1>3, EntryType, WordNat DEF Range64
<1>5. SpaceOf(r) \in Spaces /\ (r.io <=> SpaceOf(r) = "io")
  BY <1>1 DEF SpaceOf, Spaces
<1>6. ASSUME ~Skipped(r)
      PROVE  /\ 1 <= r.addr /\ r.addr <= Limit(r)
             /\ SpaceOf(r) = "io" => IoStart <= r.addr /\ Limit(r) <= IoEnd
             /\ SpaceOf(r) = "mem" => HoleLo <= r.addr /\ Limit(r) <= HoleHi
             /\ SpaceOf(r) = "mem64" => Hole64Lo <= r.addr /\ Limit(r) <= Hole64Hi
  <2>1. 1 <= r.addr /\ r.addr <= Limit(r)
    BY <1>2, <1>4, <1>6 DEF Skipped
  <2>2. (CASE SpaceOf(r) = "io" -> IoStart <= r.addr /\ Limit(r) <= IoEnd
         [] SpaceOf(r) = "mem" -> HoleLo <= r.addr /\ Limit(r) <= HoleHi
         [] OTHER -> Hole64Lo <= r.addr /\ Limit(r) <= Hole64Hi)
    BY <1>6, RegionsAssumption DEF RegionsAssumption
  <2> QED BY <2>1, <2>2
<1> QED BY <1>2, <1>4, <1>5, <1>6

(* The address is in a region on the bus, of that address space.           *)
Mapped(regions, space, x) ==
  \E r \in regions : ~Skipped(r) /\ SpaceOf(r) = space /\ In(r.addr, Limit(r), x)

(* The ranges build_crs collects are the regions of the space, apart.      *)
LEMMA CollectFacts ==
  ASSUME NEW regions \in SUBSET Regions, NEW space
  PROVE  /\ Collect(regions, space) \in Seq(Entries)
         /\ AllProper(Collect(regions, space)) /\ Apart(Collect(regions, space))
         /\ \A x : Covers(Collect(regions, space), x) <=> Mapped(regions, space, x)
<1> DEFINE U == {q \in regions : ~Skipped(q) /\ SpaceOf(q) = space}
           S == {Range64(r) : r \in U}
           s == Collect(regions, space)
<1>1. IsFiniteSet(S)
  <2>1. IsFiniteSet(U)
    BY RegionsAssumption, FS_Subset DEF RegionsAssumption
  <2> HIDE DEF U
  <2>2. [r \in U |-> Range64(r)] \in Surjection(U, S)
    BY DEF Surjection
  <2> HIDE DEF S
  <2> QED BY <2>1, <2>2, FS_Surjection
<1>2. s = SetToSeq(S)
  BY DEF Collect
<1>3. /\ s \in Seq(S) /\ \A e \in S : \E k \in 1 .. Len(s) : s[k] = e
      /\ \A k, l \in 1 .. Len(s) : k # l => s[k] # s[l]
  <2> HIDE DEF S, s
  <2> QED BY <1>1, <1>2, SetToSeqFacts
<1> HIDE DEF s
<1>4. \A k \in 1 .. Len(s) : \E r \in U : s[k] = Range64(r)
  <2>1. \A k \in 1 .. Len(s) : s[k] \in S
    <3> HIDE DEF S
    <3> QED BY <1>3, ElementType
  <2> HIDE DEF U
  <2> QED BY <2>1
<1>5. S \subseteq Entries
  BY RegionPlace
<1>6. s \in Seq(Entries)
  <2> HIDE DEF S, Entries
  <2> QED BY <1>3, <1>5
<1>7. AllProper(s)
  BY <1>4, RegionPlace DEF AllProper, Proper
<1>8. ASSUME NEW k \in 1 .. Len(s), NEW l \in 1 .. Len(s), k # l
      PROVE  s[k].limit < s[l].base \/ s[l].limit < s[k].base
  <2>1. PICK r \in U : s[k] = Range64(r)
    BY <1>4
  <2>2. PICK q \in U : s[l] = Range64(q)
    BY <1>4
  <2>3. r # q /\ (r.io <=> q.io) /\ ~Skipped(r) /\ ~Skipped(q) /\ r \in Regions /\ q \in Regions
    BY <1>3, <1>8, <2>1, <2>2, RegionPlace
  <2>4. Limit(r) < q.addr \/ Limit(q) < r.addr
    <3>1. r.io \in BOOLEAN /\ q.io \in BOOLEAN
      BY <2>3, RegionsAssumption DEF RegionsAssumption
    <3> QED BY <2>3, <3>1, RegionsAssumption DEF RegionsAssumption
  <2> QED BY <2>1, <2>2, <2>3, <2>4, RegionPlace
<1>9. \A x : Covers(s, x) <=> Mapped(regions, space, x)
  <2>1. \A r \in U : \E k \in 1 .. Len(s) : s[k] = Range64(r)
    BY <1>3
  <2>2. ASSUME NEW x, Covers(s, x)
        PROVE  Mapped(regions, space, x)
    <3>1. PICK k \in 1 .. Len(s) : s[k].base <= x /\ x <= s[k].limit
      BY <2>2 DEF Covers
    <3>2. PICK r \in U : s[k] = Range64(r)
      BY <1>4
    <3>3. r \in Regions /\ ~Skipped(r) /\ SpaceOf(r) = space /\ r \in regions
      BY <3>2
    <3> QED BY <3>1, <3>2, <3>3, RegionPlace DEF Mapped, In
  <2>3. ASSUME NEW x, Mapped(regions, space, x)
        PROVE  Covers(s, x)
    <3>1. PICK r \in regions : ~Skipped(r) /\ SpaceOf(r) = space /\ In(r.addr, Limit(r), x)
      BY <2>3 DEF Mapped
    <3>2. PICK k \in 1 .. Len(s) : s[k] = Range64(r)
      BY <3>1, <2>1
    <3> QED BY <3>1, <3>2, RegionPlace DEF Covers, In
  <2> QED BY <2>2, <2>3
<1> QED BY <1>6, <1>7, <1>8, <1>9 DEF Apart, s

-----------------------------------------------------------------------------
(* The walk over the root bus: what the machine is, and the bus numbers.   *)

(* What does not change.                                                   *)
Kinds == {"bridge", "pxb", "cxl"}
Placed ==
  /\ hostMr \in CxlRanges /\ mcfg \in BOOLEAN /\ hole64 \in BOOLEAN
  /\ children \in Seq([kind : Kinds, num : 1 .. MaxBus, sub : 0 .. MaxBus,
                       regions : SUBSET Regions])
  /\ \A k \in 1 .. Len(children) : \A r \in children[k].regions :
       ~Skipped(r) =>
         /\ children[k].kind # "bridge"
         /\ SpaceOf(r) = "mem64" => hole64
         /\ SpaceOf(r) = "mem" /\ mcfg =>
              Limit(r) < McfgRange.base \/ McfgRange.limit < r.addr
  /\ \A k, l \in 1 .. Len(children) :
       k # l => children[k].regions \cap children[l].regions = {}

(* The bus numbers: the limit is one below the last expander that was lower. *)
Numbers ==
  /\ n \in 0 .. Len(children)
  /\ DOMAIN crs = {k \in 1 .. n : children[k].kind # "bridge"}
  /\ \A h \in DOMAIN crs : crs[h].busMin = children[h].num
  /\ rootLimit \in 0 .. MaxBus
  /\ rootLimit = MaxBus \/ \E g \in DOMAIN crs : rootLimit = children[g].num - 1
  /\ \A h \in DOMAIN crs :
       \/ rootLimit < children[h].num
       \/ children[h].num = MaxBus
       \/ \E g \in DOMAIN crs : g < h /\ children[g].num = children[h].num + 1
  /\ Built => n = Len(children) /\ pci0.busMax = rootLimit

ChildOf == [kind : Kinds, num : 1 .. MaxBus, sub : 0 .. MaxBus,
                       regions : SUBSET Regions]

(* A child of the root bus.                                                *)
LEMMA ChildAt ==
  ASSUME Placed, NEW k \in 1 .. Len(children)
  PROVE  /\ children[k].kind \in Kinds /\ children[k].num \in 1 .. MaxBus
         /\ children[k].regions \subseteq Regions
<1>1. children \in Seq(ChildOf)
  BY DEF Placed, ChildOf
<1>2. children[k] \in ChildOf
  BY <1>1, ElementType
<1> QED BY <1>2 DEF ChildOf

(* The firmware's assignment puts every region on one bus, into its hole.  *)
LEMMA HostInitPlaced == ASSUME HostInit PROVE Placed
<1>0. PICK list \in Children : \E owner \in [Regions -> 0 .. Len(list)] :
       /\ \A r \in Regions : owner[r] > 0 /\ ~Skipped(r) =>
            /\ list[owner[r]].kind # "bridge"
            /\ SpaceOf(r) = "mem64" => hole64
            /\ SpaceOf(r) = "mem" /\ mcfg =>
                 Limit(r) < McfgRange.base \/ McfgRange.limit < r.addr
       /\ children = [k \in 1 .. Len(list) |->
            [kind |-> list[k].kind, num |-> list[k].num, sub |-> list[k].sub,
             regions |-> {r \in Regions : owner[r] = k}]]
  BY DEF HostInit
<1>1. PICK owner \in [Regions -> 0 .. Len(list)] :
       /\ \A r \in Regions : owner[r] > 0 /\ ~Skipped(r) =>
            /\ list[owner[r]].kind # "bridge"
            /\ SpaceOf(r) = "mem64" => hole64
            /\ SpaceOf(r) = "mem" /\ mcfg =>
                 Limit(r) < McfgRange.base \/ McfgRange.limit < r.addr
       /\ children = [k \in 1 .. Len(list) |->
            [kind |-> list[k].kind, num |-> list[k].num, sub |-> list[k].sub,
             regions |-> {r \in Regions : owner[r] = k}]]
  BY <1>0
<1>2. list \in Seq([kind : Kinds, num : 1 .. MaxBus, sub : 0 .. MaxBus])
  BY ChildrenAssumption DEF ChildrenAssumption, Kinds
<1>3. Len(list) \in Nat /\ Len(children) = Len(list)
  BY <1>1, <1>2
<1>4. ASSUME NEW k \in 1 .. Len(list)
      PROVE  /\ children[k] \in [kind : Kinds, num : 1 .. MaxBus, sub : 0 .. MaxBus,
                                 regions : SUBSET Regions]
             /\ children[k].kind = list[k].kind
             /\ \A r \in children[k].regions : r \in Regions /\ owner[r] = k
  <2>1. list[k] \in [kind : Kinds, num : 1 .. MaxBus, sub : 0 .. MaxBus]
    BY <1>2, ElementType
  <2>2. children[k] = [kind |-> list[k].kind, num |-> list[k].num, sub |-> list[k].sub,
             regions |-> {r \in Regions : owner[r] = k}]
    BY <1>1
  <2> QED BY <2>1, <2>2
<1>5. children \in Seq([kind : Kinds, num : 1 .. MaxBus, sub : 0 .. MaxBus,
                        regions : SUBSET Regions])
  BY <1>1, <1>3, <1>4
<1>6. \A k \in 1 .. Len(children) : \A r \in children[k].regions :
       ~Skipped(r) =>
         /\ children[k].kind # "bridge"
         /\ SpaceOf(r) = "mem64" => hole64
         /\ SpaceOf(r) = "mem" /\ mcfg =>
              Limit(r) < McfgRange.base \/ McfgRange.limit < r.addr
  <2> SUFFICES ASSUME NEW k \in 1 .. Len(children), NEW r \in children[k].regions,
                      ~Skipped(r)
               PROVE  /\ children[k].kind # "bridge"
                      /\ SpaceOf(r) = "mem64" => hole64
                      /\ SpaceOf(r) = "mem" /\ mcfg =>
                           Limit(r) < McfgRange.base \/ McfgRange.limit < r.addr
    OBVIOUS
  <2>1. r \in Regions /\ owner[r] = k /\ children[k].kind = list[k].kind /\ k > 0
    BY <1>3, <1>4
  <2> QED BY <2>1, <1>1
<1>7. \A k, l \in 1 .. Len(children) :
       k # l => children[k].regions \cap children[l].regions = {}
  BY <1>3, <1>4
<1> QED BY <1>5, <1>6, <1>7 DEF Placed, HostInit

(* The loop has not begun: the root bus range is still whole.              *)
LEMMA HostInitNumbers == ASSUME HostInit, Placed PROVE Numbers
<1>1. Len(children) \in Nat /\ n = 0 /\ DOMAIN crs = {}
  BY DEF HostInit, Placed
<1>2. MaxBus \in Nat
  BY HolesAssumption DEF HolesAssumption
<1> QED BY <1>1, <1>2 DEF HostInit, Numbers, Built

(* The walk reads the configuration and does not write it.                 *)
LEMMA StepPlaced == ASSUME Placed, [HostNext]_hostVars PROVE Placed'
<1>1. UNCHANGED given
  BY DEF HostNext, SkipChild, Expander, Pci0, hostVars
<1> QED BY <1>1 DEF Placed, given

(* Every step keeps the bus numbers in order.                              *)
LEMMA StepNumbers ==
  ASSUME Placed, Numbers, [HostNext]_hostVars
  PROVE  Numbers'
<1>1. CASE SkipChild
  <2>1. n' \in 0 .. Len(children) /\ DOMAIN crs = {k \in 1 .. n' : children[k].kind # "bridge"}
    BY <1>1 DEF SkipChild, Numbers
  <2> QED BY <1>1, <2>1 DEF SkipChild, Numbers, given, Built
<1>2. CASE Expander
  <2> DEFINE host == children[n + 1]
  <2>1. /\ n \in Nat /\ n + 1 \in 1 .. Len(children) /\ n' = n + 1
        /\ host.num \in 1 .. MaxBus /\ MaxBus \in Nat /\ host.kind # "bridge"
    <3>1. n \in Nat /\ n + 1 \in 1 .. Len(children) /\ n' = n + 1 /\ Len(children) \in Nat
      BY <1>2 DEF Placed, Expander, Numbers
    <3>2. host.num \in 1 .. MaxBus
      BY <3>1, ChildAt
    <3> QED BY <3>1, <3>2, <1>2, HolesAssumption DEF Expander, HolesAssumption
  <2>2. /\ crs' = [h \in DOMAIN crs \union {n + 1} |->
                     IF h = n + 1 THEN Crs(host) ELSE crs[h]]
        /\ rootLimit' = Below(host) /\ children' = children /\ pci0' = pci0
    BY <1>2 DEF Expander, WithNext, given
  <2>3. Crs(host).busMin = host.num
    BY DEF Crs
  <2>4. /\ DOMAIN crs' = DOMAIN crs \union {n + 1}
        /\ DOMAIN crs' = {k \in 1 .. n' : children'[k].kind # "bridge"}
    BY <2>1, <2>2 DEF Numbers
  <2>5. \A h \in DOMAIN crs' : crs'[h].busMin = children'[h].num
    BY <2>1, <2>2, <2>3, <2>4 DEF Numbers
  <2>6. \A h \in DOMAIN crs : h \in 1 .. Len(children) /\ h < n + 1
                              /\ children[h].num \in 1 .. MaxBus
    BY <2>1, ChildAt DEF Numbers
  <2>7. rootLimit' \in 0 .. MaxBus /\ rootLimit' <= rootLimit
    BY <2>1, <2>2 DEF Numbers, Below
  <2>8. rootLimit' = MaxBus \/ \E g \in DOMAIN crs' : rootLimit' = children'[g].num - 1
    BY <2>1, <2>2, <2>4 DEF Numbers, Below
  <2>9. ASSUME NEW h \in DOMAIN crs'
        PROVE  \/ rootLimit' < children'[h].num
               \/ children'[h].num = MaxBus
               \/ \E g \in DOMAIN crs' : g < h /\ children'[g].num = children'[h].num + 1
    <3>1. CASE h \in DOMAIN crs
      BY <3>1, <2>1, <2>2, <2>4, <2>6, <2>7 DEF Numbers
    <3>2. CASE h = n + 1 /\ host.num < rootLimit
      BY <3>2, <2>1, <2>2 DEF Below, Numbers
    <3>3. CASE h = n + 1 /\ ~(host.num < rootLimit)
      <4>1. CASE host.num = rootLimit /\ rootLimit # MaxBus
        <5>1. PICK g \in DOMAIN crs : rootLimit = children[g].num - 1
          BY <4>1 DEF Numbers
        <5>2. g < h /\ children[g].num = children[h].num + 1
          BY <5>1, <4>1, <3>3, <2>6
        <5> QED BY <5>2, <2>2, <2>4
      <4>2. CASE host.num = rootLimit /\ rootLimit = MaxBus
        BY <4>2, <3>3, <2>2
      <4>3. CASE host.num > rootLimit
        BY <4>3, <3>3, <2>1, <2>2, <2>7 DEF Below
      <4> QED BY <4>1, <4>2, <4>3, <3>3, <2>1 DEF Numbers
    <3> QED BY <3>1, <3>2, <3>3, <2>4
  <2>10. ~Built' /\ n' \in 0 .. Len(children')
    BY <2>1, <2>2, <1>2 DEF Numbers, Built, Expander
  <2> QED BY <2>4, <2>5, <2>7, <2>8, <2>9, <2>10 DEF Numbers
<1>3. CASE Pci0
  <2>1. pci0'.busMax = rootLimit
    BY <1>3 DEF Pci0
  <2> QED BY <2>1, <1>3 DEF Pci0, Numbers, given, Built
<1>4. CASE UNCHANGED hostVars
  BY <1>4 DEF hostVars, given, Numbers, Built
<1> QED BY <1>1, <1>2, <1>3, <1>4 DEF HostNext

(* PCI0's bus numbers end below the expanders', the two exceptions aside.  *)
THEOREM NumbersCorrect == HostSpec => []BusNumbersApart
<1>1. Numbers => BusNumbersApart
  BY DEF Numbers, BusNumbersApart
<1> QED BY <1>1, HostInitPlaced, HostInitNumbers, StepPlaced, StepNumbers, PTL DEF HostSpec

-----------------------------------------------------------------------------
(* Addresses: what is in a hole, and what one _CRS claims.                 *)

(* The three address spaces' holes.                                        *)
Low == [io |-> IoStart, mem |-> HoleLo, mem64 |-> Hole64Lo]
High == [io |-> IoEnd, mem |-> HoleHi, mem64 |-> Hole64Hi]

InHole(s, e) == Low[s] <= e.base /\ e.limit <= High[s]

(* An array of used ranges: in the hole, or the CXL window among them.     *)
Good(s, a) ==
  /\ a \in Seq(Entries) /\ AllProper(a) /\ SameOrApart(a)
  /\ \A k \in 1 .. Len(a) : InHole(s, a[k]) \/ (s = "mem" /\ WithCxl /\ a[k] = hostMr)

(* An expander passed has the address on its bus.                          *)
Owned(s, x) == \E h \in DOMAIN crs : Mapped(children[h].regions, s, x)
CxlPassed == \E k \in 1 .. n : children[k].kind = "cxl"

(* The holes' ends are addresses, and the spaces lie apart.                *)
LEMMA HoleFacts ==
  /\ \A s \in Spaces :
       /\ Low[s] \in Word /\ High[s] \in Word /\ Low[s] \in Nat /\ High[s] \in Nat
       /\ 1 <= Low[s] /\ Low[s] <= High[s] /\ High[s] < MaxWord
  /\ Max32 \in Nat /\ MaxWord \in Nat
  /\ Low["io"] = IoStart /\ Low["mem"] = HoleLo /\ Low["mem64"] = Hole64Lo
  /\ High["io"] = IoEnd /\ High["mem"] = HoleHi /\ High["mem64"] = Hole64Hi
  /\ HoleHi < Max32 /\ Max32 < Hole64Lo
<1>1. MaxWord \in Nat
  BY WordAssumption DEF WordAssumption
<1> QED BY <1>1, HolesAssumption DEF HolesAssumption, Low, High, Spaces, Word

(* MMCONFIG is in the lower hole and the CXL window above 4 GiB.           *)
LEMMA WindowFacts ==
  ASSUME Placed
  PROVE  /\ hostMr \in Entries /\ Proper(hostMr)
         /\ hostMr.base \in Nat /\ hostMr.limit \in Nat
         /\ Max32 < hostMr.base /\ hostMr.limit < MaxWord
         /\ McfgRange \in Entries /\ Proper(McfgRange)
         /\ McfgRange.base \in Nat /\ McfgRange.limit \in Nat
         /\ InHole("mem", McfgRange)
<1>1. hostMr \in Entries /\ McfgRange \in Entries
  BY WindowsAssumption DEF Placed, WindowsAssumption
<1>2. /\ hostMr.base \in Nat /\ hostMr.limit \in Nat
      /\ McfgRange.base \in Nat /\ McfgRange.limit \in Nat
  BY <1>1, EntryWords, WordNat
<1>3. /\ Max32 < hostMr.base /\ hostMr.base <= hostMr.limit /\ hostMr.limit < MaxWord
      /\ McfgRange.base <= McfgRange.limit
      /\ HoleLo <= McfgRange.base /\ McfgRange.limit <= HoleHi
  BY WindowsAssumption DEF Placed, WindowsAssumption
<1>4. HoleLo \in Nat /\ 1 <= HoleLo /\ Max32 \in Nat
  BY HoleFacts, HolesAssumption DEF HolesAssumption
<1> QED BY <1>1, <1>2, <1>3, <1>4, HoleFacts DEF Proper, InHole

(* A mapped address is in its hole and on one bus only.                    *)
LEMMA MappedFacts ==
  ASSUME Placed, NEW k \in 1 .. Len(children), NEW s \in Spaces, NEW x \in Word,
         Mapped(children[k].regions, s, x)
  PROVE  /\ Low[s] <= x /\ x <= High[s]
         /\ s = "mem" /\ mcfg => ~In(McfgRange.base, McfgRange.limit, x)
         /\ s = "mem64" => hole64
         /\ \A l \in 1 .. Len(children) :
              Mapped(children[l].regions, s, x) => l = k
<1>1. PICK r \in children[k].regions :
        ~Skipped(r) /\ SpaceOf(r) = s /\ In(r.addr, Limit(r), x)
  BY DEF Mapped
<1>2. r \in Regions /\ x \in Nat
  BY ChildAt, WordNat
<1>3. r.addr \in Nat /\ Limit(r) \in Nat /\ r.addr <= x /\ x <= Limit(r)
  BY <1>1, <1>2, RegionPlace DEF In
<1>4. Low[s] <= x /\ x <= High[s]
  <2>1. Low[s] <= r.addr /\ Limit(r) <= High[s]
    BY <1>1, <1>2, RegionPlace, HoleFacts DEF Spaces
  <2> QED BY <2>1, <1>2, <1>3, HoleFacts
<1>5. /\ s = "mem64" => hole64
      /\ s = "mem" /\ mcfg => Limit(r) < McfgRange.base \/ McfgRange.limit < r.addr
  BY <1>1 DEF Placed
<1>6. s = "mem" /\ mcfg => ~In(McfgRange.base, McfgRange.limit, x)
  BY <1>2, <1>3, <1>5, WindowFacts DEF In
<1>7. ASSUME NEW l \in 1 .. Len(children), Mapped(children[l].regions, s, x), l # k
      PROVE  FALSE
  <2>1. PICK q \in children[l].regions :
          ~Skipped(q) /\ SpaceOf(q) = s /\ In(q.addr, Limit(q), x)
    BY <1>7 DEF Mapped
  <2>2. q \in Regions /\ q # r
    BY <1>1, <1>7, ChildAt DEF Placed
  <2>3. q.addr \in Nat /\ Limit(q) \in Nat /\ q.addr <= x /\ x <= Limit(q)
    BY <2>1, <2>2, RegionPlace DEF In
  <2>4. r.io = q.io
    <3>1. r.io \in BOOLEAN /\ q.io \in BOOLEAN
      BY <1>2, <2>2, RegionsAssumption DEF RegionsAssumption
    <3> QED BY <1>1, <1>2, <2>1, <2>2, <3>1, RegionPlace
  <2>5. Limit(r) < q.addr \/ Limit(q) < r.addr
    BY <1>1, <1>2, <2>1, <2>2, <2>4, RegionsAssumption DEF RegionsAssumption
  <2> QED BY <1>2, <1>3, <2>3, <2>5
<1> QED BY <1>4, <1>5, <1>6, <1>7

(* Ranges with no common address lie apart.                                *)
LEMMA NoCommon ==
  ASSUME NEW e \in Entries, NEW f \in Entries, Proper(e), Proper(f),
         \A x \in Word : ~(In(e.base, e.limit, x) /\ In(f.base, f.limit, x))
  PROVE  e.limit < f.base \/ f.limit < e.base
<1>1. /\ e.base \in Word /\ e.limit \in Word /\ f.base \in Word /\ f.limit \in Word
      /\ e.base \in Nat /\ e.limit \in Nat /\ f.base \in Nat /\ f.limit \in Nat
  BY EntryWords, WordNat
<1>2. ~(In(e.base, e.limit, e.base) /\ In(f.base, f.limit, e.base))
  BY <1>1
<1>3. ~(In(e.base, e.limit, f.base) /\ In(f.base, f.limit, f.base))
  BY <1>1
<1> QED BY <1>1, <1>2, <1>3 DEF In, Proper

(* A _CRS claims exactly what is mapped on its bus.                        *)
LEMMA CrsFacts ==
  ASSUME Placed, NEW h \in 1 .. Len(children), NEW s \in Spaces
  PROVE  /\ Crs(children[h])[s] \in Seq(Entries) /\ AllProper(Crs(children[h])[s])
         /\ Gaps(Crs(children[h])[s])
         /\ \A x \in Word : Covers(Crs(children[h])[s], x)
                              <=> Mapped(children[h].regions, s, x)
         /\ \A k \in 1 .. Len(Crs(children[h])[s]) : InHole(s, Crs(children[h])[s][k])
<1> DEFINE c == Collect(children[h].regions, s)
           b == Crs(children[h])[s]
<1>1. children[h].regions \in SUBSET Regions
  BY ChildAt
<1>2. b = Merge(c)
  BY DEF Crs, Spaces
<1>3. /\ c \in Seq(Entries) /\ AllProper(c) /\ Apart(c)
      /\ \A x : Covers(c, x) <=> Mapped(children[h].regions, s, x)
  <2> HIDE DEF Entries
  <2> QED BY <1>1, CollectFacts
<1> HIDE DEF b, c
<1>4. /\ b \in Seq(Entries) /\ AllProper(b) /\ Gaps(b)
      /\ \A x \in Word : Covers(b, x) <=> Mapped(children[h].regions, s, x)
  BY <1>2, <1>3, MergeFacts
<1>5. ASSUME NEW k \in 1 .. Len(b)
      PROVE  InHole(s, b[k])
  <2>1. /\ b[k].base \in Word /\ b[k].limit \in Word /\ b[k].base <= b[k].limit
        /\ b[k].base \in Nat /\ b[k].limit \in Nat
    BY <1>4, RangeAt DEF AllProper, Proper
  <2>2. Covers(b, b[k].base) /\ Covers(b, b[k].limit)
    BY <2>1 DEF Covers
  <2>3. Mapped(children[h].regions, s, b[k].base) /\ Mapped(children[h].regions, s, b[k].limit)
    BY <1>4, <2>1, <2>2
  <2> QED BY <2>1, <2>3, MappedFacts DEF InHole
<1> QED BY <1>4, <1>5 DEF b

(* What array concatenation covers.                                        *)
LEMMA ConcatFacts ==
  ASSUME NEW a \in Seq(Entries), NEW b \in Seq(Entries)
  PROVE  /\ a \o b \in Seq(Entries)
         /\ \A k \in 1 .. Len(a \o b) :
              \/ k \in 1 .. Len(a) /\ (a \o b)[k] = a[k]
              \/ k - Len(a) \in 1 .. Len(b) /\ (a \o b)[k] = b[k - Len(a)]
         /\ \A x : Covers(a \o b, x) <=> Covers(a, x) \/ Covers(b, x)
<1>1. /\ a \o b \in Seq(Entries) /\ Len(a \o b) = Len(a) + Len(b)
      /\ Len(a) \in Nat /\ Len(b) \in Nat
      /\ \A k \in 1 .. Len(a) : (a \o b)[k] = a[k]
      /\ \A k \in 1 .. Len(b) : (a \o b)[k + Len(a)] = b[k]
  OBVIOUS
<1>2. ASSUME NEW k \in 1 .. Len(a \o b)
      PROVE  \/ k \in 1 .. Len(a) /\ (a \o b)[k] = a[k]
             \/ k - Len(a) \in 1 .. Len(b) /\ (a \o b)[k] = b[k - Len(a)]
  <2>1. CASE k \in 1 .. Len(a)
    BY <1>1, <2>1
  <2>2. CASE k \notin 1 .. Len(a)
    <3>1. k - Len(a) \in 1 .. Len(b) /\ (k - Len(a)) + Len(a) = k
      BY <1>1, <2>2
    <3> QED BY <1>1, <3>1
  <2> QED BY <2>1, <2>2
<1>3. \A k \in 1 .. Len(a) : k \in 1 .. Len(a \o b)
  BY <1>1
<1>4. \A k \in 1 .. Len(b) : k + Len(a) \in 1 .. Len(a \o b)
  BY <1>1
<1>5. ASSUME NEW x, Covers(a \o b, x)
      PROVE  Covers(a, x) \/ Covers(b, x)
  <2>1. PICK k \in 1 .. Len(a \o b) : (a \o b)[k].base <= x /\ x <= (a \o b)[k].limit
    BY <1>5 DEF Covers
  <2> QED BY <2>1, <1>2 DEF Covers
<1>6. ASSUME NEW x, Covers(a, x) \/ Covers(b, x)
      PROVE  Covers(a \o b, x)
  <2>1. CASE Covers(a, x)
    BY <2>1, <1>1, <1>3 DEF Covers
  <2>2. CASE Covers(b, x)
    <3>1. PICK k \in 1 .. Len(b) : b[k].base <= x /\ x <= b[k].limit
      BY <2>2 DEF Covers
    <3> QED BY <3>1, <1>1, <1>4 DEF Covers
  <2> QED BY <1>6, <2>1, <2>2
<1> QED BY <1>1, <1>2, <1>5, <1>6

(* Apart(a[k], b[l]) for all k and l keeps SameOrApart.                    *)
LEMMA ConcatGood ==
  ASSUME NEW s, NEW a, NEW b, Good(s, a), b \in Seq(Entries), AllProper(b), Gaps(b),
         \A k \in 1 .. Len(b) : InHole(s, b[k]),
         \A x \in Word : ~(Covers(a, x) /\ Covers(b, x))
  PROVE  Good(s, a \o b)
<1> DEFINE c == a \o b
<1>1. a \in Seq(Entries) /\ AllProper(a) /\ SameOrApart(a)
  BY DEF Good
<1>2. /\ c \in Seq(Entries)
      /\ \A k \in 1 .. Len(c) :
              \/ k \in 1 .. Len(a) /\ c[k] = a[k]
              \/ k - Len(a) \in 1 .. Len(b) /\ c[k] = b[k - Len(a)]
  BY <1>1, ConcatFacts
<1> HIDE DEF c
<1>3. AllProper(c)
  BY <1>1, <1>2 DEF AllProper
<1>4. \A k \in 1 .. Len(c) : InHole(s, c[k]) \/ (s = "mem" /\ WithCxl /\ c[k] = hostMr)
  BY <1>2 DEF Good
<1>5. ASSUME NEW k \in 1 .. Len(a), NEW l \in 1 .. Len(b)
      PROVE  a[k].limit < b[l].base \/ b[l].limit < a[k].base
  <2>1. a[k] \in Entries /\ b[l] \in Entries /\ Proper(a[k]) /\ Proper(b[l])
    BY <1>1, ElementType DEF AllProper
  <2>2. \A x \in Word : ~(In(a[k].base, a[k].limit, x) /\ In(b[l].base, b[l].limit, x))
    BY DEF Covers, In
  <2> QED BY <2>1, <2>2, NoCommon
<1>6. ASSUME NEW k \in 1 .. Len(b), NEW l \in 1 .. Len(b)
      PROVE  b[k] = b[l] \/ b[k].limit < b[l].base \/ b[l].limit < b[k].base
  <2>1. /\ b[k].limit \in Nat /\ b[l].limit \in Nat /\ b[k].base \in Nat /\ b[l].base \in Nat
    BY RangeAt
  <2>2. k = l \/ k < l \/ l < k
    OBVIOUS
  <2> QED BY <2>1, <2>2 DEF Gaps
<1>7. SameOrApart(c)
  <2> SUFFICES ASSUME NEW k \in 1 .. Len(c), NEW l \in 1 .. Len(c)
               PROVE  c[k] = c[l] \/ c[k].limit < c[l].base \/ c[l].limit < c[k].base
    BY DEF SameOrApart
  <2>1. \/ k \in 1 .. Len(a) /\ c[k] = a[k]
        \/ k - Len(a) \in 1 .. Len(b) /\ c[k] = b[k - Len(a)]
    BY <1>2
  <2>2. \/ l \in 1 .. Len(a) /\ c[l] = a[l]
        \/ l - Len(a) \in 1 .. Len(b) /\ c[l] = b[l - Len(a)]
    BY <1>2
  <2>3. \A i1, i2 \in 1 .. Len(a) :
          a[i1] = a[i2] \/ a[i1].limit < a[i2].base \/ a[i2].limit < a[i1].base
    BY <1>1 DEF SameOrApart
  <2> QED BY <2>1, <2>2, <2>3, <1>5, <1>6
<1> QED BY <1>2, <1>3, <1>4, <1>7 DEF Good, c

(* A range that is apart, or there already, can be appended.               *)
LEMMA AppendGood ==
  ASSUME NEW s, NEW a, NEW e \in Entries, Good(s, a), Proper(e),
         InHole(s, e) \/ (s = "mem" /\ WithCxl /\ e = hostMr),
         \A k \in 1 .. Len(a) : a[k] = e \/ a[k].limit < e.base \/ e.limit < a[k].base
  PROVE  Good(s, Append(a, e))
<1> DEFINE c == Append(a, e)
<1>1. a \in Seq(Entries) /\ AllProper(a) /\ SameOrApart(a)
  BY DEF Good
<1>2. /\ c \in Seq(Entries)
      /\ \A k \in 1 .. Len(c) :
           (k \in 1 .. Len(a) /\ c[k] = a[k]) \/ c[k] = e
  <2>1. /\ Append(a, e) \in Seq(Entries)
        /\ \A k \in 1 .. Len(a) : Append(a, e)[k] = a[k]
        /\ Append(a, e)[Len(a) + 1] = e
        /\ \A k \in 1 .. Len(Append(a, e)) : k \in 1 .. Len(a) \/ k = Len(a) + 1
    BY <1>1, AppendFacts
  <2> QED BY <2>1
<1> HIDE DEF c
<1>3. AllProper(c)
  BY <1>1, <1>2 DEF AllProper
<1>4. \A k \in 1 .. Len(c) : InHole(s, c[k]) \/ (s = "mem" /\ WithCxl /\ c[k] = hostMr)
  BY <1>2 DEF Good
<1>5. SameOrApart(c)
  BY <1>1, <1>2 DEF SameOrApart
<1> QED BY <1>2, <1>3, <1>4, <1>5 DEF Good, c

-----------------------------------------------------------------------------
(* What the expanders have taken.                                          *)

(* The window above 4 GiB, which goes into the 32-bit ranges.              *)
InWindow(s, x) == s = "mem" /\ In(hostMr.base, hostMr.limit, x)

(* What has been handed out is what has been taken, until PCI0 is built.   *)
Resources ==
  /\ \A h \in DOMAIN crs : crs[h] = Crs(children[h])
  /\ \A s \in Spaces :
       /\ rangeSet[s] \in Seq(Entries)
       /\ \A k \in 1 .. Len(rangeSet[s]) : rangeSet[s][k].base <= rangeSet[s][k].limit
  /\ ~Built => \A s \in Spaces :
       /\ Good(s, rangeSet[s])
       /\ \A x \in Word :
            Covers(rangeSet[s], x) <=> Owned(s, x) \/ (CxlPassed /\ InWindow(s, x))
  /\ Pci0AvoidsExpanders /\ Pci0ClaimsTheRest /\ FreeInsideHole

(* Nothing is taken before the loop.                                       *)
LEMMA HostInitResources ==
  ASSUME HostInit, Placed, Numbers
  PROVE  Resources
<1>1. DOMAIN crs = {} /\ ~Built /\ n = 0
  BY DEF HostInit, Built
<1>2. \A s \in Spaces : rangeSet[s] = << >>
  BY DEF HostInit
<1>0. << >> \in Seq(Entries) /\ Len(<< >>) = 0 /\ 1 .. 0 = {}
  OBVIOUS
<1>3. \A s \in Spaces : Good(s, rangeSet[s])
  <2>1. \A s : Good(s, << >>)
    BY <1>0 DEF Good, AllProper, SameOrApart
  <2> QED BY <1>2, <2>1
<1>4. \A s \in Spaces : \A x : ~Covers(rangeSet[s], x) /\ ~Owned(s, x) /\ ~CxlPassed
  BY <1>1, <1>2 DEF Covers, Owned, CxlPassed
<1>5. Pci0AvoidsExpanders /\ Pci0ClaimsTheRest /\ FreeInsideHole
  BY <1>1 DEF Pci0AvoidsExpanders, Pci0ClaimsTheRest, FreeInsideHole
<1>6. \A s \in Spaces : rangeSet[s] \in Seq(Entries) /\ Len(rangeSet[s]) = 0
  BY <1>0, <1>2
<1> QED BY <1>0, <1>1, <1>3, <1>4, <1>5, <1>6 DEF Resources

(* A bridge below PCI0 takes nothing.                                      *)
LEMMA StepSkipChild ==
  ASSUME Placed, Numbers, Resources, SkipChild
  PROVE  Resources'
<1>1. /\ UNCHANGED <<children, mcfg, hole64, hostMr, rangeSet, rootLimit, crs, pci0>>
      /\ n' = n + 1 /\ children[n + 1].kind = "bridge" /\ n < Len(children) /\ n \in Nat
  BY DEF SkipChild, given, Numbers
<1>2. ~Built /\ ~Built'
  BY <1>1 DEF Numbers, Built
<1>3. CxlPassed' <=> CxlPassed
  BY <1>1 DEF CxlPassed
<1>4. \A s, x : (Owned(s, x)' <=> Owned(s, x)) /\ (InWindow(s, x)' <=> InWindow(s, x))
  BY <1>1 DEF Owned, InWindow
<1>5. \A s \in Spaces : Good(s, rangeSet[s])'
  BY <1>1, <1>2 DEF Resources, Good, WithCxl
<1> QED BY <1>1, <1>2, <1>3, <1>4, <1>5 DEF Resources, Pci0AvoidsExpanders,
           Pci0ClaimsTheRest, FreeInsideHole

(* An expander takes what is on its bus, a CXL one its window as well.     *)
LEMMA TakenFacts ==
  ASSUME Placed, Numbers, Resources, n < Len(children),
         children[n + 1].kind # "bridge", NEW s \in Spaces
  PROVE  LET t == Taken(children[n + 1], Crs(children[n + 1]))[s]
         IN  /\ Good(s, t)
             /\ \A x \in Word : Covers(t, x) <=>
                  \/ Covers(rangeSet[s], x)
                  \/ Mapped(children[n + 1].regions, s, x)
                  \/ children[n + 1].kind = "cxl" /\ InWindow(s, x)
<1> DEFINE host == children[n + 1]
           a == rangeSet[s]
           b == Crs(host)[s]
           t == Taken(host, Crs(host))[s]
<1>1. n \in Nat /\ n + 1 \in 1 .. Len(children) /\ ~Built
  BY DEF Numbers, Placed
<1>2. /\ Good(s, a) /\ a \in Seq(Entries)
      /\ \A x \in Word : Covers(a, x) <=> Owned(s, x) \/ (CxlPassed /\ InWindow(s, x))
  BY <1>1 DEF Resources, Good
<1>3. /\ b \in Seq(Entries) /\ AllProper(b) /\ Gaps(b)
      /\ \A x \in Word : Covers(b, x) <=> Mapped(host.regions, s, x)
      /\ \A k \in 1 .. Len(b) : InHole(s, b[k])
  BY <1>1, CrsFacts
<1>4. t = IF s = "mem" /\ host.kind = "cxl" THEN Append(a \o b, hostMr) ELSE a \o b
  BY DEF Taken
<1> HIDE DEF a, b, t
<1>5. ASSUME NEW x \in Word, Covers(a, x), Covers(b, x)
      PROVE  FALSE
  <2>1. Mapped(host.regions, s, x) /\ x \in Nat
    BY <1>3, <1>5, WordNat
  <2>2. CASE Owned(s, x)
    <3>1. PICK h \in DOMAIN crs : Mapped(children[h].regions, s, x)
      BY <2>2 DEF Owned
    <3>2. h \in 1 .. Len(children) /\ h # n + 1
      BY <1>1 DEF Numbers
    <3> QED BY <1>1, <2>1, <3>1, <3>2, MappedFacts
  <2>3. CASE InWindow(s, x)
    <3>1. x <= HoleHi /\ HoleHi < Max32 /\ Max32 < hostMr.base /\ hostMr.base <= x
      BY <1>1, <2>1, <2>3, MappedFacts, HoleFacts, WindowFacts DEF InWindow, In
    <3> QED BY <2>1, <3>1, HoleFacts, WindowFacts, HolesAssumption DEF HolesAssumption
  <2> QED BY <1>2, <1>5, <2>2, <2>3
<1>6. /\ Good(s, a \o b) /\ a \o b \in Seq(Entries)
      /\ \A x \in Word : Covers(a \o b, x) <=> Covers(a, x) \/ Mapped(host.regions, s, x)
  <2>1. Good(s, a \o b)
    BY <1>2, <1>3, <1>5, ConcatGood
  <2> QED BY <2>1, <1>2, <1>3, ConcatFacts DEF Good
<1>7. CASE s = "mem" /\ host.kind = "cxl"
  <2>1. t = Append(a \o b, hostMr)
    BY <1>4, <1>7
  <2>2. /\ hostMr \in Entries /\ Proper(hostMr) /\ WithCxl
        /\ hostMr.base \in Nat /\ HoleHi \in Nat /\ HoleHi < hostMr.base
    BY <1>1, <1>7, HoleFacts, WindowFacts, HolesAssumption DEF HolesAssumption, WithCxl
  <2>3. ASSUME NEW k \in 1 .. Len(a \o b)
        PROVE  \/ (a \o b)[k] = hostMr \/ (a \o b)[k].limit < hostMr.base
               \/ hostMr.limit < (a \o b)[k].base
    <3>1. (a \o b)[k].limit \in Nat
      BY <1>6, RangeAt
    <3>2. (a \o b)[k] = hostMr \/ (a \o b)[k].limit <= HoleHi
      BY <1>6, <1>7, HoleFacts DEF Good, InHole
    <3> QED BY <3>1, <3>2, <2>2
  <2>4. Good(s, Append(a \o b, hostMr))
    BY <1>6, <1>7, <2>2, <2>3, AppendGood
  <2>5. \A x \in Word : Covers(Append(a \o b, hostMr), x)
                          <=> Covers(a \o b, x) \/ In(hostMr.base, hostMr.limit, x)
    BY <1>6, <2>2, CoversAppend
  <2> QED BY <2>1, <2>4, <2>5, <1>6, <1>7 DEF InWindow, a, t
<1>8. CASE ~(s = "mem" /\ host.kind = "cxl")
  BY <1>4, <1>6, <1>8 DEF InWindow, a, t
<1> QED BY <1>7, <1>8

(* The ranges remembered are those of the expanders passed.                *)
LEMMA StepExpander ==
  ASSUME Placed, Numbers, Resources, Expander
  PROVE  Resources'
<1> DEFINE host == children[n + 1]
<1>1. /\ UNCHANGED <<children, mcfg, hole64, hostMr, pci0>>
      /\ n' = n + 1 /\ host.kind # "bridge" /\ n < Len(children) /\ n \in Nat
      /\ crs' = WithNext(Crs(host)) /\ rangeSet' = Taken(host, Crs(host))
  BY DEF Expander, given, Numbers
<1>2. ~Built /\ ~Built'
  BY <1>1 DEF Numbers, Built
<1>3. CxlPassed' <=> CxlPassed \/ host.kind = "cxl"
  <2>1. \A k \in 1 .. n + 1 : k \in 1 .. n \/ k = n + 1
    BY <1>1
  <2>2. \A k \in 1 .. n : k \in 1 .. n + 1
    BY <1>1
  <2>3. n + 1 \in 1 .. n + 1
    BY <1>1
  <2> QED BY <1>1, <2>1, <2>2, <2>3 DEF CxlPassed
<1>4. DOMAIN crs' = DOMAIN crs \union {n + 1}
  BY <1>1 DEF WithNext
<1>5. \A s, x : /\ Owned(s, x)' <=> Owned(s, x) \/ Mapped(host.regions, s, x)
                /\ InWindow(s, x)' <=> InWindow(s, x)
  BY <1>1, <1>4 DEF Owned, InWindow
<1>6. \A h \in DOMAIN crs' : crs'[h] = Crs(children'[h])
  <2>1. \A h \in DOMAIN crs : h # n + 1
    BY <1>1 DEF Numbers
  <2> QED BY <1>1, <1>4, <2>1 DEF WithNext, Resources
<1>7. ASSUME NEW s \in Spaces
      PROVE  /\ Good(s, rangeSet[s])'
             /\ rangeSet'[s] \in Seq(Entries)
             /\ \A k \in 1 .. Len(rangeSet'[s]) :
                  rangeSet'[s][k].base <= rangeSet'[s][k].limit
             /\ \A x \in Word : Covers(rangeSet'[s], x)
                  <=> Owned(s, x)' \/ (CxlPassed' /\ InWindow(s, x)')
  <2> DEFINE t == Taken(host, Crs(host))[s]
  <2>1. /\ Good(s, t)
        /\ \A x \in Word : Covers(t, x) <=>
             \/ Covers(rangeSet[s], x) \/ Mapped(host.regions, s, x)
             \/ host.kind = "cxl" /\ InWindow(s, x)
    BY <1>1, TakenFacts
  <2>2. rangeSet'[s] = t
    BY <1>1
  <2> HIDE DEF t
  <2>3. Good(s, rangeSet[s])'
    BY <2>1, <2>2, <1>1 DEF Good, WithCxl
  <2>4. \A x \in Word :
          Covers(rangeSet[s], x) <=> Owned(s, x) \/ (CxlPassed /\ InWindow(s, x))
    BY <1>2 DEF Resources
  <2> QED BY <2>1, <2>2, <2>3, <2>4, <1>3, <1>5 DEF Good, AllProper, Proper
<1> QED BY <1>2, <1>6, <1>7 DEF Resources, Pci0AvoidsExpanders, Pci0ClaimsTheRest,
           FreeInsideHole

-----------------------------------------------------------------------------
(* What is left for PCI0.                                                  *)

(* The addresses of a space PCI0 must leave alone.                         *)
UsedBy(s, x) ==
  \/ Owned(s, x)
  \/ s = "mem" /\ mcfg /\ In(McfgRange.base, McfgRange.limit, x)
  \/ WithCxl /\ InWindow(s, x)

(* What PCI0 must not claim: the expanders' ranges and MMCONFIG.           *)
LEMMA UsedFacts ==
  ASSUME Placed, Numbers, Resources, ~Built, n = Len(children), NEW s \in Spaces
  PROVE  /\ Good(s, Used(s))
         /\ \A x \in Word : Covers(Used(s), x) <=> UsedBy(s, x)
<1> DEFINE a == rangeSet[s]
<1>1. /\ Good(s, a) /\ a \in Seq(Entries)
      /\ \A x \in Word : Covers(a, x) <=> Owned(s, x) \/ (WithCxl /\ InWindow(s, x))
  BY DEF Resources, Good, CxlPassed, WithCxl
<1>2. CASE s = "mem" /\ mcfg
  <2>1. Used(s) = Append(a, McfgRange)
    BY <1>2 DEF Used
  <2>2. /\ McfgRange \in Entries /\ Proper(McfgRange) /\ InHole("mem", McfgRange)
        /\ McfgRange.limit \in Nat
    BY WindowFacts
  <2> HIDE DEF a
  <2>3. ASSUME NEW k \in 1 .. Len(a)
        PROVE  a[k].limit < McfgRange.base \/ McfgRange.limit < a[k].base
    <3>1. a[k] \in Entries /\ Proper(a[k])
      BY <1>1, ElementType DEF Good, AllProper
    <3>2. ASSUME NEW x \in Word, In(a[k].base, a[k].limit, x),
                 In(McfgRange.base, McfgRange.limit, x)
          PROVE  FALSE
      <4>1. Covers(a, x) /\ x \in Nat
        BY <3>2, WordNat DEF Covers, In
      <4>2. CASE Owned(s, x)
        <5>1. PICK h \in DOMAIN crs : Mapped(children[h].regions, s, x)
          BY <4>2 DEF Owned
        <5>2. h \in 1 .. Len(children)
          BY DEF Numbers
        <5> QED BY <5>1, <5>2, <3>2, <1>2, MappedFacts
      <4>3. CASE InWindow(s, x)
        <5>1. /\ hostMr.base <= x /\ x <= McfgRange.limit /\ McfgRange.limit <= HoleHi
              /\ HoleHi < Max32 /\ Max32 < hostMr.base
          BY <3>2, <4>3, WindowFacts, HoleFacts DEF InWindow, In, InHole
        <5> QED BY <4>1, <5>1, WindowFacts, HoleFacts, HolesAssumption DEF HolesAssumption
      <4> QED BY <1>1, <4>1, <4>2, <4>3
    <3> QED BY <2>2, <3>1, <3>2, NoCommon
  <2>4. Good(s, Append(a, McfgRange))
    BY <1>1, <1>2, <2>2, <2>3, AppendGood
  <2>5. \A x \in Word : Covers(Append(a, McfgRange), x)
                          <=> Covers(a, x) \/ In(McfgRange.base, McfgRange.limit, x)
    BY <1>1, <2>2, CoversAppend
  <2> QED BY <1>1, <1>2, <2>1, <2>4, <2>5 DEF UsedBy
<1>3. CASE ~(s = "mem" /\ mcfg)
  BY <1>1, <1>3 DEF Used, UsedBy
<1> QED BY <1>2, <1>3

(* The free ranges of a space against what is used in it.                  *)
LEMMA FreeUsed ==
  ASSUME Placed, Numbers, Resources, ~Built, n = Len(children), NEW s \in Spaces
  PROVE  LET f == FreeRanges(Used(s), Low[s], High[s])
         IN  /\ f \in Seq(Entries)
             /\ \A x \in Word : Covers(f, x) => Low[s] <= x /\ ~UsedBy(s, x)
             /\ \A x \in Word : Low[s] <= x /\ x < High[s] => UsedBy(s, x) \/ Covers(f, x)
             /\ \A k \in 1 .. Len(f) :
                  /\ f[k].base <= f[k].limit
                  /\ Low[s] <= f[k].base /\ f[k].base <= High[s] + 1
                  /\ \/ f[k].limit <= High[s]
                     \/ s = "mem" /\ WithCxl /\ f[k].limit = hostMr.base - 1
<1> DEFINE u == Used(s)
           f == FreeRanges(u, Low[s], High[s])
<1>1. /\ Good(s, u) /\ u \in Seq(Entries) /\ SameOrApart(u) /\ AllProper(u)
      /\ \A x \in Word : Covers(u, x) <=> UsedBy(s, x)
  BY UsedFacts DEF Good
<1>2. /\ Low[s] \in Word /\ High[s] \in Word /\ Low[s] \in Nat /\ High[s] \in Nat
      /\ 1 <= Low[s] /\ Low[s] <= High[s] /\ High[s] < MaxWord
      /\ MaxWord \in Nat /\ Max32 \in Nat
  BY HoleFacts
<1>3. /\ hostMr.base \in Nat /\ hostMr.limit \in Nat /\ hostMr.base <= hostMr.limit
      /\ hostMr.limit < MaxWord
      /\ s = "mem" => High[s] < hostMr.base /\ Low[s] < hostMr.base
  BY <1>2, WindowFacts, HoleFacts DEF Proper
<1> HIDE DEF u
<1>4. ASSUME NEW k \in 1 .. Len(u)
      PROVE  /\ u[k].base \in Nat /\ u[k].limit \in Nat /\ Proper(u[k])
             /\ \/ Low[s] <= u[k].base /\ u[k].limit <= High[s]
                \/ s = "mem" /\ WithCxl /\ u[k] = hostMr
  BY <1>1, RangeAt DEF Good, InHole, AllProper
<1>5. Usable(u, Low[s])
  <2> SUFFICES ASSUME NEW k \in 1 .. Len(u)
               PROVE  Proper(u[k]) /\ Low[s] <= u[k].base /\ u[k].limit < MaxWord
    BY DEF Usable
  <2>1. Proper(u[k]) /\ u[k].base \in Nat /\ u[k].limit \in Nat
    BY <1>4
  <2>2. CASE Low[s] <= u[k].base /\ u[k].limit <= High[s]
    BY <2>1, <2>2, <1>2
  <2>3. CASE s = "mem" /\ u[k] = hostMr
    BY <2>1, <2>3, <1>2, <1>3
  <2> QED BY <2>2, <2>3, <1>4
<1>6. /\ f \in Seq(Entries)
      /\ \E top : FreeOf(u, Low[s], High[s], top, f)
      /\ \A j \in 1 .. Len(f) : Left(u, Low[s], High[s], f[j])
  BY <1>1, <1>2, <1>5, FreeFacts
<1> HIDE DEF f
<1>7. PICK top : FreeOf(u, Low[s], High[s], top, f)
  BY <1>6
<1>8. \A x \in Word : Covers(f, x)
       <=> ~UsedBy(s, x) /\ Low[s] <= x /\ (x < top \/ (top < High[s] /\ x <= High[s]))
  BY <1>1, <1>7 DEF FreeOf
<1>9. top \in Nat
  BY <1>7, WordNat DEF FreeOf, Top
<1>10. ASSUME NEW x \in Word, Low[s] <= x, x < High[s]
       PROVE  UsedBy(s, x) \/ Covers(f, x)
  <2>1. x \in Nat
    BY WordNat
  <2> QED BY <1>2, <1>8, <1>9, <1>10, <2>1
<1>11. ASSUME NEW k \in 1 .. Len(f)
       PROVE  /\ f[k].base <= f[k].limit
              /\ Low[s] <= f[k].base /\ f[k].base <= High[s] + 1
              /\ \/ f[k].limit <= High[s]
                 \/ s = "mem" /\ WithCxl /\ f[k].limit = hostMr.base - 1
  <2> DEFINE b == f[k].base
             l == f[k].limit
  <2>1. /\ b <= l
        /\ b = Low[s] \/ \E j \in 1 .. Len(u) : b = u[j].limit + 1
        /\ l = High[s] \/ \E j \in 1 .. Len(u) : l = u[j].base - 1
    BY <1>6 DEF Left
  <2>2. b \in Nat /\ l \in Nat
    BY <1>6, RangeAt
  <2> HIDE DEF b, l
  <2>3. l <= High[s] \/ (s = "mem" /\ WithCxl /\ l = hostMr.base - 1)
    <3>1. CASE l = High[s]
      BY <3>1, <1>2
    <3>2. CASE \E j \in 1 .. Len(u) : l = u[j].base - 1
      <4>1. PICK j \in 1 .. Len(u) : l = u[j].base - 1
        BY <3>2
      <4>2. CASE u[j].limit <= High[s]
        BY <4>1, <4>2, <1>2, <1>4 DEF Proper
      <4>3. CASE s = "mem" /\ WithCxl /\ u[j] = hostMr
        BY <4>1, <4>3
      <4> QED BY <4>2, <4>3, <1>4
    <3> QED BY <2>1, <3>1, <3>2
  <2>4. Low[s] <= b /\ b <= High[s] + 1
    <3>1. CASE b = Low[s]
      BY <3>1, <1>2
    <3>2. CASE \E j \in 1 .. Len(u) : b = u[j].limit + 1
      <4>1. PICK j \in 1 .. Len(u) : b = u[j].limit + 1
        BY <3>2
      <4>2. CASE Low[s] <= u[j].base /\ u[j].limit <= High[s]
        BY <4>1, <4>2, <1>2, <1>4 DEF Proper
      <4>3. CASE s = "mem" /\ u[j] = hostMr
        BY <4>1, <4>3, <2>1, <2>2, <2>3, <1>2, <1>3
      <4> QED BY <4>2, <4>3, <1>4
    <3> QED BY <2>1, <3>1, <3>2
  <2> QED BY <2>1, <2>3, <2>4 DEF b, l
<1>12. \A x \in Word : Covers(f, x) => Low[s] <= x /\ ~UsedBy(s, x)
  BY <1>8
<1> QED BY <1>6, <1>10, <1>11, <1>12 DEF f, u

(* A number below the divisor is its own remainder.                        *)
LEMMA ModSmall ==
  ASSUME NEW a \in Nat, NEW b \in Nat, a < b
  PROVE  a % b = a
  OBVIOUS

(* A remainder is no greater than the number.                              *)
LEMMA ModLess ==
  ASSUME NEW a \in Nat, NEW b \in Nat, b > 0
  PROVE  a % b <= a /\ a % b \in Nat /\ a % b < b
  OBVIOUS

(* What is left of the lower hole, as it is written: the free range below  *)
(* the CXL window is cut.                                                  *)
LEMMA DwordFacts ==
  ASSUME Placed, Numbers, Resources, ~Built, n = Len(children)
  PROVE  LET f == FreeRanges(Used("mem"), HoleLo, HoleHi)
             d == Dword(f)
         IN  /\ Len(d) = Len(f) /\ Len(f) \in Nat
             /\ \A k \in 1 .. Len(f) :
                  /\ d[k].base = f[k].base /\ d[k].base \in Nat /\ d[k].limit \in Nat
                  /\ HoleLo <= d[k].base /\ d[k].base <= HoleHi + 1
                  /\ d[k].limit <= f[k].limit /\ d[k].limit <= Max32
                  /\ f[k].limit \in Nat /\ f[k].base <= f[k].limit
                  /\ \/ f[k].limit <= HoleHi /\ d[k].limit = f[k].limit
                     \/ WithCxl /\ d[k].limit = (hostMr.base - 1) % (Max32 + 1)
<1> DEFINE f == FreeRanges(Used("mem"), HoleLo, HoleHi)
           d == Dword(f)
<1>1. /\ HoleLo \in Nat /\ HoleHi \in Nat /\ Max32 \in Nat /\ HoleHi < Max32
      /\ "mem" \in Spaces /\ Low["mem"] = HoleLo /\ High["mem"] = HoleHi
  BY HoleFacts, HolesAssumption DEF HolesAssumption, Spaces
<1>2. /\ f \in Seq(Entries)
      /\ \A k \in 1 .. Len(f) :
           /\ f[k].base <= f[k].limit
           /\ HoleLo <= f[k].base /\ f[k].base <= HoleHi + 1
           /\ \/ f[k].limit <= HoleHi
              \/ WithCxl /\ f[k].limit = hostMr.base - 1
  BY <1>1, FreeUsed
<1> HIDE DEF f
<1>3. Len(f) \in Nat
  BY <1>2
<1>4. Len(d) = Len(f)
  BY <1>3 DEF Dword
<1>5. ASSUME NEW k \in 1 .. Len(f)
      PROVE  /\ d[k].base = f[k].base % (Max32 + 1)
             /\ d[k].limit = f[k].limit % (Max32 + 1)
  BY DEF Dword, Entry
<1> HIDE DEF d
<1>6. ASSUME NEW k \in 1 .. Len(f)
      PROVE  /\ d[k].base = f[k].base /\ d[k].base \in Nat /\ d[k].limit \in Nat
             /\ HoleLo <= d[k].base /\ d[k].base <= HoleHi + 1
             /\ d[k].limit <= f[k].limit /\ d[k].limit <= Max32
             /\ f[k].limit \in Nat /\ f[k].base <= f[k].limit
             /\ \/ f[k].limit <= HoleHi /\ d[k].limit = f[k].limit
                \/ WithCxl /\ d[k].limit = (hostMr.base - 1) % (Max32 + 1)
  <2>1. f[k].base \in Nat /\ f[k].limit \in Nat
    BY <1>2, RangeAt
  <2>2. /\ f[k].base <= f[k].limit
        /\ HoleLo <= f[k].base /\ f[k].base <= HoleHi + 1
        /\ \/ f[k].limit <= HoleHi
           \/ WithCxl /\ f[k].limit = hostMr.base - 1
    BY <1>2
  <2>3. d[k].base = f[k].base
    <3>1. Max32 + 1 \in Nat /\ f[k].base < Max32 + 1
      BY <1>1, <2>1, <2>2
    <3>2. f[k].base % (Max32 + 1) = f[k].base
      BY <2>1, <3>1, ModSmall
    <3> QED BY <1>5, <3>2
  <2>4. d[k].limit <= f[k].limit /\ d[k].limit <= Max32 /\ d[k].limit \in Nat
    <3>1. Max32 + 1 \in Nat /\ Max32 + 1 > 0
      BY <1>1
    <3>2. /\ f[k].limit % (Max32 + 1) <= f[k].limit
          /\ f[k].limit % (Max32 + 1) \in Nat
          /\ f[k].limit % (Max32 + 1) < Max32 + 1
      BY <2>1, <3>1, ModLess
    <3> QED BY <1>1, <1>5, <3>2
  <2>5. \/ f[k].limit <= HoleHi /\ d[k].limit = f[k].limit
        \/ WithCxl /\ d[k].limit = (hostMr.base - 1) % (Max32 + 1)
    <3>1. CASE f[k].limit <= HoleHi
      <4>1. Max32 + 1 \in Nat /\ f[k].limit < Max32 + 1
        BY <1>1, <2>1, <3>1
      <4>2. f[k].limit % (Max32 + 1) = f[k].limit
        BY <2>1, <4>1, ModSmall
      <4> QED BY <3>1, <4>2, <1>5
    <3>2. CASE WithCxl /\ f[k].limit = hostMr.base - 1
      BY <3>2, <1>5
    <3> QED BY <2>2, <3>1, <3>2
  <2> QED BY <2>1, <2>2, <2>3, <2>4, <2>5
<1> QED BY <1>3, <1>4, <1>6 DEF d, f

(* PCI0's resources as claims on addresses.                                *)
Pci0Claims(p) ==
  /\ \A x \in Word : Covers(p.io, x) => ~UsedBy("io", x)
  /\ \A x \in Word : IoStart <= x /\ x < IoEnd => UsedBy("io", x) \/ Covers(p.io, x)
  /\ \A x \in Word : Covers(p.mem, x) => x <= Max32 /\ ~UsedBy("mem", x)
  /\ ~CutInHole => \A x \in Word :
       HoleLo <= x /\ x < HoleHi => UsedBy("mem", x) \/ Covers(p.mem, x)
  /\ \A x \in Word : Covers(p.mem64, x) => Max32 < x /\ ~UsedBy("mem64", x)
  /\ hole64 => \A x \in Word :
       Hole64Lo <= x /\ x < Hole64Hi => UsedBy("mem64", x) \/ Covers(p.mem64, x)
  /\ Inside(p.mem, HoleLo, IF WithCxl THEN Max32 ELSE HoleHi)
  /\ Inside(p.mem64, Hole64Lo, Hole64Hi)
  /\ ~CutInHole => \A k \in 1 .. Len(p.mem) : p.mem[k].base <= p.mem[k].limit

(* The ranges PCI0 is given make these claims.                             *)
LEMMA Pci0Facts ==
  ASSUME Placed, Numbers, Resources, ~Built, n = Len(children)
  PROVE  /\ Pci0Claims([io |-> Free.io, mem |-> Dword(Free.mem),
                        mem64 |-> IF hole64 THEN Free.mem64 ELSE << >>,
                        busMin |-> 0, busMax |-> rootLimit])
         /\ \A s \in Spaces :
              /\ Free[s] \in Seq(Entries)
              /\ \A k \in 1 .. Len(Free[s]) : Free[s][k].base <= Free[s][k].limit
<1> DEFINE fi == FreeRanges(Used("io"), IoStart, IoEnd)
           fm == FreeRanges(Used("mem"), HoleLo, HoleHi)
           fq == FreeRanges(Used("mem64"), Hole64Lo, Hole64Hi)
           d == Dword(fm)
           q == IF hole64 THEN fq ELSE << >>
           p == [io |-> Free.io, mem |-> Dword(Free.mem),
                 mem64 |-> IF hole64 THEN Free.mem64 ELSE << >>,
                 busMin |-> 0, busMax |-> rootLimit]
<1>1. /\ "io" \in Spaces /\ "mem" \in Spaces /\ "mem64" \in Spaces
      /\ Max32 \in Nat /\ HoleLo \in Nat /\ HoleHi \in Nat /\ Hole64Lo \in Nat
      /\ HoleHi < Max32 /\ Max32 < Hole64Lo
  BY HoleFacts, HolesAssumption DEF HolesAssumption, Spaces
<1>2. /\ fi \in Seq(Entries)
      /\ \A x \in Word : Covers(fi, x) => ~UsedBy("io", x)
      /\ \A x \in Word : IoStart <= x /\ x < IoEnd => UsedBy("io", x) \/ Covers(fi, x)
      /\ \A k \in 1 .. Len(fi) : fi[k].base <= fi[k].limit
  BY <1>1, FreeUsed, HoleFacts
<1>3. /\ fm \in Seq(Entries)
      /\ \A x \in Word : Covers(fm, x) => ~UsedBy("mem", x)
      /\ \A x \in Word : HoleLo <= x /\ x < HoleHi => UsedBy("mem", x) \/ Covers(fm, x)
      /\ \A k \in 1 .. Len(fm) : fm[k].base <= fm[k].limit
  BY <1>1, FreeUsed, HoleFacts
<1>4. /\ fq \in Seq(Entries)
      /\ \A x \in Word : Covers(fq, x) => Hole64Lo <= x /\ ~UsedBy("mem64", x)
      /\ \A x \in Word :
           Hole64Lo <= x /\ x < Hole64Hi => UsedBy("mem64", x) \/ Covers(fq, x)
      /\ \A k \in 1 .. Len(fq) :
           fq[k].base <= fq[k].limit /\ Hole64Lo <= fq[k].base /\ fq[k].limit <= Hole64Hi
  BY <1>1, FreeUsed, HoleFacts
<1>5. /\ Len(d) = Len(fm) /\ Len(fm) \in Nat
      /\ \A k \in 1 .. Len(fm) :
           /\ d[k].base = fm[k].base /\ d[k].base \in Nat /\ d[k].limit \in Nat
           /\ HoleLo <= d[k].base /\ d[k].base <= HoleHi + 1
           /\ d[k].limit <= fm[k].limit /\ d[k].limit <= Max32
           /\ fm[k].limit \in Nat /\ fm[k].base <= fm[k].limit
           /\ \/ fm[k].limit <= HoleHi /\ d[k].limit = fm[k].limit
              \/ WithCxl /\ d[k].limit = (hostMr.base - 1) % (Max32 + 1)
  BY DwordFacts
<1>6. /\ p.io = fi /\ p.mem = d /\ p.mem64 = q
  BY DEF Free
<1>7. \A s \in Spaces :
              /\ Free[s] \in Seq(Entries)
              /\ \A k \in 1 .. Len(Free[s]) : Free[s][k].base <= Free[s][k].limit
  <2>1. /\ Free["io"] = fi /\ Free["mem"] = fm
        /\ Free["mem64"] = IF hole64 THEN fq ELSE Used("mem64")
    BY DEF Free
  <2>2. /\ Used("mem64") \in Seq(Entries)
        /\ \A k \in 1 .. Len(Used("mem64")) :
             Used("mem64")[k].base <= Used("mem64")[k].limit
    BY <1>1 DEF Used, Resources
  <2> HIDE DEF fi, fm, fq, Spaces
  <2> QED BY <1>2, <1>3, <1>4, <2>1, <2>2 DEF Spaces
<1> HIDE DEF fi, fm, fq, d, p
<1>8. \A x \in Word : Covers(d, x) => Covers(fm, x) /\ x <= Max32
  <2> SUFFICES ASSUME NEW x \in Word, Covers(d, x)
               PROVE  Covers(fm, x) /\ x <= Max32
    OBVIOUS
  <2>1. PICK k \in 1 .. Len(d) : d[k].base <= x /\ x <= d[k].limit
    BY DEF Covers
  <2>2. x \in Nat
    BY WordNat
  <2>3. k \in 1 .. Len(fm) /\ d[k].limit \in Nat /\ fm[k].limit \in Nat
        /\ d[k].base = fm[k].base /\ d[k].limit <= fm[k].limit /\ d[k].limit <= Max32
    BY <1>5
  <2>4. x <= fm[k].limit /\ x <= Max32
    BY <1>1, <2>1, <2>2, <2>3
  <2> QED BY <2>1, <2>3, <2>4 DEF Covers
<1>9. ASSUME ~CutInHole, NEW k \in 1 .. Len(fm)
      PROVE  d[k].limit = fm[k].limit \/ HoleHi < d[k].limit
  <2>1. CASE WithCxl /\ d[k].limit = (hostMr.base - 1) % (Max32 + 1)
    BY <1>1, <1>5, <1>9, <2>1 DEF CutInHole
  <2> QED BY <1>5, <2>1
<1>10. ASSUME ~CutInHole, NEW x \in Word, HoleLo <= x, x < HoleHi
       PROVE  UsedBy("mem", x) \/ Covers(d, x)
  <2>1. CASE Covers(fm, x)
    <3>1. PICK k \in 1 .. Len(fm) : fm[k].base <= x /\ x <= fm[k].limit
      BY <2>1 DEF Covers
    <3>2. x \in Nat /\ d[k].limit \in Nat /\ d[k].base = fm[k].base
      BY <1>5, WordNat
    <3>3. x <= d[k].limit
      BY <1>1, <1>9, <1>10, <3>1, <3>2
    <3> QED BY <3>1, <3>2, <3>3, <1>5 DEF Covers
  <2> QED BY <2>1, <1>3, <1>10
<1>11. ASSUME ~CutInHole, NEW k \in 1 .. Len(d)
       PROVE  d[k].base <= d[k].limit
  <2>1. k \in 1 .. Len(fm)
    BY <1>5
  <2>2. /\ d[k].base \in Nat /\ d[k].limit \in Nat /\ d[k].base <= HoleHi + 1
        /\ d[k].base <= fm[k].limit
    BY <2>1, <1>5
  <2> QED BY <1>1, <1>9, <1>11, <2>1, <2>2
<1>12. Inside(d, HoleLo, IF WithCxl THEN Max32 ELSE HoleHi)
  BY <1>5 DEF Inside
<1>13. /\ \A x \in Word : Covers(q, x) => Max32 < x /\ ~UsedBy("mem64", x)
       /\ Inside(q, Hole64Lo, Hole64Hi)
       /\ hole64 => \A x \in Word :
            Hole64Lo <= x /\ x < Hole64Hi => UsedBy("mem64", x) \/ Covers(q, x)
  <2>1. CASE hole64
    <3>1. \A x \in Word : x \in Nat
      BY WordNat
    <3>2. q = fq
      BY <2>1
    <3> QED BY <3>1, <3>2, <1>1, <1>4 DEF Inside
  <2>2. CASE ~hole64
    <3>1. q = << >> /\ Len(<< >>) = 0 /\ 1 .. 0 = {}
      BY <2>2
    <3> HIDE DEF q
    <3> QED BY <2>2, <3>1 DEF Covers, Inside
  <2> QED BY <2>1, <2>2
<1> HIDE DEF q
<1>14. Pci0Claims(p)
  BY <1>2, <1>3, <1>6, <1>8, <1>10, <1>11, <1>12, <1>13 DEF Pci0Claims
<1> QED BY <1>7, <1>14 DEF p

(* What PCI0 claims and what the expanders claim, put together.            *)
LEMMA Pci0Partitions ==
  ASSUME Placed, Numbers, NEW p, Pci0Claims(p),
         \A h \in DOMAIN crs : crs[h] = Crs(children[h])
  PROVE  /\ \A x \in Word :
              /\ \A h \in DOMAIN crs :
                   /\ ~(Covers(p.io, x) /\ Covers(crs[h].io, x))
                   /\ ~(InMemory(p, x) /\ InMemory(crs[h], x))
              /\ mcfg /\ Covers(<<McfgRange>>, x) => ~InMemory(p, x)
         /\ \A x \in IoStart .. IoEnd - 1 :
              Covers(p.io, x) \/ \E h \in DOMAIN crs : Covers(crs[h].io, x)
         /\ \A x \in (IF CutInHole THEN {} ELSE HoleLo .. HoleHi - 1)
                     \union (IF hole64 THEN Hole64Lo .. Hole64Hi - 1 ELSE {}) :
              \/ InMemory(p, x)
              \/ \E h \in DOMAIN crs : InMemory(crs[h], x)
              \/ mcfg /\ Covers(<<McfgRange>>, x)
<1>1. /\ IoStart \in Nat /\ IoEnd \in Nat /\ HoleLo \in Nat /\ HoleHi \in Nat
      /\ Hole64Lo \in Nat /\ Hole64Hi \in Nat /\ Max32 \in Nat /\ MaxWord \in Nat
      /\ IoEnd < MaxWord /\ HoleHi < Max32 /\ Max32 < MaxWord /\ Hole64Hi < MaxWord
      /\ Max32 < Hole64Lo
  BY HoleFacts, HolesAssumption DEF HolesAssumption
<1>2. ASSUME NEW h \in DOMAIN crs, NEW x \in Word
      PROVE  /\ Covers(crs[h].io, x) <=> Mapped(children[h].regions, "io", x)
             /\ Covers(crs[h].mem, x) <=> Mapped(children[h].regions, "mem", x)
             /\ Covers(crs[h].mem64, x) <=> Mapped(children[h].regions, "mem64", x)
             /\ Mapped(children[h].regions, "mem", x) => x <= HoleHi
             /\ Mapped(children[h].regions, "mem64", x) => Hole64Lo <= x
  <2>1. h \in 1 .. Len(children) /\ "io" \in Spaces /\ "mem" \in Spaces /\ "mem64" \in Spaces
    BY DEF Numbers, Placed, Spaces
  <2>2. \A s \in Spaces :
          Covers(Crs(children[h])[s], x) <=> Mapped(children[h].regions, s, x)
    BY <2>1, CrsFacts
  <2>3. /\ Crs(children[h]).io = Crs(children[h])["io"]
        /\ Crs(children[h]).mem = Crs(children[h])["mem"]
        /\ Crs(children[h]).mem64 = Crs(children[h])["mem64"]
    OBVIOUS
  <2>4. /\ Mapped(children[h].regions, "mem", x) => x <= HoleHi
        /\ Mapped(children[h].regions, "mem64", x) => Hole64Lo <= x
    BY <2>1, MappedFacts, HoleFacts
  <2> QED BY <2>1, <2>2, <2>3, <2>4
<1>3. \A x : Covers(<<McfgRange>>, x) <=> In(McfgRange.base, McfgRange.limit, x)
  BY DEF Covers, In
<1>4. ASSUME NEW x \in Word
      PROVE  /\ \A h \in DOMAIN crs :
                  /\ ~(Covers(p.io, x) /\ Covers(crs[h].io, x))
                  /\ ~(InMemory(p, x) /\ InMemory(crs[h], x))
             /\ mcfg /\ Covers(<<McfgRange>>, x) => ~InMemory(p, x)
  <2>1. x \in Nat
    BY WordNat
  <2>2. /\ Covers(p.io, x) => ~UsedBy("io", x)
        /\ Covers(p.mem, x) => x <= Max32 /\ ~UsedBy("mem", x)
        /\ Covers(p.mem64, x) => Max32 < x /\ ~UsedBy("mem64", x)
    BY DEF Pci0Claims
  <2>3. ASSUME NEW h \in DOMAIN crs
        PROVE  /\ ~(Covers(p.io, x) /\ Covers(crs[h].io, x))
               /\ ~(InMemory(p, x) /\ InMemory(crs[h], x))
    <3>1. \A s : Mapped(children[h].regions, s, x) => UsedBy(s, x)
      BY DEF UsedBy, Owned
    <3> QED BY <1>1, <1>2, <2>1, <2>2, <3>1 DEF InMemory
  <2>4. ASSUME mcfg, Covers(<<McfgRange>>, x)
        PROVE  ~InMemory(p, x)
    <3>1. UsedBy("mem", x) /\ x <= McfgRange.limit
      BY <1>3, <2>4 DEF UsedBy, In
    <3>2. McfgRange.limit \in Nat /\ McfgRange.limit <= HoleHi
      BY WindowFacts, HoleFacts DEF InHole
    <3> QED BY <1>1, <2>1, <2>2, <3>1, <3>2 DEF InMemory
  <2> QED BY <2>3, <2>4
<1>5. ASSUME NEW x \in IoStart .. IoEnd - 1
      PROVE  Covers(p.io, x) \/ \E h \in DOMAIN crs : Covers(crs[h].io, x)
  <2>1. x \in Word /\ IoStart <= x /\ x < IoEnd
    BY <1>1 DEF Word
  <2>2. UsedBy("io", x) \/ Covers(p.io, x)
    BY <2>1 DEF Pci0Claims
  <2>3. UsedBy("io", x) => Owned("io", x)
    BY DEF UsedBy, InWindow
  <2> QED BY <1>2, <2>1, <2>2, <2>3 DEF Owned
<1>6. ASSUME ~CutInHole, NEW x \in HoleLo .. HoleHi - 1
      PROVE  \/ InMemory(p, x)
             \/ \E h \in DOMAIN crs : InMemory(crs[h], x)
             \/ mcfg /\ Covers(<<McfgRange>>, x)
  <2>1. x \in Word /\ HoleLo <= x /\ x < HoleHi
    BY <1>1 DEF Word
  <2>2. UsedBy("mem", x) \/ Covers(p.mem, x)
    BY <1>6, <2>1 DEF Pci0Claims
  <2>3. ~InWindow("mem", x)
    BY <1>1, <2>1, WindowFacts DEF InWindow, In
  <2>4. CASE Owned("mem", x)
    BY <1>2, <2>1, <2>4 DEF Owned, InMemory
  <2> QED BY <1>3, <2>2, <2>3, <2>4 DEF UsedBy, InMemory
<1>7. ASSUME hole64, NEW x \in Hole64Lo .. Hole64Hi - 1
      PROVE  \/ InMemory(p, x)
             \/ \E h \in DOMAIN crs : InMemory(crs[h], x)
  <2>1. x \in Word /\ Hole64Lo <= x /\ x < Hole64Hi
    BY <1>1 DEF Word
  <2>2. UsedBy("mem64", x) \/ Covers(p.mem64, x)
    BY <1>7, <2>1 DEF Pci0Claims
  <2>3. UsedBy("mem64", x) => Owned("mem64", x)
    BY DEF UsedBy, InWindow
  <2> QED BY <1>2, <2>1, <2>2, <2>3 DEF Owned, InMemory
<1> QED BY <1>4, <1>5, <1>6, <1>7

(* PCI0's _CRS takes what the expanders left.                              *)
LEMMA StepPci0 ==
  ASSUME Placed, Numbers, Resources, Pci0
  PROVE  Resources'
<1> DEFINE p == [io |-> Free.io, mem |-> Dword(Free.mem),
                 mem64 |-> IF hole64 THEN Free.mem64 ELSE << >>,
                 busMin |-> 0, busMax |-> rootLimit]
<1>1. /\ UNCHANGED <<children, mcfg, hole64, hostMr, n, crs>>
      /\ n = Len(children) /\ ~Built /\ rangeSet' = Free /\ pci0' = p
  BY DEF Pci0, given, Built
<1>2. Pci0Claims(p)
  BY <1>1, Pci0Facts
<1>3. \A s \in Spaces :
              /\ Free[s] \in Seq(Entries)
              /\ \A k \in 1 .. Len(Free[s]) : Free[s][k].base <= Free[s][k].limit
  BY <1>1, Pci0Facts
<1>4. p # << >>
  OBVIOUS
<1> HIDE DEF p
<1>5. \A h \in DOMAIN crs : crs[h] = Crs(children[h])
  BY DEF Resources
<1>6. CutInHole' = CutInHole /\ WithCxl' = WithCxl
  BY <1>1 DEF CutInHole, WithCxl
<1>7. Pci0AvoidsExpanders'
  BY <1>1, <1>2, <1>5, Pci0Partitions DEF Pci0AvoidsExpanders, InMemory
<1>8. Pci0ClaimsTheRest'
  BY <1>1, <1>2, <1>5, <1>6, Pci0Partitions DEF Pci0ClaimsTheRest, InMemory
<1>9. FreeInsideHole'
  BY <1>1, <1>2, <1>6 DEF FreeInsideHole, Pci0Claims
<1>10. Built'
  BY <1>1, <1>4 DEF Built
<1> QED BY <1>1, <1>3, <1>5, <1>7, <1>8, <1>9, <1>10 DEF Resources

(* Every step of the walk keeps the address spaces divided.                *)
LEMMA StepResources ==
  ASSUME Placed, Numbers, Resources, [HostNext]_hostVars
  PROVE  Resources'
<1>1. CASE UNCHANGED hostVars
  <2>1. UNCHANGED <<children, mcfg, hole64, hostMr, n, rangeSet, rootLimit, crs, pci0>>
    BY <1>1 DEF hostVars, given
  <2> QED BY <2>1 DEF Resources, Good, Owned, CxlPassed, InWindow, Built, WithCxl,
                      CutInHole, InMemory, Pci0AvoidsExpanders, Pci0ClaimsTheRest,
                      FreeInsideHole
<1> QED BY <1>1, StepSkipChild, StepExpander, StepPci0 DEF HostNext

(* The _CRS of an expander, address by address.                            *)
LEMMA ClaimsOfExpanders ==
  ASSUME Placed, Numbers, Resources
  PROVE  ExpandersClaimTheirs
<1> SUFFICES ASSUME NEW h \in DOMAIN crs, NEW x \in Word
             PROVE  LET mapped == {r \in children[h].regions :
                                    ~Skipped(r) /\ r.addr <= x /\ x <= Limit(r)}
                    IN  /\ Covers(crs[h].io, x) <=> \E r \in mapped : r.io
                        /\ InMemory(crs[h], x) <=> \E r \in mapped : ~r.io
  BY DEF ExpandersClaimTheirs
<1>1. /\ h \in 1 .. Len(children) /\ crs[h] = Crs(children[h])
      /\ "io" \in Spaces /\ "mem" \in Spaces /\ "mem64" \in Spaces
  BY DEF Numbers, Placed, Spaces, Resources
<1>2. \A s \in Spaces :
        Covers(Crs(children[h])[s], x) <=> Mapped(children[h].regions, s, x)
  BY <1>1, CrsFacts
<1>3. /\ Crs(children[h]).io = Crs(children[h])["io"]
      /\ Crs(children[h]).mem = Crs(children[h])["mem"]
      /\ Crs(children[h]).mem64 = Crs(children[h])["mem64"]
  OBVIOUS
<1>4. \A r \in children[h].regions :
        /\ r.io <=> SpaceOf(r) = "io"
        /\ ~r.io <=> SpaceOf(r) = "mem" \/ SpaceOf(r) = "mem64"
  BY <1>1, ChildAt, RegionPlace DEF Spaces
<1> QED BY <1>1, <1>2, <1>3, <1>4 DEF Mapped, In, InMemory

(* build_dsdt divides the address spaces: whatever the firmware has mapped. *)
(* For every list of children, every assignment of regions to buses and every *)
(* size of the holes the assumptions allow.                                *)
THEOREM AddressesCorrect == HostSpec => []AddressesPartitioned
<1>1. Placed /\ Numbers /\ Resources => AddressesPartitioned
  <2> SUFFICES ASSUME Placed, Numbers, Resources
               PROVE  AddressesPartitioned
    OBVIOUS
  <2>1. HostTypeOK
    <3>1. ASSUME NEW s \in Spaces, NEW k \in 1 .. Len(rangeSet[s])
          PROVE  rangeSet[s][k] \in Entries /\ rangeSet[s][k].base <= rangeSet[s][k].limit
      BY ElementType DEF Resources
    <3> QED BY <3>1 DEF HostTypeOK, Numbers
  <2> QED BY <2>1, ClaimsOfExpanders DEF AddressesPartitioned, Resources
<1> QED BY <1>1, HostInitPlaced, HostInitNumbers, HostInitResources,
           StepPlaced, StepNumbers, StepResources, PTL DEF HostSpec
=============================================================================
