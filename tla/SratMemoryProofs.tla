-------------------------- MODULE SratMemoryProofs --------------------------
(***************************************************************************)
(* The memory affinity structures for any sizes of the nodes, any memory   *)
(* map and any number of devices.                                          *)
(***************************************************************************)
EXTENDS SratMemory, Recursion, TLAPS

Rec == [base : Nat, len : Nat, node : Nat, flags : Flags]

(* The structures of tab ascend and end at b or before.                    *)
Ordered(tab, b) ==
  /\ \A k \in 1 .. Len(tab) : tab[k].base + tab[k].len <= b
  /\ \A k, l \in 1 .. Len(tab) : k < l =>
       tab[l].len = 0 \/ tab[k].base + tab[k].len <= tab[l].base

HoldsIn(tab, x) == \E k \in 1 .. Len(tab) : IsRam(tab[k]) /\ In(x, tab[k])
NoFiller(tab) == \A k \in 1 .. Len(tab) : tab[k].flags # "noflags"

-----------------------------------------------------------------------------
LEMMA AppendFacts ==
  ASSUME NEW tab \in Seq(Rec), NEW s \in Rec
  PROVE  /\ Append(tab, s) \in Seq(Rec)
         /\ Len(tab) \in Nat /\ Len(Append(tab, s)) = Len(tab) + 1
         /\ \A k \in 1 .. Len(tab) :
              Append(tab, s)[k] = tab[k] /\ tab[k] \in Rec
         /\ Append(tab, s)[Len(tab) + 1] = s
  OBVIOUS

LEMMA AppendOrdered ==
  ASSUME NEW tab \in Seq(Rec), NEW s \in Rec, NEW b \in Nat, NEW c \in Nat,
         Ordered(tab, b), b <= c, s.base + s.len <= c,
         s.len = 0 \/ b <= s.base
  PROVE  Ordered(Append(tab, s), c)
<1> DEFINE new == Append(tab, s)  n == Len(tab)
<1>1. /\ n \in Nat /\ Len(new) = n + 1 /\ new[n + 1] = s
      /\ \A k \in 1 .. n : new[k] = tab[k] /\ tab[k] \in Rec
  BY AppendFacts
<1>2. \A k \in 1 .. n : tab[k].base \in Nat /\ tab[k].len \in Nat
  BY <1>1 DEF Rec
<1>3. s.base \in Nat /\ s.len \in Nat
  BY DEF Rec
<1> HIDE DEF new, n
<1>4. \A k \in 1 .. n : tab[k].base + tab[k].len <= b
  BY DEF Ordered, n
<1>5. ASSUME NEW k \in 1 .. n + 1
      PROVE  new[k].base + new[k].len <= c
  <2>1. CASE k \in 1 .. n
    BY <2>1, <1>1, <1>2, <1>4
  <2>2. CASE k = n + 1
    BY <2>2, <1>1
  <2> QED
    BY <2>1, <2>2, <1>1
<1>6. ASSUME NEW k \in 1 .. n + 1, NEW l \in 1 .. n + 1, k < l
      PROVE  new[l].len = 0 \/ new[k].base + new[k].len <= new[l].base
  <2>1. k \in 1 .. n
    BY <1>6, <1>1
  <2>2. CASE l \in 1 .. n
    BY <2>1, <2>2, <1>1, <1>6 DEF Ordered, n
  <2>3. CASE l = n + 1
    BY <2>1, <2>3, <1>1, <1>2, <1>3, <1>4
  <2> QED
    BY <2>2, <2>3, <1>1
<1> QED
  BY <1>1, <1>5, <1>6 DEF Ordered, new

LEMMA AppendHolds ==
  ASSUME NEW tab \in Seq(Rec), NEW s \in Rec, NEW x \in Nat
  PROVE  HoldsIn(Append(tab, s), x) <=> HoldsIn(tab, x) \/ (IsRam(s) /\ In(x, s))
<1> DEFINE new == Append(tab, s)  n == Len(tab)
<1>1. /\ n \in Nat /\ Len(new) = n + 1 /\ new[n + 1] = s
      /\ \A k \in 1 .. n : new[k] = tab[k]
  BY AppendFacts
<1> HIDE DEF new, n
<1>2. HoldsIn(new, x) <=> \E k \in 1 .. n + 1 : IsRam(new[k]) /\ In(x, new[k])
  BY <1>1 DEF HoldsIn
<1>3. (\E k \in 1 .. n + 1 : IsRam(new[k]) /\ In(x, new[k]))
        <=> (\E k \in 1 .. n : IsRam(tab[k]) /\ In(x, tab[k]))
              \/ (IsRam(s) /\ In(x, s))
  BY <1>1
<1> QED
  BY <1>2, <1>3 DEF HoldsIn, new, n

LEMMA AppendNoFiller ==
  ASSUME NEW tab \in Seq(Rec), NEW s \in Rec, NoFiller(tab), s.flags # "noflags"
  PROVE  NoFiller(Append(tab, s))
<1> DEFINE new == Append(tab, s)  n == Len(tab)
<1>1. /\ n \in Nat /\ Len(new) = n + 1 /\ new[n + 1] = s
      /\ \A k \in 1 .. n : new[k] = tab[k]
  BY AppendFacts
<1>2. \A k \in 1 .. n : tab[k].flags # "noflags"
  BY DEF NoFiller
<1> HIDE DEF new, n
<1>3. ASSUME NEW k \in 1 .. n + 1 PROVE new[k].flags # "noflags"
  <2>1. k \in 1 .. n \/ k = n + 1
    BY <1>1
  <2> QED
    BY <2>1, <1>1, <1>2
<1> QED
  BY <1>1, <1>3 DEF NoFiller, new

(* A part of a node that begins behind the table's end.                    *)
LEMMA EmitFacts ==
  ASSUME NEW tab \in Seq(Rec), NEW base \in Nat, NEW len \in Int,
         NEW node \in Nat, NEW b \in Nat, NEW c \in Nat,
         Ordered(tab, b), NoFiller(tab), b <= base, b <= c, base + len <= c
  PROVE  /\ Emit(tab, base, len, node) \in Seq(Rec)
         /\ Len(tab) \in Nat /\ Len(Emit(tab, base, len, node)) \in Nat
         /\ Len(Emit(tab, base, len, node)) <= Len(tab) + 1
         /\ Ordered(Emit(tab, base, len, node), c)
         /\ NoFiller(Emit(tab, base, len, node))
         /\ \A x \in Nat : HoldsIn(Emit(tab, base, len, node), x)
              <=> HoldsIn(tab, x) \/ (base <= x /\ x < base + len)
<1>1. CASE len > 0
  <2> DEFINE s == Structure(base, len, node, "enabled")
  <2>1. /\ s \in Rec /\ s.base = base /\ s.len = len /\ s.node = node
        /\ s.flags = "enabled" /\ IsRam(s)
    BY <1>1 DEF Rec, Structure, Flags, IsRam
  <2>2. Emit(tab, base, len, node) = Append(tab, s)
    BY <1>1 DEF Emit
  <2>3. s.flags # "noflags"
    BY <2>1
  <2> HIDE DEF s
  <2>4. Ordered(Append(tab, s), c)
    BY <2>1, AppendOrdered
  <2>5. NoFiller(Append(tab, s))
    BY <2>1, <2>3, AppendNoFiller
  <2>6. \A x \in Nat : HoldsIn(Append(tab, s), x)
          <=> HoldsIn(tab, x) \/ (base <= x /\ x < base + len)
    BY <2>1, AppendHolds DEF In
  <2>7. /\ Append(tab, s) \in Seq(Rec) /\ Len(tab) \in Nat
        /\ Len(Append(tab, s)) = Len(tab) + 1
    BY <2>1, AppendFacts
  <2> QED
    BY <2>2, <2>4, <2>5, <2>6, <2>7
<1>2. CASE ~(len > 0)
  <2>1. Emit(tab, base, len, node) = tab /\ Len(tab) \in Nat
    BY <1>2 DEF Emit
  <2>2. ASSUME NEW k \in 1 .. Len(tab)
        PROVE  tab[k].base + tab[k].len <= c
    <3>1. tab[k].base \in Nat /\ tab[k].len \in Nat
      <4>1. tab[k] \in Rec
        OBVIOUS
      <4> QED
        BY <4>1 DEF Rec
    <3>2. tab[k].base + tab[k].len <= b
      BY DEF Ordered
    <3> QED
      BY <3>1, <3>2
  <2>3. Ordered(tab, c)
    BY <2>2 DEF Ordered
  <2>4. \A x \in Nat : ~(base <= x /\ x < base + len)
    BY <1>2
  <2> QED
    BY <2>1, <2>3, <2>4
<1> QED
  BY <1>1, <1>2

-----------------------------------------------------------------------------
Cut(base, end) == base <= low /\ end > low
Covered(base, end, x) ==
  IF Cut(base, end)
  THEN (base <= x /\ x < low) \/ (high <= x /\ x < high + (end - low))
  ELSE base <= x /\ x < end

LEMMA CutFacts ==
  ASSUME low \in Nat, high \in Nat, low <= high, i \in Nat,
         NEW tab \in Seq(Rec), NEW base \in Nat, NEW end \in Nat, base <= end,
         Ordered(tab, base), NoFiller(tab), CutPciHole(tab, base, end)
  PROVE  /\ table' \in Seq(Rec) /\ nextBase' \in Nat
         /\ Ordered(table', nextBase') /\ NoFiller(table')
         /\ Len(tab) \in Nat /\ Len(table') \in Nat
         /\ Len(table') <= Len(tab) + (IF Cut(base, end) THEN 2 ELSE 1)
         /\ nextBase' = IF Cut(base, end) THEN high + (end - low) ELSE end
         /\ \A x \in Nat : HoldsIn(table', x)
              <=> HoldsIn(tab, x) \/ Covered(base, end, x)
<1>1. CASE Cut(base, end)
  <2> DEFINE first == Emit(tab, base, low - base, i)
             top == high + (end - low)
  <2>1. /\ table' = Emit(first, high, end - low, i)
        /\ nextBase' = top
    BY <1>1 DEF CutPciHole, Cut
  <2>2. /\ low - base \in Int /\ base + (low - base) = low /\ base <= low
        /\ end - low \in Int /\ top \in Nat /\ high <= top
    BY <1>1 DEF Cut
  <2>3. /\ first \in Seq(Rec) /\ Len(tab) \in Nat /\ Len(first) \in Nat
        /\ Len(first) <= Len(tab) + 1
        /\ Ordered(first, low) /\ NoFiller(first)
        /\ \A x \in Nat : HoldsIn(first, x)
             <=> HoldsIn(tab, x) \/ (base <= x /\ x < low)
    <3>1. base <= base /\ base + (low - base) <= low
      BY <2>2
    <3> QED
      BY <2>2, <3>1, EmitFacts
  <2> HIDE DEF first
  <2>4. /\ table' \in Seq(Rec) /\ Len(table') \in Nat
        /\ Len(table') <= Len(first) + 1
        /\ Ordered(table', top) /\ NoFiller(table')
        /\ \A x \in Nat : HoldsIn(table', x)
             <=> HoldsIn(first, x) \/ (high <= x /\ x < top)
    <3>1. low <= top /\ high + (end - low) <= top
      BY <2>2
    <3> QED
      BY <2>1, <2>2, <2>3, <3>1, EmitFacts
  <2>5. \A x \in Nat : HoldsIn(table', x)
          <=> HoldsIn(tab, x) \/ Covered(base, end, x)
    BY <1>1, <2>3, <2>4 DEF Covered
  <2> QED
    BY <1>1, <2>1, <2>2, <2>3, <2>4, <2>5
<1>2. CASE ~Cut(base, end)
  <2>1. table' = Emit(tab, base, end - base, i) /\ nextBase' = end
    BY <1>2 DEF CutPciHole, Cut
  <2>2. /\ end - base \in Int /\ base + (end - base) = end
        /\ base <= base /\ end <= end
    OBVIOUS
  <2>3. /\ table' \in Seq(Rec) /\ Len(tab) \in Nat /\ Len(table') \in Nat
        /\ Len(table') <= Len(tab) + 1
        /\ Ordered(table', end) /\ NoFiller(table')
        /\ \A x \in Nat : HoldsIn(table', x)
             <=> HoldsIn(tab, x) \/ (base <= x /\ x < end)
    BY <2>1, <2>2, EmitFacts
  <2>4. \A x \in Nat : HoldsIn(table', x)
          <=> HoldsIn(tab, x) \/ Covered(base, end, x)
    BY <1>2, <2>3 DEF Covered
  <2> QED
    BY <1>2, <2>1, <2>3, <2>4
<1> QED
  BY <1>1, <1>2

-----------------------------------------------------------------------------
(* The machine's memory map.                                               *)
Map ==
  /\ low \in Nat /\ high \in Nat /\ low <= high
  /\ sizes \in Sizes

Hole(x) == HoleStart <= x /\ x < HoleEnd
PciHole(x) == low <= x /\ x < high
Cover(tab, b) ==
  HoleEnd <= low =>
    /\ \A x \in Nat : HoldsIn(tab, x) <=> x < b /\ ~Hole(x) /\ ~PciHole(x)
    /\ b <= HoleStart \/ b >= HoleEnd
    /\ b <= low \/ b > high

(* Each hole costs one structure more, once it is behind.                  *)
Passed(b) ==
  (IF b > HoleStart THEN 1 ELSE 0) + (IF b > low THEN 1 ELSE 0)
Count ==
  /\ pc = "nodes" => NoFiller(table) /\ Len(table) <= i + Passed(nextBase)
  /\ pc = "fill" =>
       /\ Len(table) <= Len(sizes) + 2
       /\ NoFiller(table) \/ Len(table) + extra <= Len(sizes) + 2
  /\ pc = "done" => FixedLength

(* The window comes behind structures that ascend.                         *)
Window == Structure(device.base, device.len, Len(sizes) - 1, "hotpluggable")
Closed ==
  \E tab \in Seq(Rec) :
    /\ Ordered(tab, nextBase)
    /\ table = IF device = Null THEN tab ELSE Append(tab, Window)

IInv ==
  /\ TypeOK /\ Map
  /\ IF pc = "done" THEN Closed ELSE Ordered(table, nextBase)
  /\ Cover(table, nextBase)
  /\ Count

LEMMA NodeFacts ==
  ASSUME IInv, pc = "nodes", i < Len(sizes)
  PROVE  /\ Base \in Nat /\ End \in Nat /\ Base <= End
         /\ i \in Nat /\ Len(sizes) \in Nat /\ i + 1 \in 0 .. Len(sizes)
         /\ table \in Seq(Rec) /\ Len(table) \in Nat /\ NoFiller(table)
         /\ low \in Nat /\ high \in Nat /\ low <= high
         /\ Ordered(table, Base)
<1>1. sizes \in Seq(Nat) /\ nextBase \in Nat /\ i \in 0 .. Len(sizes)
  BY DEF IInv, TypeOK
<1>2. sizes[i + 1] \in Nat
  BY <1>1
<1>3. table \in Seq(Rec)
  BY DEF IInv, TypeOK, Rec
<1> QED
  BY <1>1, <1>2, <1>3 DEF IInv, Map, Count, Base, End

(* What is left of a step of the loop when the new table is known.         *)
LEMMA NodeDone ==
  ASSUME IInv, pc = "nodes", i < Len(sizes), NextNode,
         table' \in Seq(Rec), nextBase' \in Nat,
         Ordered(table', nextBase'), NoFiller(table'),
         Cover(table', nextBase'),
         Len(table') <= i + 1 + Passed(nextBase')
  PROVE  IInv'
<1>1. /\ i' = i + 1 /\ pc' = "nodes" /\ UNCHANGED <<sizes, low, high, extra>>
      /\ UNCHANGED device
  BY DEF NextNode, Input
<1>2. TypeOK'
  BY <1>1, NodeFacts DEF IInv, TypeOK, Rec
<1>3. Map'
  BY <1>1 DEF IInv, Map
<1>4. Ordered(table, nextBase)'
  BY DEF Ordered
<1>5. Cover(table, nextBase)'
  BY <1>1 DEF Cover, HoldsIn, PciHole, Hole, In, IsRam
<1>6. Count'
  BY <1>1 DEF Count, NoFiller, Passed
<1> QED
  BY <1>1, <1>2, <1>3, <1>4, <1>5, <1>6 DEF IInv

LEMMA NodeStep ==
  ASSUME IInv, Node
  PROVE  IInv'
<1> USE HoleAssumption
<1>1. /\ pc = "nodes" /\ i < Len(sizes) /\ NextNode
      /\ ~CrossesHole640K /\ CutPciHole(table, Base, End)
  BY DEF Node
<1>2. /\ Base \in Nat /\ End \in Nat /\ Base <= End /\ i \in Nat
      /\ low \in Nat /\ high \in Nat /\ low <= high
      /\ Base = nextBase
  BY <1>1, NodeFacts DEF Base
<1>3. /\ table' \in Seq(Rec) /\ nextBase' \in Nat
      /\ Ordered(table', nextBase') /\ NoFiller(table')
      /\ Len(table) \in Nat /\ Len(table') \in Nat
      /\ Len(table') <= Len(table) + (IF Cut(Base, End) THEN 2 ELSE 1)
      /\ nextBase' = IF Cut(Base, End) THEN high + (End - low) ELSE End
      /\ \A x \in Nat : HoldsIn(table', x)
           <=> HoldsIn(table, x) \/ Covered(Base, End, x)
  BY <1>1, <1>2, NodeFacts, CutFacts
<1>4. Len(table') <= i + 1 + Passed(nextBase')
  <2>1. Len(table) <= i + Passed(Base)
    BY <1>1, <1>2 DEF IInv, Count
  <2>2. CASE Cut(Base, End)
    BY <2>1, <2>2, <1>2, <1>3 DEF Passed, Cut
  <2>3. CASE ~Cut(Base, End)
    BY <2>1, <2>3, <1>2, <1>3 DEF Passed, Cut
  <2> QED
    BY <2>2, <2>3
<1>5. Cover(table', nextBase')
  <2> SUFFICES ASSUME HoleEnd <= low
      PROVE  /\ \A x \in Nat : HoldsIn(table', x)
                  <=> x < nextBase' /\ ~Hole(x) /\ ~PciHole(x)
             /\ nextBase' <= HoleStart \/ nextBase' >= HoleEnd
             /\ nextBase' <= low \/ nextBase' > high
    BY DEF Cover
  <2>1. /\ \A x \in Nat : HoldsIn(table, x)
             <=> x < Base /\ ~Hole(x) /\ ~PciHole(x)
        /\ Base <= HoleStart \/ Base >= HoleEnd
        /\ Base <= low \/ Base > high
    BY <1>2 DEF IInv, Cover
  <2>2. Base >= HoleEnd \/ (Base <= HoleStart /\ End <= HoleStart)
    BY <2>1, <1>1, <1>2 DEF CrossesHole640K
  <2>3. \A x \in Nat :
          x < Base \/ Covered(Base, End, x) =>
            (x < nextBase' /\ (~(x < Base) => ~Hole(x) /\ ~PciHole(x)))
    BY <2>1, <2>2, <1>2, <1>3 DEF Covered, Cut, Hole, PciHole
  <2>4. \A x \in Nat :
          x < nextBase' /\ ~(x < Base) /\ ~PciHole(x) => Covered(Base, End, x)
    BY <2>1, <2>2, <1>2, <1>3 DEF Covered, Cut, Hole, PciHole
  <2>5. \A x \in Nat : Covered(Base, End, x) => ~(x < Base)
    BY <1>2 DEF Covered, Cut
  <2>6. /\ nextBase' <= HoleStart \/ nextBase' >= HoleEnd
        /\ nextBase' <= low \/ nextBase' > high
    BY <2>1, <2>2, <1>2, <1>3 DEF Cut
  <2> QED
    BY <2>1, <2>3, <2>4, <2>5, <2>6, <1>3
<1> QED
  BY <1>1, <1>3, <1>4, <1>5, NodeDone

LEMMA NodeAcrossStep ==
  ASSUME IInv, NodeAcross
  PROVE  IInv'
<1> USE HoleAssumption
<1> DEFINE first == Emit(table, Base, HoleStart - Base, i)
<1>1. /\ pc = "nodes" /\ i < Len(sizes) /\ NextNode
      /\ Base <= HoleStart /\ End > HoleEnd
      /\ CutPciHole(first, HoleEnd, End)
  BY DEF NodeAcross, CrossesHole640K
<1>2. /\ Base \in Nat /\ End \in Nat /\ i \in Nat
      /\ low \in Nat /\ high \in Nat /\ low <= high
      /\ Base = nextBase /\ HoleEnd <= End
      /\ HoleStart - Base \in Int /\ Base + (HoleStart - Base) = HoleStart
      /\ Base <= Base /\ Base <= HoleEnd /\ HoleStart <= HoleEnd
  BY <1>1, NodeFacts DEF Base
<1>3. /\ first \in Seq(Rec) /\ Len(table) \in Nat /\ Len(first) \in Nat
      /\ Len(first) <= Len(table) + 1
      /\ Ordered(first, HoleEnd) /\ NoFiller(first)
      /\ \A x \in Nat : HoldsIn(first, x)
           <=> HoldsIn(table, x) \/ (Base <= x /\ x < HoleStart)
  <2>1. table \in Seq(Rec) /\ NoFiller(table) /\ Ordered(table, Base)
    BY <1>1, NodeFacts
  <2>2. Base + (HoleStart - Base) <= HoleEnd
    BY <1>2
  <2> QED
    BY <2>1, <2>2, <1>2, EmitFacts
<1> HIDE DEF first
<1>4. /\ table' \in Seq(Rec) /\ nextBase' \in Nat
      /\ Ordered(table', nextBase') /\ NoFiller(table')
      /\ Len(table') \in Nat
      /\ Len(table') <= Len(first) + (IF Cut(HoleEnd, End) THEN 2 ELSE 1)
      /\ nextBase' = IF Cut(HoleEnd, End) THEN high + (End - low) ELSE End
      /\ \A x \in Nat : HoldsIn(table', x)
           <=> HoldsIn(first, x) \/ Covered(HoleEnd, End, x)
  BY <1>1, <1>2, <1>3, CutFacts
<1>5. Len(table') <= i + 1 + Passed(nextBase')
  <2>1. Len(table) <= i + Passed(Base)
    BY <1>1, <1>2 DEF IInv, Count
  <2>2. CASE Cut(HoleEnd, End)
    BY <2>1, <2>2, <1>1, <1>2, <1>3, <1>4 DEF Passed, Cut
  <2>3. CASE ~Cut(HoleEnd, End)
    BY <2>1, <2>3, <1>1, <1>2, <1>3, <1>4 DEF Passed, Cut
  <2> QED
    BY <2>2, <2>3
<1>6. Cover(table', nextBase')
  <2> SUFFICES ASSUME HoleEnd <= low
      PROVE  /\ \A x \in Nat : HoldsIn(table', x)
                  <=> x < nextBase' /\ ~Hole(x) /\ ~PciHole(x)
             /\ nextBase' <= HoleStart \/ nextBase' >= HoleEnd
             /\ nextBase' <= low \/ nextBase' > high
    BY DEF Cover
  <2>1. \A x \in Nat : HoldsIn(table, x)
          <=> x < Base /\ ~Hole(x) /\ ~PciHole(x)
    BY <1>2 DEF IInv, Cover
  <2>2. \A x \in Nat : HoldsIn(table', x) <=>
          x < HoleStart \/ Covered(HoleEnd, End, x)
    <3>1. \A x \in Nat : x < Base => ~Hole(x) /\ ~PciHole(x)
      BY <1>1, <1>2 DEF Hole, PciHole
    <3>2. \A x \in Nat : x < Base \/ (Base <= x /\ x < HoleStart)
            <=> x < HoleStart
      BY <1>1, <1>2
    <3> QED
      BY <3>1, <3>2, <2>1, <1>3, <1>4
  <2>3. \A x \in Nat : x < HoleStart \/ Covered(HoleEnd, End, x)
          <=> x < nextBase' /\ ~Hole(x) /\ ~PciHole(x)
    <3>1. CASE Cut(HoleEnd, End)
      BY <3>1, <1>1, <1>2, <1>4 DEF Covered, Cut, Hole, PciHole
    <3>2. CASE ~Cut(HoleEnd, End)
      BY <3>2, <1>1, <1>2, <1>4 DEF Covered, Cut, Hole, PciHole
    <3> QED
      BY <3>1, <3>2
  <2>4. /\ nextBase' >= HoleEnd
        /\ nextBase' <= low \/ nextBase' > high
    BY <1>1, <1>2, <1>4 DEF Cut
  <2> QED
    BY <2>2, <2>3, <2>4
<1> QED
  BY <1>1, <1>4, <1>5, <1>6, NodeDone

LEMMA NodeEndsInHoleStep ==
  ASSUME IInv, NodeEndsInHole
  PROVE  IInv'
<1> USE HoleAssumption
<1>1. /\ pc = "nodes" /\ i < Len(sizes) /\ NextNode
      /\ Base <= HoleStart
      /\ table' = Emit(table, Base, HoleStart - Base, i)
      /\ nextBase' = HoleEnd
  BY DEF NodeEndsInHole, CrossesHole640K
<1>2. /\ Base \in Nat /\ i \in Nat
      /\ low \in Nat /\ high \in Nat /\ low <= high
      /\ Base = nextBase
      /\ HoleStart - Base \in Int /\ Base + (HoleStart - Base) = HoleStart
      /\ Base <= Base /\ Base <= HoleEnd
      /\ Base + (HoleStart - Base) <= HoleEnd
  BY <1>1, NodeFacts DEF Base
<1>3. /\ table' \in Seq(Rec) /\ Len(table) \in Nat /\ Len(table') \in Nat
      /\ Len(table') <= Len(table) + 1
      /\ Ordered(table', HoleEnd) /\ NoFiller(table')
      /\ \A x \in Nat : HoldsIn(table', x)
           <=> HoldsIn(table, x) \/ (Base <= x /\ x < HoleStart)
  <2>1. table \in Seq(Rec) /\ NoFiller(table) /\ Ordered(table, Base)
    BY <1>1, NodeFacts
  <2> QED
    BY <2>1, <1>1, <1>2, EmitFacts
<1>4. Len(table') <= i + 1 + Passed(nextBase')
  <2>1. Len(table) <= i + Passed(Base)
    BY <1>1, <1>2 DEF IInv, Count
  <2> QED
    BY <2>1, <1>1, <1>2, <1>3 DEF Passed
<1>5. Cover(table', nextBase')
  <2> SUFFICES ASSUME HoleEnd <= low
      PROVE  \A x \in Nat : HoldsIn(table', x)
                  <=> x < HoleEnd /\ ~Hole(x) /\ ~PciHole(x)
    BY <1>1, <1>2 DEF Cover
  <2>1. \A x \in Nat : HoldsIn(table, x)
          <=> x < Base /\ ~Hole(x) /\ ~PciHole(x)
    BY <1>2 DEF IInv, Cover
  <2>2. \A x \in Nat : x < Base => ~Hole(x) /\ ~PciHole(x)
    BY <1>1, <1>2 DEF Hole, PciHole
  <2>3. \A x \in Nat : x < Base \/ (Base <= x /\ x < HoleStart)
          <=> x < HoleEnd /\ ~Hole(x) /\ ~PciHole(x)
    BY <1>1, <1>2 DEF Hole, PciHole
  <2> QED
    BY <2>1, <2>2, <2>3, <1>3
<1> QED
  BY <1>1, <1>3, <1>4, <1>5, NodeDone

-----------------------------------------------------------------------------
(* A structure that is not of RAM leaves the cover as it is.               *)
LEMMA OtherAppended ==
  ASSUME IInv, NEW s \in Rec, ~IsRam(s)
  PROVE  /\ Append(table, s) \in Seq(Rec)
         /\ Len(table) \in Nat /\ Len(Append(table, s)) = Len(table) + 1
         /\ Cover(Append(table, s), nextBase)
<1>1. table \in Seq(Rec) /\ nextBase \in Nat
  BY DEF IInv, TypeOK, Rec
<1>2. \A x \in Nat : HoldsIn(Append(table, s), x) <=> HoldsIn(table, x)
  BY <1>1, AppendHolds
<1>3. Cover(Append(table, s), nextBase)
  BY <1>2 DEF IInv, Cover
<1>4. /\ Append(table, s) \in Seq(Rec) /\ Len(table) \in Nat
      /\ Len(Append(table, s)) = Len(table) + 1
  BY <1>1, AppendFacts
<1> QED
  BY <1>3, <1>4

LEMMA DevicesStep ==
  ASSUME IInv, DeviceStructures
  PROVE  IInv'
<1>1. /\ pc = "nodes" /\ i = Len(sizes) /\ extra' \in Devices /\ pc' = "fill"
      /\ UNCHANGED <<sizes, low, high, device, i, nextBase, table>>
  BY DEF DeviceStructures, Input
<1>2. TypeOK'
  BY <1>1, MapAssumption DEF IInv, TypeOK
<1>3. Map'
  BY <1>1 DEF IInv, Map
<1>4. Ordered(table, nextBase)' /\ Cover(table, nextBase)'
  BY <1>1 DEF IInv, Ordered, Cover, HoldsIn, In, IsRam, Hole, PciHole
<1>5. Count'
  <2>1. NoFiller(table) /\ Len(table) <= Len(sizes) + Passed(nextBase)
    BY <1>1 DEF IInv, Count
  <2>2. Passed(nextBase) \in 0 .. 2 /\ Len(sizes) \in Nat /\ Len(table) \in Nat
    BY DEF Passed, IInv, TypeOK
  <2>3. Len(table) <= Len(sizes) + 2
    BY <2>1, <2>2
  <2>4. NoFiller(table)' /\ (Len(table) <= Len(sizes) + 2)'
    BY <1>1, <2>1, <2>3 DEF NoFiller
  <2> QED
    BY <1>1, <2>4 DEF Count
<1> QED
  BY <1>1, <1>2, <1>3, <1>4, <1>5 DEF IInv

LEMMA FillStep ==
  ASSUME IInv, Fill
  PROVE  IInv'
<1> DEFINE s == Structure(0, 0, 0, "noflags")
<1>1. /\ pc = "fill" /\ pc' = "fill"
      /\ Len(table) + extra < Len(sizes) + 2
      /\ table' = Append(table, s)
      /\ UNCHANGED <<sizes, low, high, device, i, nextBase, extra>>
  BY DEF Fill, Missing, Input
<1>2. s \in Rec /\ s.base = 0 /\ s.len = 0 /\ ~IsRam(s)
  BY DEF Rec, Structure, Flags, IsRam
<1> HIDE DEF s
<1>3. /\ table' \in Seq(Rec) /\ Len(table) \in Nat
      /\ Len(table') = Len(table) + 1 /\ Cover(table', nextBase)
  BY <1>1, <1>2, OtherAppended
<1>4. Ordered(table', nextBase)
  <2>1. table \in Seq(Rec) /\ nextBase \in Nat /\ Ordered(table, nextBase)
    BY <1>1 DEF IInv, TypeOK, Rec
  <2> QED
    BY <1>1, <1>2, <2>1, AppendOrdered
<1>5. TypeOK'
  BY <1>1, <1>3 DEF IInv, TypeOK, Rec
<1>6. Map'
  BY <1>1 DEF IInv, Map
<1>7. Ordered(table, nextBase)' /\ Cover(table, nextBase)'
  BY <1>1, <1>3, <1>4 DEF Ordered, Cover, HoldsIn, In, IsRam, Hole, PciHole
<1>8. Count'
  <2>1. extra \in Nat /\ Len(sizes) \in Nat
    BY DEF IInv, TypeOK
  <2>2. Len(table') <= Len(sizes) + 2 /\ Len(table') + extra <= Len(sizes) + 2
    BY <1>1, <1>3, <2>1
  <2> QED
    BY <1>1, <2>2 DEF Count
<1> QED
  BY <1>1, <1>5, <1>6, <1>7, <1>8 DEF IInv

LEMMA WindowFacts ==
  ASSUME TypeOK, device # Null
  PROVE  /\ Window \in Rec /\ ~IsRam(Window)
         /\ Window.base = device.base /\ Window.len = device.len
         /\ Window.flags = "hotpluggable"
<1>1. device.base \in Nat /\ device.len \in Nat
  BY DEF TypeOK
<1>2. Len(sizes) - 1 \in Nat
  BY DEF TypeOK
<1> QED
  BY <1>1, <1>2 DEF Window, Structure, Rec, Flags, IsRam

LEMMA HotplugStep ==
  ASSUME IInv, HotplugWindow
  PROVE  IInv'
<1> DEFINE one == IF device = Null THEN 0 ELSE 1
<1>1. /\ pc = "fill" /\ pc' = "done"
      /\ Len(table) + extra >= Len(sizes) + 2
      /\ table' = IF device = Null THEN table ELSE Append(table, Window)
      /\ UNCHANGED <<sizes, low, high, device, i, nextBase, extra>>
  <2>1. Len(table) + extra \in Nat /\ Len(sizes) + 2 \in Nat
    BY DEF IInv, TypeOK
  <2> QED
    BY <2>1 DEF HotplugWindow, Missing, Input, Window
<1>2. /\ TypeOK /\ table \in Seq(Rec) /\ extra \in Nat /\ Len(sizes) \in Nat
      /\ Len(table) \in Nat
      /\ Ordered(table, nextBase) /\ Cover(table, nextBase)
  BY <1>1 DEF IInv, TypeOK, Rec
<1>3. /\ table' \in Seq(Rec) /\ Len(table') = Len(table) + one
      /\ Cover(table', nextBase)
      /\ NoFiller(table) => NoFiller(table')
  <2>1. CASE device = Null
    BY <1>1, <1>2, <2>1
  <2>2. CASE device # Null
    <3>1. Window \in Rec /\ ~IsRam(Window) /\ Window.flags # "noflags"
      BY <1>2, <2>2, WindowFacts
    <3>2. NoFiller(table) => NoFiller(Append(table, Window))
      BY <1>2, <3>1, AppendNoFiller
    <3> QED
      BY <1>1, <2>2, <3>1, <3>2, OtherAppended
  <2> QED
    BY <2>1, <2>2
<1>4. TypeOK'
  BY <1>1, <1>3 DEF IInv, TypeOK, Rec
<1>5. Map'
  BY <1>1 DEF IInv, Map
<1>6. Cover(table, nextBase)'
  BY <1>1, <1>3 DEF Cover, HoldsIn, In, IsRam, Hole, PciHole
<1>7. Closed'
  BY <1>1, <1>2 DEF Closed, Window, Ordered
<1>8. Count'
  <2>1. one \in {0, 1} /\ one' = one
    BY <1>1
  <2> HIDE DEF one
  <2>2. /\ Len(table) <= Len(sizes) + 2
        /\ NoFiller(table) \/ Len(table) + extra <= Len(sizes) + 2
    BY <1>1 DEF IInv, Count
  <2>3. Len(table') + extra - one = Len(table) + extra
    BY <1>2, <1>3, <2>1
  <2>4. /\ extra = 0 => Len(table) + extra = Len(sizes) + 2
        /\ Len(table) + extra \in Len(sizes) + 2 .. Len(sizes) + 2 + extra
        /\ Len(table) + extra > Len(sizes) + 2 => NoFiller(table')
    BY <1>1, <1>2, <1>3, <2>2
  <2>5. (LET own == Len(table) + extra - one
             reserved == Len(sizes) + 2
         IN  /\ extra = 0 => own = reserved
             /\ own \in reserved .. reserved + extra
             /\ own > reserved => NoFiller(table))'
    BY <1>1, <2>1, <2>3, <2>4 DEF NoFiller
  <2>6. FixedLength'
    BY <2>5 DEF FixedLength, NoFiller, one
  <2> QED
    BY <1>1, <2>6 DEF Count
<1> QED
  BY <1>1, <1>4, <1>5, <1>6, <1>7, <1>8 DEF IInv

(* The sum Before is defined by recursion, so that a function with its     *)
(* equation has to exist.                                                  *)
LEMMA BeforeFacts ==
  ASSUME sizes \in Seq(Nat)
  PROVE  /\ Before \in [0 .. Len(sizes) -> Nat]
         /\ Before[0] = 0
         /\ \A k \in 1 .. Len(sizes) : Before[k] = Before[k - 1] + sizes[k]
<1> DEFINE n == Len(sizes)
           P(f) == f = [k \in 0 .. n |-> IF k = 0 THEN 0 ELSE f[k - 1] + sizes[k]]
           b == CHOOSE f : P(f)
           step == [k \in 1 .. n |-> [x \in Nat |-> x + sizes[k]]]
<1>1. n \in Nat /\ \A k \in 1 .. n : sizes[k] \in Nat
  OBVIOUS
<1>2. Before = b
  BY DEF Before
<1>3. step \in [1 .. n -> [Nat -> Nat]]
  BY <1>1
<1>4. PICK r \in [0 .. n -> Nat] : Iterates(r, n, 0, step)
  <2>1. 0 \in Nat
    OBVIOUS
  <2> HIDE DEF step, n
  <2> QED BY <1>1, <1>3, <2>1, Iteration
<1>5. P(r)
  <2>1. \A k \in 1 .. n : r[k] = r[k - 1] + sizes[k]
    <3>1. \A k \in 1 .. n : r[k - 1] \in Nat
      BY <1>1
    <3> QED BY <1>4, <3>1 DEF Iterates
  <2> HIDE DEF n
  <2> QED BY <1>1, <1>4, <2>1 DEF Iterates
<1>6. P(b)
  <2> HIDE DEF P
  <2> QED BY <1>5
<1> HIDE DEF b
<1>7. b[0] = 0 /\ \A k \in 1 .. n : b[k] = b[k - 1] + sizes[k]
  <2> HIDE DEF n
  <2> QED BY <1>1, <1>6
<1>8. \A k \in 0 .. n : b[k] \in Nat
  <2> DEFINE T == {k \in Nat : k <= n => b[k] \in Nat}
  <2>1. 0 \in T
    BY <1>7
  <2>2. ASSUME NEW k \in 0 .. n - 1, k \in T PROVE k + 1 \in T
    <3>1. k + 1 \in 1 .. n /\ (k + 1) - 1 = k
      BY <1>1
    <3>2. b[k] \in Nat /\ b[k + 1] = b[k] + sizes[k + 1] /\ sizes[k + 1] \in Nat
      <4> HIDE DEF n
      <4> QED BY <1>1, <1>7, <2>2, <3>1
    <3> HIDE DEF n
    <3> QED BY <3>2
  <2>3. \A k \in 0 .. n : k \in T
    <3> HIDE DEF T, n
    <3> QED BY <1>1, <2>1, <2>2, BoundedInduction
  <2> QED BY <2>3
<1>9. b = [k \in 0 .. n |-> b[k]]
  <2> HIDE DEF n
  <2> QED BY <1>6
<1> QED BY <1>2, <1>7, <1>8, <1>9

(* A node begins where or before a later one does.                         *)
LEMMA BeforeGrows ==
  ASSUME sizes \in Seq(Nat), NEW k \in 0 .. Len(sizes)
  PROVE  Before[k] <= Ram
<1> DEFINE n == Len(sizes)
           T == {m \in Nat : k + m <= n => Before[k] <= Before[k + m]}
<1>1. n \in Nat /\ k \in Nat /\ n - k \in 0 .. n
  OBVIOUS
<1>2. /\ Before \in [0 .. n -> Nat]
      /\ \A j \in 1 .. n : Before[j] = Before[j - 1] + sizes[j] /\ sizes[j] \in Nat
  BY BeforeFacts
<1> HIDE DEF n
<1>3. 0 \in T
  BY <1>1, <1>2
<1>4. ASSUME NEW m \in 0 .. (n - k) - 1, m \in T PROVE m + 1 \in T
  <2>1. /\ k + (m + 1) \in 1 .. n /\ (k + (m + 1)) - 1 = k + m /\ k + m \in 0 .. n
        /\ k + m <= n
    BY <1>1
  <2>2. Before[k] <= Before[k + m] /\ Before[k] \in Nat /\ Before[k + m] \in Nat
    BY <1>1, <1>2, <1>4, <2>1
  <2>3. Before[k + (m + 1)] = Before[k + m] + sizes[k + (m + 1)] /\ sizes[k + (m + 1)] \in Nat
    BY <1>2, <2>1
  <2> QED BY <2>2, <2>3
<1>5. \A m \in 0 .. n - k : m \in T
  <2>1. n - k \in Nat
    BY <1>1
  <2> HIDE DEF T
  <2> QED BY <2>1, <1>3, <1>4, BoundedInduction
<1>6. n - k \in T
  <2>1. n - k \in 0 .. n - k
    BY <1>1
  <2> QED BY <2>1, <1>5
<1>7. k + (n - k) = n
  BY <1>1
<1> QED BY <1>6, <1>7 DEF Ram, n

(* What the machine's memory map is like: some RAM below 4 GiB, more of it *)
(* above only if that is beyond 1 MiB, and device memory behind.           *)
MapFits == low = Ram \/ (low <= Ram /\ low >= HoleEnd)

LEMMA InitMap ==
  ASSUME Init
  PROVE  /\ sizes \in Seq(Nat) \ {<< >>} /\ Len(sizes) \in Nat
         /\ low \in Nat /\ high \in Nat /\ low <= high
         /\ Ram \in Nat /\ Before[0] = 0 /\ MapFits
         /\ device = Null \/ (device \in [base : Nat, len : Nat] /\ RamEnd <= device.base)
<1> USE HoleAssumption, SizesAssumption, MapAssumption, DeviceMemoryAssumption
<1>1. sizes \in Seq(Nat) \ {<< >>} /\ Len(sizes) \in Nat
  BY DEF Init
<1>2. Before[0] = 0 /\ Ram \in Nat
  BY <1>1, BeforeFacts DEF Ram
<1>3. PICK limit \in LowLimits : low \in 0 .. limit /\ low = IF Ram < limit THEN Ram ELSE limit
  BY DEF Init
<1>4. /\ limit \in Nat /\ high \in Nat /\ limit <= high /\ HoleEnd <= limit
      /\ low \in Nat /\ low <= high /\ low <= Ram
  <2>1. limit \in Nat /\ high \in Nat /\ limit <= high /\ HoleEnd <= limit
    BY DEF Init
  <2> QED BY <2>1, <1>2, <1>3
<1>5. MapFits
  BY <1>2, <1>3, <1>4 DEF MapFits
<1>6. ASSUME device # Null
      PROVE  device \in [base : Nat, len : Nat] /\ RamEnd <= device.base
  <2>1. PICK w \in Windows : device = [base |-> RamEnd + w.gap, len |-> w.len]
    BY <1>6 DEF Init
  <2>2. w.gap \in Nat /\ w.len \in Nat
    OBVIOUS
  <2>3. RamEnd \in Nat
    BY <1>2, <1>4 DEF RamEnd
  <2> QED BY <2>1, <2>2, <2>3
<1> QED BY <1>1, <1>2, <1>4, <1>5, <1>6

LEMMA InitHolds == Init => IInv
<1> SUFFICES ASSUME Init PROVE IInv
  OBVIOUS
<1> USE HoleAssumption
<1>1. /\ pc = "nodes" /\ i = 0 /\ nextBase = 0 /\ table = << >> /\ extra = 0
      /\ sizes \in Sizes
  BY DEF Init
<1>3. low \in Nat /\ high \in Nat /\ low <= high
  BY InitMap
<1>5. TypeOK
  BY <1>1, InitMap DEF TypeOK
<1>6. Map
  BY <1>1, <1>3 DEF Map
<1>7. Ordered(table, nextBase)
  BY <1>1 DEF Ordered
<1>8. Cover(table, nextBase)
  BY <1>1, <1>3 DEF Cover, HoldsIn
<1>9. Count
  BY <1>1, <1>3 DEF Count, NoFiller, Passed
<1> QED
  BY <1>1, <1>5, <1>6, <1>7, <1>8, <1>9 DEF IInv

LEMMA Always == Spec => []IInv
<1>1. Init => IInv
  BY InitHolds
<1>2. IInv /\ [Next]_vars => IInv'
  <2> SUFFICES ASSUME IInv, [Next]_vars PROVE IInv'
    OBVIOUS
  <2>1. CASE Node
    BY <2>1, NodeStep
  <2>2. CASE NodeAcross
    BY <2>2, NodeAcrossStep
  <2>3. CASE NodeEndsInHole
    BY <2>3, NodeEndsInHoleStep
  <2>4. CASE DeviceStructures
    BY <2>4, DevicesStep
  <2>5. CASE Fill
    BY <2>5, FillStep
  <2>6. CASE HotplugWindow
    BY <2>6, HotplugStep
  <2>7. CASE UNCHANGED vars
    <3>1. /\ UNCHANGED <<pc, sizes, low, high, device, i, nextBase>>
          /\ UNCHANGED <<table, extra>>
      BY <2>7 DEF vars
    <3>2. TypeOK' /\ Map'
      BY <3>1 DEF IInv, TypeOK, Map
    <3>3. /\ Cover(table, nextBase)'
          /\ (IF pc = "done" THEN Closed ELSE Ordered(table, nextBase))'
      BY <3>1 DEF IInv, Ordered, Closed, Window, Cover, HoldsIn, In, IsRam,
                  Hole, PciHole
    <3>4. Count'
      BY <3>1 DEF IInv, Count, NoFiller, Passed, FixedLength
    <3> QED
      BY <3>2, <3>3, <3>4 DEF IInv
  <2> QED
    BY <2>1, <2>2, <2>3, <2>4, <2>5, <2>6, <2>7 DEF Next
<1> QED
  BY <1>1, <1>2, PTL DEF Spec

(* Every structure has a start, a length and a node of its type, whatever  *)
(* the sizes.                                                              *)
THEOREM TypeCorrect == Spec => []TypeOK
<1>1. IInv => TypeOK
  BY DEF IInv
<1> QED
  BY <1>1, Always, PTL

(* With RAM beyond 1 MiB the structures cover exactly the addresses of the *)
(* nodes' memory, and leave both holes out.                                *)
THEOREM CoverCorrect == Spec => []CoversMap
<1>1. IInv => CoversMap
  <2> SUFFICES ASSUME IInv, HoleEnd <= low, NEW x \in 0 .. nextBase + 1
      PROVE  Holds(x) <=> /\ x < nextBase
                          /\ ~(HoleStart <= x /\ x < HoleEnd)
                          /\ ~(low <= x /\ x < high)
    BY DEF CoversMap
  <2>1. x \in Nat
    BY DEF IInv, TypeOK
  <2> QED
    BY <2>1 DEF IInv, Cover, HoldsIn, Holds, Hole, PciHole
<1> QED
  BY <1>1, Always, PTL

(* However the sizes fall on the holes, a machine without devices has      *)
(* nodes + 2 structures: each hole costs one more, which a filler makes up *)
(* for.  With devices there are up to so many more, and none of them a     *)
(* filler.                                                                 *)
THEOREM LengthCorrect == Spec => []FixedLength
<1>1. IInv => FixedLength
  BY DEF IInv, Count, FixedLength
<1> QED
  BY <1>1, Always, PTL

-----------------------------------------------------------------------------
(* The structures of RAM in a table, as a set.                             *)
Structures(tab) == {tab[k] : k \in {k \in 1 .. Len(tab) : IsRam(tab[k])}}

LEMMA AppendStructures ==
  ASSUME NEW tab \in Seq(Rec), NEW s \in Rec
  PROVE  Structures(Append(tab, s)) = Structures(tab) \cup (IF IsRam(s) THEN {s} ELSE {})
<1> DEFINE new == Append(tab, s)  n == Len(tab)
<1>1. /\ n \in Nat /\ Len(new) = n + 1 /\ new[n + 1] = s
      /\ \A k \in 1 .. n : new[k] = tab[k]
  BY AppendFacts
<1> HIDE DEF new
<1>2. 1 .. n + 1 = (1 .. n) \cup {n + 1}
  BY <1>1
<1>3. Structures(tab) \subseteq Structures(new)
  BY <1>1, <1>2 DEF Structures
<1>4. IsRam(s) => s \in Structures(new)
  <2>1. n + 1 \in 1 .. n + 1
    BY <1>1
  <2> QED BY <2>1, <1>1 DEF Structures
<1>5. ASSUME NEW x \in Structures(new)
      PROVE  x \in Structures(tab) \/ (IsRam(s) /\ x = s)
  <2>1. PICK k \in 1 .. n + 1 : IsRam(new[k]) /\ x = new[k]
    BY <1>1 DEF Structures
  <2>2. CASE k \in 1 .. n
    BY <2>1, <2>2, <1>1 DEF Structures
  <2>3. CASE k = n + 1
    BY <2>1, <2>3, <1>1
  <2> QED BY <2>2, <2>3, <1>2
<1> QED BY <1>3, <1>4, <1>5 DEF new

LEMMA EmitStructures ==
  ASSUME NEW tab \in Seq(Rec), NEW base \in Nat, NEW len \in Int, NEW node \in Nat
  PROVE  /\ Emit(tab, base, len, node) \in Seq(Rec)
         /\ Structures(Emit(tab, base, len, node)) = Structures(tab)
              \cup (IF len > 0 THEN {Structure(base, len, node, "enabled")} ELSE {})
<1>1. CASE len > 0
  <2> DEFINE s == Structure(base, len, node, "enabled")
  <2>1. s \in Rec /\ IsRam(s)
    BY <1>1 DEF Rec, Structure, Flags, IsRam
  <2>2. Emit(tab, base, len, node) = Append(tab, s)
    BY <1>1 DEF Emit
  <2> HIDE DEF s
  <2>3. Append(tab, s) \in Seq(Rec) /\ Structures(Append(tab, s)) = Structures(tab) \cup {s}
    BY <2>1, AppendFacts, AppendStructures
  <2> QED BY <1>1, <2>2, <2>3 DEF s
<1>2. CASE ~(len > 0)
  BY <1>2 DEF Emit
<1> QED BY <1>1, <1>2

(* The premise of RightNode, and what holds of the nodes done under it:    *)
(* the next one begins where its first byte of RAM is mapped, each byte of *)
(* the earlier ones is in a structure of its node, and each structure ends *)
(* with such a byte.                                                       *)
NoneEndsInHole == \A k \in 1 .. Len(sizes) : ~EndsInHole(k)
Position(o) == IF o <= low THEN o ELSE high + (o - low)
Named(tab, k) ==
  \A o \in Before[k - 1] .. Before[k] - 1 :
    \/ HoleStart <= o /\ o < HoleEnd
    \/ \E s \in Structures(tab) : In(AddressOf(o), s) /\ s.node = k - 1
EndsInRam(tab, bound) ==
  \A s \in Structures(tab) :
    \E o \in 0 .. bound - 1 : AddressOf(o) = s.base + s.len - 1

RightSoFar ==
  /\ i = Len(sizes) \/ pc = "nodes"
  /\ MapFits
  /\ NoneEndsInHole =>
       /\ pc = "nodes" => nextBase = Position(Before[i])
       /\ \A k \in 1 .. i : Named(table, k)
       /\ EndsInRam(table, Before[i])

(* What the loop writes for the RAM from offset b to offset e, which is    *)
(* mapped in one piece or cut at the PCI hole.                             *)
Parts(base, end) ==
  IF Cut(base, end)
  THEN {Structure(base, low - base, i, "enabled"), Structure(high, end - low, i, "enabled")}
  ELSE {Structure(base, end - base, i, "enabled")}

LEMMA CutStructures ==
  ASSUME low \in Nat, high \in Nat, i \in Nat,
         NEW tab \in Seq(Rec), NEW base \in Nat, NEW end \in Nat,
         CutPciHole(tab, base, end)
  PROVE  Structures(table') = Structures(tab) \cup {s \in Parts(base, end) : s.len > 0}
<1> DEFINE Full(s) == IF s.len > 0 THEN {s} ELSE {}
<1>1. CASE Cut(base, end)
  <2> DEFINE first == Emit(tab, base, low - base, i)
             x == Structure(base, low - base, i, "enabled")
             y == Structure(high, end - low, i, "enabled")
  <2>1. table' = Emit(first, high, end - low, i)
    BY <1>1 DEF CutPciHole, Cut
  <2>2. low - base \in Int /\ end - low \in Int
    OBVIOUS
  <2>3. x.len = low - base /\ y.len = end - low
    BY DEF Structure
  <2>4. first \in Seq(Rec) /\ Structures(first) = Structures(tab) \cup Full(x)
    BY <2>2, <2>3, EmitStructures
  <2> HIDE DEF first
  <2>5. Structures(table') = Structures(first) \cup Full(y)
    BY <2>1, <2>2, <2>3, <2>4, EmitStructures
  <2>6. Parts(base, end) = {x, y}
    BY <1>1 DEF Parts
  <2> HIDE DEF x, y
  <2> QED BY <2>4, <2>5, <2>6
<1>2. CASE ~Cut(base, end)
  <2> DEFINE x == Structure(base, end - base, i, "enabled")
  <2>1. table' = Emit(tab, base, end - base, i)
    BY <1>2 DEF CutPciHole, Cut
  <2>2. end - base \in Int
    OBVIOUS
  <2>3. x.len = end - base
    BY DEF Structure
  <2>4. Structures(table') = Structures(tab) \cup Full(x)
    BY <2>1, <2>2, <2>3, EmitStructures
  <2>5. Parts(base, end) = {x}
    BY <1>2 DEF Parts
  <2> HIDE DEF x
  <2> QED BY <2>4, <2>5
<1> QED BY <1>1, <1>2

(* These parts are where the offsets are mapped.                           *)
MapsOffsets(base, end, b, e) ==
  /\ (IF Cut(base, end) THEN high + (end - low) ELSE end) = Position(e)
  /\ \A o \in b .. e - 1 : \E s \in Parts(base, end) :
       s.len > 0 /\ In(AddressOf(o), s) /\ s.node = i
  /\ \A s \in Parts(base, end) : s.len > 0 =>
       \E o \in b .. e - 1 : AddressOf(o) = s.base + s.len - 1

LEMMA PartsRight ==
  ASSUME low \in Nat, high \in Nat, low <= high, i \in Nat,
         NEW b \in Nat, NEW e \in Nat, b <= e,
         NEW base, base = Position(b), NEW end, end = base + (e - b)
  PROVE  base \in Nat /\ end \in Nat /\ MapsOffsets(base, end, b, e)
<1>0. base \in Nat /\ end \in Nat
  BY DEF Position
<1>1. CASE Cut(base, end)
  <2> DEFINE x == Structure(base, low - base, i, "enabled")
             y == Structure(high, end - low, i, "enabled")
  <2>1. Parts(base, end) = {x, y}
    BY <1>1 DEF Parts
  <2>2. /\ x.base = base /\ x.len = low - base /\ x.node = i
        /\ y.base = high /\ y.len = end - low /\ y.node = i
    BY DEF Structure
  <2>3. b <= low /\ base = b /\ end = e /\ low < e
    BY <1>1 DEF Cut, Position
  <2> HIDE DEF x, y
  <2>4. ASSUME NEW o \in b .. e - 1
        PROVE  \E s \in {x, y} : s.len > 0 /\ In(AddressOf(o), s) /\ s.node = i
    <3>1. CASE o < low
      <4>1. x.len > 0 /\ In(AddressOf(o), x)
        BY <3>1, <2>2, <2>3 DEF In, AddressOf
      <4> QED BY <4>1, <2>2
    <3>2. CASE ~(o < low)
      <4>1. y.len > 0 /\ In(AddressOf(o), y)
        BY <3>2, <2>2, <2>3 DEF In, AddressOf
      <4> QED BY <4>1, <2>2
    <3> QED BY <3>1, <3>2
  <2>5. x.len > 0 => low - 1 \in b .. e - 1 /\ AddressOf(low - 1) = x.base + x.len - 1
    BY <2>2, <2>3 DEF AddressOf
  <2>6. e - 1 \in b .. e - 1 /\ AddressOf(e - 1) = y.base + y.len - 1
    BY <2>2, <2>3 DEF AddressOf
  <2>7. high + (end - low) = Position(e)
    BY <2>3 DEF Position
  <2> QED BY <1>0, <1>1, <2>1, <2>4, <2>5, <2>6, <2>7 DEF MapsOffsets
<1>2. CASE ~Cut(base, end)
  <2> DEFINE x == Structure(base, end - base, i, "enabled")
  <2>1. Parts(base, end) = {x}
    BY <1>2 DEF Parts
  <2>2. x.base = base /\ x.len = end - base /\ x.node = i
    BY DEF Structure
  <2>3. end - base = e - b
    BY <1>0
  <2>4. (e <= low /\ base = b) \/ (b > low /\ base = high + (b - low)) \/ (b = e)
    BY <1>0, <1>2 DEF Cut, Position
  <2> HIDE DEF x
  <2>5. ASSUME NEW o \in b .. e - 1
        PROVE  x.len > 0 /\ In(AddressOf(o), x)
    BY <1>0, <2>2, <2>3, <2>4 DEF In, AddressOf
  <2>6. x.len > 0 => e - 1 \in b .. e - 1 /\ AddressOf(e - 1) = x.base + x.len - 1
    BY <1>0, <2>2, <2>3, <2>4 DEF AddressOf
  <2>7. end = Position(e)
    BY <1>0, <2>3, <2>4 DEF Position
  <2> QED BY <1>0, <1>2, <2>1, <2>2, <2>5, <2>6, <2>7 DEF MapsOffsets
<1> QED BY <1>1, <1>2

-----------------------------------------------------------------------------
(* The offsets of the next node's RAM.                                     *)
LEMMA NextRam ==
  ASSUME IInv, pc = "nodes", i < Len(sizes)
  PROVE  /\ i \in Nat /\ i \in 0 .. Len(sizes) /\ i + 1 \in 1 .. Len(sizes)
         /\ Before[i] \in Nat /\ Before[i + 1] \in Nat /\ Ram \in Nat
         /\ Before[i] <= Before[i + 1] /\ Before[i + 1] <= Ram
         /\ End = Base + (Before[i + 1] - Before[i])
<1>1. /\ sizes \in Seq(Nat) /\ i \in 0 .. Len(sizes) /\ Len(sizes) \in Nat
      /\ i \in Nat /\ i + 1 \in 1 .. Len(sizes) /\ (i + 1) - 1 = i
      /\ sizes[i + 1] \in Nat /\ nextBase \in Nat
  BY DEF IInv, TypeOK
<1>2. /\ Before \in [0 .. Len(sizes) -> Nat]
      /\ Before[i + 1] = Before[i] + sizes[i + 1]
  BY <1>1, BeforeFacts
<1>3. Before[i + 1] <= Ram
  BY <1>1, BeforeGrows
<1>4. Before[i] \in Nat /\ Before[i + 1] \in Nat /\ Ram \in Nat
  <2>1. i \in 0 .. Len(sizes) /\ i + 1 \in 0 .. Len(sizes) /\ Len(sizes) \in 0 .. Len(sizes)
    BY <1>1
  <2>2. \A k \in 0 .. Len(sizes) : Before[k] \in Nat
    BY <1>2
  <2> QED BY <2>1, <2>2 DEF Ram
<1> QED BY <1>1, <1>2, <1>3, <1>4 DEF Base, End

(* The node that is next under NoneEndsInHole: where its RAM lies, and that*)
(* neither it nor the RAM below 4 GiB ends in the hole below 1 MiB.        *)
LEMMA NextNodeRam ==
  ASSUME IInv, RightSoFar, NoneEndsInHole, pc = "nodes", i < Len(sizes)
  PROVE  /\ Before[i] \in Nat /\ Before[i + 1] \in Nat /\ Before[i] <= Before[i + 1]
         /\ Base = Position(Before[i])
         /\ End = Base + (Before[i + 1] - Before[i])
         /\ Before[i + 1] <= Ram /\ Ram \in Nat /\ low <= Ram
         /\ Before[i] <= HoleStart \/ HoleEnd <= Before[i]
         /\ Before[i + 1] <= HoleStart \/ HoleEnd <= Before[i + 1]
         /\ HoleStart < Ram => HoleEnd <= low
         /\ low = Ram \/ HoleEnd <= low
<1> USE HoleAssumption
<1>1. /\ sizes \in Seq(Nat) /\ i \in 0 .. Len(sizes) /\ Len(sizes) \in Nat
      /\ i + 1 \in 1 .. Len(sizes) /\ (i + 1) - 1 = i
      /\ low \in Nat
  BY DEF IInv, TypeOK, Map
<1>2. Before \in [0 .. Len(sizes) -> Nat] /\ Before[0] = 0
  BY <1>1, BeforeFacts
<1>4. /\ Before[i] \in Nat /\ Before[i + 1] \in Nat /\ Ram \in Nat
      /\ Before[i] <= Before[i + 1] /\ Before[i + 1] <= Ram
      /\ End = Base + (Before[i + 1] - Before[i])
  BY NextRam
<1>5. \A k \in 1 .. Len(sizes) : Before[k] <= HoleStart \/ HoleEnd <= Before[k]
  <2>1. \A k \in 1 .. Len(sizes) : Before[k] \in Nat
    BY <1>1, <1>2
  <2> QED BY <2>1 DEF NoneEndsInHole, EndsInHole
<1>6. Before[i] <= HoleStart \/ HoleEnd <= Before[i]
  <2>1. i = 0 \/ i \in 1 .. Len(sizes)
    BY <1>1
  <2> QED BY <1>2, <1>5, <2>1
<1>7. Ram <= HoleStart \/ HoleEnd <= Ram
  <2>1. Len(sizes) \in 1 .. Len(sizes)
    BY <1>1
  <2> QED BY <1>5, <2>1 DEF Ram
<1>8. low <= Ram /\ (HoleStart < Ram => HoleEnd <= low) /\ (low = Ram \/ HoleEnd <= low)
  BY <1>1, <1>4, <1>7 DEF RightSoFar, MapFits
<1> QED BY <1>1, <1>4, <1>5, <1>6, <1>8 DEF RightSoFar, Base

(* One more node done.                                                     *)
LEMMA RightDone ==
  ASSUME IInv, RightSoFar, pc = "nodes", i < Len(sizes), NextNode,
         NoneEndsInHole =>
           /\ nextBase' = Position(Before[i + 1])
           /\ Structures(table) \subseteq Structures(table')
           /\ \A o \in Before[i] .. Before[i + 1] - 1 :
                \/ HoleStart <= o /\ o < HoleEnd
                \/ \E s \in Structures(table') : In(AddressOf(o), s) /\ s.node = i
           /\ \A s \in Structures(table') : s \notin Structures(table) =>
                \E o \in 0 .. Before[i + 1] - 1 : AddressOf(o) = s.base + s.len - 1
  PROVE  RightSoFar'
<1>1. /\ i' = i + 1 /\ pc' = "nodes" /\ UNCHANGED <<sizes, low, high>>
      /\ i \in Nat /\ i + 1 - 1 = i
  BY DEF NextNode, Input, IInv, TypeOK
<1>2. UNCHANGED <<Before, Ram, MapFits>>
  BY <1>1 DEF Before, Ram, MapFits
<1>3. NoneEndsInHole' = NoneEndsInHole
  BY <1>1, <1>2 DEF NoneEndsInHole, EndsInHole
<1>4. /\ \A o : Position(o)' = Position(o) /\ AddressOf(o)' = AddressOf(o)
  BY <1>1 DEF Position, AddressOf
<1>5. ASSUME NoneEndsInHole
      PROVE  /\ (nextBase = Position(Before[i]))'
             /\ (\A k \in 1 .. i : Named(table, k))'
             /\ EndsInRam(table, Before[i])'
  <2>1. (nextBase = Position(Before[i]))'
    BY <1>1, <1>2, <1>4, <1>5
  <2>2. ASSUME NEW k \in 1 .. i + 1
        PROVE  \A o \in Before[k - 1] .. Before[k] - 1 :
                 \/ HoleStart <= o /\ o < HoleEnd
                 \/ \E s \in Structures(table') : In(AddressOf(o), s) /\ s.node = k - 1
    <3>1. CASE k = i + 1
      BY <1>1, <1>5, <3>1
    <3>2. CASE k \in 1 .. i
      BY <1>5, <3>2 DEF RightSoFar, Named
    <3> QED BY <1>1, <3>1, <3>2
  <2>3. \A k \in 1 .. i + 1 : Named(table, k)'
    BY <2>2, <1>2, <1>4 DEF Named, Structures
  <2>4. Before[i] <= Before[i + 1] /\ Before[i] \in Nat /\ Before[i + 1] \in Nat
    BY <1>5, NextNodeRam
  <2>5. ASSUME NEW s \in Structures(table')
        PROVE  \E o \in 0 .. Before[i + 1] - 1 : AddressOf(o) = s.base + s.len - 1
    <3>1. CASE s \in Structures(table)
      <4>1. PICK o \in 0 .. Before[i] - 1 : AddressOf(o) = s.base + s.len - 1
        BY <1>5, <2>5, <3>1 DEF RightSoFar, EndsInRam
      <4>2. o \in 0 .. Before[i + 1] - 1
        BY <2>4
      <4> QED BY <4>1, <4>2
    <3> QED BY <1>5, <2>5, <3>1
  <2>6. EndsInRam(table, Before[i])'
    BY <1>1, <1>2, <1>4, <2>5 DEF EndsInRam, Structures
  <2> QED BY <1>1, <2>1, <2>3, <2>6
<1> QED BY <1>1, <1>2, <1>3, <1>5 DEF RightSoFar

LEMMA RightNodeStep ==
  ASSUME IInv, RightSoFar, Node
  PROVE  RightSoFar'
<1>1. pc = "nodes" /\ i < Len(sizes) /\ NextNode /\ CutPciHole(table, Base, End)
  BY DEF Node
<1>2. SUFFICES ASSUME NoneEndsInHole
      PROVE  /\ nextBase' = Position(Before[i + 1])
             /\ Structures(table) \subseteq Structures(table')
             /\ \A o \in Before[i] .. Before[i + 1] - 1 :
                  \/ HoleStart <= o /\ o < HoleEnd
                  \/ \E s \in Structures(table') : In(AddressOf(o), s) /\ s.node = i
             /\ \A s \in Structures(table') : s \notin Structures(table) =>
                  \E o \in 0 .. Before[i + 1] - 1 : AddressOf(o) = s.base + s.len - 1
  BY <1>1, RightDone
<1>3. /\ low \in Nat /\ high \in Nat /\ low <= high /\ i \in Nat /\ table \in Seq(Rec)
  BY <1>1, NodeFacts
<1>4. /\ Before[i] \in Nat /\ Before[i + 1] \in Nat /\ Before[i] <= Before[i + 1]
      /\ Base = Position(Before[i]) /\ End = Base + (Before[i + 1] - Before[i])
  BY <1>1, <1>2, NextNodeRam
<1>5. /\ Base \in Nat /\ End \in Nat
      /\ (IF Cut(Base, End) THEN high + (End - low) ELSE End) = Position(Before[i + 1])
      /\ \A o \in Before[i] .. Before[i + 1] - 1 : \E s \in Parts(Base, End) :
           s.len > 0 /\ In(AddressOf(o), s) /\ s.node = i
      /\ \A s \in Parts(Base, End) : s.len > 0 =>
           \E o \in Before[i] .. Before[i + 1] - 1 : AddressOf(o) = s.base + s.len - 1
  <2>1. Base \in Nat /\ End \in Nat /\ MapsOffsets(Base, End, Before[i], Before[i + 1])
    BY <1>3, <1>4, PartsRight
  <2> QED BY <2>1 DEF MapsOffsets
<1>6. Structures(table') = Structures(table) \cup {s \in Parts(Base, End) : s.len > 0}
  BY <1>1, <1>3, <1>5, CutStructures
<1>7. nextBase' = Position(Before[i + 1])
  BY <1>1, <1>5 DEF CutPciHole, Cut
<1>8. \A o \in Before[i] .. Before[i + 1] - 1 : o \in 0 .. Before[i + 1] - 1
  BY <1>4
<1> QED BY <1>5, <1>6, <1>7, <1>8

LEMMA RightAcrossStep ==
  ASSUME IInv, RightSoFar, NodeAcross
  PROVE  RightSoFar'
<1> USE HoleAssumption
<1> DEFINE first == Emit(table, Base, HoleStart - Base, i)
           x == Structure(Base, HoleStart - Base, i, "enabled")
<1>1. /\ pc = "nodes" /\ i < Len(sizes) /\ NextNode
      /\ Base <= HoleStart /\ End > HoleEnd /\ CutPciHole(first, HoleEnd, End)
  BY DEF NodeAcross, CrossesHole640K
<1>2. SUFFICES ASSUME NoneEndsInHole
      PROVE  /\ nextBase' = Position(Before[i + 1])
             /\ Structures(table) \subseteq Structures(table')
             /\ \A o \in Before[i] .. Before[i + 1] - 1 :
                  \/ HoleStart <= o /\ o < HoleEnd
                  \/ \E s \in Structures(table') : In(AddressOf(o), s) /\ s.node = i
             /\ \A s \in Structures(table') : s \notin Structures(table) =>
                  \E o \in 0 .. Before[i + 1] - 1 : AddressOf(o) = s.base + s.len - 1
  BY <1>1, RightDone
<1>3. /\ low \in Nat /\ high \in Nat /\ low <= high /\ i \in Nat /\ table \in Seq(Rec)
  BY <1>1, NodeFacts
<1>4. /\ Before[i] \in Nat /\ Before[i + 1] \in Nat /\ Before[i] <= Before[i + 1]
      /\ Base = Position(Before[i]) /\ End = Base + (Before[i + 1] - Before[i])
      /\ Before[i + 1] <= Ram /\ Ram \in Nat /\ low <= Ram
      /\ HoleStart < Ram => HoleEnd <= low
      /\ low = Ram \/ HoleEnd <= low
  BY <1>1, <1>2, NextNodeRam
<1>5. Base = Before[i] /\ End = Before[i + 1] /\ HoleEnd <= low /\ Before[i] <= low
  <2>1. Before[i] <= low
    BY <1>1, <1>3, <1>4 DEF Position
  <2>2. Base = Before[i] /\ End = Before[i + 1]
    BY <2>1, <1>3, <1>4 DEF Position
  <2> QED BY <2>1, <2>2, <1>1, <1>3, <1>4
<1>6. HoleEnd = Position(HoleEnd) /\ End = HoleEnd + (Before[i + 1] - HoleEnd)
  BY <1>4, <1>5 DEF Position
<1>7. /\ End \in Nat
      /\ (IF Cut(HoleEnd, End) THEN high + (End - low) ELSE End) = Position(Before[i + 1])
      /\ \A o \in HoleEnd .. Before[i + 1] - 1 : \E s \in Parts(HoleEnd, End) :
           s.len > 0 /\ In(AddressOf(o), s) /\ s.node = i
      /\ \A s \in Parts(HoleEnd, End) : s.len > 0 =>
           \E o \in HoleEnd .. Before[i + 1] - 1 : AddressOf(o) = s.base + s.len - 1
  <2>1. HoleEnd <= Before[i + 1]
    BY <1>1, <1>4, <1>5
  <2>2. End \in Nat /\ MapsOffsets(HoleEnd, End, HoleEnd, Before[i + 1])
    BY <2>1, <1>3, <1>4, <1>6, PartsRight
  <2> QED BY <2>2 DEF MapsOffsets
<1>8. x.base = Before[i] /\ x.len = HoleStart - Before[i] /\ x.node = i
  BY <1>5 DEF Structure
<1>9. /\ first \in Seq(Rec)
      /\ Structures(first) = Structures(table) \cup (IF x.len > 0 THEN {x} ELSE {})
  <2>1. HoleStart - Base \in Int /\ Base \in Nat
    BY <1>4, <1>5
  <2> QED BY <2>1, <1>3, <1>5, <1>8, EmitStructures
<1> HIDE DEF first, x
<1>10. Structures(table') = Structures(first) \cup {s \in Parts(HoleEnd, End) : s.len > 0}
  BY <1>1, <1>3, <1>7, <1>9, CutStructures
<1>11. nextBase' = Position(Before[i + 1])
  BY <1>1, <1>7 DEF CutPciHole, Cut
<1>12. ASSUME NEW o \in Before[i] .. Before[i + 1] - 1
       PROVE  \/ HoleStart <= o /\ o < HoleEnd
              \/ \E s \in Structures(table') : In(AddressOf(o), s) /\ s.node = i
  <2>1. CASE o < HoleStart
    <3>1. x.len > 0 /\ In(AddressOf(o), x)
      BY <2>1, <1>3, <1>4, <1>5, <1>8 DEF In, AddressOf
    <3> QED BY <3>1, <1>8, <1>9, <1>10
  <2>2. CASE HoleEnd <= o
    <3>1. o \in HoleEnd .. Before[i + 1] - 1
      BY <2>2, <1>4
    <3> QED BY <3>1, <1>7, <1>10
  <2> QED BY <1>4, <2>1, <2>2
<1>13. ASSUME NEW s \in Structures(table'), s \notin Structures(table)
       PROVE  \E o \in 0 .. Before[i + 1] - 1 : AddressOf(o) = s.base + s.len - 1
  <2>0. s.len > 0 /\ (s = x \/ s \in Parts(HoleEnd, End))
    BY <1>9, <1>10, <1>13
  <2>1. CASE s = x
    <3>1. HoleStart - 1 \in 0 .. Before[i + 1] - 1
      BY <2>0, <2>1, <1>1, <1>4, <1>5, <1>8
    <3>2. AddressOf(HoleStart - 1) = x.base + x.len - 1
      BY <1>3, <1>4, <1>5, <1>8 DEF AddressOf
    <3> QED BY <2>1, <3>1, <3>2
  <2>2. CASE s \in Parts(HoleEnd, End)
    <3>1. PICK o \in HoleEnd .. Before[i + 1] - 1 : AddressOf(o) = s.base + s.len - 1
      BY <1>7, <2>0, <2>2
    <3>2. o \in 0 .. Before[i + 1] - 1
      BY <1>4
    <3> QED BY <3>1, <3>2
  <2> QED BY <2>0, <2>1, <2>2
<1>14. Structures(table) \subseteq Structures(table')
  BY <1>9, <1>10
<1> QED BY <1>11, <1>12, <1>13, <1>14

LEMMA RightEndsInHoleStep ==
  ASSUME IInv, RightSoFar, NodeEndsInHole
  PROVE  RightSoFar'
<1> USE HoleAssumption
<1> DEFINE x == Structure(Base, HoleStart - Base, i, "enabled")
<1>1. /\ pc = "nodes" /\ i < Len(sizes) /\ NextNode
      /\ Base <= HoleStart /\ End > HoleStart /\ End <= HoleEnd
      /\ table' = Emit(table, Base, HoleStart - Base, i) /\ nextBase' = HoleEnd
  BY DEF NodeEndsInHole, CrossesHole640K
<1>2. SUFFICES ASSUME NoneEndsInHole
      PROVE  /\ nextBase' = Position(Before[i + 1])
             /\ Structures(table) \subseteq Structures(table')
             /\ \A o \in Before[i] .. Before[i + 1] - 1 :
                  \/ HoleStart <= o /\ o < HoleEnd
                  \/ \E s \in Structures(table') : In(AddressOf(o), s) /\ s.node = i
             /\ \A s \in Structures(table') : s \notin Structures(table) =>
                  \E o \in 0 .. Before[i + 1] - 1 : AddressOf(o) = s.base + s.len - 1
  BY <1>1, RightDone
<1>3. /\ low \in Nat /\ high \in Nat /\ low <= high /\ i \in Nat /\ table \in Seq(Rec)
  BY <1>1, NodeFacts
<1>4. /\ Before[i] \in Nat /\ Before[i + 1] \in Nat /\ Before[i] <= Before[i + 1]
      /\ Base = Position(Before[i]) /\ End = Base + (Before[i + 1] - Before[i])
      /\ Before[i + 1] <= Ram /\ Ram \in Nat /\ low <= Ram
      /\ Before[i + 1] <= HoleStart \/ HoleEnd <= Before[i + 1]
      /\ HoleStart < Ram => HoleEnd <= low
      /\ low = Ram \/ HoleEnd <= low
  BY <1>1, <1>2, NextNodeRam
<1>5. Base = Before[i] /\ Before[i + 1] = HoleEnd /\ HoleEnd <= low
  <2>1. Before[i] <= low
    BY <1>1, <1>3, <1>4 DEF Position
  <2>2. Base = Before[i] /\ End = Before[i + 1]
    BY <2>1, <1>3, <1>4 DEF Position
  <2> QED BY <2>1, <2>2, <1>1, <1>3, <1>4
<1>6. x.base = Before[i] /\ x.len = HoleStart - Before[i] /\ x.node = i
  BY <1>5 DEF Structure
<1>7. Structures(table') = Structures(table) \cup (IF x.len > 0 THEN {x} ELSE {})
  <2>1. HoleStart - Base \in Int /\ Base \in Nat
    BY <1>4, <1>5
  <2> QED BY <2>1, <1>1, <1>3, <1>5, <1>6, EmitStructures
<1> HIDE DEF x
<1>8. nextBase' = Position(Before[i + 1])
  BY <1>1, <1>3, <1>5 DEF Position
<1>9. ASSUME NEW o \in Before[i] .. Before[i + 1] - 1, o < HoleStart
      PROVE  \E s \in Structures(table') : In(AddressOf(o), s) /\ s.node = i
  <2>1. x.len > 0 /\ In(AddressOf(o), x)
    BY <1>3, <1>4, <1>5, <1>6, <1>9 DEF In, AddressOf
  <2> QED BY <2>1, <1>6, <1>7
<1>10. x.len > 0 => /\ HoleStart - 1 \in 0 .. Before[i + 1] - 1
                    /\ AddressOf(HoleStart - 1) = x.base + x.len - 1
  BY <1>3, <1>4, <1>5, <1>6 DEF AddressOf
<1> QED BY <1>4, <1>5, <1>7, <1>8, <1>9, <1>10

(* The structures of devices, fillers and the hotplug window hold no RAM.  *)
LEMMA RightOtherSteps ==
  ASSUME IInv, RightSoFar, DeviceStructures \/ Fill \/ HotplugWindow \/ UNCHANGED vars
  PROVE  RightSoFar'
<1>1. /\ UNCHANGED <<sizes, low, high, i>> /\ table \in Seq(Rec) /\ TypeOK
      /\ (i = Len(sizes) \/ pc = "nodes")'
      /\ pc' = "nodes" => pc = "nodes" /\ UNCHANGED nextBase
  BY DEF RightSoFar, DeviceStructures, Fill, HotplugWindow, vars, Input, IInv, TypeOK, Rec
<1>2. \/ table' = table
      \/ table' = Append(table, Structure(0, 0, 0, "noflags"))
      \/ device # Null /\ table' = Append(table, Window)
  BY DEF DeviceStructures, Fill, HotplugWindow, Window, vars
<1>3. Structures(table') = Structures(table)
  <2>1. ASSUME NEW s \in Rec, ~IsRam(s), table' = Append(table, s)
        PROVE  Structures(table') = Structures(table)
    BY <1>1, <2>1, AppendStructures
  <2>2. /\ Structure(0, 0, 0, "noflags") \in Rec
        /\ ~IsRam(Structure(0, 0, 0, "noflags"))
    BY DEF Structure, Rec, Flags, IsRam
  <2>3. device # Null => Window \in Rec /\ ~IsRam(Window)
    BY <1>1, WindowFacts
  <2> QED BY <1>2, <2>1, <2>2, <2>3
<1>4. UNCHANGED <<Before, Ram, MapFits>>
  BY <1>1 DEF Before, Ram, MapFits
<1>5. NoneEndsInHole' = NoneEndsInHole
  BY <1>1, <1>4 DEF NoneEndsInHole, EndsInHole
<1>6. \A o : Position(o)' = Position(o) /\ AddressOf(o)' = AddressOf(o)
  BY <1>1 DEF Position, AddressOf
<1>7. ASSUME NoneEndsInHole
      PROVE  (\A k \in 1 .. i : Named(table, k))' /\ EndsInRam(table, Before[i])'
  <2>1. \A k \in 1 .. i : \A o \in Before[k - 1] .. Before[k] - 1 :
          \/ HoleStart <= o /\ o < HoleEnd
          \/ \E s \in Structures(table') : In(AddressOf(o), s) /\ s.node = k - 1
    BY <1>3, <1>7 DEF RightSoFar, Named
  <2>2. \A s \in Structures(table') :
          \E o \in 0 .. Before[i] - 1 : AddressOf(o) = s.base + s.len - 1
    BY <1>3, <1>7 DEF RightSoFar, EndsInRam
  <2>3. (\A k \in 1 .. i : Named(table, k))'
    BY <1>1, <1>4, <1>6, <2>1 DEF Named, Structures, IsRam
  <2>4. EndsInRam(table, Before[i])'
    BY <1>1, <1>4, <1>6, <2>2 DEF EndsInRam, Structures, IsRam
  <2> QED BY <2>3, <2>4
<1>8. NoneEndsInHole /\ pc' = "nodes" => (nextBase = Position(Before[i]))'
  BY <1>1, <1>4, <1>6 DEF RightSoFar
<1> QED BY <1>1, <1>4, <1>5, <1>7, <1>8 DEF RightSoFar

LEMMA RightInit ==
  ASSUME Init
  PROVE  RightSoFar
<1>1. pc = "nodes" /\ i = 0 /\ nextBase = 0 /\ table = << >>
  BY DEF Init
<1>2. low \in Nat /\ MapFits /\ Before[0] = 0
  BY InitMap
<1>3. nextBase = Position(Before[i])
  BY <1>1, <1>2 DEF Position
<1>4. Structures(table) = {}
  BY <1>1 DEF Structures
<1> QED BY <1>1, <1>2, <1>3, <1>4 DEF RightSoFar, Named, EndsInRam

LEMMA AlwaysRight == Spec => []RightSoFar
<1>1. Init => RightSoFar
  BY RightInit
<1>2. IInv /\ RightSoFar /\ [Next]_vars => RightSoFar'
  BY RightNodeStep, RightAcrossStep, RightEndsInHoleStep, RightOtherSteps DEF Next
<1> QED BY <1>1, <1>2, Always, PTL DEF Spec

(* As long as no node ends inside the hole below 1 MiB, each byte of a     *)
(* node's RAM outside it is in a structure of that node, and no structure  *)
(* reaches beyond the RAM: for any number of nodes of any sizes.           *)
THEOREM RightNodeCorrect == Spec => []RightNode
<1>1. IInv /\ RightSoFar => RightNode
  <2> SUFFICES ASSUME IInv, RightSoFar, pc = "done", NoneEndsInHole
      PROVE  /\ \A k \in 1 .. Len(sizes) : \A o \in Before[k - 1] .. Before[k] - 1 :
                  \/ HoleStart <= o /\ o < HoleEnd
                  \/ \E s \in 1 .. Len(table) :
                       /\ IsRam(table[s]) /\ In(AddressOf(o), table[s])
                       /\ table[s].node = k - 1
             /\ \A k \in {k \in 1 .. Len(table) : IsRam(table[k])} :
                  \E o \in 0 .. Ram - 1 : AddressOf(o) = table[k].base + table[k].len - 1
    BY DEF RightNode, NoneEndsInHole
  <2>1. i = Len(sizes) /\ (\A k \in 1 .. i : Named(table, k)) /\ EndsInRam(table, Ram)
    BY DEF RightSoFar, Ram
  <2> QED BY <2>1 DEF Named, EndsInRam, Structures
<1> QED BY <1>1, Always, AlwaysRight, PTL

-----------------------------------------------------------------------------
(* OneNode.  How far the RAM reaches: the next node begins where its RAM   *)
(* is mapped or, behind a node that ended in the hole below 1 MiB, higher, *)
(* but by less than the hole's length.  Behind the last one the window of  *)
(* device memory follows.                                                  *)
Shifted(b, o) ==
  /\ b >= HoleEnd
  /\ IF b <= low THEN b < o + (HoleEnd - HoleStart)
                 ELSE b < high + (o - low) + (HoleEnd - HoleStart)
Reach ==
  /\ device = Null \/ RamEnd <= device.base
  /\ \/ nextBase = Position(Before[i])
     \/ /\ \E n \in 1 .. i : EndsInHole(n)
        /\ Shifted(nextBase, Before[i])

LEMMA CutShifted ==
  ASSUME low \in Nat, high \in Nat, low <= high,
         NEW base \in Nat, NEW b \in Nat, NEW e \in Nat, b <= e,
         NEW end, end = base + (e - b), Shifted(base, b)
  PROVE  Shifted(IF Cut(base, end) THEN high + (end - low) ELSE end, e)
<1> USE HoleAssumption
<1>1. CASE Cut(base, end)
  BY <1>1 DEF Cut, Shifted
<1>2. CASE ~Cut(base, end)
  BY <1>2 DEF Cut, Shifted
<1> QED BY <1>1, <1>2

(* One more node done.                                                     *)
LEMMA ReachDone ==
  ASSUME IInv, Reach, pc = "nodes", i < Len(sizes), NextNode,
         \/ nextBase' = Position(Before[i + 1])
         \/ /\ \E n \in 1 .. i + 1 : EndsInHole(n)
            /\ Shifted(nextBase', Before[i + 1])
  PROVE  Reach'
<1>1. i' = i + 1 /\ UNCHANGED <<sizes, low, high, device>>
  BY DEF NextNode, Input
<1>2. UNCHANGED <<Before, RamEnd>>
  BY <1>1 DEF Before, Ram, RamEnd
<1>3. /\ Position(Before[i])' = IF Before[i + 1] <= low THEN Before[i + 1]
                                 ELSE high + (Before[i + 1] - low)
      /\ \A n \in 1 .. i + 1 : EndsInHole(n)' = EndsInHole(n)
  BY <1>1, <1>2 DEF Position, EndsInHole
<1>4. CASE nextBase' = Position(Before[i + 1])
  BY <1>1, <1>2, <1>3, <1>4 DEF Reach, Position
<1>5. CASE /\ \E n \in 1 .. i + 1 : EndsInHole(n)
           /\ Shifted(nextBase', Before[i + 1])
  <2>1. (\E n \in 1 .. i : EndsInHole(n))'
    BY <1>1, <1>3, <1>5
  <2>2. Shifted(nextBase, Before[i])'
    BY <1>1, <1>2, <1>5 DEF Shifted
  <2> QED BY <1>1, <1>2, <2>1, <2>2 DEF Reach
<1> QED BY <1>4, <1>5

LEMMA ReachNodeStep ==
  ASSUME IInv, Reach, Node
  PROVE  Reach'
<1>1. pc = "nodes" /\ i < Len(sizes) /\ NextNode /\ CutPciHole(table, Base, End)
  BY DEF Node
<1>2. /\ low \in Nat /\ high \in Nat /\ low <= high /\ i \in Nat
      /\ Base \in Nat /\ Base = nextBase
  BY <1>1, NodeFacts DEF Base
<1>3. /\ Before[i] \in Nat /\ Before[i + 1] \in Nat /\ Before[i] <= Before[i + 1]
      /\ End = Base + (Before[i + 1] - Before[i])
  BY <1>1, NextRam
<1>4. nextBase' = IF Cut(Base, End) THEN high + (End - low) ELSE End
  BY <1>1 DEF CutPciHole, Cut
<1>5. CASE nextBase = Position(Before[i])
  <2>1. MapsOffsets(Base, End, Before[i], Before[i + 1])
    BY <1>2, <1>3, <1>5, PartsRight
  <2>2. nextBase' = Position(Before[i + 1])
    BY <1>4, <2>1 DEF MapsOffsets
  <2> QED BY <1>1, <2>2, ReachDone
<1>6. CASE (\E n \in 1 .. i : EndsInHole(n)) /\ Shifted(nextBase, Before[i])
  <2>1. Shifted(nextBase', Before[i + 1])
    BY <1>2, <1>3, <1>4, <1>6, CutShifted
  <2>2. \E n \in 1 .. i + 1 : EndsInHole(n)
    BY <1>2, <1>6
  <2> QED BY <1>1, <2>1, <2>2, ReachDone
<1> QED BY <1>5, <1>6 DEF Reach

(* A node that meets the hole below 1 MiB begins where its RAM is mapped,  *)
(* below it: RAM ends there, or what is mapped below 4 GiB goes beyond.    *)
LEMMA BeginsInPlace ==
  ASSUME IInv, RightSoFar, Reach, pc = "nodes", i < Len(sizes), Base <= HoleStart
  PROVE  /\ Base = Before[i] /\ End = Before[i + 1]
         /\ End >= HoleEnd => HoleEnd <= low
<1> USE HoleAssumption
<1>1. /\ low \in Nat /\ high \in Nat /\ low <= high
      /\ Base \in Nat /\ Base = nextBase
  BY NodeFacts DEF Base
<1>2. /\ Before[i] \in Nat /\ Before[i + 1] \in Nat /\ Ram \in Nat
      /\ Before[i] <= Before[i + 1] /\ Before[i + 1] <= Ram
      /\ End = Base + (Before[i + 1] - Before[i])
  BY NextRam
<1>3. Base = Position(Before[i])
  BY <1>1 DEF Reach, Shifted
<1>4. low = Ram \/ HoleEnd <= low
  BY DEF RightSoFar, MapFits
<1>5. Before[i] <= low
  BY <1>1, <1>2, <1>3, <1>4 DEF Position
<1> QED BY <1>1, <1>2, <1>3, <1>4, <1>5 DEF Position

LEMMA ReachAcrossStep ==
  ASSUME IInv, RightSoFar, Reach, NodeAcross
  PROVE  Reach'
<1> USE HoleAssumption
<1>1. /\ pc = "nodes" /\ i < Len(sizes) /\ NextNode
      /\ Base <= HoleStart /\ End > HoleEnd
      /\ nextBase' = IF Cut(HoleEnd, End) THEN high + (End - low) ELSE End
  BY DEF NodeAcross, CrossesHole640K, CutPciHole, Cut
<1>2. /\ low \in Nat /\ high \in Nat /\ low <= high /\ i \in Nat
      /\ Before[i + 1] \in Nat
  BY <1>1, NodeFacts, NextRam
<1>3. End = Before[i + 1] /\ HoleEnd <= low
  BY <1>1, <1>2, BeginsInPlace
<1>4. HoleEnd = Position(HoleEnd) /\ End = HoleEnd + (Before[i + 1] - HoleEnd)
  BY <1>2, <1>3 DEF Position
<1>5. MapsOffsets(HoleEnd, End, HoleEnd, Before[i + 1])
  <2>1. HoleEnd <= Before[i + 1]
    BY <1>1, <1>2, <1>3
  <2> QED BY <2>1, <1>2, <1>4, PartsRight
<1>6. nextBase' = Position(Before[i + 1])
  BY <1>1, <1>5 DEF MapsOffsets
<1> QED BY <1>1, <1>6, ReachDone

LEMMA ReachEndsInHoleStep ==
  ASSUME IInv, RightSoFar, Reach, NodeEndsInHole
  PROVE  Reach'
<1> USE HoleAssumption
<1>1. /\ pc = "nodes" /\ i < Len(sizes) /\ NextNode
      /\ Base <= HoleStart /\ End > HoleStart /\ End <= HoleEnd
      /\ nextBase' = HoleEnd
  BY DEF NodeEndsInHole, CrossesHole640K
<1>2. /\ low \in Nat /\ high \in Nat /\ low <= high /\ i \in Nat
      /\ Before[i + 1] \in Nat
  BY <1>1, NodeFacts, NextRam
<1>3. End = Before[i + 1] /\ (End >= HoleEnd => HoleEnd <= low)
  BY <1>1, BeginsInPlace
<1>4. CASE Before[i + 1] = HoleEnd
  <2>1. nextBase' = Position(Before[i + 1])
    BY <1>1, <1>2, <1>3, <1>4 DEF Position
  <2> QED BY <1>1, <2>1, ReachDone
<1>5. CASE Before[i + 1] # HoleEnd
  <2>1. EndsInHole(i + 1) /\ i + 1 \in 1 .. i + 1
    BY <1>1, <1>2, <1>3, <1>5 DEF EndsInHole
  <2>2. Shifted(nextBase', Before[i + 1])
    BY <1>1, <1>2, <1>3 DEF Shifted
  <2> QED BY <1>1, <2>1, <2>2, ReachDone
<1> QED BY <1>4, <1>5

LEMMA ReachOtherSteps ==
  ASSUME Reach, DeviceStructures \/ Fill \/ HotplugWindow \/ UNCHANGED vars
  PROVE  Reach'
<1>1. UNCHANGED <<sizes, low, high, device, i, nextBase>>
  BY DEF DeviceStructures, Fill, HotplugWindow, vars, Input
<1>2. UNCHANGED <<Before, RamEnd>>
  BY <1>1 DEF Before, Ram, RamEnd
<1> QED BY <1>1, <1>2 DEF Reach, Position, Shifted, EndsInHole

LEMMA AlwaysReach == Spec => []Reach
<1>1. Init => Reach
  <2> SUFFICES ASSUME Init PROVE Reach
    OBVIOUS
  <2>1. i = 0 /\ nextBase = 0
    BY DEF Init
  <2>2. nextBase = Position(Before[i])
    BY <2>1, InitMap DEF Position
  <2> QED BY <2>2, InitMap DEF Reach
<1>2. IInv /\ RightSoFar /\ Reach /\ [Next]_vars => Reach'
  BY ReachNodeStep, ReachAcrossStep, ReachEndsInHoleStep, ReachOtherSteps DEF Next
<1> QED BY <1>1, <1>2, Always, AlwaysRight, PTL DEF Spec

(* Behind the last node RAM ends before the window, unless a node ended in *)
(* the hole below 1 MiB and the window is less than its length away.       *)
LEMMA WindowClear ==
  ASSUME IInv, RightSoFar, Reach, pc = "done", device # Null
  PROVE  \/ nextBase <= device.base
         \/ /\ \E n \in 1 .. Len(sizes) : EndsInHole(n)
            /\ device.base < RamEnd + (HoleEnd - HoleStart)
<1> USE HoleAssumption
<1>1. /\ i = Len(sizes) /\ low \in Nat /\ high \in Nat /\ low <= high
      /\ nextBase \in Nat /\ device.base \in Nat
      /\ sizes \in Seq(Nat)
  BY DEF RightSoFar, IInv, Map, TypeOK
<1>2. Ram \in Nat
  BY <1>1, BeforeFacts DEF Ram
<1>3. low <= Ram /\ RamEnd = high + (Ram - low) /\ RamEnd <= device.base
  BY <1>1, <1>2 DEF RightSoFar, MapFits, RamEnd, Reach
<1>4. CASE nextBase = Position(Ram)
  BY <1>1, <1>2, <1>3, <1>4 DEF Position
<1>5. CASE (\E n \in 1 .. i : EndsInHole(n)) /\ Shifted(nextBase, Ram)
  <2>1. nextBase < RamEnd + (HoleEnd - HoleStart)
    BY <1>1, <1>2, <1>3, <1>5 DEF Shifted
  <2>2. device.base < RamEnd + (HoleEnd - HoleStart) \/ nextBase <= device.base
    BY <1>1, <1>2, <1>3, <2>1
  <2> QED BY <1>1, <1>5, <2>2
<1> QED BY <1>1, <1>4, <1>5 DEF Reach, Ram

LEMMA OrderedApart ==
  ASSUME NEW tab \in Seq(Rec), NEW b \in Nat, Ordered(tab, b),
         NEW k \in 1 .. Len(tab), NEW l \in 1 .. Len(tab), k < l
  PROVE  Apart(tab[k], tab[l])
BY DEF Ordered, Apart

(* No address is in two structures: not in two nodes' RAM, and not in RAM  *)
(* and the window for hotplug, unless a node ends inside the hole below    *)
(* 1 MiB and the window lies less than the hole's length behind the RAM.   *)
THEOREM OneNodeCorrect == Spec => []OneNode
<1>1. IInv /\ RightSoFar /\ Reach => OneNode
  <2> SUFFICES ASSUME IInv, RightSoFar, Reach,
                      NEW k \in 1 .. Len(table), NEW l \in 1 .. Len(table), k < l
      PROVE  \/ Apart(table[k], table[l])
             \/ /\ table[l].flags = "hotpluggable"
                /\ \E n \in 1 .. Len(sizes) : EndsInHole(n)
                /\ device.base < RamEnd + (HoleEnd - HoleStart)
    BY DEF OneNode
  <2>1. table \in Seq(Rec) /\ nextBase \in Nat /\ TypeOK
    BY DEF IInv, TypeOK, Rec
  <2>2. CASE pc # "done"
    BY <2>1, <2>2, OrderedApart DEF IInv
  <2>3. CASE pc = "done"
    <3>1. PICK tab \in Seq(Rec) :
            /\ Ordered(tab, nextBase)
            /\ table = IF device = Null THEN tab ELSE Append(tab, Window)
      BY <2>3 DEF IInv, Closed
    <3>2. CASE device = Null
      BY <2>1, <3>1, <3>2, OrderedApart
    <3>3. CASE device # Null
      <4>1. /\ Window \in Rec /\ Window.base = device.base
            /\ Window.flags = "hotpluggable"
        BY <2>1, <3>3, WindowFacts
      <4>2. /\ table = Append(tab, Window) /\ Len(tab) \in Nat
            /\ Len(table) = Len(tab) + 1 /\ table[Len(tab) + 1] = Window
            /\ \A n \in 1 .. Len(tab) : table[n] = tab[n] /\ tab[n] \in Rec
        BY <3>1, <3>3, <4>1, AppendFacts
      <4>3. k \in 1 .. Len(tab) /\ (l \in 1 .. Len(tab) \/ l = Len(tab) + 1)
        BY <4>2
      <4>4. CASE l \in 1 .. Len(tab)
        BY <2>1, <3>1, <4>2, <4>3, <4>4, OrderedApart
      <4>5. CASE l = Len(tab) + 1
        <5>1. tab[k].base + tab[k].len <= nextBase /\ tab[k].base + tab[k].len \in Nat
          BY <3>1, <4>2, <4>3 DEF Ordered, Rec
        <5>2. nextBase <= device.base => Apart(tab[k], Window)
          <6>1. device.base \in Nat
            BY <4>1 DEF Rec
          <6>2. nextBase <= device.base => tab[k].base + tab[k].len <= Window.base
            BY <2>1, <4>1, <5>1, <6>1
          <6> QED BY <6>2 DEF Apart
        <5> QED BY <2>3, <3>3, <4>1, <4>2, <4>3, <4>5, <5>2, WindowClear
      <4> QED BY <4>3, <4>4, <4>5
    <3> QED BY <3>2, <3>3
  <2> QED BY <2>2, <2>3
<1> QED BY <1>1, Always, AlwaysRight, AlwaysReach, PTL
=============================================================================
