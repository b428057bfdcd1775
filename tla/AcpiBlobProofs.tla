--------------------------- MODULE AcpiBlobProofs ---------------------------
(***************************************************************************)
(* Proofs about AcpiBlob, for every set of configurations, every DSDT      *)
(* length and every word size U32.                                         *)
(*                                                                         *)
(* Rank gives every signature its place in the blob.  The invariant says   *)
(* that the tables in the blob are those of the slots that have been       *)
(* passed, that their positions grow with their ranks, and that a slot's   *)
(* local variable holds the position of its table (modulo U32).  The       *)
(* pointers of the FADT, the RSDT and the RSDP then lead where they must,  *)
(* as long as no address is truncated.                                     *)
(***************************************************************************)
EXTENDS AcpiBlob, TLAPS

Rank(signature) ==
  CASE signature = "FACS" -> 1
    [] signature = "DSDT" -> 2
    [] signature = "FACP" -> 3
    [] signature = "APIC" -> 4
    [] signature = "SSDT" -> 5
    [] signature = "HPET" -> 6
    [] signature \in Tpms -> 7
    [] signature = "SRAT" -> 8
    [] signature = "SLIT" -> 9
    [] signature = "HMAT" -> 10
    [] signature = "MCFG" -> 11
    [] signature \in Iommus -> 12
    [] signature = "NFIT" -> 13
    [] signature = "CEDT" -> 14
    [] signature = "WAET" -> 15
    [] signature = "RSDT" -> 16

(* A word keeps the numbers that fit in it.                                *)
LEMMA WordFacts ==
  ASSUME NEW a \in Nat
  PROVE  /\ a % U32 \in Nat
         /\ a < U32 => a % U32 = a
  BY U32Assumption

(* The two lists: the pushes are the appends without the first two.        *)
LEMMA OrderFacts ==
  /\ Len(AppendOrder) = 15
  /\ Len(EntryOrder) = 13
  /\ \A k \in 1 .. 13 : EntryOrder[k] = AppendOrder[k + 2]
  /\ \A k \in 1 .. 15 : AppendOrder[k] \in Slots
<1>1. Len(AppendOrder) = 15 /\ Len(EntryOrder) = 13
  BY DEF AppendOrder, EntryOrder
<1>2. ASSUME NEW k \in 1 .. 13 PROVE EntryOrder[k] = AppendOrder[k + 2]
  <2>1. \/ k = 1 \/ k = 2 \/ k = 3 \/ k = 4 \/ k = 5 \/ k = 6 \/ k = 7
        \/ k = 8 \/ k = 9 \/ k = 10 \/ k = 11 \/ k = 12 \/ k = 13
    OBVIOUS
  <2> QED
    BY <2>1 DEF AppendOrder, EntryOrder
<1>3. \A k \in 1 .. 15 : AppendOrder[k] \in Slots
  BY DEF Slots
<1> QED
  BY <1>1, <1>2, <1>3

(* The list, the switches and the ranks, entry by entry.                   *)
LEMMA AppendOrderValues ==
  /\ AppendOrder[1] = "facs"    /\ AppendOrder[2] = "dsdt"
  /\ AppendOrder[3] = "fadt"    /\ AppendOrder[4] = "madt"
  /\ AppendOrder[5] = "vmgenid" /\ AppendOrder[6] = "hpet"
  /\ AppendOrder[7] = "tcpa"    /\ AppendOrder[8] = "srat"
  /\ AppendOrder[9] = "slit"    /\ AppendOrder[10] = "hmat"
  /\ AppendOrder[11] = "mcfg"   /\ AppendOrder[12] = "iommu"
  /\ AppendOrder[13] = "nfit"   /\ AppendOrder[14] = "cedt"
  /\ AppendOrder[15] = "waet"
  BY DEF AppendOrder

LEMMA SignatureValues ==
  ASSUME NEW c, IsConfig(c)
  PROVE  /\ Signature(c, "facs") = "FACS"
         /\ Signature(c, "dsdt") = "DSDT"
         /\ Signature(c, "fadt") = "FACP"
         /\ Signature(c, "madt") = "APIC"
         /\ Signature(c, "vmgenid") \in {"SSDT", None}
         /\ Signature(c, "hpet") \in {"HPET", None}
         /\ Signature(c, "tcpa") \in {"TCPA", "TPM2", None}
         /\ Signature(c, "srat") \in {"SRAT", None}
         /\ Signature(c, "slit") \in {"SLIT", None}
         /\ Signature(c, "hmat") \in {"HMAT", None}
         /\ Signature(c, "mcfg") \in {"MCFG", None}
         /\ Signature(c, "iommu") \in {"DMAR", "IVRS", "VIOT", None}
         /\ Signature(c, "nfit") \in {"NFIT", None}
         /\ Signature(c, "cedt") \in {"CEDT", None}
         /\ Signature(c, "waet") = "WAET"
<1>1. c.tpm \in {"TCPA", "TPM2", None} /\ c.iommu \in {"DMAR", "IVRS", "VIOT", None}
  BY DEF IsConfig, Tpms, Iommus
<1> QED
  BY <1>1 DEF Signature, OnlyIf

LEMMA RankValues ==
  /\ Rank("FACS") = 1  /\ Rank("DSDT") = 2  /\ Rank("FACP") = 3
  /\ Rank("APIC") = 4  /\ Rank("SSDT") = 5  /\ Rank("HPET") = 6
  /\ Rank("TCPA") = 7  /\ Rank("TPM2") = 7  /\ Rank("SRAT") = 8
  /\ Rank("SLIT") = 9  /\ Rank("HMAT") = 10 /\ Rank("MCFG") = 11
  /\ Rank("DMAR") = 12 /\ Rank("IVRS") = 12 /\ Rank("VIOT") = 12
  /\ Rank("NFIT") = 13 /\ Rank("CEDT") = 14 /\ Rank("WAET") = 15
  /\ Rank("RSDT") = 16
  BY DEF Rank, Tpms, Iommus

LEMMA RankFacts ==
  ASSUME NEW s \in Signatures
  PROVE  /\ Rank(s) \in 1 .. 16
         /\ Rank(s) = 1 => s = "FACS"
         /\ Rank(s) = 2 => s = "DSDT"
         /\ Rank(s) = 3 => s = "FACP"
         /\ Rank(s) = 16 => s = "RSDT"
  BY RankValues DEF Signatures, Tpms, Iommus

(* A slot's signature has the slot's rank.                                 *)
LEMMA SignatureRank ==
  ASSUME NEW c, IsConfig(c), NEW k \in 1 .. 15, Signature(c, AppendOrder[k]) # None
  PROVE  /\ Signature(c, AppendOrder[k]) \in Signatures
         /\ Rank(Signature(c, AppendOrder[k])) = k
         /\ Signature(c, AppendOrder[k]) # "RSDT"
<1>1. \/ k = 1 \/ k = 2 \/ k = 3 \/ k = 4 \/ k = 5 \/ k = 6 \/ k = 7 \/ k = 8
      \/ k = 9 \/ k = 10 \/ k = 11 \/ k = 12 \/ k = 13 \/ k = 14 \/ k = 15
  OBVIOUS
<1> QED
  BY <1>1, AppendOrderValues, SignatureValues, RankValues
  DEF Signatures, Tpms, Iommus

(* No slot is named twice in the list of appends.                          *)
LEMMA SlotsDistinct ==
  ASSUME NEW j \in 1 .. 15, NEW k \in 1 .. 15, AppendOrder[j] = AppendOrder[k]
  PROVE  j = k
<1>1. \A n \in 1 .. 15 :
        \/ n = 1 \/ n = 2 \/ n = 3 \/ n = 4 \/ n = 5 \/ n = 6 \/ n = 7 \/ n = 8
        \/ n = 9 \/ n = 10 \/ n = 11 \/ n = 12 \/ n = 13 \/ n = 14 \/ n = 15
  OBVIOUS
<1> QED
  BY <1>1, AppendOrderValues

(* The slots whose tables the FADT points at.                              *)
LEMMA FirstSlots ==
  ASSUME NEW c
  PROVE  /\ AppendOrder[1] = "facs" /\ Signature(c, "facs") = "FACS"
         /\ AppendOrder[2] = "dsdt" /\ Signature(c, "dsdt") = "DSDT"
         /\ AppendOrder[3] = "fadt" /\ Signature(c, "fadt") = "FACP"
  BY DEF AppendOrder, Signature

(* No table is shorter than an ACPI header.                                *)
LEMMA TableLenPositive ==
  ASSUME NEW c \in Configs, NEW s \in Signatures, s # "RSDT"
  PROVE  TableLen(c, s) \in Nat /\ TableLen(c, s) >= 36
<1>1. c.cpus \in Nat /\ DsdtLen(c) \in Nat /\ DsdtLen(c) >= 36
  BY ConfigsAssumption, DsdtLenAssumption DEF IsConfig
<1>2. MadtLen(c) \in Nat /\ MadtLen(c) >= 36
  BY <1>1 DEF MadtLen, HeaderLen
<1>3. SratLen(c) \in Nat /\ SratLen(c) >= 36
  BY <1>1 DEF SratLen
<1>4. /\ TableLen(c, "FACS") = 64 /\ TableLen(c, "DSDT") = DsdtLen(c)
      /\ TableLen(c, "FACP") = 244 /\ TableLen(c, "APIC") = MadtLen(c)
      /\ TableLen(c, "SSDT") = 202 /\ TableLen(c, "HPET") = 56
  BY DEF TableLen, HeaderLen
<1>5. /\ TableLen(c, "TCPA") = 50 /\ TableLen(c, "TPM2") = 52
      /\ TableLen(c, "SRAT") = SratLen(c) /\ TableLen(c, "SLIT") = 45
      /\ TableLen(c, "HMAT") = 40 /\ TableLen(c, "MCFG") = 60
  BY DEF TableLen, HeaderLen
<1>6. /\ TableLen(c, "DMAR") = 60 /\ TableLen(c, "IVRS") = 64
      /\ TableLen(c, "VIOT") = 48 /\ TableLen(c, "NFIT") = 40
      /\ TableLen(c, "CEDT") = 36 /\ TableLen(c, "WAET") = 40
  BY DEF TableLen, HeaderLen
<1>7. s \in {"FACS", "DSDT", "FACP", "APIC", "SSDT", "HPET", "TCPA", "TPM2",
            "SRAT", "SLIT", "HMAT", "MCFG", "DMAR", "IVRS", "VIOT", "NFIT",
            "CEDT", "WAET"}
  BY DEF Signatures, Tpms, Iommus
<1> QED
  BY <1>1, <1>2, <1>3, <1>4, <1>5, <1>6, <1>7

-----------------------------------------------------------------------------
(***************************************************************************)
(* The inductive invariant.                                                *)
(***************************************************************************)

(* Where the bytes are.                                                    *)
PosInv ==
  /\ pc = "front" => image = {} /\ size = 0
  /\ (pc # "front" /\ image = {}) => size = config.front
  /\ image # {} => \E t \in image : t.position + t.length = size
  /\ \A t \in image : t.position + t.length <= size
  /\ Tiled

(* Positions grow with the ranks, and a rank occurs once.                  *)
RankInv ==
  /\ \A t, u \in image :
       Rank(t.table) < Rank(u.table) => t.position + t.length <= u.position
  /\ \A t, u \in image : Rank(t.table) = Rank(u.table) => t = u
  /\ \A t \in image : t.blank <=> t.table \in Placeholders

(* The directory describes the image.                                      *)
Describes(d, t) ==
  /\ d.signature = t.table
  /\ d.offset = t.position % U32
  /\ d.length = t.length % U32

DirInv ==
  /\ \A n \in 1 .. Len(tables) : \E t \in image : Describes(tables[n], t)
  /\ \A t \in image : \E n \in 1 .. Len(tables) : Describes(tables[n], t)
  /\ \A m, n \in 1 .. Len(tables) :
       m < n => Rank(tables[m].signature) < Rank(tables[n].signature)

(* The counters of the three loops stay in their lists.                    *)
CounterInv ==
  /\ config \in Configs
  /\ pc = "front" => i = 1
  /\ pc = "append" => i <= 16 /\ \A t \in image : Rank(t.table) < i
  /\ pc = "push" => i <= 14 /\ \A t \in image : Rank(t.table) < 16

(* The slots that have been passed, and what their locals hold.            *)
Passed(k) == pc # "front" /\ (pc = "append" => k < i)

SlotInv ==
  /\ \A k \in 1 .. 15 :
       IF Passed(k) /\ Signature(config, AppendOrder[k]) # None
         THEN \E t \in image :
                /\ t.table = Signature(config, AppendOrder[k])
                /\ at[AppendOrder[k]] = t.position % U32
         ELSE at[AppendOrder[k]] = None
  /\ \A t \in image :
       \/ t.table = "RSDT" /\ pc \in {"layout", "done"}
       \/ \E k \in 1 .. 15 :
            Passed(k) /\ t.table = Signature(config, AppendOrder[k])

(* The FADT holds the addresses of the two tables in front of it.          *)
FadtInv == \A f \in image : f.table = "FACP" => f.pointers = FadtPointers

(* The addresses pushed so far are those of the tables up to a rank.       *)
Bound == IF pc = "push" THEN i + 2 ELSE 16

EntryInv ==
  /\ pc \in {"front", "append"} => entries = <<>>
  /\ pc \in {"push", "layout", "done"} =>
       /\ \A n \in 1 .. Len(entries) :
            \E t \in image :
              /\ Rank(t.table) \in 3 .. Bound - 1
              /\ entries[n] = AddressOf(t.position % U32)
       /\ \A t \in image :
            Rank(t.table) \in 3 .. Bound - 1 =>
              \E n \in 1 .. Len(entries) :
                entries[n] = AddressOf(t.position % U32)
       /\ size <= U32 =>
            \A m, n \in 1 .. Len(entries) : m < n => entries[m] < entries[n]

(* The RSDT holds the pushed addresses, the RSDP that of the RSDT.         *)
RsdtInv ==
  pc \in {"layout", "done"} =>
    \E r \in image :
      /\ r.table = "RSDT"
      /\ r.pointers = [n \in 1 .. Len(entries) |-> entries[n] % U32]
      /\ rsdp = AddressOf(r.position % U32) % U32

(* The layout has what the directory has, up to the loop's counter, and    *)
(* nothing else.                                                           *)
LayoutOf(d) ==
  [signature |-> d.signature, offset |-> d.offset, length |-> d.length,
   checksum_offset |-> d.offset + 9]

LayoutInv ==
  /\ pc \in {"layout", "done"} =>
       \A n \in 1 .. Len(tables) :
         (pc = "layout" => n < i) => LayoutOf(tables[n]) \in layout
  /\ pc \notin {"layout", "done"} => layout = {}
  /\ \A l \in layout : \E n \in 1 .. Len(tables) : l = LayoutOf(tables[n])

IInv ==
  /\ TypeOK /\ CounterInv
  /\ PosInv /\ RankInv /\ DirInv
  /\ SlotInv /\ FadtInv /\ EntryInv /\ RsdtInv /\ LayoutInv

LEMMA InitIInv == Init => IInv
<1> SUFFICES ASSUME Init PROVE IInv
  OBVIOUS
<1>1. TypeOK
  BY ConfigsAssumption DEF Init, TypeOK
<1>2. CounterInv /\ PosInv /\ RankInv /\ DirInv
  BY DEF Init, CounterInv, PosInv, RankInv, DirInv, Tiled
<1>3. SlotInv
  BY OrderFacts DEF Init, SlotInv, Passed
<1> QED
  BY <1>1, <1>2, <1>3
  DEF Init, IInv, FadtInv, EntryInv, RsdtInv, LayoutInv

-----------------------------------------------------------------------------
(* Appending a table of the highest rank so far keeps the image tiled and  *)
(* ordered and the directory in step with it.                              *)
LEMMA AppendBytesFacts ==
  ASSUME TypeOK, PosInv, RankInv, DirInv, pc # "front", pc' # "front",
         config' = config,
         NEW s \in Signatures, NEW len \in Nat, len >= 36, NEW p \in Seq(Nat),
         AppendBytes(s, len, p),
         \A t \in image : Rank(t.table) < Rank(s)
  PROVE  /\ PosInv' /\ RankInv' /\ DirInv'
         /\ size' \in Nat
         /\ \A t \in image' :
              /\ t.table \in Signatures
              /\ t.position \in Nat
              /\ t.length \in Nat /\ t.length >= 36
              /\ t.pointers \in Seq(Nat)
         /\ tables' \in Seq(TableRef)
<1> DEFINE new == [table |-> s, position |-> size, length |-> len,
                   blank |-> s \in Placeholders, pointers |-> p]
           dir == [signature |-> s, offset |-> size % U32, length |-> len % U32]
<1>1. /\ image' = image \union {new}
      /\ tables' = Append(tables, dir)
      /\ size' = size + len
      /\ size \in Nat
  BY DEF AppendBytes, TypeOK
<1>2. /\ new.table = s /\ new.position = size /\ new.length = len
      /\ new.blank = (s \in Placeholders) /\ new.pointers = p
  OBVIOUS
<1>3. \A t \in image : /\ t.table \in Signatures
                       /\ t.position \in Nat
                       /\ t.length \in Nat /\ t.length >= 36
                       /\ t.pointers \in Seq(Nat)
  BY DEF TypeOK
<1>4. dir \in TableRef
  BY <1>1, WordFacts DEF TableRef
<1>5. tables \in Seq(TableRef)
  BY DEF TypeOK
<1>6. tables' \in Seq(TableRef)
  BY <1>1, <1>4, <1>5
<1> HIDE DEF new
<1>7. PosInv'
  <2>1. \A t \in image : t.position + t.length <= size
    BY DEF PosInv
  <2>2. \A t, u \in image' :
          \/ t = u
          \/ t.position + t.length <= u.position
          \/ u.position + u.length <= t.position
    BY <1>1, <1>2, <2>1 DEF PosInv, Tiled
  <2>3. \A t \in image' : \/ t.position = config.front
                          \/ \E u \in image' : u.position + u.length = t.position
    <3>1. CASE image = {}
      BY <1>1, <1>2, <3>1 DEF PosInv
    <3>2. CASE image # {}
      BY <1>1, <1>2, <3>2 DEF PosInv, Tiled
    <3> QED
      BY <3>1, <3>2
  <2>4. \A t \in image' : \/ t.position + t.length = size'
                          \/ \E u \in image' : t.position + t.length = u.position
    BY <1>1, <1>2 DEF PosInv, Tiled
  <2>5. \A t \in image' : t.position + t.length <= size'
    BY <1>1, <1>2, <1>3, <2>1
  <2>6. \E t \in image' : t.position + t.length = size'
    BY <1>1, <1>2
  <2> QED
    BY <1>1, <2>2, <2>3, <2>4, <2>5, <2>6 DEF PosInv, Tiled
<1>8. RankInv'
  <2>1. \A t \in image : t.position + t.length <= size
    BY DEF PosInv
  <2>2. Rank(s) \in Int
    <3>1. Rank(s) \in 1 .. 16
      BY RankFacts
    <3> QED
      BY <3>1
  <2>3. ASSUME NEW t \in image PROVE Rank(t.table) \in Int
    <3>1. t.table \in Signatures
      BY <1>3
    <3>2. Rank(t.table) \in 1 .. 16
      BY <3>1, RankFacts
    <3> QED
      BY <3>2
  <2>4. ASSUME NEW t \in image', NEW u \in image', Rank(t.table) < Rank(u.table)
        PROVE  t.position + t.length <= u.position
    <3>1. CASE t \in image /\ u \in image
      BY <2>4, <3>1 DEF RankInv
    <3>2. CASE t \in image /\ u = new
      BY <1>2, <2>1, <3>2
    <3>3. CASE t = new
      BY <1>1, <1>2, <2>2, <2>3, <2>4, <3>3
    <3> QED
      BY <1>1, <3>1, <3>2, <3>3
  <2>5. ASSUME NEW t \in image', NEW u \in image', Rank(t.table) = Rank(u.table)
        PROVE  t = u
    <3>1. CASE t \in image /\ u \in image
      BY <2>5, <3>1 DEF RankInv
    <3>2. CASE t \in image /\ u = new
      BY <1>2, <2>2, <2>3, <2>5, <3>2
    <3>3. CASE t = new
      BY <1>1, <1>2, <2>2, <2>3, <2>5, <3>3
    <3> QED
      BY <1>1, <3>1, <3>2, <3>3
  <2>6. \A t \in image' : t.blank <=> t.table \in Placeholders
    BY <1>1, <1>2 DEF RankInv
  <2> QED
    BY <2>4, <2>5, <2>6 DEF RankInv
<1>9. DirInv'
  <2>1. /\ Len(tables) \in Nat
        /\ Len(tables') = Len(tables) + 1
        /\ tables'[Len(tables) + 1] = dir
        /\ \A n \in 1 .. Len(tables) : tables'[n] = tables[n]
    BY <1>1, <1>4, <1>5
  <2>2. Describes(dir, new)
    BY <1>2 DEF Describes
  <2>3. \A n \in 1 .. Len(tables') : n \in 1 .. Len(tables) \/ n = Len(tables) + 1
    BY <2>1
  <2>4. ASSUME NEW n \in 1 .. Len(tables')
        PROVE  \E t \in image' : Describes(tables'[n], t)
    <3>1. CASE n \in 1 .. Len(tables)
      <4>1. tables'[n] = tables[n]
        BY <2>1, <3>1
      <4>2. PICK t \in image : Describes(tables[n], t)
        BY <3>1 DEF DirInv
      <4> QED
        BY <1>1, <4>1, <4>2
    <3>2. CASE n = Len(tables) + 1
      BY <1>1, <2>1, <2>2, <3>2
    <3> QED
      BY <2>3, <3>1, <3>2
  <2>5. ASSUME NEW t \in image'
        PROVE  \E n \in 1 .. Len(tables') : Describes(tables'[n], t)
    <3>1. CASE t \in image
      <4>1. PICK n \in 1 .. Len(tables) : Describes(tables[n], t)
        BY <3>1 DEF DirInv
      <4>2. n \in 1 .. Len(tables') /\ tables'[n] = tables[n]
        BY <2>1
      <4> QED
        BY <4>1, <4>2
    <3>2. CASE t = new
      <4>1. Len(tables) + 1 \in 1 .. Len(tables')
        BY <2>1
      <4> QED
        BY <2>1, <2>2, <3>2, <4>1
    <3> QED
      BY <1>1, <3>1, <3>2
  <2>6. \A n \in 1 .. Len(tables) : Rank(tables[n].signature) < Rank(s)
    BY DEF DirInv, Describes
  <2>7. \A m, n \in 1 .. Len(tables') :
          m < n => Rank(tables'[m].signature) < Rank(tables'[n].signature)
    <3> SUFFICES ASSUME NEW m \in 1 .. Len(tables'), NEW n \in 1 .. Len(tables'),
                        m < n
                 PROVE  Rank(tables'[m].signature) < Rank(tables'[n].signature)
      OBVIOUS
    <3>1. m \in 1 .. Len(tables)
      BY <2>1
    <3>2. CASE n \in 1 .. Len(tables)
      BY <2>1, <3>1, <3>2 DEF DirInv
    <3>3. CASE n = Len(tables) + 1
      BY <2>1, <2>6, <3>1, <3>3
    <3> QED
      BY <2>3, <3>2, <3>3
  <2> QED
    BY <2>4, <2>5, <2>7 DEF DirInv, Describes
<1>10. \A t \in image' : /\ t.table \in Signatures
                        /\ t.position \in Nat
                        /\ t.length \in Nat /\ t.length >= 36
                        /\ t.pointers \in Seq(Nat)
  BY <1>1, <1>2, <1>3
<1> QED
  BY <1>1, <1>6, <1>7, <1>8, <1>9, <1>10

-----------------------------------------------------------------------------
LEMMA ReserveFrontIInv == IInv /\ ReserveFront => IInv'
<1> SUFFICES ASSUME IInv, ReserveFront PROVE IInv'
  OBVIOUS
<1>1. /\ image = {} /\ size = 0 /\ i = 1
      /\ config.front \in Nat /\ config' = config
      /\ UNCHANGED <<i, image, tables, at, entries, rsdp, layout>>
      /\ pc = "front" /\ pc' = "append"
  BY DEF IInv, PosInv, CounterInv, TypeOK, IsConfig, ReserveFront
<1>2. size' = config.front /\ size' \in Nat
  BY <1>1 DEF ReserveFront
<1>3. TypeOK'
  BY <1>1, <1>2 DEF IInv, TypeOK
<1>4. CounterInv' /\ PosInv'
  BY <1>1, <1>2 DEF IInv, CounterInv, PosInv, Tiled
<1>5. RankInv' /\ DirInv' /\ FadtInv'
  BY <1>1 DEF IInv, RankInv, DirInv, FadtInv, Describes
<1>6. SlotInv'
  <2>1. \A k \in 1 .. 15 : ~Passed(k) /\ ~Passed(k)'
    BY <1>1 DEF Passed
  <2> QED
    BY <1>1, <2>1 DEF IInv, SlotInv
<1> QED
  BY <1>1, <1>3, <1>4, <1>5, <1>6
  DEF IInv, EntryInv, RsdtInv, LayoutInv

(* What is known of the slot that AppendTable fills.                       *)
LEMMA AppendTableFacts ==
  ASSUME IInv, AppendTable
  PROVE  /\ i \in 1 .. 15
         /\ Signature(config, Slot) \in Signatures \ {"RSDT"}
         /\ Rank(Signature(config, Slot)) = i
         /\ TableLen(config, Signature(config, Slot)) \in Nat /\ TableLen(config, Signature(config, Slot)) >= 36
         /\ (IF Slot = "fadt" THEN FadtPointers ELSE <<>>) \in Seq(Nat)
<1>1. i \in 1 .. 15 /\ config \in Configs
  BY OrderFacts DEF IInv, TypeOK, CounterInv, AppendTable
<1>2. IsConfig(config)
  BY <1>1, ConfigsAssumption
<1>3. /\ Signature(config, Slot) \in Signatures \ {"RSDT"}
      /\ Rank(Signature(config, Slot)) = i
  BY <1>1, <1>2, SignatureRank DEF AppendTable, Slot
<1>4. TableLen(config, Signature(config, Slot)) \in Nat /\ TableLen(config, Signature(config, Slot)) >= 36
  BY <1>1, <1>3, TableLenPositive
<1>5. ASSUME Slot = "fadt" PROVE FadtPointers \in Seq(Nat)
  <2>1. i = 3
    BY <1>1, <1>5, SlotsDistinct, AppendOrderValues DEF Slot
  <2>2. Passed(1) /\ Passed(2)
    BY <2>1 DEF Passed, AppendTable
  <2>3. Signature(config, "facs") # None /\ Signature(config, "dsdt") # None
    BY FirstSlots, NoneAssumption
  <2>4. PICK t \in image : at["facs"] = t.position % U32
    BY <2>2, <2>3, AppendOrderValues DEF IInv, SlotInv
  <2>5. PICK u \in image : at["dsdt"] = u.position % U32
    BY <2>2, <2>3, AppendOrderValues DEF IInv, SlotInv
  <2>6. t.position \in Nat /\ u.position \in Nat
    BY DEF IInv, TypeOK
  <2>7. at["facs"] \in Nat /\ at["dsdt"] \in Nat
    BY <2>4, <2>5, <2>6, WordFacts
  <2>8. AddressOf(at["facs"]) \in Nat /\ AddressOf(at["dsdt"]) \in Nat
    BY <1>2, <2>7 DEF AddressOf, IsConfig
  <2>9. AddressOf(at["facs"]) % U32 \in Nat /\ AddressOf(at["dsdt"]) % U32 \in Nat
    BY <2>8, WordFacts
  <2> QED
    BY <2>8, <2>9 DEF FadtPointers
<1>6. <<>> \in Seq(Nat)
  OBVIOUS
<1> QED
  BY <1>1, <1>3, <1>4, <1>5, <1>6

LEMMA AppendTableIInv == IInv /\ AppendTable => IInv'
<1> SUFFICES ASSUME IInv, AppendTable PROVE IInv'
  OBVIOUS
<1> DEFINE s == Signature(config, Slot)
           len == TableLen(config, s)
           p == IF Slot = "fadt" THEN FadtPointers ELSE <<>>
           new == [table |-> s, position |-> size, length |-> len,
                   blank |-> s \in Placeholders, pointers |-> p]
<1>1. /\ i \in 1 .. 15 /\ Rank(s) = i
      /\ s \in Signatures /\ s # "RSDT" /\ len \in Nat /\ len >= 36 /\ p \in Seq(Nat)
  BY AppendTableFacts
<1>2. /\ pc = "append" /\ pc' = "append" /\ config' = config /\ i' = i + 1
      /\ s # None
      /\ AppendBytes(s, len, p)
      /\ at' = [at EXCEPT ![Slot] = size % U32]
      /\ UNCHANGED <<entries, rsdp, layout>>
  BY DEF AppendTable
<1>3. /\ image' = image \union {new} /\ new.table = s
      /\ new.position = size /\ new.pointers = p
  BY <1>2 DEF AppendBytes
<1> HIDE DEF s, len, p, new
<1>4. /\ TypeOK /\ PosInv /\ RankInv /\ DirInv
      /\ \A t \in image : Rank(t.table) < Rank(s)
  BY <1>1, <1>2 DEF IInv, CounterInv
<1>5. /\ PosInv' /\ RankInv' /\ DirInv'
      /\ size' \in Nat
      /\ \A t \in image' :
           /\ t.table \in Signatures
           /\ t.position \in Nat
           /\ t.length \in Nat /\ t.length >= 36
           /\ t.pointers \in Seq(Nat)
      /\ tables' \in Seq(TableRef)
  BY <1>1, <1>2, <1>4, AppendBytesFacts
<1>6. size % U32 \in Nat
  BY <1>4, WordFacts DEF TypeOK
<1>7. Slot = AppendOrder[i] /\ Slot \in Slots /\ at \in [Slots -> Nat \union {None}]
  BY <1>1, <1>4, OrderFacts DEF Slot, TypeOK
<1>8. TypeOK'
  <2>1. at' \in [Slots -> Nat \union {None}]
    BY <1>2, <1>6, <1>7
  <2>2. i' \in Nat \ {0}
    BY <1>1, <1>2
  <2> QED
    BY <1>2, <1>4, <1>5, <2>1, <2>2 DEF TypeOK
<1>9. CounterInv'
  <2>1. \A t \in image' : Rank(t.table) < i'
    <3>1. ASSUME NEW t \in image
          PROVE  Rank(t.table) < i /\ Rank(t.table) \in 1 .. 16
      <4>1. t.table \in Signatures
        BY <1>4 DEF TypeOK
      <4> QED
        BY <1>1, <1>4, <4>1, RankFacts
    <3>2. ASSUME NEW t \in image' PROVE Rank(t.table) < i + 1
      <4>1. CASE t \in image
        <5>1. Rank(t.table) < i /\ Rank(t.table) \in 1 .. 16
          BY <3>1, <4>1
        <5>2. i \in Nat
          BY <1>1
        <5> QED BY <5>1, <5>2
      <4>2. CASE t = new
        BY <1>1, <1>3, <4>2
      <4> QED
        BY <1>3, <4>1, <4>2
    <3> QED
      BY <1>2, <3>2
  <2> QED
    BY <1>1, <1>2, <2>1 DEF IInv, CounterInv
<1>10. \A k \in 1 .. 15 :
         /\ k # i => (Passed(k)' <=> Passed(k)) /\ at'[AppendOrder[k]] = at[AppendOrder[k]]
         /\ k = i => Passed(k)' /\ at'[AppendOrder[k]] = size % U32
  <2> SUFFICES ASSUME NEW k \in 1 .. 15
               PROVE
         /\ k # i => (Passed(k)' <=> Passed(k)) /\ at'[AppendOrder[k]] = at[AppendOrder[k]]
         /\ k = i => Passed(k)' /\ at'[AppendOrder[k]] = size % U32
    OBVIOUS
  <2>1. CASE k # i
    <3>1. AppendOrder[k] # AppendOrder[i] /\ AppendOrder[k] \in Slots
      BY <1>1, <2>1, SlotsDistinct, OrderFacts
    <3>2. at'[AppendOrder[k]] = at[AppendOrder[k]]
      BY <1>2, <1>7, <3>1
    <3>3. Passed(k)' <=> Passed(k)
      BY <1>1, <1>2, <2>1 DEF Passed
    <3> QED
      BY <2>1, <3>2, <3>3
  <2>2. CASE k = i
    BY <1>1, <1>2, <1>7, <2>2 DEF Passed
  <2> QED
    BY <2>1, <2>2
<1>11. SlotInv'
  <2>1. ASSUME NEW k \in 1 .. 15
        PROVE  IF Passed(k)' /\ Signature(config, AppendOrder[k]) # None
                 THEN \E t \in image' :
                        /\ t.table = Signature(config, AppendOrder[k])
                        /\ at'[AppendOrder[k]] = t.position % U32
                 ELSE at'[AppendOrder[k]] = None
    <3>1. CASE k # i
      BY <1>3, <1>10, <3>1 DEF IInv, SlotInv
    <3>2. CASE k = i
      <4>1. s = Signature(config, AppendOrder[k])
        BY <1>7, <3>2 DEF s
      <4> QED
        BY <1>2, <1>3, <1>10, <3>2, <4>1
    <3> QED
      BY <3>1, <3>2
  <2>2. ASSUME NEW t \in image'
        PROVE  \E k \in 1 .. 15 :
                 Passed(k)' /\ t.table = Signature(config, AppendOrder[k])
    <3>1. CASE t \in image
      <4>1. PICK k \in 1 .. 15 :
              Passed(k) /\ t.table = Signature(config, AppendOrder[k])
        BY <1>2, <3>1 DEF IInv, SlotInv
      <4> QED
        BY <1>10, <4>1
    <3>2. CASE t = new
      <4>1. s = Signature(config, AppendOrder[i])
        BY <1>7 DEF s
      <4> QED
        BY <1>1, <1>3, <1>10, <3>2, <4>1
    <3> QED
      BY <1>3, <3>1, <3>2
  <2> QED
    BY <1>2, <2>1, <2>2 DEF SlotInv
<1>12. FadtInv'
  <2> SUFFICES ASSUME NEW f \in image', f.table = "FACP"
               PROVE  f.pointers = FadtPointers'
    BY DEF FadtInv
  <2>1. i >= 3
    <3>1. CASE f \in image
      BY <1>1, <1>4, <3>1, RankValues
    <3>2. CASE f = new
      BY <1>1, <1>3, <3>2, RankValues
    <3> QED
      BY <1>3, <3>1, <3>2
  <2>2. at'["facs"] = at["facs"] /\ at'["dsdt"] = at["dsdt"]
    <3>1. 1 \in 1 .. 15 /\ 2 \in 1 .. 15 /\ i # 1 /\ i # 2
      BY <1>1, <2>1
    <3> QED
      BY <1>10, <3>1, AppendOrderValues
  <2>3. FadtPointers' = FadtPointers
    BY <1>2, <2>2 DEF FadtPointers, AddressOf
  <2>4. CASE f \in image
    BY <2>3, <2>4 DEF IInv, FadtInv
  <2>5. CASE f = new
    <3>1. i = 3
      BY <1>1, <1>3, <2>5, RankValues
    <3>2. Slot = "fadt"
      BY <1>7, <3>1, AppendOrderValues
    <3> QED
      BY <1>3, <2>3, <2>5, <3>2 DEF p
  <2> QED
    BY <1>3, <2>4, <2>5
<1> QED
  BY <1>2, <1>5, <1>8, <1>9, <1>11, <1>12
  DEF IInv, EntryInv, RsdtInv, LayoutInv

LEMMA SkipTableIInv == IInv /\ SkipTable => IInv'
<1> SUFFICES ASSUME IInv, SkipTable PROVE IInv'
  OBVIOUS
<1>1. /\ pc = "append" /\ i \in 1 .. 15 /\ i' = i + 1
      /\ Signature(config, AppendOrder[i]) = None
      /\ UNCHANGED <<pc, config, size, image, tables, at, entries, rsdp, layout>>
  <2>1. i \in Nat \ {0} /\ i <= 15
    BY OrderFacts DEF IInv, TypeOK, SkipTable
  <2> QED
    BY <2>1 DEF SkipTable, Slot
<1>2. TypeOK'
  BY <1>1 DEF IInv, TypeOK
<1>3. CounterInv'
  <2>1. ASSUME NEW t \in image PROVE Rank(t.table) < i + 1
    <3>1. t.table \in Signatures /\ Rank(t.table) < i
      BY <1>1 DEF IInv, TypeOK, CounterInv
    <3>2. Rank(t.table) \in 1 .. 16
      BY <3>1, RankFacts
    <3> QED
      BY <1>1, <3>1, <3>2
  <2> QED
    BY <1>1, <2>1 DEF IInv, CounterInv
<1>4. PosInv' /\ RankInv' /\ DirInv' /\ FadtInv'
  BY <1>1 DEF IInv, PosInv, Tiled, RankInv, DirInv, Describes, FadtInv,
              FadtPointers, AddressOf
<1>5. SlotInv'
  <2>1. \A k \in 1 .. 15 : k # i => (Passed(k)' <=> Passed(k))
    BY <1>1 DEF Passed
  <2>2. ~Passed(i)
    BY <1>1 DEF Passed
  <2>3. \A k \in 1 .. 15 : Passed(k) => Passed(k)'
    BY <2>1, <2>2
  <2> QED
    BY <1>1, <2>1, <2>2, <2>3 DEF IInv, SlotInv
<1> QED
  BY <1>1, <1>2, <1>3, <1>4, <1>5
  DEF IInv, EntryInv, RsdtInv, LayoutInv

LEMMA StartEntriesIInv == IInv /\ StartEntries => IInv'
<1> SUFFICES ASSUME IInv, StartEntries PROVE IInv'
  OBVIOUS
<1>1. /\ pc = "append" /\ pc' = "push" /\ i = 16 /\ i' = 1
      /\ UNCHANGED <<config, size, image, tables, at, entries, rsdp, layout>>
  BY OrderFacts DEF IInv, TypeOK, CounterInv, StartEntries
<1>2. TypeOK' /\ CounterInv'
  BY <1>1 DEF IInv, TypeOK, CounterInv
<1>3. PosInv' /\ RankInv' /\ DirInv' /\ FadtInv'
  BY <1>1 DEF IInv, PosInv, Tiled, RankInv, DirInv, Describes, FadtInv,
              FadtPointers, AddressOf
<1>4. SlotInv'
  <2>1. \A k \in 1 .. 15 : Passed(k)' /\ Passed(k)
    BY <1>1 DEF Passed
  <2> QED
    BY <1>1, <2>1 DEF IInv, SlotInv
<1>5. EntryInv'
  BY <1>1 DEF IInv, EntryInv, Bound
<1> QED
  BY <1>1, <1>2, <1>3, <1>4, <1>5 DEF IInv, RsdtInv, LayoutInv

(* A number that a table's position puts on the list of entries.           *)
LEMMA AddressFacts ==
  ASSUME IInv, NEW t \in image
  PROVE  /\ t.position \in Nat /\ t.position < size
         /\ t.position % U32 \in Nat
         /\ AddressOf(t.position % U32) \in Nat
         /\ size <= U32 => t.position % U32 = t.position
         /\ Rank(t.table) \in 1 .. 16
<1>1. /\ t.position \in Nat /\ t.length \in Nat /\ t.length >= 36 /\ t.table \in Signatures
      /\ size \in Nat /\ config.base \in Nat
      /\ t.position + t.length <= size
  BY DEF IInv, TypeOK, PosInv, IsConfig
<1>2. t.position % U32 \in Nat /\ (t.position < U32 => t.position % U32 = t.position)
  BY <1>1, WordFacts
<1>3. Rank(t.table) \in 1 .. 16
  BY <1>1, RankFacts
<1> QED
  BY <1>1, <1>2, <1>3, U32Assumption DEF AddressOf

LEMMA PushEntryIInv == IInv /\ PushEntry => IInv'
<1> SUFFICES ASSUME IInv, PushEntry PROVE IInv'
  OBVIOUS
<1> DEFINE k == i + 2
           e == AddressOf(at[AppendOrder[k]])
<1>1. /\ pc = "push" /\ i \in 1 .. 13 /\ i' = i + 1 /\ k \in 3 .. 15
      /\ UNCHANGED <<pc, config, size, image, tables, at, rsdp, layout>>
  <2>1. i \in Nat \ {0} /\ i <= 13
    BY OrderFacts DEF IInv, TypeOK, PushEntry
  <2> QED
    BY <2>1 DEF PushEntry
<1>2. EntryOrder[i] = AppendOrder[k]
  BY <1>1, OrderFacts
<1>3. entries' = IF at[AppendOrder[k]] = None THEN entries ELSE Append(entries, e)
  BY <1>2 DEF PushEntry
<1>4. entries \in Seq(Nat)
  BY DEF IInv, TypeOK
<1>5. \A j \in 1 .. 15 : Passed(j) /\ Passed(j)'
  BY <1>1 DEF Passed
<1>6. IsConfig(config)
  BY DEF IInv, TypeOK
<1>7. Bound = k /\ Bound' = k + 1
  BY <1>1 DEF Bound
<1> HIDE DEF k, e
<1>8. ASSUME NEW t \in image, Rank(t.table) = k
      PROVE  at[AppendOrder[k]] = t.position % U32 /\ at[AppendOrder[k]] # None
  <2>1. PICK j \in 1 .. 15 : t.table = Signature(config, AppendOrder[j])
    BY <1>1 DEF IInv, SlotInv
  <2>2. t.table # None
    <3>1. t.table \in Signatures
      BY DEF IInv, TypeOK
    <3> QED
      BY <3>1, NoneAssumption DEF Signatures
  <2>3. j = k
    BY <1>6, <1>8, <2>1, <2>2, SignatureRank
  <2>4. PICK u \in image : /\ u.table = Signature(config, AppendOrder[k])
                           /\ at[AppendOrder[k]] = u.position % U32
    BY <1>1, <1>5, <2>1, <2>2, <2>3 DEF IInv, SlotInv
  <2>5. u = t
    BY <2>1, <2>3, <2>4 DEF IInv, RankInv
  <2>6. t.position % U32 \in Nat
    BY AddressFacts
  <2> QED
    BY <2>4, <2>5, <2>6, NoneAssumption
<1>9. ASSUME at[AppendOrder[k]] # None
      PROVE  \E t \in image : Rank(t.table) = k /\ at[AppendOrder[k]] = t.position % U32
  <2>1. k \in 1 .. 15
    BY <1>1
  <2>2. Signature(config, AppendOrder[k]) # None
    BY <1>5, <1>9, <2>1 DEF IInv, SlotInv
  <2>3. PICK t \in image : /\ t.table = Signature(config, AppendOrder[k])
                           /\ at[AppendOrder[k]] = t.position % U32
    BY <1>5, <2>1, <2>2 DEF IInv, SlotInv
  <2>4. Rank(t.table) = k
    BY <1>6, <2>1, <2>2, <2>3, SignatureRank
  <2> QED
    BY <2>3, <2>4
<1>10. ASSUME NEW t \in image
       PROVE  Rank(t.table) \in 3 .. (k + 1) - 1 <=>
                Rank(t.table) \in 3 .. k - 1 \/ Rank(t.table) = k
  <2>1. Rank(t.table) \in 1 .. 16
    BY AddressFacts
  <2> QED
    BY <1>1, <2>1
<1>11. CASE at[AppendOrder[k]] = None
  <2>1. entries' = entries
    BY <1>3, <1>11
  <2>2. TypeOK' /\ CounterInv'
    BY <1>1, <2>1 DEF IInv, TypeOK, CounterInv
  <2>3. EntryInv'
    <3>1. \A t \in image : Rank(t.table) # k
      BY <1>8, <1>11
    <3>2. /\ \A n \in 1 .. Len(entries) :
               \E t \in image :
                 /\ Rank(t.table) \in 3 .. (k + 1) - 1
                 /\ entries[n] = AddressOf(t.position % U32)
          /\ \A t \in image :
               Rank(t.table) \in 3 .. (k + 1) - 1 =>
                 \E n \in 1 .. Len(entries) :
                   entries[n] = AddressOf(t.position % U32)
      BY <1>1, <1>7, <1>10, <3>1 DEF IInv, EntryInv
    <3> QED
      BY <1>1, <1>7, <2>1, <3>2 DEF IInv, EntryInv, AddressOf
  <2> QED
    BY <1>1, <1>5, <2>1, <2>2, <2>3
    DEF IInv, PosInv, Tiled, RankInv, DirInv, Describes, SlotInv, FadtInv,
        FadtPointers, AddressOf, RsdtInv, LayoutInv
<1>12. CASE at[AppendOrder[k]] # None
  <2>1. PICK t \in image : Rank(t.table) = k /\ at[AppendOrder[k]] = t.position % U32
    BY <1>9, <1>12
  <2>2. e = AddressOf(t.position % U32) /\ e \in Nat
    <3>1. e = AddressOf(t.position % U32)
      BY <2>1 DEF e
    <3> QED
      BY <3>1, AddressFacts
  <2>3. entries' = Append(entries, e)
    BY <1>3, <1>12
  <2>4. /\ entries' \in Seq(Nat)
        /\ Len(entries) \in Nat
        /\ Len(entries') = Len(entries) + 1
        /\ entries'[Len(entries) + 1] = e
        /\ \A n \in 1 .. Len(entries) : entries'[n] = entries[n]
    BY <1>4, <2>2, <2>3
  <2>5. TypeOK' /\ CounterInv'
    BY <1>1, <2>4 DEF IInv, TypeOK, CounterInv
  <2>6. ASSUME NEW n \in 1 .. Len(entries')
        PROVE  \E u \in image : /\ Rank(u.table) \in 3 .. (k + 1) - 1
                                /\ entries'[n] = AddressOf(u.position % U32)
    <3>1. CASE n \in 1 .. Len(entries)
      <4>1. PICK u \in image : /\ Rank(u.table) \in 3 .. k - 1
                               /\ entries[n] = AddressOf(u.position % U32)
        BY <1>1, <1>7, <3>1 DEF IInv, EntryInv
      <4> QED
        BY <1>10, <2>4, <3>1, <4>1
    <3>2. CASE n = Len(entries) + 1
      BY <1>10, <2>1, <2>2, <2>4, <3>2
    <3> QED
      BY <2>4, <3>1, <3>2
  <2>7. ASSUME NEW u \in image, Rank(u.table) \in 3 .. (k + 1) - 1
        PROVE  \E n \in 1 .. Len(entries') : entries'[n] = AddressOf(u.position % U32)
    <3>1. CASE Rank(u.table) \in 3 .. k - 1
      <4>1. PICK n \in 1 .. Len(entries) : entries[n] = AddressOf(u.position % U32)
        BY <1>1, <1>7, <3>1 DEF IInv, EntryInv
      <4>2. n \in 1 .. Len(entries') /\ entries'[n] = entries[n]
        BY <2>4
      <4> QED
        BY <4>1, <4>2
    <3>2. CASE Rank(u.table) = k
      <4>1. u = t
        BY <2>1, <3>2 DEF IInv, RankInv
      <4>2. Len(entries) + 1 \in 1 .. Len(entries')
        BY <2>4
      <4> QED
        BY <2>2, <2>4, <4>1, <4>2
    <3> QED
      BY <1>10, <2>7, <3>1, <3>2
  <2>8. ASSUME size <= U32, NEW m \in 1 .. Len(entries'), NEW n \in 1 .. Len(entries'),
               m < n
        PROVE  entries'[m] < entries'[n]
    <3>1. m \in 1 .. Len(entries)
      BY <2>4, <2>8
    <3>2. CASE n \in 1 .. Len(entries)
      BY <1>1, <2>4, <2>8, <3>1, <3>2 DEF IInv, EntryInv
    <3>3. CASE n = Len(entries) + 1
      <4>1. PICK u \in image : /\ Rank(u.table) \in 3 .. k - 1
                               /\ entries[m] = AddressOf(u.position % U32)
        BY <1>1, <1>7, <3>1 DEF IInv, EntryInv
      <4>2. u.position + u.length <= t.position /\ u.length \in Nat /\ u.length >= 36
        <5>1. Rank(u.table) < Rank(t.table)
          BY <1>1, <2>1, <4>1
        <5> QED
          BY <5>1 DEF IInv, RankInv, TypeOK
      <4>3. /\ u.position % U32 = u.position /\ t.position % U32 = t.position
            /\ u.position \in Nat /\ t.position \in Nat
        BY <2>8, AddressFacts
      <4>4. config.base \in Nat
        BY <1>6 DEF IsConfig
      <4>5. /\ entries'[m] = config.base + u.position
            /\ entries'[n] = config.base + t.position
        BY <2>2, <2>4, <3>1, <3>3, <4>1, <4>3 DEF AddressOf
      <4> QED
        BY <4>2, <4>3, <4>4, <4>5
    <3> QED
      BY <2>4, <3>2, <3>3
  <2>9. EntryInv'
    BY <1>1, <1>7, <2>6, <2>7, <2>8 DEF EntryInv, AddressOf
  <2> QED
    BY <1>1, <1>5, <2>5, <2>9
    DEF IInv, PosInv, Tiled, RankInv, DirInv, Describes, SlotInv, FadtInv,
        FadtPointers, AddressOf, RsdtInv, LayoutInv
<1> QED
  BY <1>11, <1>12

LEMMA AppendRsdtIInv == IInv /\ AppendRsdt => IInv'
<1> SUFFICES ASSUME IInv, AppendRsdt PROVE IInv'
  OBVIOUS
<1> DEFINE len == HeaderLen + 4 * Len(entries)
           p == [n \in 1 .. Len(entries) |-> entries[n] % U32]
           new == [table |-> "RSDT", position |-> size, length |-> len,
                   blank |-> "RSDT" \in Placeholders, pointers |-> p]
<1>1. /\ pc = "push" /\ pc' = "layout" /\ i = 14 /\ i' = 1
      /\ AppendBytes("RSDT", len, p)
      /\ rsdp' = AddressOf(size % U32) % U32
      /\ UNCHANGED <<config, at, entries, layout>>
  <2>1. i \in Nat \ {0} /\ i <= 14 /\ i > 13
    BY OrderFacts DEF IInv, TypeOK, CounterInv, AppendRsdt
  <2> QED
    BY <2>1 DEF AppendRsdt
<1>2. /\ image' = image \union {new} /\ new.table = "RSDT"
      /\ new.position = size /\ new.pointers = p
      /\ size' = size + len
  BY <1>1 DEF AppendBytes
<1>3. entries \in Seq(Nat) /\ size \in Nat /\ config.base \in Nat
  BY DEF IInv, TypeOK, IsConfig
<1>4. len \in Nat /\ len >= 36
  BY <1>3 DEF HeaderLen
<1>5. p \in Seq(Nat)
  <2>1. ASSUME NEW n \in 1 .. Len(entries) PROVE entries[n] % U32 \in Nat
    <3>1. entries[n] \in Nat
      BY <1>3
    <3> QED
      BY <3>1, WordFacts
  <2> QED
    BY <1>3, <2>1
<1> HIDE DEF len, p, new
<1>6. /\ TypeOK /\ PosInv /\ RankInv /\ DirInv
      /\ \A t \in image : Rank(t.table) < Rank("RSDT")
      /\ "RSDT" \in Signatures
  BY <1>1, RankValues DEF IInv, CounterInv, Signatures
<1>7. /\ PosInv' /\ RankInv' /\ DirInv'
      /\ size' \in Nat
      /\ \A t \in image' :
           /\ t.table \in Signatures
           /\ t.position \in Nat
           /\ t.length \in Nat /\ t.length >= 36
           /\ t.pointers \in Seq(Nat)
      /\ tables' \in Seq(TableRef)
  BY <1>1, <1>4, <1>5, <1>6, AppendBytesFacts
<1>8. rsdp' \in Nat
  <2>1. size % U32 \in Nat
    BY <1>3, WordFacts
  <2>2. AddressOf(size % U32) \in Nat
    BY <1>3, <2>1 DEF AddressOf
  <2> QED
    BY <1>1, <2>2, WordFacts
<1>9. TypeOK' /\ CounterInv'
  BY <1>1, <1>7, <1>8 DEF IInv, TypeOK, CounterInv
<1>10. SlotInv'
  <2>1. \A k \in 1 .. 15 : Passed(k)' /\ Passed(k)
    BY <1>1 DEF Passed
  <2>2. \A t \in image' : \/ t.table = "RSDT"
                          \/ \E k \in 1 .. 15 : t.table = Signature(config, AppendOrder[k])
    BY <1>1, <1>2 DEF IInv, SlotInv
  <2>3. ASSUME NEW k \in 1 .. 15
        PROVE  IF Signature(config, AppendOrder[k]) # None
                 THEN \E t \in image' :
                        /\ t.table = Signature(config, AppendOrder[k])
                        /\ at[AppendOrder[k]] = t.position % U32
                 ELSE at[AppendOrder[k]] = None
    BY <1>2, <2>1 DEF IInv, SlotInv
  <2> QED
    BY <1>1, <2>1, <2>2, <2>3 DEF SlotInv
<1>11. FadtInv'
  BY <1>1, <1>2 DEF IInv, FadtInv, FadtPointers, AddressOf
<1>12. EntryInv'
  <2>1. Bound = 16 /\ Bound' = 16
    BY <1>1 DEF Bound
  <2>2. size' <= U32 => size <= U32
    BY <1>2, <1>3, <1>4, U32Assumption
  <2>3. ASSUME NEW n \in 1 .. Len(entries)
        PROVE  \E t \in image' : /\ Rank(t.table) \in 3 .. 15
                                 /\ entries[n] = AddressOf(t.position % U32)
    BY <1>1, <1>2, <2>1 DEF IInv, EntryInv
  <2>4. ASSUME NEW t \in image', Rank(t.table) \in 3 .. 15
        PROVE  \E n \in 1 .. Len(entries) : entries[n] = AddressOf(t.position % U32)
    <3>1. t \in image
      BY <1>2, <2>4, RankValues
    <3> QED
      BY <1>1, <2>1, <2>4, <3>1 DEF IInv, EntryInv
  <2>5. ASSUME size' <= U32, NEW m \in 1 .. Len(entries), NEW n \in 1 .. Len(entries),
               m < n
        PROVE  entries[m] < entries[n]
    BY <1>1, <2>2, <2>5 DEF IInv, EntryInv
  <2>6. 3 .. Bound' - 1 = 3 .. 15
    BY <2>1
  <2> QED
    BY <1>1, <2>3, <2>4, <2>5, <2>6 DEF EntryInv, AddressOf
<1>13. RsdtInv'
  BY <1>1, <1>2 DEF RsdtInv, AddressOf, p
<1>14. LayoutInv'
  BY <1>1 DEF IInv, LayoutInv
<1> QED
  BY <1>7, <1>9, <1>10, <1>11, <1>12, <1>13, <1>14 DEF IInv

(* The parts of the invariant that the last two actions leave alone.       *)
LEMMA BlobUnchanged ==
  ASSUME IInv, pc = "layout", pc' \in {"layout", "done"},
         UNCHANGED <<config, size, image, tables, at, entries, rsdp>>
  PROVE  /\ PosInv' /\ RankInv' /\ DirInv' /\ CounterInv'
         /\ SlotInv' /\ FadtInv' /\ EntryInv' /\ RsdtInv'
<1>1. PosInv' /\ RankInv' /\ DirInv' /\ CounterInv' /\ FadtInv' /\ RsdtInv'
  BY DEF IInv, PosInv, Tiled, RankInv, DirInv, Describes, CounterInv, FadtInv,
         FadtPointers, RsdtInv, AddressOf
<1>2. SlotInv'
  <2>1. \A k \in 1 .. 15 : Passed(k)' /\ Passed(k)
    BY DEF Passed
  <2> QED
    BY <2>1 DEF IInv, SlotInv
<1>3. EntryInv'
  <2>1. Bound = 16 /\ Bound' = 16
    BY DEF Bound
  <2> QED
    BY <2>1 DEF IInv, EntryInv, AddressOf
<1> QED
  BY <1>1, <1>2, <1>3

LEMMA InsertLayoutIInv == IInv /\ InsertLayout => IInv'
<1> SUFFICES ASSUME IInv, InsertLayout PROVE IInv'
  OBVIOUS
<1> DEFINE new == LayoutOf(tables[i])
<1>1. /\ pc = "layout" /\ pc' = "layout" /\ i' = i + 1
      /\ i \in 1 .. Len(tables)
      /\ tables \in Seq(TableRef)
      /\ tables[i] \in TableRef
      /\ UNCHANGED <<config, size, image, tables, at, entries, rsdp>>
  <2>1. tables \in Seq(TableRef)
    BY DEF IInv, TypeOK
  <2>2. i \in 1 .. Len(tables)
    <3>1. i \in Nat \ {0} /\ i <= Len(tables)
      BY DEF IInv, TypeOK, InsertLayout
    <3>2. Len(tables) \in Nat
      BY <2>1
    <3> QED
      BY <3>1, <3>2
  <2>3. tables[i] \in TableRef
    BY <2>1, <2>2
  <2> QED
    BY <2>1, <2>2, <2>3 DEF InsertLayout
<1>2. layout' = {l \in layout : l.signature # tables[i].signature} \union {new}
  BY DEF InsertLayout, LayoutOf
<1>3. new \in TableLayout
  BY <1>1 DEF LayoutOf, TableRef, TableLayout
<1>4. TypeOK'
  BY <1>1, <1>2, <1>3 DEF IInv, TypeOK
<1>5. ASSUME NEW n \in 1 .. Len(tables), n < i + 1
      PROVE  LayoutOf(tables[n]) \in layout'
  <2>1. CASE n = i
    BY <1>2, <2>1
  <2>2. CASE n < i
    <3>1. LayoutOf(tables[n]) \in layout
      BY <1>1, <2>2 DEF IInv, LayoutInv
    <3>2. tables[n].signature # tables[i].signature
      <4>1. Rank(tables[n].signature) < Rank(tables[i].signature)
        BY <1>1, <2>2 DEF IInv, DirInv
      <4>2. tables[i].signature \in Signatures
        BY <1>1 DEF TableRef
      <4>3. Rank(tables[i].signature) \in 1 .. 16
        BY <4>2, RankFacts
      <4> QED
        BY <4>1, <4>3
    <3>3. LayoutOf(tables[n]).signature = tables[n].signature
      BY DEF LayoutOf
    <3> QED
      BY <1>2, <3>1, <3>2, <3>3
  <2> QED
    BY <1>1, <1>5, <2>1, <2>2
<1>6. \A l \in layout' : \E n \in 1 .. Len(tables) : l = LayoutOf(tables[n])
  BY <1>1, <1>2 DEF IInv, LayoutInv
<1> HIDE DEF new
<1>7. LayoutInv'
  BY <1>1, <1>5, <1>6 DEF LayoutInv, LayoutOf
<1> QED
  BY <1>1, <1>4, <1>7, BlobUnchanged DEF IInv

LEMMA ReturnIInv == IInv /\ Return => IInv'
<1> SUFFICES ASSUME IInv, Return PROVE IInv'
  OBVIOUS
<1>1. /\ pc = "layout" /\ pc' = "done" /\ i > Len(tables)
      /\ UNCHANGED <<i, config, size, image, tables, at, entries, rsdp, layout>>
  BY DEF Return
<1>2. TypeOK'
  BY <1>1 DEF IInv, TypeOK
<1>3. LayoutInv'
  <2>1. i \in Nat /\ Len(tables) \in Nat
    BY DEF IInv, TypeOK
  <2>2. \A n \in 1 .. Len(tables) : n < i
    BY <1>1, <2>1
  <2> QED
    BY <1>1, <2>2 DEF IInv, LayoutInv, LayoutOf
<1> QED
  BY <1>1, <1>2, <1>3, BlobUnchanged DEF IInv

LEMMA NextIInv == IInv /\ [Next]_vars => IInv'
<1> SUFFICES ASSUME IInv, [Next]_vars PROVE IInv'
  OBVIOUS
<1>1. CASE UNCHANGED vars
  <2>1. Bound' = Bound /\ \A k \in 1 .. 15 : Passed(k)' <=> Passed(k)
    BY <1>1 DEF vars, Bound, Passed
  <2>2. TypeOK' /\ CounterInv'
    BY <1>1 DEF vars, IInv, TypeOK, CounterInv
  <2>3. PosInv' /\ RankInv' /\ DirInv'
    BY <1>1 DEF vars, IInv, PosInv, Tiled, RankInv, DirInv, Describes
  <2>4. SlotInv' /\ FadtInv'
    BY <1>1, <2>1 DEF vars, IInv, SlotInv, FadtInv, FadtPointers, AddressOf
  <2>5. EntryInv' /\ RsdtInv' /\ LayoutInv'
    BY <1>1, <2>1 DEF vars, IInv, EntryInv, AddressOf, RsdtInv, LayoutInv, LayoutOf
  <2> QED
    BY <2>2, <2>3, <2>4, <2>5 DEF IInv
<1> QED
  BY <1>1, ReserveFrontIInv, AppendTableIInv, SkipTableIInv, StartEntriesIInv,
     PushEntryIInv, AppendRsdtIInv, InsertLayoutIInv, ReturnIInv
  DEF Next, Done

LEMMA SpecIInv == Spec => []IInv
  BY InitIInv, NextIInv, PTL DEF Spec

-----------------------------------------------------------------------------
(***************************************************************************)
(* The theorems.                                                           *)
(***************************************************************************)

(* The builder's fields keep their types; no table is shorter than a       *)
(* header.                                                                 *)
THEOREM TypeCorrect == Spec => []TypeOK
<1>1. IInv => TypeOK
  BY DEF IInv
<1> QED
  BY <1>1, SpecIInv, PTL

(* The tables tile the blob, whatever the configuration switches on.       *)
THEOREM TilingCorrect == Spec => []Tiled
<1>1. IInv => Tiled
  BY DEF IInv, PosInv
<1> QED
  BY <1>1, SpecIInv, PTL

(* An address below 4 GiB survives its truncation.                         *)
LEMMA LowAddress ==
  ASSUME IInv, Low, NEW t \in image
  PROVE  /\ AddressOf(t.position) \in Nat
         /\ t.position % U32 = t.position
         /\ AddressOf(t.position) % U32 = AddressOf(t.position)
<1>1. /\ t.position \in Nat /\ t.position < size
      /\ size <= U32 => t.position % U32 = t.position
  BY AddressFacts
<1>2. size \in Nat /\ config.base \in Nat /\ config.base + size <= U32
  BY DEF IInv, TypeOK, IsConfig, Low
<1>3. /\ AddressOf(t.position) \in Nat /\ AddressOf(t.position) < U32
      /\ size <= U32
  BY <1>1, <1>2, U32Assumption DEF AddressOf
<1> QED
  BY <1>1, <1>3, WordFacts

(* Below 4 GiB the RSDP leads to the RSDT, and the RSDT to every other     *)
(* table but the two that the FADT leads to, for every configuration.      *)
THEOREM RsdtCorrect == Spec => []RsdtListsTables
<1>1. IInv => RsdtListsTables
  <2> SUFFICES ASSUME IInv, pc \in {"layout", "done"}, Low
               PROVE  \E r \in Addressed(rsdp) :
                 /\ r.table = "RSDT"
                 /\ \A m, n \in 1 .. Len(r.pointers) :
                      m < n => r.pointers[m] < r.pointers[n]
                 /\ \A n \in 1 .. Len(r.pointers) :
                      \E t \in Addressed(r.pointers[n]) :
                        t.table \notin {"FACS", "DSDT", "RSDT"}
                 /\ \A t \in image :
                      \/ t.table \in {"FACS", "DSDT", "RSDT"}
                      \/ \E n \in 1 .. Len(r.pointers) :
                           t \in Addressed(r.pointers[n])
    BY DEF RsdtListsTables
  <2>1. PICK r \in image :
          /\ r.table = "RSDT"
          /\ r.pointers = [n \in 1 .. Len(entries) |-> entries[n] % U32]
          /\ rsdp = AddressOf(r.position % U32) % U32
    BY DEF IInv, RsdtInv
  <2>2. r \in Addressed(rsdp)
    <3>1. rsdp = AddressOf(r.position)
      BY <2>1, LowAddress
    <3> QED
      BY <3>1 DEF Addressed, AddressOf
  <2>3. entries \in Seq(Nat) /\ Len(entries) \in Nat /\ Bound = 16
    BY DEF IInv, TypeOK, Bound
  <2>4. Len(r.pointers) = Len(entries)
    <3>1. r.pointers \in Seq(Nat) /\ DOMAIN r.pointers = 1 .. Len(entries)
      BY <2>1 DEF IInv, TypeOK
    <3> QED
      BY <2>3, <3>1
  <2>5. ASSUME NEW n \in 1 .. Len(entries)
        PROVE  /\ r.pointers[n] = entries[n]
               /\ \E t \in image : /\ Rank(t.table) \in 3 .. 15
                                   /\ entries[n] = AddressOf(t.position)
    <3>1. PICK t \in image : /\ Rank(t.table) \in 3 .. 15
                             /\ entries[n] = AddressOf(t.position % U32)
      BY <2>3 DEF IInv, EntryInv
    <3>2. /\ entries[n] = AddressOf(t.position)
          /\ AddressOf(t.position) % U32 = AddressOf(t.position)
      BY <3>1, LowAddress
    <3> QED
      BY <2>1, <3>1, <3>2
  <2>6. ASSUME NEW m \in 1 .. Len(entries), NEW n \in 1 .. Len(entries), m < n
        PROVE  r.pointers[m] < r.pointers[n]
    <3>1. size <= U32
      BY U32Assumption DEF IInv, TypeOK, IsConfig, Low
    <3>2. entries[m] < entries[n]
      BY <2>6, <3>1 DEF IInv, EntryInv
    <3> QED
      BY <2>5, <3>2
  <2>7. ASSUME NEW n \in 1 .. Len(entries)
        PROVE  \E t \in Addressed(r.pointers[n]) :
                 t.table \notin {"FACS", "DSDT", "RSDT"}
    <3>1. PICK t \in image : /\ Rank(t.table) \in 3 .. 15
                             /\ r.pointers[n] = AddressOf(t.position)
      BY <2>5
    <3>2. t \in Addressed(r.pointers[n])
      BY <3>1 DEF Addressed, AddressOf
    <3>3. t.table \notin {"FACS", "DSDT", "RSDT"}
      BY <3>1, RankValues
    <3> QED
      BY <3>2, <3>3
  <2>8. ASSUME NEW t \in image, t.table \notin {"FACS", "DSDT", "RSDT"}
        PROVE  \E n \in 1 .. Len(entries) : t \in Addressed(r.pointers[n])
    <3>1. Rank(t.table) \in 3 .. 15
      <4>1. t.table \in Signatures
        BY DEF IInv, TypeOK
      <4>2. /\ Rank(t.table) \in 1 .. 16 /\ Rank(t.table) # 1
            /\ Rank(t.table) # 2 /\ Rank(t.table) # 16
        BY <2>8, <4>1, RankFacts
      <4> QED
        BY <4>2
    <3>2. PICK n \in 1 .. Len(entries) : entries[n] = AddressOf(t.position % U32)
      BY <2>3, <3>1 DEF IInv, EntryInv
    <3>3. t.position % U32 = t.position
      BY LowAddress
    <3>4. r.pointers[n] = AddressOf(t.position)
      BY <2>5, <3>2, <3>3
    <3> QED
      BY <3>4 DEF Addressed, AddressOf
  <2> QED
    BY <2>1, <2>2, <2>4, <2>6, <2>7, <2>8
<1> QED
  BY <1>1, SpecIInv, PTL

(* What the FADT's three pointers are.                                     *)
LEMMA FadtTargets ==
  ASSUME IInv, NEW f \in image, f.table = "FACP"
  PROVE  \E t, u \in image :
           /\ t.table = "FACS" /\ ~t.blank
           /\ u.table = "DSDT" /\ ~u.blank
           /\ f.pointers = <<AddressOf(t.position % U32) % U32,
                             AddressOf(u.position % U32) % U32,
                             AddressOf(u.position % U32)>>
<1>1. f.pointers = FadtPointers
  BY DEF IInv, FadtInv
<1>2. IsConfig(config) /\ f.table # None
  BY NoneAssumption DEF IInv, TypeOK
<1>3. Passed(1) /\ Passed(2)
  <2>1. PICK k \in 1 .. 15 : Passed(k) /\ f.table = Signature(config, AppendOrder[k])
    BY DEF IInv, SlotInv
  <2>2. k = 3
    BY <1>2, <2>1, SignatureRank, RankValues
  <2>3. i \in Nat
    BY DEF IInv, TypeOK
  <2> QED
    BY <2>1, <2>2, <2>3 DEF Passed
<1>4. Signature(config, "facs") = "FACS" /\ Signature(config, "dsdt") = "DSDT"
  BY FirstSlots
<1>5. PICK t \in image : t.table = "FACS" /\ at["facs"] = t.position % U32
  BY <1>3, <1>4, AppendOrderValues, NoneAssumption DEF IInv, SlotInv
<1>6. PICK u \in image : u.table = "DSDT" /\ at["dsdt"] = u.position % U32
  BY <1>3, <1>4, AppendOrderValues, NoneAssumption DEF IInv, SlotInv
<1>7. ~t.blank /\ ~u.blank
  BY <1>5, <1>6 DEF IInv, RankInv, Placeholders
<1> QED
  BY <1>1, <1>5, <1>6, <1>7 DEF FadtPointers

(* Below 4 GiB the FADT leads to the FACS and the DSDT.                    *)
THEOREM FadtCorrect == Spec => []FadtFindsTables
<1>1. IInv => FadtFindsTables
  <2> SUFFICES ASSUME IInv, Low, NEW f \in image, f.table = "FACP"
               PROVE  /\ \E t \in Addressed(f.pointers[1]) :
                           t.table = "FACS" /\ ~t.blank
                      /\ \E t \in Addressed(f.pointers[2]) :
                           t.table = "DSDT" /\ ~t.blank
    BY DEF FadtFindsTables
  <2>1. PICK t \in image, u \in image :
           /\ t.table = "FACS" /\ ~t.blank
           /\ u.table = "DSDT" /\ ~u.blank
           /\ f.pointers = <<AddressOf(t.position % U32) % U32,
                             AddressOf(u.position % U32) % U32,
                             AddressOf(u.position % U32)>>
    BY FadtTargets
  <2>2. f.pointers[1] = AddressOf(t.position) /\ f.pointers[2] = AddressOf(u.position)
    BY <2>1, LowAddress
  <2> QED
    BY <2>1, <2>2 DEF Addressed, AddressOf
<1> QED
  BY <1>1, SpecIInv, PTL

(* X_DSDT leads to the DSDT wherever the blob is placed.                   *)
THEOREM XDsdtCorrect == Spec => []XDsdtFindsDsdt
<1>1. IInv => XDsdtFindsDsdt
  <2> SUFFICES ASSUME IInv, size <= U32, NEW f \in image, f.table = "FACP"
               PROVE  \E t \in Addressed(f.pointers[3]) :
                        t.table = "DSDT" /\ ~t.blank
    BY DEF XDsdtFindsDsdt
  <2>1. PICK t \in image, u \in image :
           /\ t.table = "FACS" /\ ~t.blank
           /\ u.table = "DSDT" /\ ~u.blank
           /\ f.pointers = <<AddressOf(t.position % U32) % U32,
                             AddressOf(u.position % U32) % U32,
                             AddressOf(u.position % U32)>>
    BY FadtTargets
  <2>2. f.pointers[3] = AddressOf(u.position)
    BY <2>1, AddressFacts
  <2> QED
    BY <2>1, <2>2 DEF Addressed, AddressOf
<1> QED
  BY <1>1, SpecIInv, PTL

(* A directory entry of a blob that is shorter than 4 GiB is not cut, and  *)
(* what the layout takes from it frames the table it describes.            *)
LEMMA LayoutOfFrames ==
  ASSUME IInv, size < U32, NEW n \in 1 .. Len(tables), NEW t \in image,
         Describes(tables[n], t)
  PROVE  Frames(LayoutOf(tables[n]), t)
<1>1. /\ t.position \in Nat /\ t.length \in Nat /\ t.length >= 36
      /\ t.position + t.length <= size
  BY DEF IInv, TypeOK, PosInv
<1>2. t.position < U32 /\ t.length < U32
  BY <1>1, U32Assumption DEF IInv, TypeOK
<1>3. t.position % U32 = t.position /\ t.length % U32 = t.length
  BY <1>1, <1>2, WordFacts
<1>4. /\ tables[n].signature = t.table /\ tables[n].offset = t.position
      /\ tables[n].length = t.length
  BY <1>3 DEF Describes
<1>5. LayoutOf(tables[n]) = [signature |-> t.table, offset |-> t.position,
                             length |-> t.length,
                             checksum_offset |-> t.position + 9]
  BY <1>4 DEF LayoutOf
<1> QED
  BY <1>1, <1>5 DEF Frames

(* The layout map frames every table of the blob, and nothing else.        *)
THEOREM LayoutCorrect == Spec => []LayoutFramesTables
<1>1. IInv => LayoutFramesTables
  <2> SUFFICES ASSUME IInv, pc = "done", size < U32
               PROVE  /\ \A t \in image : \E l \in layout : Frames(l, t)
                      /\ \A l \in layout : \E t \in image : Frames(l, t)
    BY DEF LayoutFramesTables
  <2>1. ASSUME NEW t \in image PROVE \E l \in layout : Frames(l, t)
    <3>1. PICK n \in 1 .. Len(tables) : Describes(tables[n], t)
      BY DEF IInv, DirInv
    <3>2. LayoutOf(tables[n]) \in layout
      BY DEF IInv, LayoutInv
    <3> QED
      BY <3>1, <3>2, LayoutOfFrames
  <2>2. ASSUME NEW l \in layout PROVE \E t \in image : Frames(l, t)
    <3>1. PICK n \in 1 .. Len(tables) : l = LayoutOf(tables[n])
      BY DEF IInv, LayoutInv
    <3>2. PICK t \in image : Describes(tables[n], t)
      BY DEF IInv, DirInv
    <3> QED
      BY <3>1, <3>2, LayoutOfFrames
  <2> QED
    BY <2>1, <2>2
<1> QED
  BY <1>1, SpecIInv, PTL
=============================================================================
