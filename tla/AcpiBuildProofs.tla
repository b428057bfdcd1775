-------------------------- MODULE AcpiBuildProofs --------------------------
(***************************************************************************)
(* Proofs about what acpi_build makes.                                     *)
(*                                                                         *)
(* AcpiBuildState, for any set of shapes, any lengths and any peers: the   *)
(* files are a snapshot of the machine, as long as the RSDP is RAM or the  *)
(* machine does not migrate; the padding keeps the tables' length as long  *)
(* as no warning is printed.                                               *)
(*                                                                         *)
(* AcpiLinker, for any set of optional tables, any layout of the FADT and  *)
(* either RSDP: the script can be run, every sum stays valid, and every    *)
(* table is found.                                                         *)
(***************************************************************************)
EXTENDS AcpiBuildState, AcpiLinker, Recursion, FiniteSetTheorems, TLAPS

-----------------------------------------------------------------------------
(***************************************************************************)
(* Lengths                                                                 *)
(***************************************************************************)

(* Rounding does not make shorter.                                         *)
LEMMA RoundUpFacts ==
  ASSUME NEW n \in Nat, NEW align \in Nat \ {0}
  PROVE  /\ RoundUp(n, align) \in Nat
         /\ RoundUp(n, align) >= n
<1> DEFINE q == (n + align - 1) \div align
           r == (n + align - 1) % align
<1>1. q \in Nat /\ r \in Nat /\ r < align /\ n + align - 1 = q * align + r
  OBVIOUS
<1>2. q * align \in Nat
  BY <1>1
<1> QED
  BY <1>1, <1>2 DEF RoundUp

(* A length of up to half the buffer is padded to the whole buffer.        *)
LEMMA RoundUpHalf ==
  ASSUME NEW n \in Nat \ {0}, NEW align \in Nat \ {0}, n <= align \div 2
  PROVE  RoundUp(n, align) = align
<1> DEFINE q == (n + align - 1) \div align
<1>1. n <= align
  OBVIOUS
<1>2. q = 1
  OBVIOUS
<1> QED
  BY <1>2 DEF RoundUp

LEMMA TablesLenNat ==
  ASSUME NEW s \in Shapes
  PROVE  TablesLen(s) \in Nat
<1>1. /\ RawLen(s) \in Nat /\ RawLen(s) - AmlLen(s) + LegacyLen \in Nat
      /\ AlignSize \in Nat \ {0} /\ TableSize \in Nat \ {0}
  BY ShapesAssumption, SizesAssumption
<1> QED
  BY <1>1, RoundUpFacts DEF TablesLen

LEMMA FileLenNat ==
  ASSUME NEW s \in Shapes, NEW f \in Files
  PROVE  FileLen(f, s) \in Nat
<1>1. CmdLen(s) \in Nat /\ AlignSize \in Nat \ {0}
  BY ShapesAssumption, SizesAssumption
<1>2. RoundUp(CmdLen(s), AlignSize) \in Nat
  BY <1>1, RoundUpFacts
<1> QED
  BY <1>2, TablesLenNat DEF FileLen, Files

(* Shapes that are not warned about get tables of one length, which holds  *)
(* all of their bytes.                                                     *)
LEMMA UnwarnedLength ==
  ASSUME ~ResizableBlob, NEW s \in Shapes, ~Warns(s)
  PROVE  /\ RawLen(s) <= TablesLen(s)
         /\ \A t \in Shapes : ~Warns(t) => TablesLen(t) = TablesLen(s)
<1>1. CASE LegacyLen > 0
  <2>1. RawLen(s) \in Nat /\ TablesLen(s) \in Nat
    BY <1>1, TablesLenNat, ShapesAssumption
  <2>2. RawLen(s) <= TablesLen(s)
    BY <1>1, <2>1 DEF Warns
  <2>3. ASSUME NEW t \in Shapes
        PROVE  TablesLen(t) = TablesLen(s)
    <3>1. RawLen(t) - AmlLen(t) = RawLen(s) - AmlLen(s)
      BY <1>1, FixedAssumption
    <3> QED
      BY <1>1, <3>1 DEF TablesLen
  <2> QED
    BY <2>2, <2>3
<1>2. CASE ~(LegacyLen > 0)
  <2>1. ASSUME NEW t \in Shapes, ~Warns(t)
        PROVE  TablesLen(t) = TableSize /\ RawLen(t) <= TableSize
    <3>1. RawLen(t) \in Nat \ {0} /\ TableSize \in Nat \ {0}
      BY ShapesAssumption, SizesAssumption
    <3>2. RawLen(t) <= TableSize \div 2
      BY <1>2, <2>1, <3>1 DEF Warns
    <3>3. RoundUp(RawLen(t), TableSize) = TableSize
      BY <3>1, <3>2, RoundUpHalf
    <3>4. RawLen(t) <= TableSize
      BY <3>1, <3>2
    <3> QED
      BY <1>2, <3>3, <3>4 DEF TablesLen
  <2> QED
    BY <2>1
<1> QED
  BY <1>1, <1>2

-----------------------------------------------------------------------------
(***************************************************************************)
(* The inductive invariant.                                                *)
(***************************************************************************)

(* Nothing can come between the RSDP and the other files.                  *)
RsdpSafe == RsdpInRam \/ Peers = {}

(* Once patched, the files are of one shape, and nothing else has been     *)
(* read; before, nothing has been read or is being read.                   *)
SnapshotInv ==
  /\ patched = 0 => seen = Unread /\ reading = None
  /\ patched = 1 => \A f \in Files : /\ blob[f] = blob["tables"]
                                     /\ seen[f] \subseteq {blob["tables"]}

(* The lengths that have been given to the tables, and where they are.     *)
LengthInv ==
  ~warned =>
    /\ \A n \in lengths : \E s \in Shapes : ~Warns(s) /\ n = TablesLen(s)
    /\ \A f \in Files : ~Warns(blob[f])
    /\ dir # None => \E s \in Shapes : ~Warns(s) /\ dir["tables"] = TablesLen(s)
    /\ ~ResizableBlob => "tables" \notin short

(* Every variable keeps its type; what the guest reads stays within the    *)
(* length that it knows.                                                   *)
THEOREM TypeCorrect == Spec => []TypeOK
<1>1. Init => TypeOK
  <2> SUFFICES ASSUME Init PROVE TypeOK
    OBVIOUS
  <2>1. TablesLen(machine) \in Nat
    BY TablesLenNat DEF Init
  <2> QED
    BY <2>1 DEF Init, TypeOK, Unread, Warns
<1>2. TypeOK /\ [Next]_vars => TypeOK'
  <2> SUFFICES ASSUME TypeOK, [Next]_vars PROVE TypeOK'
    OBVIOUS
  <2>1. ASSUME NEW s \in Shapes, Built(s)
        PROVE  warned' \in BOOLEAN /\ lengths' \subseteq Nat
    BY <2>1, TablesLenNat DEF TypeOK, Built, Warns
  <2>2. CASE Reconfigure
    BY <2>2 DEF TypeOK, Reconfigure, guest
  <2>3. CASE ReadDirectory
    <3>1. dir' \in [Files -> Nat]
      BY <2>3, FileLenNat DEF TypeOK, ReadDirectory
    <3> QED
      BY <2>3, <3>1 DEF TypeOK, ReadDirectory
  <2>4. ASSUME NEW f \in Files, Select(f) PROVE TypeOK'
    <3>1. /\ blob' \in [Files -> Shapes] /\ patched' \in {0, 1}
          /\ warned' \in BOOLEAN /\ lengths' \subseteq Nat
      <4>1. CASE patched = 1
        BY <2>4, <4>1 DEF Select, Update, TypeOK
      <4>2. CASE patched # 1
        <5>1. Built(machine) /\ patched' = 1 /\ blob' = [g \in Files |-> machine]
          BY <2>4, <4>2 DEF Select, Update
        <5> QED
          BY <2>1, <5>1 DEF TypeOK
      <4> QED
        BY <4>1, <4>2
    <3>2. 0 <= dir[f] /\ dir # None
      BY <2>4, ShapesAssumption DEF Select, TypeOK
    <3> QED
      BY <2>4, <3>1, <3>2 DEF Select, TypeOK
  <2>5. CASE ReadData
    <3>1. reading \in Files /\ dir \in [Files -> Nat] /\ blob[reading] \in Shapes
      BY <2>5 DEF TypeOK, ReadData
    <3>2. seen' \in [Files -> SUBSET Shapes]
      BY <2>5, <3>1 DEF TypeOK, ReadData
    <3> QED
      BY <2>5, <3>1, <3>2 DEF TypeOK, ReadData
  <2>6. CASE FinishFile
    BY <2>6 DEF TypeOK, FinishFile
  <2>7. CASE Reset
    BY <2>7 DEF TypeOK, Reset, ResetGuest, Unread
  <2>8. CASE Migrate
    <3>1. PICK s \in Peers :
            /\ blob' = [f \in Files |-> IF f = "rsdp" /\ ~RsdpInRam
                                          THEN s ELSE blob[f]]
            /\ Built(s)
      BY <2>8 DEF Migrate, MigrateFiles
    <3>2. s \in Shapes
      BY ShapesAssumption
    <3>3. blob' \in [Files -> Shapes]
      BY <3>1, <3>2 DEF TypeOK
    <3>4. UNCHANGED <<machine, patched, dir, reading, pos, seen, short>>
      BY <2>8 DEF Migrate, MigrateFiles, guest
    <3> QED
      BY <2>1, <3>1, <3>2, <3>3, <3>4 DEF TypeOK
  <2>9. CASE UNCHANGED vars
    BY <2>9 DEF TypeOK, vars
  <2> QED
    BY <2>2, <2>3, <2>4, <2>5, <2>6, <2>7, <2>8, <2>9 DEF Next
<1> QED
  BY <1>1, <1>2, PTL DEF Spec

(* The files stay of one shape once they are patched.                      *)
LEMMA SnapshotStep ==
  ASSUME RsdpSafe, TypeOK, SnapshotInv, [Next]_vars
  PROVE  SnapshotInv'
<1>1. CASE Reconfigure
  BY <1>1 DEF SnapshotInv, Reconfigure, guest, Unread
<1>2. CASE ReadDirectory
  BY <1>2 DEF SnapshotInv, ReadDirectory, Unread
<1>3. ASSUME NEW f \in Files, Select(f) PROVE SnapshotInv'
  <2>1. CASE patched = 1
    BY <1>3, <2>1 DEF SnapshotInv, Select, Update
  <2>2. CASE patched = 0
    <3>1. /\ patched' = 1 /\ blob' = [g \in Files |-> machine]
          /\ seen' = seen
      BY <1>3, <2>2 DEF Select, Update
    <3>2. seen' = Unread
      BY <2>2, <3>1 DEF SnapshotInv
    <3> QED
      BY <3>1, <3>2 DEF SnapshotInv, Unread, Files
  <2> QED
    BY <2>1, <2>2 DEF TypeOK
<1>4. CASE ReadData
  <2>1. reading \in Files /\ patched = 1
    BY <1>4 DEF ReadData, SnapshotInv, TypeOK
  <2>2. blob[reading] = blob["tables"]
    BY <2>1 DEF SnapshotInv
  <2>3. ASSUME NEW g \in Files
        PROVE  seen'[g] \subseteq {blob["tables"]}
    BY <1>4, <2>1, <2>2 DEF ReadData, SnapshotInv, TypeOK
  <2> QED
    BY <1>4, <2>1, <2>3 DEF ReadData, SnapshotInv
<1>5. CASE FinishFile
  BY <1>5 DEF SnapshotInv, FinishFile, Unread
<1>6. CASE Reset
  BY <1>6 DEF SnapshotInv, Reset, ResetGuest, Unread
<1>7. CASE Migrate
  <2>1. PICK s \in Peers :
          blob' = [f \in Files |-> IF f = "rsdp" /\ ~RsdpInRam
                                     THEN s ELSE blob[f]]
    BY <1>7 DEF Migrate, MigrateFiles
  <2>2. blob' = blob
    BY <2>1 DEF RsdpSafe, TypeOK
  <2>3. UNCHANGED <<patched, seen, reading>>
    BY <1>7 DEF Migrate, MigrateFiles, guest
  <2> QED
    BY <2>2, <2>3 DEF SnapshotInv, Unread
<1>8. CASE UNCHANGED vars
  BY <1>8 DEF SnapshotInv, vars, Unread
<1> QED
  BY <1>1, <1>2, <1>3, <1>4, <1>5, <1>6, <1>7, <1>8 DEF Next

LEMMA SnapshotAlways ==
  ASSUME RsdpSafe
  PROVE  Spec => [](TypeOK /\ SnapshotInv)
<1>1. Init => SnapshotInv
  BY DEF Init, SnapshotInv
<1>2. SnapshotInv /\ TypeOK /\ [Next]_vars => SnapshotInv'
  BY SnapshotStep
<1> QED
  BY <1>1, <1>2, TypeCorrect, PTL DEF Spec

(* What the firmware reads between two resets belongs together, for every  *)
(* interleaving of its reads with reconfigurations and migrations, if the  *)
(* RSDP is RAM (or the machine is never migrated).                         *)
THEOREM SnapshotCorrect ==
  ASSUME RsdpSafe
  PROVE  Spec => []OneSnapshot
<1>1. TypeOK /\ SnapshotInv => OneSnapshot
  BY DEF TypeOK, SnapshotInv, OneSnapshot, Unread
<1> QED
  BY <1>1, SnapshotAlways, PTL

(* The abstract snapshot is taken by the first Select after a reset, and   *)
(* every other step of the files leaves it alone.                          *)
THEOREM SnapshotImplemented ==
  ASSUME RsdpSafe
  PROVE  Spec => ImplementsSnapshot
<1> DEFINE snap == IF patched = 1 THEN blob["tables"] ELSE None
<1> USE DEF Snapshot!Unread
<1>1. Init => Snapshot!Init
  BY DEF Init, Snapshot!Init, Unread
<1>2. TypeOK /\ SnapshotInv /\ [Next]_vars => [Snapshot!Next]_(Snapshot!vars)
  <2> SUFFICES ASSUME TypeOK, SnapshotInv, [Next]_vars
               PROVE  Snapshot!Next \/ UNCHANGED Snapshot!vars
    OBVIOUS
  <2>1. CASE Reconfigure
    <3>1. machine' \in Shapes /\ snap' = snap /\ seen' = seen
      BY <2>1 DEF Reconfigure, guest
    <3> QED
      BY <3>1 DEF Snapshot!Next, Snapshot!Reconfigure
  <2>2. CASE ReadDirectory
    BY <2>2 DEF ReadDirectory, Snapshot!vars
  <2>3. ASSUME NEW f \in Files, Select(f)
        PROVE  Snapshot!Next \/ UNCHANGED Snapshot!vars
    <3>1. CASE patched = 1
      BY <2>3, <3>1 DEF Select, Update, Snapshot!vars
    <3>2. CASE patched = 0
      <4>1. snap = None /\ snap' = machine /\ machine' = machine /\ seen' = seen
        BY <2>3, <3>2 DEF Select, Update, Files
      <4> QED
        BY <4>1 DEF Snapshot!Next, Snapshot!Take
    <3> QED
      BY <3>1, <3>2 DEF TypeOK
  <2>4. CASE ReadData
    <3>1. /\ reading \in Files /\ patched = 1
          /\ blob[reading] = blob["tables"] /\ blob["tables"] \in Shapes
      BY <2>4 DEF ReadData, SnapshotInv, TypeOK, Files
    <3>2. snap = blob["tables"] /\ snap # None /\ snap' = snap
          /\ machine' = machine
      BY <2>4, <3>1, ShapesAssumption DEF ReadData
    <3>3. CASE pos < FileLen(reading, blob[reading])
      <4>1. seen' = [seen EXCEPT ![reading] = @ \union {snap}]
        BY <2>4, <3>1, <3>2, <3>3 DEF ReadData
      <4> QED
        BY <3>1, <3>2, <4>1 DEF Snapshot!Next, Snapshot!Read
    <3>4. CASE ~(pos < FileLen(reading, blob[reading]))
      BY <2>4, <3>2, <3>4 DEF ReadData, Snapshot!vars
    <3> QED
      BY <3>3, <3>4
  <2>5. CASE FinishFile
    BY <2>5 DEF FinishFile, Snapshot!vars
  <2>6. CASE Reset
    <3>1. machine' \in Shapes /\ snap' = None /\ seen' = Unread
      BY <2>6 DEF Reset, ResetGuest
    <3> QED
      BY <3>1 DEF Snapshot!Next, Snapshot!Reset, Unread
  <2>7. CASE Migrate
    <3>1. UNCHANGED <<machine, patched, seen>>
      BY <2>7 DEF Migrate, MigrateFiles, guest
    <3>2. PICK s \in Peers :
            blob' = [f \in Files |-> IF f = "rsdp" /\ ~RsdpInRam
                                       THEN s ELSE blob[f]]
      BY <2>7 DEF Migrate, MigrateFiles
    <3>3. blob'["tables"] = blob["tables"]
      BY <3>2 DEF Files
    <3> QED
      BY <3>1, <3>3 DEF Snapshot!vars
  <2>8. CASE UNCHANGED vars
    BY <2>8 DEF vars, Snapshot!vars
  <2> QED
    BY <2>1, <2>2, <2>3, <2>4, <2>5, <2>6, <2>7, <2>8 DEF Next
<1> QED
  BY <1>1, <1>2, SnapshotAlways, PTL
     DEF Spec, ImplementsSnapshot, Snapshot!Spec

-----------------------------------------------------------------------------
(* As long as nothing has been warned about, every length comes from a     *)
(* shape that is not warned about.                                         *)
LEMMA LengthStep ==
  ASSUME TypeOK, LengthInv, [Next]_vars
  PROVE  LengthInv'
<1> SUFFICES ASSUME ~warned' PROVE LengthInv'
  BY DEF LengthInv
<1>1. ASSUME NEW s \in Shapes, Built(s)
      PROVE  /\ ~warned /\ ~Warns(s)
             /\ \A n \in lengths' : \E t \in Shapes : ~Warns(t) /\ n = TablesLen(t)
  <2>1. ~warned /\ ~Warns(s)
    BY <1>1 DEF Built, TypeOK, Warns
  <2>2. lengths' = lengths \union {TablesLen(s)}
    BY <1>1 DEF Built
  <2> QED
    BY <2>1, <2>2 DEF LengthInv
<1>2. CASE Reconfigure
  BY <1>2 DEF LengthInv, Reconfigure, guest
<1>3. CASE ReadDirectory
  <2>1. blob["tables"] \in Shapes /\ ~Warns(blob["tables"])
    BY <1>3 DEF TypeOK, LengthInv, ReadDirectory, Files
  <2>2. dir'["tables"] = TablesLen(blob["tables"])
    BY <1>3 DEF ReadDirectory, FileLen, Files
  <2>3. UNCHANGED <<lengths, blob, short, warned>>
    BY <1>3 DEF ReadDirectory
  <2> QED
    BY <2>1, <2>2, <2>3 DEF LengthInv
<1>4. ASSUME NEW f \in Files, Select(f) PROVE LengthInv'
  <2>1. CASE patched = 1
    BY <1>4, <2>1 DEF Select, Update, LengthInv
  <2>2. CASE patched # 1
    <3>1. Built(machine) /\ machine \in Shapes
          /\ blob' = [g \in Files |-> machine]
          /\ dir' = dir /\ short' = short
      BY <1>4, <2>2 DEF Select, Update, TypeOK
    <3>2. \A g \in Files : ~Warns(blob'[g])
      BY <1>1, <3>1
    <3> QED
      BY <1>1, <3>1, <3>2 DEF LengthInv
  <2> QED
    BY <2>1, <2>2
<1>5. CASE ReadData
  BY <1>5 DEF LengthInv, ReadData
<1>6. CASE FinishFile
  <2>1. UNCHANGED <<blob, dir, warned, lengths>>
    BY <1>6 DEF FinishFile
  <2>2. ASSUME ~ResizableBlob PROVE "tables" \notin short'
    <3>1. "tables" \notin short
      BY <2>1, <2>2 DEF LengthInv
    <3>2. CASE reading # "tables"
      BY <1>6, <3>1, <3>2 DEF FinishFile
    <3>3. CASE reading = "tables"
      <4>1. blob["tables"] \in Shapes /\ ~Warns(blob["tables"]) /\ dir # None
        BY <1>6, <2>1, <3>3 DEF TypeOK, LengthInv, FinishFile, Files
      <4>2. dir["tables"] = TablesLen(blob["tables"])
        BY <2>1, <2>2, <4>1, UnwarnedLength DEF LengthInv
      <4>3. RawLen(blob["tables"]) <= TablesLen(blob["tables"])
        BY <2>2, <4>1, UnwarnedLength
      <4>4. pos = TablesLen(blob["tables"])
        BY <1>6, <3>3, <4>2 DEF FinishFile
      <4>5. /\ ContentLen(reading, blob[reading]) <= pos
            /\ ContentLen(reading, blob[reading]) <= FileLen(reading, blob[reading])
        BY <3>3, <4>3, <4>4 DEF ContentLen, FileLen
      <4> QED
        BY <1>6, <3>1, <4>5 DEF FinishFile
    <3> QED
      BY <3>2, <3>3
  <2> QED
    BY <2>1, <2>2 DEF LengthInv
<1>7. CASE Reset
  BY <1>7 DEF LengthInv, Reset, ResetGuest
<1>8. CASE Migrate
  <2>1. PICK s \in Peers :
          /\ blob' = [f \in Files |-> IF f = "rsdp" /\ ~RsdpInRam
                                        THEN s ELSE blob[f]]
          /\ Built(s)
    BY <1>8 DEF Migrate, MigrateFiles
  <2>2. s \in Shapes /\ dir' = dir /\ short' = short
    BY <1>8, ShapesAssumption DEF Migrate, MigrateFiles, guest
  <2>3. ~warned /\ ~Warns(s)
    BY <1>1, <2>1, <2>2
  <2>4. \A g \in Files : ~Warns(blob'[g])
    BY <2>1, <2>3 DEF LengthInv
  <2> QED
    BY <1>1, <2>1, <2>2, <2>3, <2>4 DEF LengthInv
<1>9. CASE UNCHANGED vars
  BY <1>9 DEF LengthInv, vars
<1> QED
  BY <1>2, <1>3, <1>4, <1>5, <1>6, <1>7, <1>8, <1>9 DEF Next

LEMMA LengthAlways == Spec => []LengthInv
<1>1. Init => LengthInv
  BY DEF Init, LengthInv
<1>2. LengthInv /\ TypeOK /\ [Next]_vars => LengthInv'
  BY LengthStep
<1> QED
  BY <1>1, <1>2, TypeCorrect, PTL DEF Spec

(* Without a warning the tables have one length, on both sides of every    *)
(* migration, and the guest reads them to their end although it learnt     *)
(* the length before they were rebuilt.                                    *)
THEOREM PaddingKeepsLength == Spec => [](SizeStable /\ WholeTables)
<1>1. LengthInv => SizeStable /\ WholeTables
  <2> SUFFICES ASSUME LengthInv, ~ResizableBlob, ~warned
               PROVE  /\ \A m, n \in lengths : m = n
                      /\ "tables" \notin short
    BY DEF SizeStable, WholeTables
  <2>1. ASSUME NEW m \in lengths, NEW n \in lengths PROVE m = n
    <3>1. PICK s \in Shapes : ~Warns(s) /\ m = TablesLen(s)
      BY DEF LengthInv
    <3>2. PICK t \in Shapes : ~Warns(t) /\ n = TablesLen(t)
      BY DEF LengthInv
    <3> QED
      BY <3>1, <3>2, UnwarnedLength
  <2> QED
    BY <2>1 DEF LengthInv
<1> QED
  BY <1>1, LengthAlways, PTL

(* Without a warning acpi_build has given the tables of this machine, and  *)
(* of those it was migrated to, one length only.                           *)
COROLLARY SizeCorrect == Spec => []SizeStable
  BY PaddingKeepsLength, PTL

-----------------------------------------------------------------------------
(***************************************************************************)
(* AcpiLinker                                                              *)
(*                                                                         *)
(* Each table adds a piece to the script: allocations, pointers into the   *)
(* table itself, then the sum over it.  Such a piece writes behind all     *)
(* sums before it (SoundConcat), so that a sum, once stored, is final.     *)
(* How many pointers a table has, and what to, is its Shape.               *)
(***************************************************************************)
Targets == {"FACS", "DSDT", "LOG", Nowhere}
Fields == [w : Nat, to : Targets]

(* The elements of a sequence are of its type.                             *)
LEMMA SeqAt ==
  ASSUME NEW S, NEW s \in Seq(S), NEW k \in 1 .. Len(s)
  PROVE  s[k] \in S
  OBVIOUS

(* The elements of one sequence after another.                              *)
LEMMA SeqConcat ==
  ASSUME NEW S, NEW s \in Seq(S), NEW t \in Seq(S)
  PROVE  /\ s \o t \in Seq(S) /\ Len(s) \in Nat /\ Len(t) \in Nat
         /\ Len(s \o t) = Len(s) + Len(t)
         /\ \A k \in 1 .. Len(s) : (s \o t)[k] = s[k] /\ k \in 1 .. Len(s \o t)
         /\ \A k \in 1 .. Len(t) :
              (s \o t)[Len(s) + k] = t[k] /\ Len(s) + k \in 1 .. Len(s \o t)
         /\ \A k \in 1 .. Len(s \o t) :
              \/ k \in 1 .. Len(s) /\ (s \o t)[k] = s[k]
              \/ /\ k - Len(s) \in 1 .. Len(t)
                 /\ (s \o t)[k] = t[k - Len(s)]
<1>1. /\ s \o t \in Seq(S) /\ Len(s) \in Nat /\ Len(t) \in Nat
      /\ Len(s \o t) = Len(s) + Len(t)
      /\ \A k \in 1 .. Len(s) : (s \o t)[k] = s[k]
      /\ \A k \in 1 .. Len(t) : (s \o t)[Len(s) + k] = t[k]
  OBVIOUS
<1>2. /\ \A k \in 1 .. Len(s) : k \in 1 .. Len(s \o t)
      /\ \A k \in 1 .. Len(t) : Len(s) + k \in 1 .. Len(s \o t)
  BY <1>1
<1>3. ASSUME NEW k \in 1 .. Len(s \o t), k \notin 1 .. Len(s)
      PROVE  k - Len(s) \in 1 .. Len(t) /\ Len(s) + (k - Len(s)) = k
  BY <1>1, <1>3
<1> QED BY <1>1, <1>2, <1>3

-----------------------------------------------------------------------------
(* Where fields end: the recursion has its solution.                       *)
LEMMA EndsSteps ==
  ASSUME NEW f \in Seq(Fields)
  PROVE  /\ Ends(f) \in [0 .. Len(f) -> Nat] /\ Ends(f)[0] = 0
         /\ \A k \in 1 .. Len(f) : Ends(f)[k] = Ends(f)[k - 1] + f[k].w
<1> DEFINE m == Len(f)
           Def(e) == e = [k \in 0 .. m |-> IF k = 0 THEN 0 ELSE e[k - 1] + f[k].w]
           step == [k \in 1 .. m |-> [v \in Nat |-> v + f[k].w]]
           d == Ends(f)
<1>1. m \in Nat /\ \A k \in 1 .. m : f[k].w \in Nat
  <2>1. \A k \in 1 .. m : f[k] \in Fields
    BY SeqAt
  <2> QED BY <2>1 DEF Fields
<1>2. step \in [1 .. m -> [Nat -> Nat]]
  BY <1>1
<1>3. PICK r \in [0 .. m -> Nat] : Iterates(r, m, 0, step)
  <2> HIDE DEF step, m
  <2> QED BY <1>1, <1>2, Iteration
<1>4. Def(r)
  <2>1. \A k \in 1 .. m : r[k] = r[k - 1] + f[k].w
    <3>1. \A k \in 1 .. m : r[k - 1] \in Nat
      BY <1>1
    <3> HIDE DEF m
    <3> QED BY <1>3, <3>1 DEF Iterates
  <2> HIDE DEF m
  <2> QED BY <1>1, <1>3, <2>1 DEF Iterates
<1>5. Def(d)
  <2>1. d = CHOOSE e : Def(e)
    BY DEF Ends
  <2> HIDE DEF Def, d
  <2> QED BY <1>4, <2>1
<1>6. d[0] = 0 /\ \A k \in 1 .. m : d[k] = d[k - 1] + f[k].w
  <2>1. d = [k \in 0 .. m |-> IF k = 0 THEN 0 ELSE d[k - 1] + f[k].w]
    BY <1>5
  <2>2. 0 \in 0 .. m /\ \A k \in 1 .. m : k \in 0 .. m /\ k # 0
    BY <1>1
  <2> HIDE DEF m, d
  <2> QED BY ONLY <2>1, <2>2
<1> DEFINE T == {k \in Nat : d[k] \in Nat}
<1>7. ASSUME NEW k \in 0 .. m - 1, k \in T
      PROVE  k + 1 \in T
  <2>1. k + 1 \in 1 .. m /\ (k + 1) - 1 = k /\ k + 1 \in Nat
    BY <1>1
  <2>2. d[k + 1] = d[k] + f[k + 1].w /\ d[k] \in Nat /\ f[k + 1].w \in Nat
    <3> HIDE DEF m, d
    <3> QED BY <1>1, <1>6, <1>7, <2>1
  <2> QED BY <2>1, <2>2
<1>8. \A k \in 0 .. m : k \in T
  <2>1. 0 \in T
    BY <1>6
  <2> HIDE DEF T, m
  <2> QED BY <1>1, <1>7, <2>1, BoundedInduction
<1>9. d = [k \in 0 .. m |-> d[k]]
  <2>1. d = [k \in 0 .. m |-> IF k = 0 THEN 0 ELSE d[k - 1] + f[k].w]
    BY <1>5
  <2>2. \E g : d = [k \in 0 .. m |-> g[k]]
    <3> DEFINE g == [k \in 0 .. m |-> IF k = 0 THEN 0 ELSE d[k - 1] + f[k].w]
    <3>1. d = [k \in 0 .. m |-> g[k]]
      BY <2>1
    <3> QED BY <3>1
  <2> HIDE DEF d, m
  <2> QED BY <2>2
<1>10. d \in [0 .. m -> Nat]
  <2> HIDE DEF d, m
  <2> QED BY <1>8, <1>9
<1> QED BY <1>6, <1>10

(* A field begins where the one before it ends, and later ones are behind. *)
LEMMA EndsGrow ==
  ASSUME NEW f \in Seq(Fields)
  PROVE  /\ W(f) \in Nat
         /\ \A k, l \in 0 .. Len(f) :
              k <= l => Ends(f)[k] \in Nat /\ Ends(f)[l] \in Nat /\ Ends(f)[k] <= Ends(f)[l]
<1>1. Len(f) \in Nat /\ \A k \in 1 .. Len(f) : f[k].w \in Nat
  <2>1. \A k \in 1 .. Len(f) : f[k] \in Fields
    BY SeqAt
  <2> QED BY <2>1 DEF Fields
<1> DEFINE e == Ends(f)
<1>2. /\ e \in [0 .. Len(f) -> Nat]
      /\ \A k \in 1 .. Len(f) : e[k] = e[k - 1] + f[k].w
  BY EndsSteps
<1> HIDE DEF e
<1>3. ASSUME NEW k \in 0 .. Len(f)
      PROVE  \A l \in 0 .. Len(f) : k <= l => e[k] <= e[l]
  <2> DEFINE T == {l \in Nat : k <= l => e[k] <= e[l]}
  <2>1. 0 \in T
    BY <1>1, <1>2
  <2>2. ASSUME NEW l \in 0 .. Len(f) - 1, l \in T
        PROVE  l + 1 \in T
    <3>1. l + 1 \in 1 .. Len(f) /\ (l + 1) - 1 = l /\ l \in 0 .. Len(f)
      BY <1>1
    <3>2. e[l + 1] = e[l] + f[l + 1].w /\ e[l] \in Nat /\ f[l + 1].w \in Nat /\ e[k] \in Nat
      BY <1>1, <1>2, <3>1
    <3> QED BY <2>2, <3>1, <3>2
  <2>3. \A l \in 0 .. Len(f) : l \in T
    <3> HIDE DEF T
    <3> QED BY <1>1, <2>1, <2>2, BoundedInduction
  <2> QED BY <2>3
<1>4. \A k \in 0 .. Len(f) : e[k] \in Nat
  BY <1>2
<1> QED BY <1>1, <1>3, <1>4 DEF W, e

(* The first of two pieces is laid out as it is alone.                     *)
LEMMA EndsConcat ==
  ASSUME NEW s \in Seq(Fields), NEW t \in Seq(Fields)
  PROVE  Ends(s \o t)[Len(s)] = W(s)
<1> DEFINE f == s \o t
<1>1. /\ f \in Seq(Fields) /\ Len(s) \in Nat /\ Len(f) \in Nat /\ Len(s) <= Len(f)
      /\ \A k \in 1 .. Len(s) : f[k] = s[k]
  BY SeqConcat
<1>2. /\ Ends(f)[0] = 0 /\ \A k \in 1 .. Len(f) : Ends(f)[k] = Ends(f)[k - 1] + f[k].w
      /\ Ends(s)[0] = 0 /\ \A k \in 1 .. Len(s) : Ends(s)[k] = Ends(s)[k - 1] + s[k].w
  BY <1>1, EndsSteps
<1> HIDE DEF f
<1> DEFINE T == {k \in Nat : Ends(f)[k] = Ends(s)[k]}
<1>3. ASSUME NEW k \in 0 .. Len(s) - 1, k \in T
      PROVE  k + 1 \in T
  <2>1. k + 1 \in 1 .. Len(s) /\ k + 1 \in 1 .. Len(f) /\ (k + 1) - 1 = k /\ k + 1 \in Nat
    BY <1>1
  <2>2. Ends(f)[k + 1] = Ends(f)[k] + f[k + 1].w
    BY <1>2, <2>1
  <2>3. Ends(s)[k + 1] = Ends(s)[k] + s[k + 1].w
    BY <1>2, <2>1
  <2> QED BY <1>1, <1>3, <2>1, <2>2, <2>3
<1>4. \A k \in 0 .. Len(s) : k \in T
  <2>1. 0 \in T
    BY <1>2
  <2> HIDE DEF T
  <2> QED BY <1>1, <1>3, <2>1, BoundedInduction
<1>5. Len(s) \in T
  <2>1. Len(s) \in 0 .. Len(s)
    BY <1>1
  <2> QED BY <1>4, <2>1
<1> QED BY <1>5 DEF W, f

Names == {"tables", "tpmlog", "rsdp"}
AllocCmds == [op : {"alloc"}, file : Names]
PointerCmds == [op : {"pointer"}, file : Names, off : Nat, w : Nat, dst : Names, dstOff : Nat]
SumCmds == [op : {"checksum"}, file : Names, off : Nat, w : Nat, at : Nat]
Commands == AllocCmds \union PointerCmds \union SumCmds

(* A field's pointer can be computed: the table it points to has a place.  *)
Placed(f) ==
  \A k \in 1 .. Len(f) : f[k].to \in {"FACS", "DSDT"} => where[f[k].to].off \in Nat
Refs(f) == {k \in 1 .. Len(f) : f[k].to # Nowhere}

(* The pointer commands of the first k fields.                             *)
PointersSoFar(f, off, k, c) ==
  /\ \A j \in 1 .. Len(c) : \E i \in 1 .. k :
       f[i].to # Nowhere /\ c[j] = PointerOf(f[i], off + Ends(f)[i - 1])
  /\ \A i \in 1 .. k :
       f[i].to # Nowhere =>
         \E j \in 1 .. Len(c) : c[j] = PointerOf(f[i], off + Ends(f)[i - 1])
  /\ Len(c) = Cardinality({i \in 1 .. k : f[i].to # Nowhere})

(* The first k + 1 of them are the first k and one more.                   *)
LEMMA CountNext ==
  ASSUME NEW k \in Nat, NEW f
  PROVE  LET R(n) == {i \in 1 .. n : f[i].to # Nowhere}
         IN  /\ IsFiniteSet(R(k))
             /\ f[k + 1].to = Nowhere => R(k + 1) = R(k)
             /\ f[k + 1].to # Nowhere =>
                  Cardinality(R(k + 1)) = Cardinality(R(k)) + 1
<1> DEFINE R(n) == {i \in 1 .. n : f[i].to # Nowhere}
<1>1. IsFiniteSet(1 .. k)
  BY FS_Interval
<1>2. IsFiniteSet(R(k))
  BY <1>1, FS_Subset
<1>3. k + 1 \notin R(k) /\ \A i \in 1 .. k + 1 : i \in 1 .. k \/ i = k + 1
  OBVIOUS
<1>4. k + 1 \in 1 .. k + 1 /\ \A i \in 1 .. k : i \in 1 .. k + 1
  OBVIOUS
<1>5. f[k + 1].to = Nowhere => R(k + 1) = R(k)
  BY <1>3, <1>4
<1>6. f[k + 1].to # Nowhere => R(k + 1) = R(k) \union {k + 1}
  BY <1>3, <1>4
<1> HIDE DEF R
<1>7. f[k + 1].to # Nowhere => Cardinality(R(k + 1)) = Cardinality(R(k)) + 1
  BY <1>2, <1>3, <1>6, FS_AddElement
<1> QED BY <1>2, <1>5, <1>7 DEF R

(* The elements of a sequence with one more at its end.                    *)
LEMMA AppendAt ==
  ASSUME NEW S, NEW s \in Seq(S), NEW e \in S
  PROVE  /\ Append(s, e) \in Seq(S) /\ Len(s) \in Nat /\ Len(Append(s, e)) = Len(s) + 1
         /\ \A k \in 1 .. Len(s) : Append(s, e)[k] = s[k] /\ k \in 1 .. Len(Append(s, e))
         /\ Append(s, e)[Len(s) + 1] = e /\ Len(s) + 1 \in 1 .. Len(Append(s, e))
         /\ \A k \in 1 .. Len(Append(s, e)) : k \in 1 .. Len(s) \/ k = Len(s) + 1
<1>1. /\ Append(s, e) \in Seq(S) /\ Len(s) \in Nat /\ Len(Append(s, e)) = Len(s) + 1
      /\ \A k \in 1 .. Len(s) : Append(s, e)[k] = s[k]
      /\ Append(s, e)[Len(s) + 1] = e
  OBVIOUS
<1> QED BY <1>1

(* A pointer command is one.                                               *)
LEMMA PointerOfType ==
  ASSUME NEW f \in Seq(Fields), Placed(f), NEW k \in 1 .. Len(f), f[k].to # Nowhere,
         NEW at \in Nat
  PROVE  PointerOf(f[k], at) \in PointerCmds
<1>1. f[k] \in Fields
  BY SeqAt
<1>2. f[k].w \in Nat /\ f[k].to \in {"FACS", "DSDT", "LOG"}
  BY <1>1 DEF Fields, Targets
<1>3. f[k].to # "LOG" => where[f[k].to].off \in Nat
  BY <1>2 DEF Placed
<1> QED BY <1>2, <1>3 DEF PointerOf, Pointer, PointerCmds, Names

(* Pointers: one command for each pointer, in the order of the fields.     *)
LEMMA PointersFacts ==
  ASSUME NEW f \in Seq(Fields), NEW off \in Nat, Placed(f)
  PROVE  /\ Pointers(f, off) \in Seq(PointerCmds)
         /\ PointersSoFar(f, off, Len(f), Pointers(f, off))
<1> DEFINE m == Len(f)
           cmd(k) == PointerOf(f[k], off + Ends(f)[k - 1])
           Def(c) == c = [k \in 0 .. m |->
                     IF k = 0 THEN << >>
                     ELSE IF f[k].to = Nowhere THEN c[k - 1] ELSE Append(c[k - 1], cmd(k))]
           step == [k \in 1 .. m |-> [v \in Seq(PointerCmds) |->
                     IF f[k].to = Nowhere THEN v ELSE Append(v, cmd(k))]]
           d == CHOOSE c : Def(c)
<1>1. m \in Nat /\ << >> \in Seq(PointerCmds)
  OBVIOUS
<1>2. \A k \in 1 .. m : f[k].to # Nowhere => cmd(k) \in PointerCmds
  <2> SUFFICES ASSUME NEW k \in 1 .. m, f[k].to # Nowhere PROVE cmd(k) \in PointerCmds
    OBVIOUS
  <2>1. Ends(f)[k - 1] \in Nat
    <3>1. k - 1 \in 0 .. m
      OBVIOUS
    <3> QED BY <3>1, EndsSteps
  <2> QED BY <2>1, PointerOfType
<1> HIDE DEF cmd
<1>3. step \in [1 .. m -> [Seq(PointerCmds) -> Seq(PointerCmds)]]
  <2> HIDE DEF PointerCmds
  <2> QED BY <1>2
<1>4. PICK r \in [0 .. m -> Seq(PointerCmds)] : Iterates(r, m, << >>, step)
  <2> HIDE DEF step, m
  <2> QED BY <1>1, <1>3, Iteration
<1>5. Def(r)
  <2>1. \A k \in 1 .. m :
          r[k] = IF f[k].to = Nowhere THEN r[k - 1] ELSE Append(r[k - 1], cmd(k))
    <3>1. \A k \in 1 .. m : r[k - 1] \in Seq(PointerCmds)
      BY <1>1
    <3> HIDE DEF m
    <3> QED BY <1>4, <3>1 DEF Iterates
  <2>2. r[0] = << >> /\ \A k \in 0 .. m : k = 0 \/ k \in 1 .. m
    BY <1>1, <1>4 DEF Iterates
  <2>3. r = [k \in 0 .. m |-> r[k]]
    BY <1>4
  <2>4. \A k \in 0 .. m :
          r[k] = IF k = 0 THEN << >>
                 ELSE IF f[k].to = Nowhere THEN r[k - 1] ELSE Append(r[k - 1], cmd(k))
    <3>1. 0 \notin 1 .. m
      OBVIOUS
    <3> HIDE DEF m
    <3> QED BY ONLY <2>1, <2>2, <3>1
  <2> HIDE DEF m
  <2> QED BY ONLY <2>3, <2>4
<1>6. Def(d)
  <2> HIDE DEF Def
  <2> QED BY <1>5
<1>7. Pointers(f, off) = d[m]
  BY DEF Pointers, cmd
<1> HIDE DEF d
<1>8. /\ d[0] = << >>
      /\ \A k \in 1 .. m :
           d[k] = IF f[k].to = Nowhere THEN d[k - 1] ELSE Append(d[k - 1], cmd(k))
  <2>1. d = [k \in 0 .. m |->
               IF k = 0 THEN << >>
               ELSE IF f[k].to = Nowhere THEN d[k - 1] ELSE Append(d[k - 1], cmd(k))]
    BY <1>6
  <2>2. 0 \in 0 .. m /\ \A k \in 1 .. m : k \in 0 .. m /\ k # 0
    BY <1>1
  <2> HIDE DEF m
  <2> QED BY ONLY <2>1, <2>2
<1> DEFINE T == {k \in Nat : d[k] \in Seq(PointerCmds) /\ PointersSoFar(f, off, k, d[k])}
<1>9. 0 \in T
  <2>1. {i \in 1 .. 0 : f[i].to # Nowhere} = {}
    OBVIOUS
  <2>2. /\ 1 .. 0 = {} /\ 1 .. Len(<< >>) = {} /\ Len(<< >>) = 0
        /\ Cardinality({}) = 0
    BY FS_EmptySet
  <2>3. PointersSoFar(f, off, 0, << >>)
    BY <2>1, <2>2 DEF PointersSoFar
  <2> QED BY <1>1, <1>8, <2>3
<1>10. ASSUME NEW k \in 0 .. m - 1, k \in T
       PROVE  k + 1 \in T
  <2>1. k \in Nat /\ k + 1 \in 1 .. m /\ (k + 1) - 1 = k
    BY <1>1
  <2>2. d[k] \in Seq(PointerCmds) /\ PointersSoFar(f, off, k, d[k])
    BY <1>10
  <2>3. d[k + 1] = IF f[k + 1].to = Nowhere THEN d[k] ELSE Append(d[k], cmd(k + 1))
    <3> HIDE DEF m
    <3> QED BY <1>8, <2>1
  <2>4. \A i \in 1 .. k + 1 : i \in 1 .. k \/ i = k + 1
    BY <2>1
  <2>5. \A i \in 1 .. k : i \in 1 .. k + 1
    BY <2>1
  <2>6. CASE f[k + 1].to = Nowhere
    <3>1. {i \in 1 .. k + 1 : f[i].to # Nowhere} = {i \in 1 .. k : f[i].to # Nowhere}
      BY <2>1, <2>6, CountNext
    <3>2. PointersSoFar(f, off, k + 1, d[k])
      <4> DEFINE c == d[k]
                 at(i, j) == c[j] = PointerOf(f[i], off + Ends(f)[i - 1])
      <4>1. /\ \A j \in 1 .. Len(c) : \E i \in 1 .. k : f[i].to # Nowhere /\ at(i, j)
            /\ \A i \in 1 .. k : f[i].to # Nowhere => \E j \in 1 .. Len(c) : at(i, j)
            /\ Len(c) = Cardinality({i \in 1 .. k + 1 : f[i].to # Nowhere})
        BY <2>2, <3>1 DEF PointersSoFar
      <4> HIDE DEF at, c
      <4>2. \A j \in 1 .. Len(c) : \E i \in 1 .. k + 1 : f[i].to # Nowhere /\ at(i, j)
        BY <2>5, <4>1
      <4>3. \A i \in 1 .. k + 1 : f[i].to # Nowhere => \E j \in 1 .. Len(c) : at(i, j)
        BY <2>4, <2>6, <4>1
      <4> QED BY <4>1, <4>2, <4>3 DEF PointersSoFar, at, c
    <3> QED BY <2>1, <2>2, <2>3, <2>6, <3>2
  <2>7. CASE f[k + 1].to # Nowhere
    <3> DEFINE c == d[k]  e == cmd(k + 1)  n == Append(c, e)
    <3>1. d[k + 1] = n /\ e \in PointerCmds
      BY <1>2, <2>1, <2>3, <2>7
    <3>2. /\ n \in Seq(PointerCmds) /\ Len(c) \in Nat /\ Len(n) = Len(c) + 1
          /\ \A j \in 1 .. Len(c) : n[j] = c[j] /\ j \in 1 .. Len(n)
          /\ n[Len(c) + 1] = e /\ Len(c) + 1 \in 1 .. Len(n)
          /\ \A j \in 1 .. Len(n) : j \in 1 .. Len(c) \/ j = Len(c) + 1
      BY <2>2, <3>1, AppendAt
    <3>3. e = PointerOf(f[k + 1], off + Ends(f)[(k + 1) - 1])
      BY DEF cmd
    <3>4. Len(n) = Cardinality({i \in 1 .. k + 1 : f[i].to # Nowhere})
      <4> DEFINE R(l) == {i \in 1 .. l : f[i].to # Nowhere}
      <4>1. Len(c) = Cardinality(R(k))
        BY <2>2 DEF PointersSoFar
      <4>2. Cardinality(R(k + 1)) = Cardinality(R(k)) + 1
        BY <2>1, <2>7, CountNext
      <4> HIDE DEF R, n, c
      <4>3. Len(n) = Cardinality(R(k + 1))
        BY <3>2, <4>1, <4>2
      <4> QED BY <4>3 DEF R
    <3> HIDE DEF n, c, e
    <3>5. \A j \in 1 .. Len(c) : \E i \in 1 .. k :
            f[i].to # Nowhere /\ c[j] = PointerOf(f[i], off + Ends(f)[i - 1])
      BY <2>2 DEF PointersSoFar, c
    <3>6. \A i \in 1 .. k : f[i].to # Nowhere =>
            \E j \in 1 .. Len(c) : c[j] = PointerOf(f[i], off + Ends(f)[i - 1])
      BY <2>2 DEF PointersSoFar, c
    <3>7. \A j \in 1 .. Len(n) : \E i \in 1 .. k + 1 :
            f[i].to # Nowhere /\ n[j] = PointerOf(f[i], off + Ends(f)[i - 1])
      <4>1. k + 1 \in 1 .. k + 1
        BY <2>1
      <4> QED BY <2>5, <2>7, <3>2, <3>3, <3>5, <4>1
    <3>8. \A i \in 1 .. k + 1 : f[i].to # Nowhere =>
            \E j \in 1 .. Len(n) : n[j] = PointerOf(f[i], off + Ends(f)[i - 1])
      BY <2>4, <3>2, <3>3, <3>6
    <3>9. PointersSoFar(f, off, k + 1, n)
      BY <3>4, <3>7, <3>8 DEF PointersSoFar
    <3> QED BY <2>1, <3>1, <3>2, <3>9
  <2> QED BY <2>6, <2>7
<1>11. \A k \in 0 .. m : k \in T
  <2> HIDE DEF T, m
  <2> QED BY <1>1, <1>9, <1>10, BoundedInduction
<1> QED BY <1>1, <1>7, <1>11

-----------------------------------------------------------------------------
(* What a piece of a script may do after the pieces before it.             *)
Cmds(s) == {s[k] : k \in 1 .. Len(s)}
AllocsOf(s) == {c.file : c \in {d \in Cmds(s) : d.op = "alloc"}}

(* Command d changes no byte of what sum c covers.                         *)
Spares(c, d) ==
  d.file = c.file =>
    /\ d.op = "pointer" => ~Overlaps(c, d.off, d.w)
    /\ d.op = "checksum" => ~Overlaps(c, d.at, 1)
(* No command spoils an earlier sum.                                       *)
Safe(s) ==
  \A i, k \in 1 .. Len(s) : i < k /\ s[i].op = "checksum" => Spares(s[i], s[k])

(* Each command finds its files among those of A and the ones allocated    *)
(* before it.                                                              *)
Known(A, s, k, file) ==
  file \in A \/ \E j \in 1 .. Len(s) : j < k /\ s[j].op = "alloc" /\ s[j].file = file
Ready(A, s) ==
  \A k \in 1 .. Len(s) :
    /\ s[k].op # "alloc" => Known(A, s, k, s[k].file)
    /\ s[k].op = "pointer" => Known(A, s, k, s[k].dst)

(* The commands of two pieces are those of each.                           *)
LEMMA CmdsConcat ==
  ASSUME NEW S, NEW s \in Seq(S), NEW t \in Seq(S)
  PROVE  Cmds(s \o t) = Cmds(s) \union Cmds(t) /\ AllocsOf(s \o t) = AllocsOf(s) \union AllocsOf(t)
<1> DEFINE f == s \o t
<1>1. /\ \A k \in 1 .. Len(s) : f[k] = s[k] /\ k \in 1 .. Len(f)
      /\ \A k \in 1 .. Len(t) : f[Len(s) + k] = t[k] /\ Len(s) + k \in 1 .. Len(f)
      /\ \A k \in 1 .. Len(f) :
           \/ k \in 1 .. Len(s) /\ f[k] = s[k]
           \/ k - Len(s) \in 1 .. Len(t) /\ f[k] = t[k - Len(s)]
  BY SeqConcat
<1> HIDE DEF f
<1>2. ASSUME NEW k \in 1 .. Len(f) PROVE f[k] \in Cmds(s) \union Cmds(t)
  <2>1. CASE k \in 1 .. Len(s) /\ f[k] = s[k]
    BY <2>1 DEF Cmds
  <2>2. CASE k - Len(s) \in 1 .. Len(t) /\ f[k] = t[k - Len(s)]
    BY <2>2 DEF Cmds
  <2> QED BY <1>1, <2>1, <2>2
<1>3. Cmds(s) \subseteq Cmds(f) /\ Cmds(t) \subseteq Cmds(f)
  <2>1. \A k \in 1 .. Len(s) : s[k] \in Cmds(f)
    BY <1>1 DEF Cmds
  <2>2. \A k \in 1 .. Len(t) : t[k] \in Cmds(f)
    BY <1>1 DEF Cmds
  <2> QED BY <2>1, <2>2 DEF Cmds
<1>4. Cmds(f) = Cmds(s) \union Cmds(t)
  BY <1>2, <1>3 DEF Cmds
<1>5. AllocsOf(f) = AllocsOf(s) \union AllocsOf(t)
  BY <1>4 DEF AllocsOf
<1> QED BY <1>4, <1>5 DEF f

(* Two safe pieces are safe together when the second spares the sums of    *)
(* the first.                                                              *)
LEMMA SafeConcat ==
  ASSUME NEW S, NEW s \in Seq(S), NEW t \in Seq(S), Safe(s), Safe(t),
         \A c \in Cmds(s), d \in Cmds(t) : c.op = "checksum" => Spares(c, d)
  PROVE  Safe(s \o t)
<1> DEFINE f == s \o t
<1>1. /\ Len(s) \in Nat /\ Len(t) \in Nat
      /\ \A k \in 1 .. Len(f) :
           \/ k \in 1 .. Len(s) /\ f[k] = s[k]
           \/ k - Len(s) \in 1 .. Len(t) /\ f[k] = t[k - Len(s)]
  BY SeqConcat
<1> HIDE DEF f
<1>2. ASSUME NEW i \in 1 .. Len(f), NEW k \in 1 .. Len(f), i < k, f[i].op = "checksum"
      PROVE  Spares(f[i], f[k])
  <2>1. CASE i \in 1 .. Len(s) /\ f[i] = s[i] /\ k \in 1 .. Len(s) /\ f[k] = s[k]
    BY <1>2, <2>1 DEF Safe
  <2>2. CASE /\ i \in 1 .. Len(s) /\ f[i] = s[i]
             /\ k - Len(s) \in 1 .. Len(t) /\ f[k] = t[k - Len(s)]
    BY <1>2, <2>2 DEF Cmds
  <2>3. CASE /\ i - Len(s) \in 1 .. Len(t) /\ f[i] = t[i - Len(s)]
             /\ k - Len(s) \in 1 .. Len(t) /\ f[k] = t[k - Len(s)]
    <3>1. i - Len(s) < k - Len(s)
      BY <1>1, <1>2
    <3> QED BY <1>2, <2>3, <3>1 DEF Safe
  <2>4. CASE i - Len(s) \in 1 .. Len(t) /\ k \in 1 .. Len(s)
    BY <1>1, <1>2, <2>4
  <2> QED BY <1>1, <2>1, <2>2, <2>3, <2>4
<1> QED BY <1>2 DEF Safe, f

(* The second piece may use the files the first one allocates.             *)
LEMMA ReadyConcat ==
  ASSUME NEW S, NEW s \in Seq(S), NEW t \in Seq(S), NEW A,
         Ready(A, s), Ready(A \union AllocsOf(s), t)
  PROVE  Ready(A, s \o t)
<1> DEFINE f == s \o t
<1>1. /\ Len(s) \in Nat /\ Len(t) \in Nat
      /\ \A k \in 1 .. Len(s) : f[k] = s[k] /\ k \in 1 .. Len(f)
      /\ \A k \in 1 .. Len(t) : f[Len(s) + k] = t[k] /\ Len(s) + k \in 1 .. Len(f)
      /\ \A k \in 1 .. Len(f) :
           \/ k \in 1 .. Len(s) /\ f[k] = s[k]
           \/ k - Len(s) \in 1 .. Len(t) /\ f[k] = t[k - Len(s)]
  BY SeqConcat
<1> HIDE DEF f
<1>2. ASSUME NEW k \in 1 .. Len(f), NEW file,
             \/ k \in 1 .. Len(s) /\ Known(A, s, k, file)
             \/ /\ k - Len(s) \in 1 .. Len(t)
                /\ Known(A \union AllocsOf(s), t, k - Len(s), file)
      PROVE  Known(A, f, k, file)
  <2>1. CASE file \in A
    BY <2>1 DEF Known
  <2>2. ASSUME NEW j \in 1 .. Len(s), j < k, s[j].op = "alloc", s[j].file = file
        PROVE  Known(A, f, k, file)
    BY <1>1, <2>2 DEF Known
  <2>3. CASE k \in 1 .. Len(s) /\ Known(A, s, k, file)
    BY <2>1, <2>2, <2>3 DEF Known
  <2>4. CASE /\ k - Len(s) \in 1 .. Len(t)
             /\ Known(A \union AllocsOf(s), t, k - Len(s), file)
    <3>1. CASE file \in AllocsOf(s)
      <4>1. PICK j \in 1 .. Len(s) : s[j].op = "alloc" /\ s[j].file = file
        BY <3>1 DEF AllocsOf, Cmds
      <4>2. j < k
        BY <1>1, <2>4
      <4> QED BY <2>2, <4>1, <4>2
    <3>2. ASSUME NEW j \in 1 .. Len(t), j < k - Len(s), t[j].op = "alloc", t[j].file = file
          PROVE  Known(A, f, k, file)
      <4>1. f[Len(s) + j] = t[j] /\ Len(s) + j \in 1 .. Len(f) /\ Len(s) + j < k
        BY <1>1, <3>2
      <4> QED BY <3>2, <4>1 DEF Known
    <3> QED BY <2>1, <2>4, <3>1, <3>2 DEF Known
  <2> QED BY <1>2, <2>3, <2>4
<1>3. ASSUME NEW k \in 1 .. Len(f)
      PROVE  /\ f[k].op # "alloc" => Known(A, f, k, f[k].file)
             /\ f[k].op = "pointer" => Known(A, f, k, f[k].dst)
  <2>1. CASE k \in 1 .. Len(s) /\ f[k] = s[k]
    BY <1>2, <2>1 DEF Ready
  <2>2. CASE k - Len(s) \in 1 .. Len(t) /\ f[k] = t[k - Len(s)]
    BY <1>2, <2>2 DEF Ready
  <2> QED BY <1>1, <2>1, <2>2
<1> QED BY <1>3 DEF Ready, f

(* A sequence of one command.                                              *)
LEMMA OneCommand ==
  ASSUME NEW S, NEW c \in S
  PROVE  /\ <<c>> \in Seq(S) /\ Len(<<c>>) = 1 /\ Cmds(<<c>>) = {c} /\ Safe(<<c>>)
         /\ AllocsOf(<<c>>) = IF c.op = "alloc" THEN {c.file} ELSE {}
<1> DEFINE s == <<c>>
<1>1. s \in Seq(S) /\ Len(s) = 1 /\ s[1] = c /\ \A k \in 1 .. 1 : k = 1
  OBVIOUS
<1>2. 1 \in 1 .. 1
  OBVIOUS
<1> HIDE DEF s
<1>3. Cmds(s) = {c}
  BY <1>1, <1>2 DEF Cmds
<1>4. Safe(s)
  BY <1>1 DEF Safe
<1>5. AllocsOf(s) = IF c.op = "alloc" THEN {c.file} ELSE {}
  BY <1>3 DEF AllocsOf
<1> QED BY <1>1, <1>3, <1>4, <1>5 DEF s

(* No command does no harm.                                                *)
LEMMA NoCommand ==
  ASSUME NEW S
  PROVE  /\ << >> \in Seq(S) /\ Len(<< >>) = 0 /\ Cmds(<< >>) = {} /\ Safe(<< >>)
         /\ AllocsOf(<< >>) = {} /\ \A A : Ready(A, << >>)
<1>1. << >> \in Seq(S) /\ Len(<< >>) = 0 /\ 1 .. 0 = {}
  OBVIOUS
<1>2. Cmds(<< >>) = {}
  BY <1>1 DEF Cmds
<1> QED BY <1>1, <1>2 DEF AllocsOf, Safe, Ready

(* Pointers only: nothing to spoil, and the files are the given ones.      *)
LEMMA OnlyPointers ==
  ASSUME NEW s \in Seq(PointerCmds), NEW A,
         \A c \in Cmds(s) : c.file \in A /\ c.dst \in A
  PROVE  /\ s \in Seq(Commands) /\ Safe(s) /\ Ready(A, s) /\ AllocsOf(s) = {}
         /\ \A c \in Cmds(s) : c \in PointerCmds
<1>1. \A k \in 1 .. Len(s) : s[k] \in PointerCmds /\ s[k] \in Cmds(s)
  BY SeqAt DEF Cmds
<1>2. \A c \in PointerCmds : c.op = "pointer" /\ c \in Commands
  BY DEF PointerCmds, Commands
<1>3. s \in Seq(Commands)
  <2>1. PointerCmds \subseteq Commands
    BY DEF Commands
  <2> QED BY <2>1
<1>4. Safe(s)
  BY <1>1, <1>2 DEF Safe
<1>5. Ready(A, s)
  BY <1>1 DEF Ready, Known
<1>6. \A c \in Cmds(s) : c \in PointerCmds
  BY <1>1 DEF Cmds
<1>7. AllocsOf(s) = {}
  BY <1>2, <1>6 DEF AllocsOf
<1> QED BY <1>3, <1>4, <1>5, <1>6, <1>7

-----------------------------------------------------------------------------
(* Pointer fields of two pieces.                                           *)
LEMMA RefsConcat ==
  ASSUME NEW s \in Seq(Fields), NEW t \in Seq(Fields)
  PROVE  /\ IsFiniteSet(Refs(s)) /\ Cardinality(Refs(s)) \in Nat
         /\ Cardinality(Refs(s \o t)) = Cardinality(Refs(s)) + Cardinality(Refs(t))
<1> DEFINE f == s \o t  shift == [k \in Refs(t) |-> Len(s) + k]
           U == {Len(s) + k : k \in Refs(t)}
<1>1. /\ Len(s) \in Nat /\ Len(t) \in Nat
      /\ \A k \in 1 .. Len(s) : f[k] = s[k] /\ k \in 1 .. Len(f)
      /\ \A k \in 1 .. Len(t) : f[Len(s) + k] = t[k] /\ Len(s) + k \in 1 .. Len(f)
      /\ \A k \in 1 .. Len(f) :
           \/ k \in 1 .. Len(s) /\ f[k] = s[k]
           \/ k - Len(s) \in 1 .. Len(t) /\ f[k] = t[k - Len(s)]
  BY SeqConcat
<1>2. /\ IsFiniteSet(Refs(s)) /\ IsFiniteSet(Refs(t))
      /\ Cardinality(Refs(s)) \in Nat /\ Cardinality(Refs(t)) \in Nat
  <2>1. ASSUME NEW u, Len(u) \in Nat
        PROVE  IsFiniteSet(Refs(u)) /\ Cardinality(Refs(u)) \in Nat
    <3>1. IsFiniteSet(1 .. Len(u)) /\ Refs(u) \subseteq 1 .. Len(u)
      BY <2>1, FS_Interval DEF Refs
    <3> QED BY <3>1, FS_Subset, FS_CardinalityType
  <2> QED BY <1>1, <2>1
<1> HIDE DEF f
<1>3. Refs(f) = Refs(s) \union U
  <2>1. ASSUME NEW k \in Refs(f) PROVE k \in Refs(s) \union U
    <3>1. CASE k \in 1 .. Len(s) /\ f[k] = s[k]
      BY <2>1, <3>1 DEF Refs
    <3>2. CASE k - Len(s) \in 1 .. Len(t) /\ f[k] = t[k - Len(s)]
      <4>1. k - Len(s) \in Refs(t) /\ k = Len(s) + (k - Len(s))
        BY <1>1, <2>1, <3>2 DEF Refs
      <4> QED BY <4>1
    <3> QED BY <1>1, <2>1, <3>1, <3>2 DEF Refs
  <2>2. ASSUME NEW k \in Refs(s) PROVE k \in Refs(f)
    BY <1>1 DEF Refs
  <2>3. ASSUME NEW k \in Refs(t) PROVE Len(s) + k \in Refs(f)
    BY <1>1 DEF Refs
  <2> QED BY <2>1, <2>2, <2>3
<1>4. shift \in Bijection(Refs(t), U)
  <2>1. shift \in [Refs(t) -> U]
    OBVIOUS
  <2>2. \A k, l \in Refs(t) : shift[k] = shift[l] => k = l
    <3>1. \A k \in Refs(t) : k \in Nat
      BY <1>1 DEF Refs
    <3> QED BY <1>1, <3>1
  <2>3. \A u \in U : \E k \in Refs(t) : shift[k] = u
    OBVIOUS
  <2> HIDE DEF shift, U
  <2> QED BY <2>1, <2>2, <2>3 DEF Bijection, Injection, Surjection, IsInjective
<1>5. IsFiniteSet(U) /\ Cardinality(U) = Cardinality(Refs(t))
  <2> HIDE DEF shift, U
  <2> QED BY <1>2, <1>4, FS_Bijection DEF ExistsBijection
<1>6. Refs(s) \intersect U = {}
  <2>1. \A k \in Refs(s) : k <= Len(s) /\ k \in Nat
    BY <1>1 DEF Refs
  <2>2. \A k \in Refs(t) : k \in Nat /\ k >= 1
    BY <1>1 DEF Refs
  <2> QED BY <1>1, <2>1, <2>2
<1>7. Cardinality(Refs(f)) = Cardinality(Refs(s)) + Cardinality(Refs(t))
  <2> HIDE DEF U
  <2>1. Cardinality(Refs(s) \intersect U) = 0
    BY <1>6, FS_EmptySet
  <2>2. Cardinality(Refs(s) \union U) = Cardinality(Refs(s)) + Cardinality(U)
                                        - Cardinality(Refs(s) \intersect U)
    BY <1>2, <1>5, FS_Union
  <2> QED BY <1>2, <1>3, <1>5, <2>1, <2>2
<1> QED BY <1>2, <1>7 DEF f

-----------------------------------------------------------------------------
(* The bodies: how many pointers, and what to.                             *)
Shape(f, n, T) ==
  /\ f \in Seq(Fields) /\ n \in Nat /\ Cardinality(Refs(f)) = n
  /\ \A k \in 1 .. Len(f) : f[k].to \in T \/ f[k].to = Nowhere

(* A field, a pointer, an address structure.                               *)
LEMMA FieldsOf ==
  /\ \A w \in Nat : F(w) \in Fields /\ F(w).to = Nowhere
  /\ \A w \in Nat : \A t \in {"FACS", "DSDT", "LOG"} :
       P(w, t) \in Fields /\ P(w, t).to = t /\ P(w, t).w = w
  /\ Gas \in Fields /\ Gas.to = Nowhere
BY DEF F, P, Gas, Fields, Targets

(* Fields that are no pointers.                                            *)
LEMMA PlainShape ==
  ASSUME NEW f \in Seq(Fields), \A k \in 1 .. Len(f) : f[k].to = Nowhere, NEW T
  PROVE  Shape(f, 0, T)
<1>1. Refs(f) = {}
  BY DEF Refs
<1>2. Cardinality(Refs(f)) = 0
  BY <1>1, FS_EmptySet
<1> QED BY <1>2 DEF Shape

(* The pointers of two pieces add up.                                      *)
LEMMA ShapeConcat ==
  ASSUME NEW s, NEW t, NEW n, NEW m, NEW T, Shape(s, n, T), Shape(t, m, T)
  PROVE  Shape(s \o t, n + m, T)
<1> DEFINE f == s \o t
<1>1. s \in Seq(Fields) /\ t \in Seq(Fields) /\ n \in Nat /\ m \in Nat
  BY DEF Shape
<1>2. /\ f \in Seq(Fields)
      /\ \A k \in 1 .. Len(f) :
           \/ k \in 1 .. Len(s) /\ f[k] = s[k]
           \/ k - Len(s) \in 1 .. Len(t) /\ f[k] = t[k - Len(s)]
  BY <1>1, SeqConcat
<1>3. Cardinality(Refs(f)) = n + m
  BY <1>1, RefsConcat DEF Shape
<1> HIDE DEF f
<1>4. \A k \in 1 .. Len(f) : f[k].to \in T \/ f[k].to = Nowhere
  BY <1>2 DEF Shape
<1> QED BY <1>1, <1>2, <1>3, <1>4 DEF Shape, f

(* The pieces without pointers.                                            *)
LEMMA PlainPieces ==
  ASSUME NEW T
  PROVE  /\ Shape(Header, 0, T) /\ Len(Header) = 9
         /\ Shape(<< >>, 0, T) /\ Shape(<<Gas, F(1)>>, 0, T) /\ Shape(<<F(2), F(1)>>, 0, T)
         /\ Shape(<<F(3)>>, 0, T) /\ Shape(<<Gas, Gas>>, 0, T) /\ Shape(<<F(8)>>, 0, T)
         /\ Shape(HpetFields, 0, T) /\ Shape(WaetFields, 0, T)
         /\ Shape(<<F(OtherLen)>>, 0, T)
<1>1. Shape(Header, 0, T) /\ Len(Header) = 9
  <2> DEFINE a == F(4)  b == F(1)  c == F(6)  d == F(8)
             h == <<a, a, b, b, c, d, a, a, a>>
  <2>1. /\ a \in Fields /\ b \in Fields /\ c \in Fields /\ d \in Fields
        /\ a.to = Nowhere /\ b.to = Nowhere /\ c.to = Nowhere /\ d.to = Nowhere
    BY FieldsOf
  <2> HIDE DEF a, b, c, d
  <2>2. h \in Seq(Fields) /\ Len(h) = 9
    BY <2>1
  <2>3. \A k \in 1 .. 9 : h[k].to = Nowhere
    BY <2>1
  <2>4. Shape(h, 0, T)
    BY <2>2, <2>3, PlainShape
  <2> QED BY <2>2, <2>4 DEF Header, a, b, c, d
<1>2. ASSUME NEW a \in Fields, NEW b \in Fields, a.to = Nowhere, b.to = Nowhere
      PROVE  Shape(<<a>>, 0, T) /\ Shape(<<a, b>>, 0, T)
  <2>1. <<a>> \in Seq(Fields) /\ \A k \in 1 .. Len(<<a>>) : <<a>>[k].to = Nowhere
    BY <1>2
  <2>2. <<a, b>> \in Seq(Fields) /\ \A k \in 1 .. Len(<<a, b>>) : <<a, b>>[k].to = Nowhere
    BY <1>2
  <2> QED BY <2>1, <2>2, PlainShape
<1>3. /\ F(1) \in Fields /\ F(2) \in Fields /\ F(3) \in Fields /\ F(8) \in Fields
      /\ F(4) \in Fields /\ F(OtherLen) \in Fields
      /\ F(1).to = Nowhere /\ F(2).to = Nowhere /\ F(3).to = Nowhere /\ F(8).to = Nowhere
      /\ F(4).to = Nowhere /\ F(OtherLen).to = Nowhere
  BY FieldsOf, TablesAssumption
<1>4. Shape(<< >>, 0, T)
  <2>1. << >> \in Seq(Fields) /\ Len(<< >>) = 0 /\ 1 .. 0 = {}
    OBVIOUS
  <2> QED BY <2>1, PlainShape
<1>5. Shape(HpetFields, 0, T)
  <2> DEFINE a == F(4)  b == F(1)  c == F(2)  g == Gas  h == <<a, g, b, c, b>>
  <2>1. /\ a \in Fields /\ b \in Fields /\ c \in Fields /\ g \in Fields
        /\ a.to = Nowhere /\ b.to = Nowhere /\ c.to = Nowhere /\ g.to = Nowhere
    BY FieldsOf
  <2> HIDE DEF a, b, c, g
  <2>2. h \in Seq(Fields) /\ Len(h) = 5
    BY <2>1
  <2>3. \A k \in 1 .. 5 : h[k].to = Nowhere
    BY <2>1
  <2>4. Shape(h, 0, T)
    BY <2>2, <2>3, PlainShape
  <2> QED BY <2>4 DEF HpetFields, a, b, c, g
<1>6. Shape(WaetFields, 0, T)
  BY <1>2, <1>3 DEF WaetFields
<1>7. Shape(<<Gas, F(1)>>, 0, T) /\ Shape(<<Gas, Gas>>, 0, T)
  BY <1>2, <1>3, FieldsOf
<1>8. /\ Shape(<<F(2), F(1)>>, 0, T) /\ Shape(<<F(3)>>, 0, T) /\ Shape(<<F(8)>>, 0, T)
      /\ Shape(<<F(OtherLen)>>, 0, T)
  BY <1>2, <1>3
<1> QED BY <1>1, <1>4, <1>5, <1>6, <1>7, <1>8

(* The tables of the log.                                                  *)
LEMMA LogPieces == Shape(Tpm2Fields, 1, {"LOG"}) /\ Shape(TcpaFields, 1, {"LOG"})
<1> DEFINE a == F(2)  b == F(4)  c == F(8)  d == F(12)  p == P(8, "LOG")
           g == <<a, a, c, b, d, b, p>>  h == <<a, b, p>>
<1>1. /\ a \in Fields /\ b \in Fields /\ c \in Fields /\ d \in Fields /\ p \in Fields
      /\ a.to = Nowhere /\ b.to = Nowhere /\ c.to = Nowhere /\ d.to = Nowhere
      /\ p.to = "LOG" /\ "LOG" # Nowhere
  BY FieldsOf, TablesAssumption
<1> HIDE DEF a, b, c, d, p
<1>2. g \in Seq(Fields) /\ Len(g) = 7 /\ h \in Seq(Fields) /\ Len(h) = 3
  BY <1>1
<1>3. g[7].to = "LOG" /\ \A k \in 1 .. 7 : k # 7 => g[k].to = Nowhere
  BY <1>1
<1>4. h[3].to = "LOG" /\ \A k \in 1 .. 3 : k # 3 => h[k].to = Nowhere
  BY <1>1
<1>5. Tpm2Fields = g /\ TcpaFields = h
  BY DEF Tpm2Fields, TcpaFields, a, b, c, d, p
<1> HIDE DEF g, h
<1>6. 7 \in 1 .. 7 /\ 3 \in 1 .. 3
  OBVIOUS
<1>7. Refs(g) = {7} /\ Refs(h) = {3}
  BY <1>1, <1>2, <1>3, <1>4, <1>6 DEF Refs
<1>8. Cardinality({7}) = 1 /\ Cardinality({3}) = 1
  BY FS_Singleton
<1>9. Shape(g, 1, {"LOG"}) /\ Shape(h, 1, {"LOG"})
  BY <1>2, <1>3, <1>4, <1>7, <1>8 DEF Shape
<1> QED BY <1>5, <1>9

(* The FADT: two pointers, and the extended one to the DSDT.               *)
LEMMA FadtPieces ==
  ASSUME NEW rev \in Nat, NEW minor \in Nat
  PROVE  /\ Shape(FadtFields(rev, minor), IF rev = 1 THEN 2 ELSE 3, {"FACS", "DSDT"})
         /\ Len(FadtFields(rev, minor)) >= 2
         /\ FadtFields(rev, minor)[1] = P(4, "FACS")
         /\ FadtFields(rev, minor)[2] = P(4, "DSDT")
<1> DEFINE T == {"FACS", "DSDT"}
           p == P(4, "FACS")  q == P(4, "DSDT")  r == P(8, "DSDT")
           a == F(12)  b == F(32)  c == F(8)  d == F(5)  e == F(2)  h == F(1)  i == F(4)
           g == Gas
           base == <<p, q, a, b, c, c, d, e, h, i>>
           ext == <<c, r, g, g, g, g, g, g, g, g>>
           mid == IF rev >= 6 \/ (rev = 5 /\ minor > 0) THEN <<F(2), F(1)>> ELSE <<F(3)>>
           old == IF rev = 1 THEN << >> ELSE <<Gas, F(1)>> \o mid \o ext
           sleep == IF rev <= 4 THEN << >> ELSE <<Gas, Gas>>
           vendor == IF rev <= 5 THEN << >> ELSE <<F(8)>>
<1>1. /\ p \in Fields /\ q \in Fields /\ r \in Fields /\ a \in Fields /\ b \in Fields
      /\ c \in Fields /\ d \in Fields /\ e \in Fields /\ h \in Fields /\ i \in Fields
      /\ g \in Fields
      /\ p.to = "FACS" /\ q.to = "DSDT" /\ r.to = "DSDT"
      /\ a.to = Nowhere /\ b.to = Nowhere /\ c.to = Nowhere /\ d.to = Nowhere
      /\ e.to = Nowhere /\ h.to = Nowhere /\ i.to = Nowhere /\ g.to = Nowhere
      /\ "FACS" # Nowhere /\ "DSDT" # Nowhere
  BY FieldsOf, TablesAssumption
<1>2. FadtFields(rev, minor) = base \o old \o sleep \o vendor
  BY DEF FadtFields
<1> HIDE DEF p, q, r, a, b, c, d, e, h, i, g
<1>3. base \in Seq(Fields) /\ Len(base) = 10 /\ base[1] = p /\ base[2] = q
  BY <1>1
<1>4. Shape(base, 2, T)
  <2>1. \A k \in 1 .. 10 : k # 1 /\ k # 2 => base[k].to = Nowhere
    BY <1>1
  <2> HIDE DEF base
  <2>2. 1 \in 1 .. 10 /\ 2 \in 1 .. 10
    OBVIOUS
  <2>3. Refs(base) = {1, 2}
    BY <1>1, <1>3, <2>1, <2>2 DEF Refs
  <2>4. Cardinality({1, 2}) = 2
    <3>1. IsFiniteSet({1}) /\ Cardinality({1}) = 1 /\ 2 \notin {1}
      BY FS_Singleton
    <3>2. Cardinality({1} \union {2}) = 2
      BY <3>1, FS_AddElement
    <3>3. {1} \union {2} = {1, 2}
      OBVIOUS
    <3> QED BY <3>2, <3>3
  <2>5. \A k \in 1 .. 10 : base[k].to \in T \/ base[k].to = Nowhere
    BY <1>1, <1>3, <2>1
  <2> QED BY <1>3, <2>3, <2>4, <2>5 DEF Shape
<1>5. Shape(ext, 1, T)
  <2>1. /\ ext \in Seq(Fields) /\ Len(ext) = 10 /\ ext[2] = r
        /\ \A k \in 1 .. 10 : k # 2 => ext[k].to = Nowhere
    BY <1>1
  <2> HIDE DEF ext
  <2>2. 2 \in 1 .. 10
    OBVIOUS
  <2>3. Refs(ext) = {2}
    BY <1>1, <2>1, <2>2 DEF Refs
  <2>4. Cardinality({2}) = 1
    BY FS_Singleton
  <2>5. \A k \in 1 .. 10 : ext[k].to \in T \/ ext[k].to = Nowhere
    BY <1>1, <2>1
  <2> QED BY <2>1, <2>3, <2>4, <2>5 DEF Shape
<1>6. Shape(mid, 0, T) /\ Shape(sleep, 0, T) /\ Shape(vendor, 0, T)
  BY PlainPieces
<1> HIDE DEF base, ext, mid, sleep, vendor
<1>7. Shape(old, IF rev = 1 THEN 0 ELSE 1, T)
  <2>1. CASE rev = 1
    BY <2>1, PlainPieces
  <2>2. CASE rev # 1
    <3>1. Shape(<<Gas, F(1)>>, 0, T)
      BY PlainPieces
    <3>2. Shape(<<Gas, F(1)>> \o mid, 0 + 0, T)
      BY <1>6, <3>1, ShapeConcat
    <3>3. Shape(<<Gas, F(1)>> \o mid \o ext, 0 + 0 + 1, T)
      BY <1>5, <3>2, ShapeConcat
    <3>4. 0 + 0 + 1 = 1
      OBVIOUS
    <3> QED BY <2>2, <3>3, <3>4
  <2> QED BY <2>1, <2>2
<1> HIDE DEF old
<1> DEFINE n == IF rev = 1 THEN 0 ELSE 1
<1>8. Shape(base \o old, 2 + n, T)
  BY <1>4, <1>7, ShapeConcat
<1>9. Shape(base \o old \o sleep, 2 + n + 0, T)
  BY <1>6, <1>8, ShapeConcat
<1>10. Shape(base \o old \o sleep \o vendor, 2 + n + 0 + 0, T)
  BY <1>6, <1>9, ShapeConcat
<1>11. 2 + n + 0 + 0 = IF rev = 1 THEN 2 ELSE 3
  OBVIOUS
<1>12. ASSUME NEW s \in Seq(Fields), NEW t \in Seq(Fields),
              Len(s) >= 2, s[1] = p, s[2] = q
       PROVE  Len(s \o t) >= 2 /\ (s \o t)[1] = p /\ (s \o t)[2] = q
  <2>1. 1 \in 1 .. Len(s) /\ 2 \in 1 .. Len(s)
    BY <1>12
  <2> QED BY <1>12, <2>1, SeqConcat
<1>13. old \in Seq(Fields) /\ sleep \in Seq(Fields) /\ vendor \in Seq(Fields)
  BY <1>6, <1>7 DEF Shape
<1>14. base \o old \in Seq(Fields) /\ base \o old \o sleep \in Seq(Fields)
  BY <1>8, <1>9 DEF Shape
<1>15. Len(base) >= 2
  BY <1>3
<1>16. Len(base \o old) >= 2 /\ (base \o old)[1] = p /\ (base \o old)[2] = q
  BY <1>3, <1>12, <1>13, <1>15
<1>17. /\ Len(base \o old \o sleep) >= 2
       /\ (base \o old \o sleep)[1] = p /\ (base \o old \o sleep)[2] = q
  BY <1>12, <1>13, <1>14, <1>16
<1>18. /\ Len(base \o old \o sleep \o vendor) >= 2
       /\ (base \o old \o sleep \o vendor)[1] = p /\ (base \o old \o sleep \o vendor)[2] = q
  BY <1>12, <1>13, <1>14, <1>17
<1> QED BY <1>2, <1>10, <1>11, <1>18 DEF p, q

Logs == {"TPM2", "TCPA"}
Sigs == {Order[k] : k \in 1 .. Len(Order)}
RefsOf(sig, layout) ==
  IF sig = "FACP" THEN IF layout[1] = 1 THEN 2 ELSE 3
  ELSE IF sig \in Logs THEN 1 ELSE 0
TargetsOf(sig) ==
  IF sig = "FACP" THEN {"FACS", "DSDT"} ELSE IF sig \in Logs THEN {"LOG"} ELSE {}

(* Each table's fields.                                                    *)
LEMMA BodyShape ==
  ASSUME NEW sig, NEW layout \in Nat \X Nat
  PROVE  /\ Shape(Body(sig, layout), RefsOf(sig, layout), TargetsOf(sig))
         /\ Shape(Header \o Body(sig, layout), RefsOf(sig, layout), TargetsOf(sig))
         /\ sig = "FACP" =>
              /\ Len(Body(sig, layout)) >= 2
              /\ Body(sig, layout)[1] = P(4, "FACS") /\ Body(sig, layout)[2] = P(4, "DSDT")
<1>1. layout[1] \in Nat /\ layout[2] \in Nat
  OBVIOUS
<1>2. Shape(Body(sig, layout), RefsOf(sig, layout), TargetsOf(sig))
  <2>1. CASE sig = "FACP"
    BY <1>1, <2>1, FadtPieces DEF Body, RefsOf, TargetsOf
  <2>2. CASE sig = "TPM2"
    BY <2>2, LogPieces DEF Body, RefsOf, TargetsOf, Logs
  <2>3. CASE sig = "TCPA"
    BY <2>3, LogPieces DEF Body, RefsOf, TargetsOf, Logs
  <2>4. CASE sig = "HPET"
    BY <2>4, PlainPieces DEF Body, RefsOf, TargetsOf, Logs
  <2>5. CASE sig = "WAET"
    BY <2>5, PlainPieces DEF Body, RefsOf, TargetsOf, Logs
  <2>6. CASE sig \notin {"FACP", "TPM2", "TCPA", "HPET", "WAET"}
    BY <2>6, PlainPieces DEF Body, RefsOf, TargetsOf, Logs
  <2> QED BY <2>1, <2>2, <2>3, <2>4, <2>5, <2>6
<1>3. Shape(Header \o Body(sig, layout), 0 + RefsOf(sig, layout), TargetsOf(sig))
  BY <1>2, PlainPieces, ShapeConcat
<1>4. 0 + RefsOf(sig, layout) = RefsOf(sig, layout)
  BY DEF RefsOf
<1>5. sig = "FACP" =>
        /\ Len(Body(sig, layout)) >= 2
        /\ Body(sig, layout)[1] = P(4, "FACS") /\ Body(sig, layout)[2] = P(4, "DSDT")
  BY <1>1, FadtPieces DEF Body
<1> QED BY <1>2, <1>3, <1>4, <1>5

-----------------------------------------------------------------------------
(* The script while the tables are built: its sums lie in the first l      *)
(* bytes of the file, and a piece that is added writes behind them.        *)
Sound(sc, l) ==
  /\ sc \in Seq(Commands) /\ "tables" \in AllocsOf(sc) /\ Safe(sc) /\ Ready({}, sc)
  /\ \A c \in Cmds(sc) :
       c.op = "checksum" => c.file = "tables" /\ c.off + c.w <= l

Behind(c, l, m) ==
  /\ c.op # "alloc" => c.file = "tables"
  /\ c.op = "pointer" => c.off >= l
  /\ c.op = "checksum" => c.at >= l /\ c.off + c.w <= m

Piece(t, l, m) ==
  /\ t \in Seq(Commands) /\ Safe(t) /\ Ready({"tables"}, t)
  /\ \A c \in Cmds(t) : Behind(c, l, m)

(* What each command consists of.                                          *)
LEMMA CommandTypes ==
  ASSUME NEW c \in Commands
  PROVE  /\ c.op \in {"alloc", "pointer", "checksum"} /\ c.file \in Names
         /\ c.op = "pointer" => c \in PointerCmds /\ c.off \in Nat /\ c.w \in Nat
                                /\ c.dst \in Names /\ c.dstOff \in Nat
         /\ c.op = "checksum" => c \in SumCmds /\ c.off \in Nat /\ c.w \in Nat /\ c.at \in Nat
BY DEF Commands, AllocCmds, PointerCmds, SumCmds

(* The commands of a sequence are of its type.                             *)
LEMMA CmdsIn ==
  ASSUME NEW S, NEW s \in Seq(S)
  PROVE  \A c \in Cmds(s) : c \in S
BY SeqAt DEF Cmds

(* What Alloc, Pointer and Checksum make.                                  *)
LEMMA MakeCommands ==
  /\ \A n \in Names : Alloc(n) \in Commands /\ Alloc(n).op = "alloc" /\ Alloc(n).file = n
  /\ \A n, d \in Names : \A off, w, to \in Nat :
       /\ Pointer(n, off, w, d, to) \in PointerCmds /\ Pointer(n, off, w, d, to) \in Commands
       /\ Pointer(n, off, w, d, to).op = "pointer" /\ Pointer(n, off, w, d, to).file = n
       /\ Pointer(n, off, w, d, to).off = off /\ Pointer(n, off, w, d, to).w = w
       /\ Pointer(n, off, w, d, to).dst = d /\ Pointer(n, off, w, d, to).dstOff = to
  /\ \A n \in Names : \A off, w, at \in Nat :
       /\ Checksum(n, off, w, at) \in Commands /\ Checksum(n, off, w, at).op = "checksum"
       /\ Checksum(n, off, w, at).file = n /\ Checksum(n, off, w, at).off = off
       /\ Checksum(n, off, w, at).w = w /\ Checksum(n, off, w, at).at = at
BY DEF Alloc, Pointer, Checksum, Commands, AllocCmds, PointerCmds, SumCmds

(* More files do not hurt.                                                 *)
LEMMA ReadyMore ==
  ASSUME NEW A, NEW B, NEW s, A \subseteq B, Ready(A, s)
  PROVE  Ready(B, s)
<1>1. \A k, file : Known(A, s, k, file) => Known(B, s, k, file)
  BY DEF Known
<1> QED BY <1>1 DEF Ready

(* A piece that writes behind the sums leaves the script sound.            *)
LEMMA SoundConcat ==
  ASSUME NEW sc, NEW t, NEW l \in Nat, NEW m \in Nat, l <= m, Sound(sc, l), Piece(t, l, m)
  PROVE  Sound(sc \o t, m) /\ Cmds(sc \o t) = Cmds(sc) \union Cmds(t)
<1>1. sc \in Seq(Commands) /\ t \in Seq(Commands) /\ sc \o t \in Seq(Commands)
  <2>1. sc \in Seq(Commands) /\ t \in Seq(Commands)
    BY DEF Sound, Piece
  <2> QED BY <2>1, SeqConcat
<1>2. /\ Cmds(sc \o t) = Cmds(sc) \union Cmds(t)
      /\ AllocsOf(sc \o t) = AllocsOf(sc) \union AllocsOf(t)
  BY <1>1, CmdsConcat
<1>3. /\ \A c \in Cmds(sc) : c \in Commands
      /\ \A c \in Cmds(t) : c \in Commands
  BY <1>1, CmdsIn
<1>4. ASSUME NEW c \in Cmds(sc), NEW d \in Cmds(t), c.op = "checksum"
      PROVE  Spares(c, d)
  <2>1. c \in SumCmds /\ c.off \in Nat /\ c.w \in Nat /\ c.off + c.w <= l
    BY <1>3, <1>4, CommandTypes DEF Sound
  <2>2. d.op = "pointer" => d.off \in Nat /\ d.w \in Nat /\ d.off >= l
    BY <1>3, CommandTypes DEF Piece, Behind
  <2>3. d.op = "checksum" => d.at \in Nat /\ d.at >= l
    BY <1>3, CommandTypes DEF Piece, Behind
  <2> QED BY <2>1, <2>2, <2>3 DEF Spares, Overlaps
<1>5. Safe(sc \o t)
  <2>1. Safe(sc) /\ Safe(t)
    BY DEF Sound, Piece
  <2> QED BY <1>1, <1>4, <2>1, SafeConcat
<1>6. Ready({}, sc \o t)
  <2>1. Ready({}, sc) /\ Ready({"tables"}, t) /\ {"tables"} \subseteq {} \union AllocsOf(sc)
    BY DEF Sound, Piece
  <2>2. Ready({} \union AllocsOf(sc), t)
    BY <2>1, ReadyMore
  <2> QED BY <1>1, <2>1, <2>2, ReadyConcat
<1>7. ASSUME NEW c \in Cmds(sc \o t), c.op = "checksum"
      PROVE  c.file = "tables" /\ c.off + c.w <= m
  <2>1. c \in Commands
    BY <1>2, <1>3
  <2>2. c.off \in Nat /\ c.w \in Nat
    BY <1>7, <2>1, CommandTypes
  <2>3. CASE c \in Cmds(sc)
    BY <1>7, <2>2, <2>3 DEF Sound
  <2>4. CASE c \in Cmds(t)
    BY <1>7, <2>4 DEF Piece, Behind
  <2> QED BY <1>2, <2>3, <2>4
<1>8. "tables" \in AllocsOf(sc \o t)
  BY <1>2 DEF Sound
<1> QED BY <1>1, <1>2, <1>5, <1>6, <1>7, <1>8 DEF Sound

(* Pointers written at l or behind, in files a has allocated.              *)
PointersBehind(ps, l, a) ==
  \A c \in Cmds(ps) :
    c.file = "tables" /\ c.off >= l /\ c.dst \in {"tables"} \union AllocsOf(a)
OptionalAlloc(a) == a = << >> \/ a = <<Alloc("tpmlog")>>
OptionalSum(z, l, n, at) == z = << >> \/ z = <<Checksum("tables", l, n, at)>>

Joined(a, ps, z, l, m) ==
  /\ Piece(a \o ps \o z, l, m)
  /\ Len(a \o ps \o z) = Len(a) + Len(ps) + Len(z)
  /\ Cmds(a \o ps \o z) = Cmds(a) \union Cmds(ps) \union Cmds(z)

(* An allocation, pointers, a sum: the first and the last may be missing.  *)
LEMMA ThreeParts ==
  ASSUME NEW a, NEW ps \in Seq(PointerCmds), NEW z, NEW l \in Nat, NEW n \in Nat, NEW at \in Nat,
         NEW m, m = l + n,
         OptionalAlloc(a), PointersBehind(ps, l, a), OptionalSum(z, l, n, at), at >= l
  PROVE  Joined(a, ps, z, l, m)
<1> DEFINE A == {"tables"}  e == Alloc("tpmlog")  s == Checksum("tables", l, n, at)
<1>1. /\ e \in Commands /\ e.op = "alloc"
      /\ s \in Commands /\ s.op = "checksum" /\ s.file = "tables" /\ s.off = l /\ s.w = n
      /\ s.at = at
  <2>1. "tables" \in Names /\ "tpmlog" \in Names
    BY DEF Names
  <2>2. e \in Commands /\ e.op = "alloc"
    BY <2>1, MakeCommands
  <2>3. /\ s \in Commands /\ s.op = "checksum" /\ s.file = "tables" /\ s.off = l /\ s.w = n
        /\ s.at = at
    BY <2>1, MakeCommands
  <2> QED BY <2>2, <2>3
<1> HIDE DEF e, s
<1>2. /\ a \in Seq(Commands) /\ Safe(a) /\ Ready(A, a)
      /\ \A c \in Cmds(a) : c.op = "alloc"
  <2>1. CASE a = << >>
    BY <2>1, NoCommand
  <2>2. CASE a = <<e>>
    <3>1. <<e>> \in Seq(Commands) /\ Safe(<<e>>) /\ Cmds(<<e>>) = {e}
      BY <1>1, OneCommand
    <3>2. \A k \in 1 .. Len(<<e>>) : <<e>>[k] = e
      OBVIOUS
    <3>3. Ready(A, <<e>>)
      BY <1>1, <3>2 DEF Ready
    <3> QED BY <1>1, <2>2, <3>1, <3>3
  <2> QED BY <2>1, <2>2 DEF OptionalAlloc, e
<1>3. /\ ps \in Seq(Commands) /\ Safe(ps) /\ Ready(A \union AllocsOf(a), ps) /\ AllocsOf(ps) = {}
      /\ \A c \in Cmds(ps) : c \in PointerCmds
  <2> DEFINE B == A \union AllocsOf(a)
  <2>1. \A c \in Cmds(ps) : c.file \in B /\ c.dst \in B
    BY DEF PointersBehind
  <2> HIDE DEF B
  <2>2. /\ ps \in Seq(Commands) /\ Safe(ps) /\ Ready(B, ps) /\ AllocsOf(ps) = {}
        /\ \A c \in Cmds(ps) : c \in PointerCmds
    BY <2>1, OnlyPointers
  <2> QED BY <2>2 DEF B
<1>4. /\ z \in Seq(Commands) /\ Safe(z) /\ (\A B : A \subseteq B => Ready(B, z))
      /\ \A c \in Cmds(z) : c = s
  <2>1. CASE z = << >>
    BY <2>1, NoCommand
  <2>2. CASE z = <<s>>
    <3>1. <<s>> \in Seq(Commands) /\ Safe(<<s>>) /\ Cmds(<<s>>) = {s}
      BY <1>1, OneCommand
    <3>2. \A k \in 1 .. Len(<<s>>) : <<s>>[k] = s
      OBVIOUS
    <3>3. ASSUME NEW B, A \subseteq B PROVE Ready(B, <<s>>)
      BY <1>1, <3>2, <3>3 DEF Ready, Known
    <3> QED BY <2>2, <3>1, <3>3
  <2> QED BY <2>1, <2>2 DEF OptionalSum, s
<1> DEFINE b == a \o ps
<1>5. /\ b \in Seq(Commands) /\ Len(b) = Len(a) + Len(ps) /\ Cmds(b) = Cmds(a) \union Cmds(ps)
      /\ AllocsOf(b) = AllocsOf(a) \union AllocsOf(ps)
  <2>1. a \in Seq(Commands) /\ ps \in Seq(Commands)
    BY <1>2, <1>3
  <2>2. b \in Seq(Commands) /\ Len(b) = Len(a) + Len(ps)
    BY <2>1, SeqConcat
  <2>3. Cmds(b) = Cmds(a) \union Cmds(ps) /\ AllocsOf(b) = AllocsOf(a) \union AllocsOf(ps)
    BY <2>1, CmdsConcat
  <2> QED BY <2>2, <2>3
<1>6. Safe(b)
  <2>1. \A c \in Cmds(a), d \in Cmds(ps) : c.op = "checksum" => Spares(c, d)
    BY <1>2
  <2> QED BY <1>2, <1>3, <2>1, SafeConcat
<1>7. Ready(A, b)
  BY <1>2, <1>3, ReadyConcat
<1> HIDE DEF b
<1>8. /\ b \o z \in Seq(Commands) /\ Len(b \o z) = Len(b) + Len(z)
      /\ Cmds(b \o z) = Cmds(b) \union Cmds(z)
  <2>1. b \in Seq(Commands) /\ z \in Seq(Commands)
    BY <1>4, <1>5
  <2>2. b \o z \in Seq(Commands) /\ Len(b \o z) = Len(b) + Len(z)
    BY <2>1, SeqConcat
  <2>3. Cmds(b \o z) = Cmds(b) \union Cmds(z)
    BY <2>1, CmdsConcat
  <2> QED BY <2>2, <2>3
<1>9. Safe(b \o z)
  <2>1. \A c \in Cmds(b) : c.op # "checksum"
    <3>1. \A c \in PointerCmds : c.op = "pointer"
      BY DEF PointerCmds
    <3> QED BY <1>2, <1>3, <1>5, <3>1
  <2>2. \A c \in Cmds(b), d \in Cmds(z) : c.op = "checksum" => Spares(c, d)
    BY <2>1
  <2> QED BY <1>4, <1>5, <1>6, <2>2, SafeConcat
<1>10. Ready(A, b \o z)
  <2>1. A \subseteq A \union AllocsOf(b)
    OBVIOUS
  <2>2. Ready(A \union AllocsOf(b), z)
    BY <1>4, <2>1
  <2> QED BY <1>4, <1>5, <1>7, <2>2, ReadyConcat
<1>11. ASSUME NEW c \in Cmds(b \o z) PROVE Behind(c, l, l + n)
  <2>1. CASE c \in Cmds(a)
    BY <1>2, <2>1 DEF Behind
  <2>2. CASE c \in Cmds(ps)
    <3>1. c.op = "pointer"
      BY <1>3, <2>2 DEF PointerCmds
    <3> QED BY <2>2, <3>1 DEF Behind, PointersBehind
  <2>3. CASE c \in Cmds(z)
    <3>1. c = s
      BY <1>4, <2>3
    <3> QED BY <1>1, <3>1 DEF Behind
  <2> QED BY <1>5, <1>8, <1>11, <2>1, <2>2, <2>3
<1>12. Piece(b \o z, l, l + n)
  BY <1>8, <1>9, <1>10, <1>11 DEF Piece
<1>13. Len(b \o z) = Len(a) + Len(ps) + Len(z) /\ Cmds(b \o z) = Cmds(a) \union Cmds(ps) \union Cmds(z)
  BY <1>5, <1>8
<1> QED BY <1>12, <1>13 DEF b, Joined

-----------------------------------------------------------------------------
(* The commands of one table.                                              *)
InBody(c, at, n, to) ==
  /\ c.op = "pointer" /\ c.file = "tables" /\ c.dst = "tables" /\ c.dstOff = to
  /\ at + W(Header) <= c.off /\ c.off + c.w <= at + n

(* TableCommands: a piece behind the tables before, with the table's sum,  *)
(* and from the FADT a pointer to FACS and DSDT.                           *)
LEMMA TablePiece ==
  ASSUME NEW sig, config.fadt \in Nat \X Nat, len \in Nat,
         sig = "FACP" => where["FACS"].off \in Nat /\ where["DSDT"].off \in Nat
  PROVE  LET fields == Header \o Body(sig, config.fadt)
             t == TableCommands(sig, fields)
         IN  /\ W(fields) \in Nat
             /\ Piece(t, len, len + W(fields))
             /\ Len(t) = RefsOf(sig, config.fadt) + (IF sig \in Logs THEN 1 ELSE 0)
                         + (IF sig = "USER" THEN 0 ELSE 1)
             /\ sig # "USER" =>
                  Checksum("tables", len, W(fields), len + ChecksumOffset) \in Cmds(t)
             /\ sig = "FACP" =>
                  \A d \in {"FACS", "DSDT"} :
                    \E c \in Cmds(t) : InBody(c, len, W(fields), where[d].off)
<1> DEFINE body == Body(sig, config.fadt)
           f == Header \o body
           n == W(f)
           ps == Pointers(f, len)
           a == IF sig \in {"TPM2", "TCPA"} THEN <<Alloc("tpmlog")>> ELSE << >>
           e == Checksum("tables", len, n, len + ChecksumOffset)
           z == IF sig = "USER" THEN << >> ELSE <<e>>
           t == a \o ps \o z
<1>1. /\ Shape(body, RefsOf(sig, config.fadt), TargetsOf(sig))
      /\ Shape(f, RefsOf(sig, config.fadt), TargetsOf(sig))
      /\ sig = "FACP" =>
           /\ Len(body) >= 2 /\ body[1] = P(4, "FACS") /\ body[2] = P(4, "DSDT")
  BY BodyShape
<1>2. f \in Seq(Fields) /\ body \in Seq(Fields) /\ Header \in Seq(Fields) /\ Len(Header) = 9
  BY <1>1, PlainPieces DEF Shape
<1>3. /\ n \in Nat /\ Len(f) \in Nat
      /\ \A k, l \in 0 .. Len(f) :
           k <= l => Ends(f)[k] \in Nat /\ Ends(f)[l] \in Nat /\ Ends(f)[k] <= Ends(f)[l]
  <2>1. Len(f) \in Nat
    BY <1>2
  <2> HIDE DEF f
  <2> QED BY <1>2, <2>1, EndsGrow
<1>4. Nowhere \notin {"FACS", "DSDT", "LOG"}
  BY TablesAssumption
<1>5. \A k \in 1 .. Len(f) : f[k].to \in TargetsOf(sig) \/ f[k].to = Nowhere
  BY <1>1 DEF Shape
<1>6. Placed(f)
  BY <1>4, <1>5 DEF Placed, TargetsOf
<1>7. ps \in Seq(PointerCmds) /\ PointersSoFar(f, len, Len(f), ps)
  BY <1>2, <1>6, PointersFacts
<1>8. TableCommands(sig, f) = t
  BY DEF TableCommands
<1>9. ChecksumOffset \in Nat /\ len + ChecksumOffset \in Nat /\ len + ChecksumOffset >= len
  BY DEF ChecksumOffset
<1>10. Len(ps) = RefsOf(sig, config.fadt)
  BY <1>1, <1>7 DEF PointersSoFar, Refs, Shape
<1> HIDE DEF body, f, n, ps
<1>11. AllocsOf(a) = IF sig \in Logs THEN {"tpmlog"} ELSE {}
  <2>1. Alloc("tpmlog").op = "alloc" /\ Alloc("tpmlog").file = "tpmlog"
    BY DEF Alloc
  <2>2. AllocsOf(<<Alloc("tpmlog")>>) = {"tpmlog"}
    BY <2>1, OneCommand
  <2> QED BY <2>2, NoCommand DEF Logs
<1>12. ASSUME NEW c \in Cmds(ps)
       PROVE  c.file = "tables" /\ c.off >= len /\ c.dst \in {"tables"} \union AllocsOf(a)
  <2>1. PICK i \in 1 .. Len(f) :
          f[i].to # Nowhere /\ c = PointerOf(f[i], len + Ends(f)[i - 1])
    BY <1>7, <1>12 DEF PointersSoFar, Cmds
  <2>2. i - 1 \in 0 .. Len(f) /\ i - 1 <= i - 1
    BY <1>3
  <2>3. Ends(f)[i - 1] \in Nat
    BY <1>3, <2>2
  <2> DEFINE at == len + Ends(f)[i - 1]
  <2>4. /\ c.file = "tables" /\ c.off = at
        /\ (c.dst = "tables" \/ (c.dst = "tpmlog" /\ f[i].to = "LOG"))
    <3>1. CASE f[i].to = "LOG"
      <4>1. c = Pointer("tables", at, f[i].w, "tpmlog", 0)
        BY <2>1, <3>1 DEF PointerOf
      <4> HIDE DEF at
      <4> QED BY <3>1, <4>1 DEF Pointer
    <3>2. CASE f[i].to # "LOG"
      <4> DEFINE v == where[f[i].to].off
      <4>1. c = Pointer("tables", at, f[i].w, "tables", v)
        BY <2>1, <3>2 DEF PointerOf
      <4> HIDE DEF at, v
      <4> QED BY <3>2, <4>1 DEF Pointer
    <3> QED BY <3>1, <3>2
  <2>6. f[i].to = "LOG" => sig \in Logs
    BY <1>4, <1>5, <2>1 DEF TargetsOf
  <2> HIDE DEF a
  <2> QED BY <1>11, <2>3, <2>4, <2>6
<1>13. /\ Piece(t, len, len + n) /\ Len(t) = Len(a) + Len(ps) + Len(z)
       /\ Cmds(t) = Cmds(a) \union Cmds(ps) \union Cmds(z)
  <2>1. OptionalAlloc(a)
    BY DEF OptionalAlloc
  <2> DEFINE at == len + ChecksumOffset
  <2>2. OptionalSum(z, len, n, at)
    BY DEF OptionalSum
  <2>3. at \in Nat /\ at >= len
    BY <1>9
  <2> HIDE DEF a, z, at
  <2>4. n \in Nat /\ ps \in Seq(PointerCmds)
    BY <1>3, <1>7
  <2>5. PointersBehind(ps, len, a)
    BY <1>12 DEF PointersBehind
  <2>6. len \in Nat
    OBVIOUS
  <2> DEFINE m == len + n
  <2>7. m = len + n
    OBVIOUS
  <2> HIDE DEF t, m
  <2>8. Joined(a, ps, z, len, m)
    BY <2>1, <2>2, <2>3, <2>4, <2>5, <2>6, <2>7, ThreeParts
  <2> QED BY <2>8 DEF t, m, Joined
<1>14. Len(a) = IF sig \in Logs THEN 1 ELSE 0
  BY DEF Logs
<1>15. Len(z) = IF sig = "USER" THEN 0 ELSE 1
  OBVIOUS
<1>16. sig # "USER" => e \in Cmds(t)
  <2>1. sig # "USER" => e \in Cmds(z)
    BY OneCommand
  <2> HIDE DEF a, z
  <2> QED BY <1>13, <2>1
<1>17. Len(t) = RefsOf(sig, config.fadt) + (IF sig \in Logs THEN 1 ELSE 0)
                + (IF sig = "USER" THEN 0 ELSE 1)
  <2>1. RefsOf(sig, config.fadt) \in Nat
    BY DEF RefsOf
  <2> HIDE DEF a, z, t
  <2> QED BY <1>10, <1>13, <1>14, <1>15, <2>1
<1>18. ASSUME sig = "FACP", NEW d \in {"FACS", "DSDT"}
       PROVE  \E c \in Cmds(t) : InBody(c, len, n, where[d].off)
  <2>1. PICK i \in 1 .. 2 : body[i] = P(4, d)
    BY <1>1, <1>18
  <2>2. i \in 1 .. Len(body) /\ 9 + i \in 1 .. Len(f) /\ f[9 + i] = P(4, d)
    <3>1. i \in 1 .. Len(body)
      <4>1. Len(body) \in Nat
        BY <1>2
      <4> QED BY <1>1, <1>18, <4>1
    <3>2. f[Len(Header) + i] = body[i] /\ Len(Header) + i \in 1 .. Len(f)
      BY <1>2, <3>1, SeqConcat DEF f
    <3> QED BY <1>2, <2>1, <3>1, <3>2
  <2>3. f[9 + i].to = d /\ f[9 + i].to # Nowhere /\ f[9 + i].w = 4
    BY <1>4, <2>2 DEF P
  <2> DEFINE at == len + Ends(f)[(9 + i) - 1]
  <2>4. PICK j \in 1 .. Len(ps) : ps[j] = PointerOf(f[9 + i], at)
    BY <1>7, <2>2, <2>3 DEF PointersSoFar
  <2>5. Ends(f)[9] = W(Header)
    BY <1>2, EndsConcat DEF f
  <2>6. /\ 9 \in 0 .. Len(f) /\ (9 + i) - 1 \in 0 .. Len(f) /\ 9 + i \in 0 .. Len(f)
        /\ Len(f) \in 0 .. Len(f) /\ 9 <= (9 + i) - 1 /\ 9 + i <= Len(f)
    BY <1>3, <2>2
  <2>7. Ends(f)[9 + i] = Ends(f)[(9 + i) - 1] + 4
    BY <1>2, <2>2, <2>3, EndsSteps
  <2>8. /\ Ends(f)[9] \in Nat /\ Ends(f)[(9 + i) - 1] \in Nat
        /\ Ends(f)[9] <= Ends(f)[(9 + i) - 1]
    BY <1>3, <2>6
  <2>9. Ends(f)[9 + i] <= Ends(f)[Len(f)] /\ Ends(f)[Len(f)] = n
    BY <1>3, <2>6 DEF n, W
  <2>10. /\ len + W(Header) <= at /\ at + 4 <= len + n
    <3> DEFINE x == Ends(f)[(9 + i) - 1]  y == Ends(f)[9 + i]
    <3>1. W(Header) \in Nat /\ W(Header) <= x /\ x \in Nat /\ y = x + 4 /\ y <= n
      BY <2>5, <2>7, <2>8, <2>9
    <3> HIDE DEF x, y
    <3>2. len + W(Header) <= len + x /\ len + x + 4 <= len + n
      BY <1>3, <3>1
    <3> QED BY <3>2 DEF x
  <2>11. ps[j] = Pointer("tables", at, 4, "tables", where[d].off)
    <3> HIDE DEF at
    <3> QED BY <2>3, <2>4 DEF PointerOf
  <2>12. InBody(ps[j], len, n, where[d].off)
    <3> HIDE DEF at
    <3> QED BY <2>10, <2>11 DEF InBody, Pointer
  <2>13. ps[j] \in Cmds(t)
    <3> HIDE DEF a, z, t
    <3> QED BY <1>13, <2>4 DEF Cmds
  <2> QED BY <2>12, <2>13
<1> HIDE DEF t, e
<1>19. LET fields == Header \o Body(sig, config.fadt)
       IN  W(fields) = n /\ TableCommands(sig, fields) = t
           /\ Checksum("tables", len, W(fields), len + ChecksumOffset) = e
  BY <1>8 DEF f, n, e, body
<1> QED BY <1>3, <1>13, <1>16, <1>17, <1>18, <1>19

-----------------------------------------------------------------------------
(* Which tables come when, and together.                                   *)
LEMMA Ranks ==
  /\ Required \subseteq Sigs /\ "RSDT" \notin Sigs /\ "XSDT" \notin Sigs
  /\ Rank("FACS") = 1 /\ Rank("DSDT") = 2 /\ Rank("FACP") = 3
  /\ Required \intersect Logs = {} /\ "USER" \notin Required
<1> DEFINE o == Order
<1>1. Len(o) = 20
  BY DEF Order
<1>2. /\ o[1] = "FACS" /\ o[2] = "DSDT" /\ o[3] = "FACP" /\ o[4] = "APIC" /\ o[19] = "WAET"
      /\ \A k \in 4 .. 20 : o[k] \notin {"FACS", "DSDT", "FACP"}
  BY DEF Order
<1>3. \A k \in 1 .. 20 : o[k] \notin {"RSDT", "XSDT"}
  BY DEF Order
<1> HIDE DEF o
<1>4. \A k \in 1 .. 20 : k = 1 \/ k = 2 \/ k = 3 \/ k \in 4 .. 20
  OBVIOUS
<1>5. 1 \in 1 .. 20 /\ 2 \in 1 .. 20 /\ 3 \in 1 .. 20 /\ 4 \in 1 .. 20 /\ 19 \in 1 .. 20
  OBVIOUS
<1>6. Required \subseteq Sigs
  BY <1>1, <1>2, <1>5 DEF Required, Sigs, o
<1>7. "RSDT" \notin Sigs /\ "XSDT" \notin Sigs
  BY <1>1, <1>3 DEF Sigs, o
<1>8. /\ \A k \in 1 .. 20 : o[k] = "FACS" <=> k = 1
      /\ \A k \in 1 .. 20 : o[k] = "DSDT" <=> k = 2
      /\ \A k \in 1 .. 20 : o[k] = "FACP" <=> k = 3
  BY <1>2, <1>4
<1>9. Rank("FACS") = 1
  <2>1. Rank("FACS") = CHOOSE k \in 1 .. 20 : o[k] = "FACS"
    BY <1>1 DEF Rank, o
  <2> QED BY <1>5, <1>8, <2>1
<1>10. Rank("DSDT") = 2
  <2>1. Rank("DSDT") = CHOOSE k \in 1 .. 20 : o[k] = "DSDT"
    BY <1>1 DEF Rank, o
  <2> QED BY <1>5, <1>8, <2>1
<1>11. Rank("FACP") = 3
  <2>1. Rank("FACP") = CHOOSE k \in 1 .. 20 : o[k] = "FACP"
    BY <1>1 DEF Rank, o
  <2> QED BY <1>5, <1>8, <2>1
<1>12. Required \intersect Logs = {} /\ "USER" \notin Required
  BY DEF Required, Logs
<1> QED BY <1>6, <1>7, <1>9, <1>10, <1>11, <1>12

(* A machine has one TPM.                                                  *)
LEMMA OneLog ==
  ASSUME NEW c \in Configs, NEW s \in c \intersect Logs, NEW t \in c \intersect Logs
  PROVE  s = t
<1> SUFFICES ASSUME s # t PROVE FALSE
  OBVIOUS
<1>1. c \intersect {"TCPA", "TPM2"} = {s} \union {t} /\ Cardinality(c \intersect {"TCPA", "TPM2"}) <= 1
  BY DEF Logs, Configs
<1>2. IsFiniteSet({s}) /\ Cardinality({s}) = 1 /\ t \notin {s}
  BY FS_Singleton
<1>3. Cardinality({s} \union {t}) = 2
  <2> DEFINE A == {s}
  <2>1. IsFiniteSet(A) /\ Cardinality(A) = 1 /\ t \notin A
    BY <1>2
  <2> HIDE DEF A
  <2>2. Cardinality(A \union {t}) = Cardinality(A) + 1
    BY <2>1, FS_AddElement
  <2> QED BY <2>1, <2>2 DEF A
<1> QED BY <1>1, <1>3

-----------------------------------------------------------------------------
(* The commands of RSDT and XSDT, and of the RSDP.                         *)
LEMMA RootPiece ==
  ASSUME NEW w \in {4, 8}, NEW off \in Nat, listed \in Seq(Nat)
  PROVE  LET n == W(Header) + w * Len(listed)
             t == RootCommands(w, off)
         IN  /\ W(Header) \in Nat /\ n \in Nat /\ Piece(t, off, off + n)
             /\ Len(t) = Len(listed) + 1
             /\ Checksum("tables", off, n, off + ChecksumOffset) \in Cmds(t)
             /\ \A k \in 1 .. Len(listed) : \E c \in Cmds(t) : InBody(c, off, n, listed[k])
<1> DEFINE m == Len(listed)
           n == W(Header) + w * m
           at(k) == off + W(Header) + w * (k - 1)
           ps == [k \in 1 .. m |-> Pointer("tables", at(k), w, "tables", listed[k])]
           z == <<Checksum("tables", off, n, off + ChecksumOffset)>>
           t == ps \o z
<1>1. W(Header) \in Nat /\ m \in Nat
  <2>1. Header \in Seq(Fields)
    BY PlainPieces DEF Shape
  <2> QED BY <2>1, EndsGrow
<1>2. n \in Nat /\ \A k \in 1 .. m :
        at(k) \in Nat /\ off + W(Header) <= at(k) /\ at(k) + w <= off + n
  <2> DEFINE h == W(Header)
  <2>1. h \in Nat
    BY <1>1
  <2> HIDE DEF h, m
  <2>2. CASE w = 4
    BY <1>1, <2>1, <2>2
  <2>3. CASE w = 8
    BY <1>1, <2>1, <2>3
  <2> QED BY <2>2, <2>3
<1>3. \A k \in 1 .. m : listed[k] \in Nat
  BY SeqAt
<1>4. "tables" \in Names
  BY DEF Names
<1> HIDE DEF at, n
<1>5. w \in Nat
  OBVIOUS
<1>6. \A k \in 1 .. m :
        /\ Pointer("tables", at(k), w, "tables", listed[k]) \in PointerCmds
        /\ InBody(Pointer("tables", at(k), w, "tables", listed[k]), off, n, listed[k])
  <2> SUFFICES ASSUME NEW k \in 1 .. m
               PROVE  /\ Pointer("tables", at(k), w, "tables", listed[k]) \in PointerCmds
                      /\ InBody(Pointer("tables", at(k), w, "tables", listed[k]), off, n,
                                listed[k])
    OBVIOUS
  <2> DEFINE x == at(k)  y == listed[k]  c == Pointer("tables", x, w, "tables", y)
  <2>1. x \in Nat /\ y \in Nat /\ off + W(Header) <= x /\ x + w <= off + n
    BY <1>2, <1>3
  <2> HIDE DEF x, y
  <2>2. /\ c \in PointerCmds /\ c.op = "pointer" /\ c.file = "tables" /\ c.off = x /\ c.w = w
        /\ c.dst = "tables" /\ c.dstOff = y
    <3>1. c.op = "pointer" /\ c.file = "tables" /\ c.off = x /\ c.w = w
      BY DEF Pointer
    <3>2. c.dst = "tables" /\ c.dstOff = y
      BY DEF Pointer
    <3>3. c \in PointerCmds
      BY <1>4, <1>5, <2>1 DEF Pointer, PointerCmds
    <3> QED BY <3>1, <3>2, <3>3
  <2> HIDE DEF c
  <2>3. InBody(c, off, n, y)
    BY <2>1, <2>2 DEF InBody
  <2> QED BY <2>2, <2>3 DEF c, x, y
<1>7. ps \in Seq(PointerCmds) /\ Len(ps) = m /\ \A k \in 1 .. m :
        ps[k] = Pointer("tables", at(k), w, "tables", listed[k])
  <2> DEFINE p(k) == Pointer("tables", at(k), w, "tables", listed[k])
  <2>1. \A k \in 1 .. m : p(k) \in PointerCmds
    BY <1>6
  <2> HIDE DEF p, m
  <2>2. [k \in 1 .. m |-> p(k)] \in Seq(PointerCmds) /\ Len([k \in 1 .. m |-> p(k)]) = m
    BY <1>1, <2>1
  <2> QED BY <2>2 DEF p
<1>8. RootCommands(w, off) = t
  BY DEF RootCommands, n, at
<1> HIDE DEF ps, m
<1>9. \A k \in 1 .. m : ps[k] \in Cmds(ps) /\ InBody(ps[k], off, n, listed[k])
  BY <1>6, <1>7 DEF Cmds
<1>10. PointersBehind(ps, off, << >>)
  <2>1. ASSUME NEW c \in Cmds(ps)
        PROVE  c.file = "tables" /\ c.off >= off /\ c.dst = "tables"
    <3>1. PICK k \in 1 .. m : c = Pointer("tables", at(k), w, "tables", listed[k])
      BY <1>7, <2>1 DEF Cmds
    <3>2. at(k) \in Nat /\ at(k) >= off
      BY <1>1, <1>2
    <3> QED BY <3>1, <3>2 DEF Pointer
  <2> QED BY <2>1 DEF PointersBehind
<1>11. Joined(<< >>, ps, z, off, off + n)
  <2> DEFINE b == off + ChecksumOffset  l == off + n
  <2>1. OptionalAlloc(<< >>) /\ OptionalSum(z, off, n, b)
    BY DEF OptionalAlloc, OptionalSum
  <2>2. b \in Nat /\ b >= off /\ n \in Nat /\ l = off + n
    BY <1>2 DEF ChecksumOffset
  <2> HIDE DEF z, b, l
  <2>3. Joined(<< >>, ps, z, off, l)
    BY <1>7, <1>10, <2>1, <2>2, ThreeParts
  <2> QED BY <2>3 DEF l
<1>12. << >> \o ps \o z = t
  <2>1. << >> \o ps = ps
    BY <1>7
  <2> QED BY <2>1
<1>13. Len(z) = 1 /\ Len(<< >>) = 0
  OBVIOUS
<1>14. Checksum("tables", off, n, off + ChecksumOffset) \in Cmds(z)
  BY OneCommand
<1> HIDE DEF z, t
<1>15. /\ Piece(t, off, off + n) /\ Len(t) = Len(<< >>) + Len(ps) + Len(z)
       /\ Cmds(t) = Cmds(<< >>) \union Cmds(ps) \union Cmds(z)
  BY <1>11, <1>12 DEF Joined
<1>16. Len(t) = m + 1
  BY <1>1, <1>7, <1>13, <1>15
<1>17. /\ Checksum("tables", off, n, off + ChecksumOffset) \in Cmds(t)
       /\ \A k \in 1 .. m : \E c \in Cmds(t) : InBody(c, off, n, listed[k])
  BY <1>9, <1>14, <1>15
<1> QED BY <1>1, <1>2, <1>8, <1>15, <1>16, <1>17 DEF n, m

RsdpSums ==
  {Checksum("rsdp", 0, 20, 8)}
  \union (IF config.rsdp = 2 THEN {Checksum("rsdp", 0, 36, 32)} ELSE {})

(* RsdpCommands: the second pointer and its sum spare the first sum.       *)
LEMMA RsdpPiece ==
  ASSUME NEW rsdt \in Nat, NEW xsdt \in Nat, config.rsdp \in {0, 2}
  PROVE  LET t == RsdpCommands(rsdt, xsdt)
         IN  /\ t \in Seq(Commands) /\ Safe(t) /\ Ready({"tables"}, t)
             /\ Len(t) = IF config.rsdp = 2 THEN 5 ELSE 3
             /\ \A c \in Cmds(t) : c.file = "rsdp"
             /\ {c \in Cmds(t) : c.op = "checksum"} = RsdpSums
             /\ Pointer("rsdp", 16, 4, "tables", rsdt) \in Cmds(t)
             /\ config.rsdp = 2 => Pointer("rsdp", 24, 8, "tables", xsdt) \in Cmds(t)
<1> DEFINE a == Alloc("rsdp")
           p == Pointer("rsdp", 16, 4, "tables", rsdt)
           q == Pointer("rsdp", 24, 8, "tables", xsdt)
           c == Checksum("rsdp", 0, 20, 8)
           d == Checksum("rsdp", 0, 36, 32)
           r == <<a, p, c>>
           x == <<q, d>>
<1>1. /\ a \in Commands /\ a.op = "alloc" /\ a.file = "rsdp"
      /\ p \in Commands /\ p.op = "pointer" /\ p.file = "rsdp" /\ p.dst = "tables"
      /\ q \in Commands /\ q.op = "pointer" /\ q.file = "rsdp" /\ q.dst = "tables"
      /\ q.off = 24 /\ q.w = 8
      /\ c \in Commands /\ c.op = "checksum" /\ c.file = "rsdp" /\ c.off = 0 /\ c.w = 20
      /\ d \in Commands /\ d.op = "checksum" /\ d.file = "rsdp" /\ d.at = 32
  <2>1. "tables" \in Names /\ "rsdp" \in Names
    BY DEF Names
  <2>2. a \in Commands /\ a.op = "alloc" /\ a.file = "rsdp"
    BY <2>1, MakeCommands
  <2>3. p \in Commands /\ p.op = "pointer" /\ p.file = "rsdp" /\ p.dst = "tables"
    BY <2>1, MakeCommands
  <2>4. /\ q \in Commands /\ q.op = "pointer" /\ q.file = "rsdp" /\ q.dst = "tables"
        /\ q.off = 24 /\ q.w = 8
    BY <2>1, MakeCommands
  <2>5. c \in Commands /\ c.op = "checksum" /\ c.file = "rsdp" /\ c.off = 0 /\ c.w = 20
    BY <2>1, MakeCommands
  <2>6. d \in Commands /\ d.op = "checksum" /\ d.file = "rsdp" /\ d.at = 32
    BY <2>1, MakeCommands
  <2> QED BY <2>2, <2>3, <2>4, <2>5, <2>6
<1> HIDE DEF a, p, q, c, d
<1>2. Spares(c, q) /\ Spares(c, d)
  BY <1>1 DEF Spares, Overlaps
<1>3. /\ r \in Seq(Commands) /\ Len(r) = 3 /\ r[1] = a /\ r[2] = p /\ r[3] = c
      /\ x \in Seq(Commands) /\ Len(x) = 2 /\ x[1] = q /\ x[2] = d
  BY <1>1
<1> HIDE DEF r, x
<1>4. /\ 1 \in 1 .. 3 /\ 2 \in 1 .. 3 /\ 3 \in 1 .. 3 /\ 1 \in 1 .. 2 /\ 2 \in 1 .. 2
      /\ \A k \in 1 .. 3 : k = 1 \/ k = 2 \/ k = 3
      /\ \A k \in 1 .. 2 : k = 1 \/ k = 2
  OBVIOUS
<1>5. Cmds(r) = {a, p, c} /\ Cmds(x) = {q, d}
  BY <1>3, <1>4 DEF Cmds
<1>6. AllocsOf(r) = {"rsdp"}
  BY <1>1, <1>5 DEF AllocsOf
<1>7. Safe(r) /\ Safe(x)
  <2>1. ASSUME NEW i \in 1 .. 3, NEW k \in 1 .. 3, i < k PROVE r[i].op # "checksum"
    BY <1>1, <1>3, <1>4, <2>1
  <2>2. ASSUME NEW i \in 1 .. 2, NEW k \in 1 .. 2, i < k PROVE x[i].op # "checksum"
    BY <1>1, <1>3, <1>4, <2>2
  <2> QED BY <1>3, <2>1, <2>2 DEF Safe
<1>8. Ready({"tables"}, r)
  <2>1. ASSUME NEW k \in 1 .. 3, k # 1
        PROVE  Known({"tables"}, r, k, "rsdp") /\ Known({"tables"}, r, k, "tables")
    BY <1>1, <1>3, <1>4, <2>1 DEF Known
  <2>2. ASSUME NEW k \in 1 .. 3
        PROVE  /\ r[k].op # "alloc" => Known({"tables"}, r, k, r[k].file)
               /\ r[k].op = "pointer" => Known({"tables"}, r, k, r[k].dst)
    <3>1. CASE k = 1
      BY <1>1, <1>3, <3>1
    <3>2. CASE k = 2
      BY <1>1, <1>3, <2>1, <3>2
    <3>3. CASE k = 3
      BY <1>1, <1>3, <2>1, <3>3
    <3> QED BY <1>4, <3>1, <3>2, <3>3
  <2> QED BY <1>3, <2>2 DEF Ready
<1>9. Ready({"tables"} \union AllocsOf(r), x)
  <2>1. \A k \in 1 .. 2 :
          /\ x[k].file = "rsdp" /\ (x[k].op = "pointer" => x[k].dst = "tables")
    BY <1>1, <1>3, <1>4
  <2> QED BY <1>3, <1>6, <2>1 DEF Ready, Known
<1>10. RsdpCommands(rsdt, xsdt) = r \o (IF config.rsdp = 0 THEN << >> ELSE x)
  BY DEF RsdpCommands, r, x, a, p, q, c, d
<1>11. CASE config.rsdp = 0
  <2>1. r \o << >> = r
    BY <1>3
  <2>2. RsdpCommands(rsdt, xsdt) = r
    BY <1>10, <1>11, <2>1
  <2>3. {e \in Cmds(r) : e.op = "checksum"} = RsdpSums
    BY <1>1, <1>5, <1>11 DEF RsdpSums, c
  <2>4. \A e \in Cmds(r) : e.file = "rsdp"
    BY <1>1, <1>5
  <2>5. p \in Cmds(r)
    BY <1>5
  <2> QED BY <1>3, <1>7, <1>8, <1>11, <2>2, <2>3, <2>4, <2>5 DEF p
<1>12. CASE config.rsdp = 2
  <2> DEFINE t == r \o x
  <2>1. RsdpCommands(rsdt, xsdt) = t
    BY <1>10, <1>12
  <2>2. t \in Seq(Commands) /\ Len(t) = 5
    <3>1. t \in Seq(Commands) /\ Len(t) = Len(r) + Len(x)
      BY <1>3, SeqConcat
    <3> QED BY <1>3, <3>1
  <2>3. Cmds(t) = {a, p, c, q, d}
    BY <1>3, <1>5, CmdsConcat
  <2>4. Safe(t)
    <3>1. \A e \in Cmds(r), g \in Cmds(x) : e.op = "checksum" => Spares(e, g)
      BY <1>1, <1>2, <1>5
    <3> QED BY <1>3, <1>7, <3>1, SafeConcat
  <2>5. Ready({"tables"}, t)
    BY <1>3, <1>8, <1>9, ReadyConcat
  <2> HIDE DEF t
  <2>6. {e \in Cmds(t) : e.op = "checksum"} = RsdpSums
    BY <1>1, <1>12, <2>3 DEF RsdpSums, c, d
  <2>7. \A e \in Cmds(t) : e.file = "rsdp"
    BY <1>1, <2>3
  <2>8. p \in Cmds(t) /\ q \in Cmds(t)
    BY <2>3
  <2> QED BY <1>12, <2>1, <2>2, <2>4, <2>5, <2>6, <2>7, <2>8 DEF p, q
<1> QED BY <1>11, <1>12

-----------------------------------------------------------------------------
(* The invariant: what the script and the blob are while the tables are    *)
(* built, what they are then, and what the firmware has done of it.        *)
InPlace == DOMAIN where
LinkTypes ==
  /\ pc \in {"tables", "firmware"}
  /\ config \in [tables : Configs, fadt : FadtLayouts, rsdp : Revisions]
  /\ todo \subseteq Required \union config.tables
  /\ len \in Nat /\ listed \in Seq(Nat) /\ script \in Seq(Commands)
  /\ ran \in 0 .. Len(script)
  /\ \A s \in InPlace : /\ where[s].off \in Nat /\ where[s].len \in Nat
                      /\ where[s].off + where[s].len <= len

Listed(s) == \E k \in 1 .. Len(listed) : listed[k] = where[s].off
Summed(s) ==
  Checksum("tables", where[s].off, where[s].len, where[s].off + ChecksumOffset)
    \in Cmds(script)
Refers(from, s) ==
  \E c \in Cmds(script) : InBody(c, where[from].off, where[from].len, where[s].off)
Rooted(s) ==
  \E c \in Cmds(script) : c.op = "pointer" /\ c.file = "rsdp" /\ c.dstOff = where[s].off
RsdpSummed == {c \in Cmds(script) : c.op = "checksum" /\ c.file = "rsdp"} = RsdpSums

(* Commands beyond one for each table that is listed.                      *)
Extra(built) ==
  (IF "DSDT" \in built THEN 1 ELSE 0)
  + (IF "FACP" \in built THEN RefsOf("FACP", config.fadt) ELSE 0)
  + (IF built \intersect Logs # {} THEN 2 ELSE 0)
  - (IF "USER" \in built THEN 1 ELSE 0)

AllTables ==
  Required \union config.tables \union {"RSDT"}
  \union (IF config.rsdp = 2 THEN {"XSDT"} ELSE {})

FadtRefers == Refers("FACP", "FACS") /\ Refers("FACP", "DSDT")
Building ==
  /\ InPlace = (Required \union config.tables) \ todo
  /\ ran = 0 /\ Sound(script, len)
  /\ \A s \in InPlace \ {"FACS", "DSDT"} : Listed(s)
  /\ \A s \in InPlace \ {"FACS", "USER"} : Summed(s)
  /\ "FACP" \in InPlace => {"FACS", "DSDT"} \subseteq InPlace /\ FadtRefers
  /\ Len(script) = 1 + Len(listed) + Extra(InPlace)
Loading ==
  /\ todo = {} /\ InPlace = AllTables /\ Safe(script) /\ Ready({}, script)
  /\ \A s \in InPlace \ {"FACS", "USER"} : Summed(s)
  /\ RsdpSummed
  /\ Rooted("RSDT") /\ (config.rsdp = 2 => Rooted("XSDT"))
  /\ \A s \in InPlace \ {"FACS", "DSDT", "RSDT", "XSDT"} :
       Refers("RSDT", s) /\ (config.rsdp = 2 => Refers("XSDT", s))
  /\ FadtRefers
  /\ ScriptLength

Ran(op) == {script[k] : k \in {j \in 1 .. ran : script[j].op = op}}
Executed ==
  memory = [files |-> {c.file : c \in Ran("alloc")},
            patched |-> Ran("pointer"), sums |-> Ran("checksum")]

LinkInv ==
  /\ LinkTypes /\ Executed
  /\ pc = "tables" => Building
  /\ pc = "firmware" => Loading

-----------------------------------------------------------------------------
(* What the assumptions on the constants say of a machine.                 *)
LEMMA ConfigFacts ==
  ASSUME LinkTypes
  PROVE  /\ config.tables \in Configs /\ config.tables \subseteq Sigs \ Required
         /\ config.fadt \in Nat \X Nat /\ config.rsdp \in {0, 2}
         /\ Required \union config.tables \subseteq Sigs
<1>1. /\ config.tables \in Configs /\ config.fadt \in FadtLayouts /\ config.rsdp \in Revisions
  BY DEF LinkTypes
<1>2. config.tables \subseteq Optional
  BY <1>1 DEF Configs
<1>3. Optional \subseteq Sigs \ Required /\ FadtLayouts \subseteq Nat \X Nat /\ Revisions \subseteq {0, 2}
  BY TablesAssumption DEF Sigs
<1>4. Required \subseteq Sigs
  BY Ranks
<1> QED BY <1>1, <1>2, <1>3, <1>4

(* The script starts with the blob's allocation.                           *)
LEMMA LinkInvInit == LinkInit => LinkInv
<1> SUFFICES ASSUME LinkInit PROVE LinkInv
  OBVIOUS
<1> DEFINE a == Alloc("tables")
<1>1. /\ pc = "tables" /\ todo = Required \union config.tables /\ where = << >> /\ len = 0
      /\ config \in [tables : Configs, fadt : FadtLayouts, rsdp : Revisions]
      /\ listed = << >> /\ script = <<a>> /\ ran = 0
      /\ memory = [files |-> {}, patched |-> {}, sums |-> {}]
  BY DEF LinkInit
<1>2. a \in Commands /\ a.op = "alloc" /\ a.file = "tables"
  BY MakeCommands DEF Names
<1> HIDE DEF a
<1>3. /\ script \in Seq(Commands) /\ Len(script) = 1 /\ Cmds(script) = {a} /\ Safe(script)
      /\ AllocsOf(script) = {"tables"}
  BY <1>1, <1>2, OneCommand
<1>4. Ready({}, script)
  <2>1. \A k \in 1 .. Len(script) : script[k] = a
    BY <1>1
  <2> QED BY <1>2, <2>1 DEF Ready
<1>5. InPlace = {}
  BY <1>1 DEF InPlace
<1>6. LinkTypes
  <2>1. listed \in Seq(Nat)
    BY <1>1
  <2> QED BY <1>1, <1>3, <1>5, <2>1 DEF LinkTypes
<1>7. Executed
  <2>1. \A op : Ran(op) = {}
    BY <1>1 DEF Ran
  <2> QED BY <1>1, <2>1 DEF Executed
<1>8. Building
  <2>1. Sound(script, len)
    BY <1>2, <1>3, <1>4 DEF Sound
  <2>2. Len(listed) = 0
    BY <1>1
  <2>3. Extra(InPlace) = 0
    BY <1>5 DEF Extra
  <2> QED BY <1>1, <1>3, <1>5, <2>1, <2>2, <2>3 DEF Building
<1> QED BY <1>1, <1>6, <1>7, <1>8 DEF LinkInv

-----------------------------------------------------------------------------
(* Placing a table leaves the others where they are.                       *)
LEMMA PlaceFacts ==
  ASSUME NEW sig, sig \notin InPlace, NEW n, where' = Place(sig, n)
  PROVE  /\ InPlace' = InPlace \union {sig}
         /\ where'[sig] = [off |-> len, len |-> n]
         /\ \A s \in InPlace : where'[s] = where[s]
<1> DEFINE g(s) == IF s = sig THEN [off |-> len, len |-> n] ELSE where[s]
<1>1. where' = [s \in InPlace \union {sig} |-> g(s)]
  BY DEF Place, InPlace
<1>2. \A s \in InPlace \union {sig} : where'[s] = g(s)
  <2> HIDE DEF g
  <2> QED BY <1>1
<1>3. InPlace' = InPlace \union {sig}
  <2> HIDE DEF g
  <2>1. DOMAIN where' = InPlace \union {sig}
    BY <1>1
  <2> QED BY <2>1 DEF InPlace
<1> QED BY <1>2, <1>3

(* What was in the script stays there.                                     *)
LEMMA Kept ==
  ASSUME Cmds(script) \subseteq Cmds(script'), \A s \in InPlace : where'[s] = where[s]
  PROVE  /\ \A s \in InPlace : Summed(s) => Summed(s)'
         /\ \A s, t \in InPlace : Refers(s, t) => Refers(s, t)'
<1>1. ASSUME NEW s \in InPlace, Summed(s) PROVE Summed(s)'
  BY <1>1 DEF Summed
<1>2. ASSUME NEW s \in InPlace, NEW t \in InPlace, Refers(s, t) PROVE Refers(s, t)'
  BY <1>2 DEF Refers, InBody
<1> QED BY <1>1, <1>2

(* FACS has no commands.                                                   *)
LEMMA LinkFacs ==
  ASSUME LinkInv, BuildFacs PROVE LinkInv'
<1> DEFINE n == W(Facs)
<1>1. /\ pc = "tables" /\ "FACS" \in todo
      /\ where' = Place("FACS", n) /\ len' = len + n /\ todo' = todo \ {"FACS"}
      /\ pc' = pc /\ config' = config /\ listed' = listed /\ script' = script /\ ran' = ran
      /\ memory' = memory
  BY DEF BuildFacs, NextTable
<1>2. LinkTypes /\ Executed /\ Building
  BY <1>1 DEF LinkInv
<1>3. n \in Nat
  <2> DEFINE a == F(4)  b == F(40)  h == <<a, a, a, a, a, a, b>>
  <2>1. a \in Fields /\ b \in Fields
    BY FieldsOf
  <2> HIDE DEF a, b
  <2>2. h \in Seq(Fields)
    BY <2>1
  <2>3. Facs = h
    BY DEF Facs, a, b
  <2> HIDE DEF h
  <2> QED BY <2>2, <2>3, EndsGrow
<1> HIDE DEF n
<1>4. "FACS" \notin InPlace
  BY <1>1, <1>2 DEF Building
<1>5. /\ InPlace' = InPlace \union {"FACS"}
      /\ where'["FACS"] = [off |-> len, len |-> n]
      /\ \A s \in InPlace : where'[s] = where[s]
  BY <1>1, <1>4, PlaceFacts
<1>6. /\ \A s \in InPlace : Summed(s) => Summed(s)'
      /\ \A s, t \in InPlace : Refers(s, t) => Refers(s, t)'
  BY <1>1, <1>5, Kept
<1>7. LinkTypes'
  <2>1. ASSUME NEW s \in InPlace'
        PROVE  /\ where'[s].off \in Nat /\ where'[s].len \in Nat
               /\ where'[s].off + where'[s].len <= len'
    <3>1. CASE s = "FACS"
      <4>1. where'[s].off = len /\ where'[s].len = n
        BY <1>5, <3>1
      <4> QED BY <1>1, <1>2, <1>3, <4>1 DEF LinkTypes
    <3>2. CASE s \in InPlace
      <4>1. /\ where[s].off \in Nat /\ where[s].len \in Nat
            /\ where[s].off + where[s].len <= len /\ len \in Nat
        BY <1>2, <3>2 DEF LinkTypes
      <4>2. where'[s] = where[s]
        BY <1>5, <3>2
      <4> QED BY <1>1, <1>3, <4>1, <4>2
    <3> QED BY <1>5, <3>1, <3>2
  <2> QED BY <1>1, <1>2, <1>3, <2>1 DEF LinkTypes
<1>8. Executed'
  BY <1>1, <1>2 DEF Executed, Ran
<1>9. Building'
  <2>1. InPlace' = (Required \union config'.tables) \ todo'
    BY <1>1, <1>2, <1>5 DEF Building, LinkTypes
  <2>2. Sound(script', len')
    <3>1. Sound(script, len) /\ len \in Nat
      BY <1>2 DEF Building, LinkTypes
    <3>2. \A c \in Cmds(script) : c.op = "checksum" => c.off \in Nat /\ c.w \in Nat
      <4>1. \A c \in Cmds(script) : c \in Commands
        BY <3>1, CmdsIn DEF Sound
      <4> QED BY <4>1, CommandTypes
    <3>3. \A c \in Cmds(script) : c.op = "checksum" => c.file = "tables" /\ c.off + c.w <= len'
      BY <1>1, <1>3, <3>1, <3>2 DEF Sound
    <3> QED BY <1>1, <3>1, <3>3 DEF Sound
  <2>3. ASSUME NEW s \in InPlace' \ {"FACS", "DSDT"} PROVE Listed(s)'
    BY <1>1, <1>2, <1>5, <2>3 DEF Building, Listed
  <2>4. ASSUME NEW s \in InPlace' \ {"FACS", "USER"} PROVE Summed(s)'
    BY <1>2, <1>5, <1>6, <2>4 DEF Building
  <2>5. "FACP" \in InPlace' => {"FACS", "DSDT"} \subseteq InPlace' /\ FadtRefers'
    BY <1>2, <1>4, <1>5 DEF Building
  <2>6. Extra(InPlace)' = Extra(InPlace)
    <3>1. /\ "DSDT" \in InPlace' <=> "DSDT" \in InPlace
          /\ "FACP" \in InPlace' <=> "FACP" \in InPlace
          /\ "USER" \in InPlace' <=> "USER" \in InPlace
          /\ InPlace' \intersect Logs = InPlace \intersect Logs
      BY <1>5 DEF Logs
    <3> QED BY <1>1, <3>1 DEF Extra, RefsOf
  <2>7. Len(script') = 1 + Len(listed') + Extra(InPlace)'
    BY <1>1, <1>2, <2>6 DEF Building
  <2>8. ran' = 0
    BY <1>1, <1>2 DEF Building
  <2> QED BY <2>1, <2>2, <2>3, <2>4, <2>5, <2>7, <2>8 DEF Building
<1> QED BY <1>1, <1>7, <1>8, <1>9 DEF LinkInv

-----------------------------------------------------------------------------
(* One more table: its commands are the ones Extra counts.                 *)
LEMMA ExtraNext ==
  ASSUME NEW sig, NEW built, sig \notin built, sig # "FACS",
         sig \in Logs => built \intersect Logs = {}
  PROVE  /\ Extra(built) \in Int
         /\ RefsOf(sig, config.fadt) + (IF sig \in Logs THEN 1 ELSE 0)
              + (IF sig = "USER" THEN 0 ELSE 1)
            = (IF sig = "DSDT" THEN 0 ELSE 1) + Extra(built \union {sig}) - Extra(built)
<1> DEFINE new == built \union {sig}
           d(b) == IF "DSDT" \in b THEN 1 ELSE 0
           f(b) == IF "FACP" \in b THEN RefsOf("FACP", config.fadt) ELSE 0
           g(b) == IF b \intersect Logs # {} THEN 2 ELSE 0
           u(b) == IF "USER" \in b THEN 1 ELSE 0
<1>1. RefsOf("FACP", config.fadt) \in Nat
  BY DEF RefsOf
<1>2. \A b : /\ d(b) \in Int /\ f(b) \in Int /\ g(b) \in Int /\ u(b) \in Int
             /\ Extra(b) = d(b) + f(b) + g(b) - u(b)
  BY <1>1 DEF Extra
<1>3. /\ sig # "DSDT" => d(new) = d(built)
      /\ sig # "FACP" => f(new) = f(built)
      /\ sig \notin Logs => g(new) = g(built)
      /\ sig # "USER" => u(new) = u(built)
  <2>1. sig \notin Logs => new \intersect Logs = built \intersect Logs
    OBVIOUS
  <2> QED BY <2>1
<1>4. CASE sig = "DSDT"
  <2>1. d(new) = 1 /\ d(built) = 0
    BY <1>4
  <2>2. sig \notin Logs /\ RefsOf(sig, config.fadt) = 0
    BY <1>4 DEF Logs, RefsOf
  <2> HIDE DEF d, f, g, u, new
  <2> QED BY <1>2, <1>3, <1>4, <2>1, <2>2 DEF new
<1>5. CASE sig = "FACP"
  <2>1. f(new) = RefsOf(sig, config.fadt) /\ f(built) = 0
    BY <1>5
  <2>2. sig \notin Logs /\ RefsOf(sig, config.fadt) \in Nat
    BY <1>1, <1>5 DEF Logs
  <2> HIDE DEF d, f, g, u, new
  <2> QED BY <1>2, <1>3, <1>5, <2>1, <2>2 DEF new
<1>6. CASE sig \in Logs
  <2>1. g(new) = 2 /\ g(built) = 0
    BY <1>6
  <2>2. sig \notin {"DSDT", "FACP", "USER"} /\ RefsOf(sig, config.fadt) = 1
    BY <1>6 DEF Logs, RefsOf
  <2> HIDE DEF d, f, g, u, new
  <2> QED BY <1>2, <1>3, <1>6, <2>1, <2>2 DEF new
<1>7. CASE sig = "USER"
  <2>1. u(new) = 1 /\ u(built) = 0
    BY <1>7
  <2>2. sig \notin Logs /\ RefsOf(sig, config.fadt) = 0
    BY <1>7 DEF Logs, RefsOf
  <2> HIDE DEF d, f, g, u, new
  <2> QED BY <1>2, <1>3, <1>7, <2>1, <2>2 DEF new
<1>8. CASE sig \notin {"DSDT", "FACP", "USER"} \union Logs
  <2>1. RefsOf(sig, config.fadt) = 0
    BY <1>8 DEF RefsOf
  <2> HIDE DEF d, f, g, u, new
  <2> QED BY <1>2, <1>3, <1>8, <2>1 DEF new
<1>9. Extra(built) \in Int
  <2> HIDE DEF d, f, g, u
  <2> QED BY <1>2
<1> QED BY <1>4, <1>5, <1>6, <1>7, <1>8, <1>9

(* Any other table adds its piece.                                         *)
LEMMA LinkTable ==
  ASSUME LinkInv, NEW sig \in todo, BuildTable(sig) PROVE LinkInv'
<1> DEFINE f == Header \o Body(sig, config.fadt)
           n == W(f)
           t == TableCommands(sig, f)
<1>1. /\ pc = "tables" /\ sig # "FACS" /\ NextTable(sig)
      /\ where' = Place(sig, n) /\ len' = len + n
      /\ listed' = (IF sig = "DSDT" THEN listed ELSE Append(listed, len))
      /\ script' = script \o t /\ todo' = todo \ {sig}
      /\ pc' = pc /\ config' = config /\ ran' = ran /\ memory' = memory
  BY DEF BuildTable
<1>2. LinkTypes /\ Executed /\ Building
  BY <1>1 DEF LinkInv
<1>3. /\ config.fadt \in Nat \X Nat /\ len \in Nat /\ config.tables \in Configs
      /\ config.tables \subseteq Sigs \ Required
  BY <1>2, ConfigFacts DEF LinkTypes
<1>4. sig = "FACP" => {"FACS", "DSDT"} \subseteq InPlace
  <2>1. ASSUME sig = "FACP", NEW d \in {"FACS", "DSDT"}, d \in todo PROVE FALSE
    <3>1. Rank("FACP") <= Rank(d)
      BY <1>1, <2>1 DEF NextTable
    <3>2. Rank("FACP") = 3 /\ Rank("FACS") = 1 /\ Rank("DSDT") = 2
      BY Ranks
    <3>3. Rank(d) = 1 \/ Rank(d) = 2
      BY <3>2
    <3> QED BY <3>1, <3>2, <3>3
  <2>2. {"FACS", "DSDT"} \subseteq Required
    BY DEF Required
  <2> QED BY <1>2, <2>1, <2>2 DEF Building
<1>5. sig = "FACP" => where["FACS"].off \in Nat /\ where["DSDT"].off \in Nat
  BY <1>2, <1>4 DEF LinkTypes
<1>6. /\ n \in Nat /\ Piece(t, len, len + n)
      /\ Len(t) = RefsOf(sig, config.fadt) + (IF sig \in Logs THEN 1 ELSE 0)
                  + (IF sig = "USER" THEN 0 ELSE 1)
      /\ sig # "USER" => Checksum("tables", len, n, len + ChecksumOffset) \in Cmds(t)
      /\ sig = "FACP" =>
           \A d \in {"FACS", "DSDT"} : \E c \in Cmds(t) : InBody(c, len, n, where[d].off)
  BY <1>3, <1>5, TablePiece
<1> HIDE DEF f, n, t
<1>7. sig \notin InPlace
  BY <1>2 DEF Building
<1>8. /\ InPlace' = InPlace \union {sig} /\ where'[sig] = [off |-> len, len |-> n]
      /\ \A s \in InPlace : where'[s] = where[s]
  BY <1>1, <1>7, PlaceFacts
<1>9. Sound(script', len') /\ Cmds(script') = Cmds(script) \union Cmds(t)
  <2>1. Sound(script, len)
    BY <1>2 DEF Building
  <2> DEFINE m == len + n
  <2>2. m \in Nat /\ len <= m
    BY <1>3, <1>6
  <2>3. Piece(t, len, m)
    BY <1>6
  <2> HIDE DEF m
  <2>4. Sound(script \o t, m) /\ Cmds(script \o t) = Cmds(script) \union Cmds(t)
    BY <1>3, <2>1, <2>2, <2>3, SoundConcat
  <2> QED BY <1>1, <2>4 DEF m
<1>10. /\ \A s \in InPlace : Summed(s) => Summed(s)'
       /\ \A r, s \in InPlace : Refers(r, s) => Refers(r, s)'
  BY <1>8, <1>9, Kept
<1>11. /\ listed' \in Seq(Nat) /\ Len(listed) \in Nat
       /\ Len(listed') = Len(listed) + (IF sig = "DSDT" THEN 0 ELSE 1)
       /\ \A k \in 1 .. Len(listed) : listed'[k] = listed[k] /\ k \in 1 .. Len(listed')
       /\ sig # "DSDT" => \E k \in 1 .. Len(listed') : listed'[k] = len
  <2>1. listed \in Seq(Nat)
    BY <1>2 DEF LinkTypes
  <2>2. CASE sig = "DSDT"
    BY <1>1, <2>1, <2>2
  <2>3. CASE sig # "DSDT"
    <3>1. listed' = Append(listed, len)
      BY <1>1, <2>3
    <3> QED BY <1>3, <2>1, <2>3, <3>1, AppendAt
  <2> QED BY <2>2, <2>3
<1>12. LinkTypes'
  <2>1. ASSUME NEW s \in InPlace'
        PROVE  /\ where'[s].off \in Nat /\ where'[s].len \in Nat
               /\ where'[s].off + where'[s].len <= len'
    <3>1. CASE s = sig
      <4>1. where'[s].off = len /\ where'[s].len = n
        BY <1>8, <3>1
      <4> QED BY <1>1, <1>3, <1>6, <4>1
    <3>2. CASE s \in InPlace
      <4>1. /\ where[s].off \in Nat /\ where[s].len \in Nat
            /\ where[s].off + where[s].len <= len /\ len \in Nat
        BY <1>2, <3>2 DEF LinkTypes
      <4>2. where'[s] = where[s]
        BY <1>8, <3>2
      <4> QED BY <1>1, <1>6, <4>1, <4>2
    <3> QED BY <1>8, <3>1, <3>2
  <2>2. script' \in Seq(Commands) /\ len' \in Nat
    BY <1>1, <1>3, <1>6, <1>9 DEF Sound
  <2>3. ran' \in 0 .. Len(script')
    <3>1. ran' = 0 /\ Len(script') \in Nat
      BY <1>1, <1>2, <2>2 DEF Building
    <3> QED BY <3>1
  <2> QED BY <1>1, <1>2, <1>11, <2>1, <2>2, <2>3 DEF LinkTypes
<1>13. Executed'
  <2>1. ran = 0 /\ ran' = 0
    BY <1>1, <1>2 DEF Building
  <2>2. \A op : Ran(op) = {}
    BY <2>1 DEF Ran
  <2>3. \A op : Ran(op)' = {}
    BY <2>1 DEF Ran
  <2> QED BY <1>1, <1>2, <2>2, <2>3 DEF Executed
<1>14. Building'
  <2>1. InPlace' = (Required \union config'.tables) \ todo'
    BY <1>1, <1>2, <1>8 DEF Building, LinkTypes
  <2>2. ASSUME NEW s \in InPlace' \ {"FACS", "DSDT"} PROVE Listed(s)'
    <3>1. CASE s = sig
      <4>1. where'[s].off = len
        BY <1>8, <3>1
      <4> QED BY <1>11, <2>2, <3>1, <4>1 DEF Listed
    <3>2. CASE s \in InPlace
      <4>1. Listed(s) /\ where'[s] = where[s]
        BY <1>2, <1>8, <2>2, <3>2 DEF Building
      <4> QED BY <1>11, <4>1 DEF Listed
    <3> QED BY <1>8, <3>1, <3>2
  <2>3. ASSUME NEW s \in InPlace' \ {"FACS", "USER"} PROVE Summed(s)'
    <3>1. CASE s = sig
      <4>1. where'[s].off = len /\ where'[s].len = n
        BY <1>8, <3>1
      <4> QED BY <1>6, <1>9, <2>3, <3>1, <4>1 DEF Summed
    <3>2. CASE s \in InPlace
      BY <1>2, <1>10, <2>3, <3>2 DEF Building
    <3> QED BY <1>8, <3>1, <3>2
  <2>4. ASSUME "FACP" \in InPlace' PROVE {"FACS", "DSDT"} \subseteq InPlace' /\ FadtRefers'
    <3>1. CASE sig = "FACP"
      <4>1. {"FACS", "DSDT"} \subseteq InPlace
        BY <1>4, <3>1
      <4>2. ASSUME NEW d \in {"FACS", "DSDT"} PROVE Refers("FACP", d)'
        <5>1. PICK c \in Cmds(t) : InBody(c, len, n, where[d].off)
          BY <1>6, <3>1
        <5>2. where'["FACP"].off = len /\ where'["FACP"].len = n /\ where'[d] = where[d]
          BY <1>8, <3>1, <4>1
        <5>3. InBody(c, where'["FACP"].off, where'["FACP"].len, where'[d].off)
          BY <5>1, <5>2
        <5> QED BY <1>9, <5>3 DEF Refers, InBody
      <4> QED BY <1>8, <4>1, <4>2 DEF FadtRefers
    <3>2. CASE "FACP" \in InPlace
      <4>1. {"FACS", "DSDT"} \subseteq InPlace /\ Refers("FACP", "FACS") /\ Refers("FACP", "DSDT")
        BY <1>2, <3>2 DEF Building, FadtRefers
      <4>2. Refers("FACP", "FACS")' /\ Refers("FACP", "DSDT")'
        BY <1>10, <3>2, <4>1
      <4> QED BY <1>8, <4>1, <4>2 DEF FadtRefers
    <3> QED BY <1>8, <2>4, <3>1, <3>2
  <2>5. Len(script') = 1 + Len(listed') + Extra(InPlace)'
    <3>1. sig \in Logs => InPlace \intersect Logs = {}
      <4>1. InPlace \subseteq Required \union config.tables /\ sig \in Required \union config.tables
        BY <1>2 DEF Building, LinkTypes
      <4>2. Required \intersect Logs = {}
        BY Ranks
      <4>3. ASSUME sig \in Logs, NEW s \in InPlace \intersect Logs PROVE FALSE
        <5>1. s \in config.tables \intersect Logs /\ sig \in config.tables \intersect Logs
          BY <4>1, <4>2, <4>3
        <5>2. s = sig
          BY <1>3, <5>1, OneLog
        <5> QED BY <1>7, <4>3, <5>2
      <4> QED BY <4>3
    <3>2. /\ Extra(InPlace) \in Int
          /\ Len(t) = (IF sig = "DSDT" THEN 0 ELSE 1) + Extra(InPlace \union {sig}) - Extra(InPlace)
      BY <1>1, <1>6, <1>7, <3>1, ExtraNext
    <3>3. Extra(InPlace)' = Extra(InPlace \union {sig})
      BY <1>1, <1>8 DEF Extra, RefsOf
    <3>4. Len(script') = Len(script) + Len(t) /\ Len(script) \in Nat /\ Len(t) \in Nat
      <4>1. script \in Seq(Commands) /\ t \in Seq(Commands)
        BY <1>2, <1>6 DEF LinkTypes, Piece
      <4> QED BY <1>1, <4>1, SeqConcat
    <3>5. Len(script) = 1 + Len(listed) + Extra(InPlace)
      BY <1>2 DEF Building
    <3> DEFINE x == Extra(InPlace)  y == Extra(InPlace \union {sig})
               g == IF sig = "DSDT" THEN 0 ELSE 1
    <3>6. y \in Int
      BY DEF Extra, RefsOf
    <3>7. /\ x \in Int /\ y \in Int /\ g \in Int /\ Len(t) = g + y - x
          /\ Len(listed') = Len(listed) + g /\ Len(listed) \in Nat
      BY <1>11, <3>2, <3>6
    <3> HIDE DEF x, y, g
    <3>8. Len(script') = 1 + Len(listed') + y
      BY <3>4, <3>5, <3>7 DEF x
    <3> QED BY <3>3, <3>8 DEF y
  <2>6. ran' = 0
    BY <1>1, <1>2 DEF Building
  <2> QED BY <1>9, <2>1, <2>2, <2>3, <2>4, <2>5, <2>6 DEF Building
<1> QED BY <1>1, <1>12, <1>13, <1>14 DEF LinkInv

-----------------------------------------------------------------------------
(* The roots: every table is in place, and the script is complete.         *)
LEMMA LinkRoots ==
  ASSUME LinkInv, BuildRoots PROVE LinkInv'
<1> DEFINE h == W(Header)
           m == Len(listed)
           n == h + 4 * m
           x == len + n
           o == h + 8 * m
           two == config.rsdp = 2
           r == RootCommands(4, len)
           q == IF two THEN RootCommands(8, x) ELSE << >>
           d == RsdpCommands(len, x)
           s1 == script \o r
           s2 == s1 \o q
           end == x + (IF two THEN o ELSE 0)
<1>1. /\ pc = "tables" /\ todo = {} /\ pc' = "firmware"
      /\ len' = end /\ script' = s2 \o d
      /\ config' = config /\ todo' = todo /\ listed' = listed /\ ran' = ran /\ memory' = memory
  BY DEF BuildRoots
<1>2. LinkTypes /\ Executed /\ Building
  BY <1>1 DEF LinkInv
<1>3. /\ config.tables \in Configs /\ config.tables \subseteq Sigs \ Required
      /\ config.rsdp \in {0, 2} /\ Required \union config.tables \subseteq Sigs
  BY <1>2, ConfigFacts
<1>4. len \in Nat /\ listed \in Seq(Nat) /\ m \in Nat
  BY <1>2 DEF LinkTypes
<1>5. /\ h \in Nat /\ n \in Nat /\ Piece(r, len, len + n) /\ Len(r) = m + 1
      /\ Checksum("tables", len, n, len + ChecksumOffset) \in Cmds(r)
      /\ \A k \in 1 .. m : \E c \in Cmds(r) : InBody(c, len, n, listed[k])
  BY <1>4, RootPiece
<1>6. x \in Nat /\ len <= x /\ x <= end /\ end \in Nat
  <2>1. o \in Nat
    BY <1>4, <1>5
  <2> HIDE DEF o, n
  <2> QED BY <1>4, <1>5, <2>1
<1>7. two => /\ o \in Nat /\ Piece(RootCommands(8, x), x, x + o) /\ Len(RootCommands(8, x)) = m + 1
             /\ Checksum("tables", x, o, x + ChecksumOffset) \in Cmds(RootCommands(8, x))
             /\ \A k \in 1 .. m : \E c \in Cmds(RootCommands(8, x)) : InBody(c, x, o, listed[k])
  <2> HIDE DEF x
  <2> QED BY <1>4, <1>6, RootPiece
<1>8. /\ d \in Seq(Commands) /\ Safe(d) /\ Ready({"tables"}, d)
      /\ Len(d) = IF two THEN 5 ELSE 3
      /\ \A c \in Cmds(d) : c.file = "rsdp"
      /\ {c \in Cmds(d) : c.op = "checksum"} = RsdpSums
      /\ Pointer("rsdp", 16, 4, "tables", len) \in Cmds(d)
      /\ two => Pointer("rsdp", 24, 8, "tables", x) \in Cmds(d)
  <2> HIDE DEF x
  <2> QED BY <1>3, <1>4, <1>6, RsdpPiece
<1> HIDE DEF n, o, h, m, r, d, x, end
<1>9. Sound(s1, x) /\ Cmds(s1) = Cmds(script) \union Cmds(r)
  <2>1. Sound(script, len) /\ Piece(r, len, x)
    BY <1>2, <1>5 DEF Building, x
  <2> QED BY <1>4, <1>6, <2>1, SoundConcat
<1> HIDE DEF s1
<1>10. /\ q \in Seq(Commands) /\ Len(q) = IF two THEN m + 1 ELSE 0
       /\ Sound(s2, end) /\ Cmds(s2) = Cmds(s1) \union Cmds(q)
  <2>1. CASE two
    <3>1. q = RootCommands(8, x) /\ end = x + o
      BY <2>1 DEF end
    <3>2. Piece(q, x, end) /\ Len(q) = m + 1
      BY <1>7, <2>1, <3>1
    <3> HIDE DEF q
    <3>3. q \in Seq(Commands)
      BY <3>2 DEF Piece
    <3> QED BY <1>6, <1>9, <2>1, <3>2, <3>3, SoundConcat
  <2>2. CASE ~two
    <3>1. q = << >> /\ end = x
      BY <1>6, <2>2 DEF end
    <3>2. s1 \in Seq(Commands)
      BY <1>9 DEF Sound
    <3>3. s1 \o << >> = s1
      BY <3>2
    <3>4. q \in Seq(Commands) /\ Len(q) = 0 /\ Cmds(q) = {}
      BY <3>1, NoCommand
    <3>5. s2 = s1
      BY <3>1, <3>3
    <3> HIDE DEF q, s2
    <3> QED BY <1>9, <2>2, <3>1, <3>4, <3>5
  <2> QED BY <2>1, <2>2
<1>11. /\ s1 \in Seq(Commands) /\ s2 \in Seq(Commands)
       /\ Len(s1) = Len(script) + Len(r) /\ Len(s2) = Len(s1) + Len(q)
  <2>1. s1 \in Seq(Commands) /\ s2 \in Seq(Commands)
    BY <1>9, <1>10 DEF Sound
  <2>2. script \in Seq(Commands) /\ r \in Seq(Commands)
    BY <1>2, <1>5 DEF LinkTypes, Piece
  <2>3. Len(s1) = Len(script) + Len(r)
    BY <2>2, SeqConcat DEF s1
  <2>4. Len(s2) = Len(s1) + Len(q)
    <3> HIDE DEF q
    <3> QED BY <1>10, <2>1, SeqConcat
  <2> QED BY <2>1, <2>3, <2>4
<1> HIDE DEF q, s2
<1>12. /\ script' \in Seq(Commands) /\ Len(script') = Len(s2) + Len(d)
       /\ Cmds(script') = Cmds(s2) \union Cmds(d)
  <2>1. s2 \in Seq(Commands) /\ d \in Seq(Commands) /\ script' = s2 \o d
    BY <1>1, <1>8, <1>11
  <2>2. s2 \o d \in Seq(Commands) /\ Len(s2 \o d) = Len(s2) + Len(d)
    BY <2>1, SeqConcat
  <2>3. Cmds(s2 \o d) = Cmds(s2) \union Cmds(d)
    BY <2>1, CmdsConcat
  <2> QED BY <2>1, <2>2, <2>3
<1>13. Safe(script')
  <2>1. ASSUME NEW c \in Cmds(s2), NEW e \in Cmds(d), c.op = "checksum"
        PROVE  Spares(c, e)
    <3>1. c.file = "tables" /\ e.file = "rsdp"
      BY <1>8, <1>10, <2>1 DEF Sound
    <3> QED BY <3>1 DEF Spares
  <2>2. Safe(s2) /\ Safe(d)
    BY <1>8, <1>10 DEF Sound
  <2> QED BY <1>1, <1>8, <1>11, <2>1, <2>2, SafeConcat
<1>14. Ready({}, script')
  <2>1. Ready({}, s2) /\ {"tables"} \subseteq {} \union AllocsOf(s2)
    BY <1>10 DEF Sound
  <2>2. Ready({} \union AllocsOf(s2), d)
    BY <1>8, <2>1, ReadyMore
  <2> QED BY <1>1, <1>8, <1>11, <2>1, <2>2, ReadyConcat
<1>15. Cmds(script') = Cmds(script) \union Cmds(r) \union Cmds(q) \union Cmds(d)
  BY <1>9, <1>10, <1>12
<1>16. InPlace = Required \union config.tables
  BY <1>1, <1>2 DEF Building
<1>17. "RSDT" \notin InPlace /\ "XSDT" \notin InPlace
  BY <1>3, <1>16, Ranks
<1>18. /\ InPlace' = AllTables
       /\ \A s \in InPlace : where'[s] = where[s]
       /\ where'["RSDT"] = [off |-> len, len |-> n]
       /\ two => where'["XSDT"] = [off |-> x, len |-> o]
  <2> DEFINE g(s) == CASE s = "RSDT" -> [off |-> len, len |-> n]
                       [] s = "XSDT" -> [off |-> x, len |-> o]
                       [] OTHER -> where[s]
             D == InPlace \union {"RSDT"} \union (IF two THEN {"XSDT"} ELSE {})
  <2>1. where' = [s \in D |-> g(s)]
    BY DEF BuildRoots, InPlace, x, n, o, m, h
  <2>2. D = AllTables
    BY <1>16 DEF AllTables
  <2>3. /\ \A s : s \notin {"RSDT", "XSDT"} => g(s) = where[s]
        /\ g("RSDT") = [off |-> len, len |-> n] /\ g("XSDT") = [off |-> x, len |-> o]
    OBVIOUS
  <2>4. "RSDT" \in D /\ (two => "XSDT" \in D) /\ InPlace \subseteq D
    OBVIOUS
  <2> HIDE DEF g, D
  <2>5. DOMAIN where' = D /\ \A s \in D : where'[s] = g(s)
    BY <2>1
  <2> QED BY <1>17, <2>2, <2>3, <2>4, <2>5 DEF InPlace
<1>19. /\ \A s \in InPlace : Summed(s) => Summed(s)'
       /\ \A s, t \in InPlace : Refers(s, t) => Refers(s, t)'
  BY <1>15, <1>18, Kept
<1>20. AllTables = InPlace \union {"RSDT"} \union (IF two THEN {"XSDT"} ELSE {})
  BY <1>16 DEF AllTables
<1>21. LinkTypes'
  <2>1. ASSUME NEW s \in InPlace'
        PROVE  /\ where'[s].off \in Nat /\ where'[s].len \in Nat
               /\ where'[s].off + where'[s].len <= len'
    <3>1. CASE s = "RSDT"
      <4>1. where'[s].off = len /\ where'[s].len = n
        BY <1>18, <3>1
      <4> QED BY <1>1, <1>4, <1>5, <1>6, <4>1 DEF x
    <3>2. CASE s = "XSDT" /\ two
      <4>1. where'[s].off = x /\ where'[s].len = o
        BY <1>18, <3>2
      <4> QED BY <1>1, <1>6, <1>7, <3>2, <4>1 DEF end
    <3>3. CASE s \in InPlace
      <4>1. /\ where[s].off \in Nat /\ where[s].len \in Nat
            /\ where[s].off + where[s].len <= len
        BY <1>2, <3>3 DEF LinkTypes
      <4>2. where'[s] = where[s]
        BY <1>18, <3>3
      <4> QED BY <1>1, <1>4, <1>6, <4>1, <4>2
    <3> QED BY <1>18, <1>20, <3>1, <3>2, <3>3
  <2>2. ran' \in 0 .. Len(script')
    <3>1. ran' = 0 /\ Len(script') \in Nat
      BY <1>1, <1>2, <1>12 DEF Building
    <3> QED BY <3>1
  <2> QED BY <1>1, <1>2, <1>6, <1>12, <2>1, <2>2 DEF LinkTypes
<1>22. Executed'
  <2>1. ran = 0 /\ ran' = 0
    BY <1>1, <1>2 DEF Building
  <2>2. \A op : Ran(op) = {}
    BY <2>1 DEF Ran
  <2>3. \A op : Ran(op)' = {}
    BY <2>1 DEF Ran
  <2> QED BY <1>1, <1>2, <2>2, <2>3 DEF Executed
<1>23. ASSUME NEW s \in InPlace' \ {"FACS", "USER"} PROVE Summed(s)'
  <2>1. CASE s = "RSDT"
    <3>1. where'[s].off = len /\ where'[s].len = n
      BY <1>18, <2>1
    <3> QED BY <1>5, <1>15, <3>1 DEF Summed
  <2>2. CASE s = "XSDT" /\ two
    <3>1. where'[s].off = x /\ where'[s].len = o
      BY <1>18, <2>2
    <3>2. Checksum("tables", x, o, x + ChecksumOffset) \in Cmds(q)
      BY <1>7, <2>2 DEF q
    <3> QED BY <1>15, <3>1, <3>2 DEF Summed
  <2>3. CASE s \in InPlace
    BY <1>2, <1>19, <1>23, <2>3 DEF Building
  <2> QED BY <1>18, <1>20, <1>23, <2>1, <2>2, <2>3
<1>24. RsdpSummed'
  <2>1. RsdpSums' = RsdpSums
    BY <1>1 DEF RsdpSums
  <2>2. ASSUME NEW c \in Cmds(s2), c.op = "checksum" PROVE c.file = "tables"
    BY <1>10, <2>2 DEF Sound
  <2>3. {c \in Cmds(script') : c.op = "checksum" /\ c.file = "rsdp"}
          = {c \in Cmds(d) : c.op = "checksum"}
    BY <1>8, <1>12, <2>2
  <2> QED BY <1>8, <2>1, <2>3 DEF RsdpSummed
<1>25. Rooted("RSDT")' /\ (two => Rooted("XSDT")')
  <2>1. where'["RSDT"].off = len /\ (two => where'["XSDT"].off = x)
    BY <1>18
  <2>2. \A w, to, off : LET c == Pointer("rsdp", off, w, "tables", to)
                        IN  c.op = "pointer" /\ c.file = "rsdp" /\ c.dstOff = to
    BY DEF Pointer
  <2> QED BY <1>8, <1>12, <2>1, <2>2 DEF Rooted
<1>26. ASSUME NEW s \in InPlace' \ {"FACS", "DSDT", "RSDT", "XSDT"}
       PROVE  Refers("RSDT", s)' /\ (two => Refers("XSDT", s)')
  <2>1. s \in InPlace
    BY <1>18, <1>20, <1>26
  <2>2. PICK k \in 1 .. m : listed[k] = where'[s].off
    <3>1. Listed(s)
      BY <1>2, <1>26, <2>1 DEF Building
    <3> QED BY <1>18, <2>1, <3>1 DEF Listed, m
  <2>3. Refers("RSDT", s)'
    <3>1. where'["RSDT"].off = len /\ where'["RSDT"].len = n
      BY <1>18
    <3>2. PICK c \in Cmds(r) : InBody(c, len, n, where'[s].off)
      BY <1>5, <2>2
    <3> QED BY <1>15, <3>1, <3>2 DEF Refers, InBody
  <2>4. ASSUME two PROVE Refers("XSDT", s)'
    <3>1. where'["XSDT"].off = x /\ where'["XSDT"].len = o
      BY <1>18, <2>4
    <3>2. PICK c \in Cmds(q) : InBody(c, x, o, where'[s].off)
      BY <1>7, <2>2, <2>4 DEF q
    <3> QED BY <1>15, <3>1, <3>2 DEF Refers, InBody
  <2> QED BY <2>3, <2>4
<1>27. FadtRefers'
  <2>1. "FACP" \in InPlace /\ "FACS" \in InPlace /\ "DSDT" \in InPlace
    BY <1>16 DEF Required
  <2> QED BY <1>2, <1>19, <2>1 DEF Building, FadtRefers
<1>28. ScriptLength'
  <2> DEFINE user == IF "USER" \in config.tables THEN 1 ELSE 0
             tpm == IF config.tables \intersect {"TPM2", "TCPA"} # {} THEN 2 ELSE 0
             fadt == IF config.fadt[1] = 1 THEN 2 ELSE 3
             roots == IF config.rsdp = 2 THEN m + 3 ELSE 0
  <2>1. Extra(InPlace) = 1 + fadt + tpm - user
    <3>1. "DSDT" \in InPlace /\ "FACP" \in InPlace /\ ("USER" \in InPlace <=> "USER" \in config.tables)
      BY <1>16, Ranks DEF Required
    <3>2. InPlace \intersect Logs = config.tables \intersect {"TPM2", "TCPA"}
      BY <1>16, Ranks DEF Logs
    <3>3. RefsOf("FACP", config.fadt) = fadt
      BY DEF RefsOf
    <3> HIDE DEF fadt
    <3>4. fadt \in Int
      BY DEF fadt
    <3> QED BY <3>1, <3>2, <3>3, <3>4 DEF Extra
  <2>2. /\ user \in Int /\ tpm \in Int /\ fadt \in Int /\ roots \in Int
        /\ roots = IF two THEN m + 3 ELSE 0
    BY <1>4
  <2>3. Len(script) = 1 + m + Extra(InPlace)
    BY <1>2 DEF Building, m
  <2> HIDE DEF user, tpm, fadt, roots
  <2>4. Len(script') = 6 + 2 * m - user + tpm + fadt + roots
    <3>1. Len(script') = Len(script) + Len(r) + Len(q) + Len(d)
      BY <1>11, <1>12
    <3> QED BY <1>4, <1>5, <1>8, <1>10, <2>1, <2>2, <2>3, <3>1
  <2> QED BY <1>1, <2>4 DEF ScriptLength, user, tpm, fadt, roots, m
<1>29. Loading'
  <2>1. todo' = {} /\ AllTables' = AllTables
    BY <1>1 DEF AllTables
  <2> QED BY <1>1, <1>13, <1>14, <1>18, <1>23, <1>24, <1>25, <1>26, <1>27, <1>28, <2>1
          DEF Loading
<1> QED BY <1>1, <1>21, <1>22, <1>29 DEF LinkInv

-----------------------------------------------------------------------------
(* The firmware executes one more command: it spoils no sum.               *)
LEMMA LinkExecute ==
  ASSUME LinkInv, Execute PROVE LinkInv'
<1> DEFINE c == script[ran + 1]
           files == {e.file : e \in Ran("alloc")}
           spoiled(off, w) == {s \in memory.sums : s.file = c.file /\ Overlaps(s, off, w)}
<1>1. /\ pc = "firmware" /\ ran < Len(script) /\ ran' = ran + 1
      /\ memory' =
          (CASE c.op = "alloc" -> [memory EXCEPT !.files = @ \union {c.file}]
            [] c.op = "pointer" ->
                 [memory EXCEPT !.patched = @ \union {c}, !.sums = @ \ spoiled(c.off, c.w)]
            [] OTHER ->
                 [memory EXCEPT !.sums = (@ \ spoiled(c.at, 1)) \union {c}])
      /\ pc' = pc /\ config' = config /\ todo' = todo /\ where' = where /\ len' = len
      /\ listed' = listed /\ script' = script
  BY DEF Execute
<1>2. LinkTypes /\ Executed /\ Loading
  BY <1>1 DEF LinkInv
<1>3. script \in Seq(Commands) /\ Len(script) \in Nat /\ ran \in Nat /\ ran + 1 \in 1 .. Len(script)
  BY <1>1, <1>2 DEF LinkTypes
<1>4. c \in Commands
  BY <1>3, SeqAt
<1>5. memory = [files |-> files, patched |-> Ran("pointer"), sums |-> Ran("checksum")]
  BY <1>2 DEF Executed
<1>6. ASSUME NEW s \in memory.sums PROVE Spares(s, c)
  <2>1. PICK i \in 1 .. ran : s = script[i] /\ script[i].op = "checksum"
    BY <1>5, <1>6 DEF Ran
  <2>2. i \in 1 .. Len(script) /\ i < ran + 1
    BY <1>3
  <2> QED BY <1>2, <1>3, <2>1, <2>2 DEF Loading, Safe
<1>7. \A op : Ran(op)' = Ran(op) \union (IF c.op = op THEN {c} ELSE {})
  <2> SUFFICES ASSUME NEW op PROVE Ran(op)' = Ran(op) \union (IF c.op = op THEN {c} ELSE {})
    OBVIOUS
  <2>1. Ran(op)' = {script[k] : k \in {j \in 1 .. ran + 1 : script[j].op = op}}
    BY <1>1 DEF Ran
  <2>2. /\ \A j \in 1 .. ran + 1 : j \in 1 .. ran \/ j = ran + 1
        /\ \A j \in 1 .. ran : j \in 1 .. ran + 1
        /\ ran + 1 \in 1 .. ran + 1
    BY <1>3
  <2>3. Ran(op) \subseteq Ran(op)'
    BY <2>1, <2>2 DEF Ran
  <2>4. c.op = op => c \in Ran(op)'
    BY <2>1, <2>2
  <2>5. Ran(op)' \subseteq Ran(op) \union (IF c.op = op THEN {c} ELSE {})
    <3>1. ASSUME NEW j \in 1 .. ran + 1, script[j].op = op
          PROVE  script[j] \in Ran(op) \union (IF c.op = op THEN {c} ELSE {})
      BY <2>2, <3>1 DEF Ran
    <3> QED BY <2>1, <3>1
  <2> QED BY <2>3, <2>4, <2>5
<1>8. Executed'
  <2>1. memory' = [files |-> IF c.op = "alloc" THEN files \union {c.file} ELSE files,
                   patched |-> IF c.op = "pointer" THEN Ran("pointer") \union {c}
                                                   ELSE Ran("pointer"),
                   sums |-> IF c.op = "checksum" THEN Ran("checksum") \union {c}
                                                 ELSE Ran("checksum")]
    <3> DEFINE ps == Ran("pointer")  ss == Ran("checksum")
    <3>1. memory.files = files /\ memory.patched = ps /\ memory.sums = ss
      BY <1>5
    <3>2. memory = [files |-> files, patched |-> ps, sums |-> ss]
      BY <1>5
    <3>3. c.op = "pointer" => spoiled(c.off, c.w) = {}
      BY <1>6 DEF Spares
    <3>4. c.op = "checksum" => spoiled(c.at, 1) = {}
      BY <1>6 DEF Spares
    <3> HIDE DEF files, ps, ss, spoiled, c
    <3>5. CASE c.op = "alloc"
      <4>1. memory' = [memory EXCEPT !.files = @ \union {c.file}]
        BY <1>1, <3>5
      <4> QED BY <3>2, <3>5, <4>1 DEF ps, ss
    <3>6. CASE c.op = "pointer"
      <4>1. memory' = [memory EXCEPT !.patched = @ \union {c}, !.sums = @ \ spoiled(c.off, c.w)]
        BY <1>1, <3>6
      <4>2. memory' = [memory EXCEPT !.patched = @ \union {c}, !.sums = @ \ {}]
        BY <3>3, <3>6, <4>1
      <4>3. ss \ {} = ss
        OBVIOUS
      <4> QED BY <3>2, <3>6, <4>2, <4>3 DEF ps, ss
    <3>7. CASE c.op = "checksum"
      <4>1. memory' = [memory EXCEPT !.sums = (@ \ spoiled(c.at, 1)) \union {c}]
        BY <1>1, <3>7
      <4>2. memory' = [memory EXCEPT !.sums = (@ \ {}) \union {c}]
        BY <3>4, <3>7, <4>1
      <4>3. ss \ {} = ss
        OBVIOUS
      <4> QED BY <3>2, <3>7, <4>2, <4>3 DEF ps, ss
    <3>8. c.op \in {"alloc", "pointer", "checksum"}
      BY <1>4, CommandTypes
    <3> QED BY <3>5, <3>6, <3>7, <3>8 DEF ps, ss
  <2>2. {e.file : e \in Ran("alloc")'} = IF c.op = "alloc" THEN files \union {c.file} ELSE files
    BY <1>7
  <2>3. /\ Ran("pointer")' = IF c.op = "pointer" THEN Ran("pointer") \union {c} ELSE Ran("pointer")
        /\ Ran("checksum")' = IF c.op = "checksum" THEN Ran("checksum") \union {c}
                                                    ELSE Ran("checksum")
    BY <1>7
  <2> HIDE DEF c, files
  <2>4. memory' = [files |-> {e.file : e \in Ran("alloc")'},
                   patched |-> Ran("pointer")', sums |-> Ran("checksum")']
    BY <2>1, <2>2, <2>3
  <2> QED BY <2>4 DEF Executed
<1>9. LinkTypes'
  <2>1. ran' \in 0 .. Len(script')
    BY <1>1, <1>3
  <2> QED BY <1>1, <1>2, <2>1 DEF LinkTypes, InPlace
<1>10. Loading'
  <2>1. /\ \A s : Summed(s)' = Summed(s) /\ Rooted(s)' = Rooted(s)
        /\ \A s, t : Refers(s, t)' = Refers(s, t)
    BY <1>1 DEF Summed, Rooted, Refers, InBody
  <2>2. InPlace' = InPlace /\ AllTables' = AllTables /\ RsdpSummed' = RsdpSummed
    BY <1>1 DEF InPlace, AllTables, RsdpSummed, RsdpSums
  <2>3. ScriptLength' = ScriptLength
    BY <1>1 DEF ScriptLength
  <2>4. FadtRefers' = FadtRefers
    BY <2>1 DEF FadtRefers
  <2> QED BY <1>1, <1>2, <2>1, <2>2, <2>3, <2>4 DEF Loading
<1> QED BY <1>1, <1>8, <1>9, <1>10 DEF LinkInv

(* Each step keeps the invariant.                                          *)
LEMMA LinkStep == LinkInv /\ [LinkNext]_linkVars => LinkInv'
<1> SUFFICES ASSUME LinkInv, [LinkNext]_linkVars PROVE LinkInv'
  OBVIOUS
<1>1. CASE BuildFacs
  BY <1>1, LinkFacs
<1>2. CASE \E sig \in todo : BuildTable(sig)
  BY <1>2, LinkTable
<1>3. CASE BuildRoots
  BY <1>3, LinkRoots
<1>4. CASE Execute
  BY <1>4, LinkExecute
<1>5. CASE UNCHANGED linkVars
  <2>1. /\ pc' = pc /\ config' = config /\ todo' = todo /\ where' = where /\ len' = len
        /\ listed' = listed /\ script' = script /\ ran' = ran /\ memory' = memory
    BY <1>5 DEF linkVars
  <2>2. /\ \A s : Summed(s)' = Summed(s) /\ Rooted(s)' = Rooted(s) /\ Listed(s)' = Listed(s)
        /\ \A s, t : Refers(s, t)' = Refers(s, t)
    BY <2>1 DEF Summed, Rooted, Refers, InBody, Listed
  <2>3. InPlace' = InPlace /\ AllTables' = AllTables /\ RsdpSummed' = RsdpSummed
    BY <2>1 DEF InPlace, AllTables, RsdpSummed, RsdpSums
  <2>4. ScriptLength' = ScriptLength /\ Extra(InPlace)' = Extra(InPlace)
    BY <2>1, <2>3 DEF ScriptLength, Extra, RefsOf
  <2>5. FadtRefers' = FadtRefers
    BY <2>2 DEF FadtRefers
  <2>6. LinkTypes' /\ Executed'
    BY <2>1, <2>3 DEF LinkInv, LinkTypes, Executed, Ran
  <2>7. Building' = Building /\ Loading' = Loading
    BY <2>1, <2>2, <2>3, <2>4, <2>5 DEF Building, Loading
  <2> QED BY <2>1, <2>6, <2>7 DEF LinkInv
<1> QED BY <1>1, <1>2, <1>3, <1>4, <1>5 DEF LinkNext

-----------------------------------------------------------------------------
(* When the script has been run, all of it has been.                       *)
LEMMA AllRan ==
  ASSUME LinkInv, Loaded
  PROVE  /\ Loading /\ memory.patched = {c \in Cmds(script) : c.op = "pointer"}
         /\ memory.sums = {c \in Cmds(script) : c.op = "checksum"}
<1>1. pc = "firmware" /\ ran = Len(script)
  BY DEF Loaded
<1>2. \A op : Ran(op) = {c \in Cmds(script) : c.op = op}
  <2> SUFFICES ASSUME NEW op PROVE Ran(op) = {c \in Cmds(script) : c.op = op}
    OBVIOUS
  <2>1. Ran(op) \subseteq {c \in Cmds(script) : c.op = op}
    BY <1>1 DEF Ran, Cmds
  <2>2. {c \in Cmds(script) : c.op = op} \subseteq Ran(op)
    BY <1>1 DEF Ran, Cmds
  <2> QED BY <2>1, <2>2
<1>3. Executed /\ Loading
  BY <1>1 DEF LinkInv
<1>4. memory.patched = Ran("pointer") /\ memory.sums = Ran("checksum")
  BY <1>3 DEF Executed
<1> QED BY <1>2, <1>3, <1>4

(* The invariant implies each of the three properties.                     *)
LEMMA LinkSound == LinkInv => ScriptSound
<1> SUFFICES ASSUME LinkInv PROVE ScriptSound
  OBVIOUS
<1>1. LinkTypes /\ Executed
  BY DEF LinkInv
<1>2. memory.files = {c.file : c \in Ran("alloc")}
  BY <1>1 DEF Executed
<1>3. LinkTypeOK
  <2>1. ASSUME NEW c \in Ran("alloc") PROVE c.file \in {"tables", "tpmlog", "rsdp"}
    <3>1. PICK j \in 1 .. ran : c = script[j]
      BY <2>1 DEF Ran
    <3>2. script \in Seq(Commands) /\ j \in 1 .. Len(script)
      BY <1>1 DEF LinkTypes
    <3>3. c \in Commands
      BY <3>1, <3>2, SeqAt
    <3> QED BY <3>3, CommandTypes DEF Names
  <2>2. memory.files \subseteq {"tables", "tpmlog", "rsdp"}
    BY <1>2, <2>1
  <2> QED BY <1>1, <2>2 DEF LinkTypeOK, LinkTypes, InPlace
<1>4. AllocatedFirst
  <2> SUFFICES ASSUME pc = "firmware", ran < Len(script)
               PROVE  LET c == script[ran + 1] IN
                        /\ c.op # "alloc" => c.file \in memory.files
                        /\ c.op = "pointer" => c.dst \in memory.files
    BY DEF AllocatedFirst
  <2>1. Ready({}, script)
    BY DEF LinkInv, Loading
  <2>2. ran \in Nat /\ Len(script) \in Nat /\ ran + 1 \in 1 .. Len(script)
    BY <1>1 DEF LinkTypes
  <2>3. ASSUME NEW file, Known({}, script, ran + 1, file) PROVE file \in memory.files
    <3>1. PICK j \in 1 .. Len(script) :
            j < ran + 1 /\ script[j].op = "alloc" /\ script[j].file = file
      BY <2>3 DEF Known
    <3>2. j \in 1 .. ran
      BY <2>2, <3>1
    <3> QED BY <1>2, <3>1, <3>2 DEF Ran
  <2> QED BY <2>1, <2>2, <2>3 DEF Ready
<1>5. ScriptLength
  <2>1. pc = "firmware" => Loading
    BY DEF LinkInv
  <2> QED BY <2>1 DEF Loading, ScriptLength
<1> QED BY <1>3, <1>4, <1>5 DEF ScriptSound

(* ... a sum that was stored is still there, as no command spoils it.      *)
LEMMA LinkSums == LinkInv => SumsStayValid
<1> SUFFICES ASSUME LinkInv, Loaded PROVE SumsStayValid
  BY DEF SumsStayValid
<1>1. /\ Loading /\ memory.sums = {c \in Cmds(script) : c.op = "checksum"}
      /\ memory.patched = {c \in Cmds(script) : c.op = "pointer"}
  BY AllRan
<1>2. ASSUME NEW s \in DOMAIN where \ {"FACS", "USER"}
      PROVE  \E c \in memory.sums : c.file = "tables" /\ c.off = where[s].off /\ c.w = where[s].len
  <2> DEFINE c == Checksum("tables", where[s].off, where[s].len, where[s].off + ChecksumOffset)
  <2>1. c \in Cmds(script)
    BY <1>1, <1>2 DEF Loading, Summed, InPlace
  <2>2. c.op = "checksum" /\ c.file = "tables" /\ c.off = where[s].off /\ c.w = where[s].len
    BY DEF Checksum
  <2> HIDE DEF c
  <2> QED BY <1>1, <2>1, <2>2
<1>3. Cardinality({c \in memory.sums : c.file = "rsdp"}) = IF config.rsdp = 2 THEN 2 ELSE 1
  <2> DEFINE a == Checksum("rsdp", 0, 20, 8)  b == Checksum("rsdp", 0, 36, 32)
  <2>1. {c \in memory.sums : c.file = "rsdp"} = RsdpSums
    BY <1>1 DEF Loading, RsdpSummed
  <2>2. a # b
    <3>1. a.w = 20 /\ b.w = 36
      BY DEF Checksum
    <3> QED BY <3>1
  <2> HIDE DEF a, b
  <2>3. RsdpSums = {a} \union (IF config.rsdp = 2 THEN {b} ELSE {})
    BY DEF RsdpSums, a, b
  <2> DEFINE A == {a}
  <2>4. IsFiniteSet(A) /\ Cardinality(A) = 1 /\ b \notin A
    BY <2>2, FS_Singleton
  <2>5. RsdpSums = IF config.rsdp = 2 THEN A \union {b} ELSE A
    BY <2>3
  <2> HIDE DEF A
  <2>6. Cardinality(A \union {b}) = Cardinality(A) + 1
    BY <2>4, FS_AddElement
  <2>7. Cardinality(A \union {b}) = 2
    BY <2>4, <2>6
  <2> QED BY <2>1, <2>4, <2>5, <2>7
<1> QED BY <1>2, <1>3 DEF SumsStayValid

(* ... and a pointer that was patched stays so.                            *)
LEMMA LinkFound == LinkInv => EveryTableFound
<1> SUFFICES ASSUME LinkInv, Loaded PROVE EveryTableFound
  BY DEF EveryTableFound
<1>1. Loading /\ memory.patched = {c \in Cmds(script) : c.op = "pointer"}
  BY AllRan
<1>2. \A s : Rooted(s) => \E c \in memory.patched : c.file = "rsdp" /\ c.dstOff = where[s].off
  BY <1>1 DEF Rooted
<1>3. \A s, t : Refers(s, t) => PointsTo(s, t)
  BY <1>1 DEF Refers, InBody, PointsTo
<1> QED BY <1>1, <1>2, <1>3 DEF EveryTableFound, Loading, FadtRefers, InPlace

(* Whatever tables the machine has, the script can be executed command by  *)
(* command and is as long as the tables it is built for imply.             *)
THEOREM LinkScriptSound == LinkSpec => []ScriptSound
<1>1. LinkInv => ScriptSound
  BY LinkSound
<1> QED BY <1>1, LinkInvInit, LinkStep, PTL DEF LinkSpec

(* When the firmware is done, every checksum it stored is still right.     *)
THEOREM LinkSumsValid == LinkSpec => []SumsStayValid
<1> QED BY LinkSums, LinkInvInit, LinkStep, PTL DEF LinkSpec

(* When the firmware is done, each table is reached from the RSDP.         *)
THEOREM LinkTablesFound == LinkSpec => []EveryTableFound
<1> QED BY LinkFound, LinkInvInit, LinkStep, PTL DEF LinkSpec
=============================================================================
