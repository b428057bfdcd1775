--------------------------- MODULE AcpiBuildState ---------------------------
(***************************************************************************)
(* The reference implementation's life cycle of the tables (acpi-build.c): *)
(* acpi_setup builds them once and exposes three files to the guest;       *)
(* acpi_build_update, called when the guest selects one of the files,      *)
(* rebuilds all three the first time after a reset; the flag `patched'     *)
(* and the files that are RAM travel with a migration.                     *)
(*                                                                         *)
(* A file's contents are represented by the shape of the machine that they *)
(* were built from, its length matters separately: the guest reads the     *)
(* lengths from a directory before it selects any file.                    *)
(*                                                                         *)
(* fw_cfg and the firmware are not part of the repository.  As used there: *)
(* selecting a file runs its callback before the first byte is read, data  *)
(* are read piecewise, and other events come in between.  The callbacks    *)
(* run under QEMU's big lock: each is one step.                            *)
(***************************************************************************)
EXTENDS Integers, FiniteSets

CONSTANTS
  Shapes,        \* what acpi_build can find the machine to be
  RawLen(_),     \* tables_blob->len after all tables are appended
  AmlLen(_),     \* aml_len, the share of DSDT and FADT in it
  CmdLen(_),     \* the linker's cmd_blob->len
  AlignSize,     \* ACPI_BUILD_ALIGN_SIZE
  TableSize,     \* ACPI_BUILD_TABLE_SIZE
  LegacyLen,     \* the legacy AML length of old machine types, 0 on others
  ResizableBlob, \* pcmc->resizable_acpi_blob
  RsdpInRam,     \* pcmc->rsdp_in_ram
  Peers,         \* shapes with which a migration's destination is set up
  None

Files == {"tables", "linker", "rsdp"}

ASSUME SizesAssumption ==
  /\ AlignSize \in Nat \ {0} /\ TableSize \in Nat \ {0}
  /\ LegacyLen \in Nat
  /\ ResizableBlob \in BOOLEAN /\ RsdpInRam \in BOOLEAN
ASSUME ShapesAssumption ==
  /\ None \notin Shapes /\ None \notin Files /\ None \notin [Files -> Nat]
  /\ Peers \subseteq Shapes
  /\ \A s \in Shapes : /\ RawLen(s) \in Nat \ {0}
                       /\ CmdLen(s) \in Nat
                       /\ AmlLen(s) \in 0 .. RawLen(s)

(* "Subtracting aml_len gives the size of fixed tables": the other tables  *)
(* of a legacy machine do not vary.                                        *)
ASSUME FixedAssumption ==
  LegacyLen > 0 =>
    \A s, t \in Shapes : RawLen(s) - AmlLen(s) = RawLen(t) - AmlLen(t)

-----------------------------------------------------------------------------
(* acpi_align_size                                                         *)
RoundUp(n, align) == ((n + align - 1) \div align) * align

(* Seeded fault: the buffer of a whole ACPI_BUILD_TABLE_SIZE left out.     *)
TablesLenTight(s) == RoundUp(RawLen(s), AlignSize)

(* The length acpi_build gives to the tables.  For a legacy machine it is  *)
(* computed, and the tables are cut off when they do not fit.              *)
TablesLen(s) ==
  IF LegacyLen > 0
    THEN RoundUp(RawLen(s) - AmlLen(s) + LegacyLen, AlignSize)
    ELSE RoundUp(RawLen(s), TableSize)

(* warn_report("ACPI table size %u exceeds %d bytes ...")                  *)
Warns(s) ==
  /\ ~ResizableBlob
  /\ IF LegacyLen > 0 THEN RawLen(s) > TablesLen(s)
                      ELSE RawLen(s) > TableSize \div 2

(* The files that acpi_build makes for a machine of shape s.  The RSDP has *)
(* always the same length.                                                 *)
FileLen(f, s) ==
  CASE f = "tables" -> TablesLen(s)
    [] f = "linker" -> RoundUp(CmdLen(s), AlignSize)
    [] f = "rsdp"   -> 1

VARIABLES
  machine,  \* what acpi_build would find
  blob,     \* the shape each file's contents were built from
  patched,  \* AcpiBuildState.patched
  dir,      \* the lengths the guest read from the directory, or None
  reading,  \* the file that the guest is reading, or None
  pos,      \* ... and how far it has got
  seen,     \* the shapes it has read from each file since the reset
  short,    \* files it took for complete though their end was missing
  warned,   \* the warning has been printed, here or on a peer
  lengths   \* the lengths acpi_build has given to the tables

vars == <<machine, blob, patched, dir, reading, pos, seen, short, warned,
          lengths>>

guest == <<dir, reading, pos, seen, short>>
Unread == [f \in Files |-> {}]

(* What every call of acpi_build leaves behind.                            *)
Built(s) ==
  /\ warned' = (warned \/ Warns(s))
  /\ lengths' = lengths \union {TablesLen(s)}

(* acpi_setup: the files are exposed as built, but not `patched'.          *)
Init ==
  /\ machine \in Shapes
  /\ blob = [f \in Files |-> machine]
  /\ patched = 0
  /\ dir = None /\ reading = None /\ pos = 0
  /\ seen = Unread /\ short = {}
  /\ warned = Warns(machine)
  /\ lengths = {TablesLen(machine)}

(* The guest programs the chipset (MCFG base, PCI holes), a device is      *)
(* plugged in ...                                                          *)
Reconfigure ==
  /\ machine' \in Shapes
  /\ UNCHANGED <<blob, patched, guest, warned, lengths>>

(* Seeded fault: every access rebuilds.                                    *)
UpdateAlways ==
  /\ patched' = 1
  /\ blob' = [f \in Files |-> machine]
  /\ Built(machine)

(* acpi_build_update                                                       *)
Update ==
  IF patched = 1
    THEN UNCHANGED <<patched, blob, warned, lengths>>
    ELSE /\ patched' = 1
         /\ blob' = [f \in Files |-> machine]
         /\ Built(machine)

ReadDirectory ==
  /\ reading = None
  /\ dir' = [f \in Files |-> FileLen(f, blob[f])]
  /\ UNCHANGED <<machine, blob, patched, reading, pos, seen, short, warned,
                 lengths>>

Select(f) ==
  /\ dir # None
  /\ Update
  /\ reading' = f
  /\ pos' = 0
  /\ UNCHANGED <<machine, dir, seen, short>>

(* The next bytes of the file; behind its end there are zeros.             *)
ReadData ==
  /\ reading # None
  /\ pos < dir[reading]
  /\ pos' = pos + 1
  /\ seen' = IF pos < FileLen(reading, blob[reading])
               THEN [seen EXCEPT ![reading] = @ \union {blob[reading]}]
               ELSE seen
  /\ UNCHANGED <<machine, blob, patched, dir, reading, short, warned, lengths>>

(* The bytes of a file that mean something.                                *)
ContentLen(f, s) == IF f = "tables" THEN RawLen(s) ELSE FileLen(f, s)

FinishFile ==
  /\ reading # None
  /\ pos = dir[reading]
  /\ reading' = None
  /\ pos' = 0
  /\ LET held == FileLen(reading, blob[reading])
     IN  short' = IF /\ ContentLen(reading, blob[reading]) <= pos
                     /\ ContentLen(reading, blob[reading]) <= held
                    THEN short
                    ELSE short \union {reading}
  /\ UNCHANGED <<machine, blob, patched, dir, seen, warned, lengths>>

ResetGuest ==
  /\ machine' \in Shapes
  /\ dir' = None /\ reading' = None /\ pos' = 0
  /\ seen' = Unread /\ short' = {}
  /\ UNCHANGED <<blob, warned, lengths>>

(* Seeded fault: acpi_build_reset is not registered.                       *)
ResetUnregistered == ResetGuest /\ UNCHANGED patched

(* A system reset, with acpi_build_reset among its handlers.               *)
Reset == ResetGuest /\ patched' = 0

(* The destination runs acpi_setup for the shape it starts with; then the  *)
(* files that are RAM are overwritten with the source's.  g_memdup's copy  *)
(* of the RSDP is not RAM.                                                 *)
MigrateFiles ==
  \E s \in Peers :
    /\ blob' = [f \in Files |-> IF f = "rsdp" /\ ~RsdpInRam THEN s
                                                            ELSE blob[f]]
    /\ Built(s)
    /\ UNCHANGED <<machine, guest>>

(* vmstate_acpi_build: `patched' goes along.                               *)
Migrate == MigrateFiles /\ UNCHANGED patched

Next ==
  \/ Reconfigure
  \/ ReadDirectory
  \/ \E f \in Files : Select(f)
  \/ ReadData
  \/ FinishFile
  \/ Reset
  \/ Migrate

Spec == Init /\ [][Next]_vars

-----------------------------------------------------------------------------
(***************************************************************************)
(* Properties                                                              *)
(***************************************************************************)

TypeOK ==
  /\ machine \in Shapes
  /\ blob \in [Files -> Shapes]
  /\ patched \in {0, 1}
  /\ dir \in [Files -> Nat] \union {None}
  /\ reading \in Files \union {None}
  /\ pos \in Nat
  /\ reading # None => dir # None /\ pos <= dir[reading]
  /\ seen \in [Files -> SUBSET Shapes]
  /\ short \subseteq Files
  /\ warned \in BOOLEAN
  /\ lengths \subseteq Nat

(* The tables, the linker script that patches them and the RSDP that leads *)
(* to them, as the firmware read them, belong together, although it reads  *)
(* them one after the other and piecewise, and the machine is reconfigured *)
(* and migrated in between.                                                *)
OneSnapshot ==
  \A f, g \in Files : \A s \in seen[f], t \in seen[g] : s = t

(* What acpi_build_update and acpi_build_reset are for: the files are a    *)
(* snapshot, taken at the first access after a reset.                      *)
Snapshot == INSTANCE AcpiSnapshot
  WITH snapshot <- IF patched = 1 THEN blob["tables"] ELSE None
ImplementsSnapshot == Snapshot!Spec

(* The padding to ACPI_BUILD_TABLE_SIZE: as long as the warning has not    *)
(* been printed, the tables of this machine have had one length only, on   *)
(* both sides of every migration.                                          *)
SizeStable ==
  (~ResizableBlob /\ ~warned) => \A m, n \in lengths : m = n

(* ... and the length in the directory, which the guest reads before the   *)
(* tables are rebuilt, is enough to read the tables to the end.            *)
WholeTables ==
  (~ResizableBlob /\ ~warned) => "tables" \notin short

(* acpi_setup says of the RSDP: "we'll update it along with the rest of    *)
(* tables on guest access": when the guest turns to the RSDP, it is as new *)
(* as the tables.                                                          *)
RsdpUpdatedAlong ==
  [][(reading # "rsdp" /\ reading' = "rsdp") =>
       blob'["rsdp"] = blob'["tables"]]_vars
=============================================================================
