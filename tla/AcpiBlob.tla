------------------------------ MODULE AcpiBlob ------------------------------
(***************************************************************************)
(* build_minimal_acpi (src/src/acpi/mod.rs) on an AcpiBlobBuilder          *)
(* (src/src/acpi/blob.rs): the tables are appended to one blob, each       *)
(* returned offset is remembered in a local variable, the addresses of the *)
(* tables are put into the FADT, the RSDT and the RSDP, and the layout map *)
(* is filled from the builder's directory.                                 *)
(*                                                                         *)
(* The order in which tables are appended and the order in which their     *)
(* addresses are pushed into the RSDT are two separate pieces of code; so  *)
(* are the bytes of the blob (`image', at true positions) and the          *)
(* directory (`tables', at offsets truncated to 32 bits).  They are kept   *)
(* separate here too.                                                      *)
(***************************************************************************)
EXTENDS Integers, Sequences, FiniteSets

CONSTANTS
  Configs,    \* the PlatformConfigs to build for
  DsdtLen(_), \* build_dsdt(config).len(), see module Dsdt
  U32,        \* 2^32, or less to reach the truncations with small numbers
  None        \* Rust's Option::None

ASSUME U32Assumption == U32 \in Nat \ {0}

Tpms   == {"TCPA", "TPM2"}
Iommus == {"DMAR", "IVRS", "VIOT"}

(* The fields of PlatformConfig that build_minimal_acpi looks at.          *)
(* cpu_apic_ids is 0 .. cpus-1, as intel_tdx_q35 fills it.                 *)
IsConfig(c) ==
  /\ c.base \in Nat
  /\ c.front \in Nat
  /\ c.cpus \in Nat
  /\ c.hpet \in BOOLEAN /\ c.mcfg \in BOOLEAN /\ c.vmgenid \in BOOLEAN
  /\ c.numa \in BOOLEAN /\ c.slit \in BOOLEAN /\ c.hmat \in BOOLEAN
  /\ c.nvdimm \in BOOLEAN /\ c.cxl \in BOOLEAN /\ c.compat \in BOOLEAN
  /\ c.tpm \in Tpms \union {None}
  /\ c.iommu \in Iommus \union {None}

ASSUME ConfigsAssumption == \A c \in Configs : IsConfig(c)
ASSUME DsdtLenAssumption == \A c \in Configs : DsdtLen(c) \in Nat /\ DsdtLen(c) >= 36
ASSUME NoneAssumption ==
  None \notin Nat /\ None \notin Tpms /\ None \notin Iommus /\
  None \notin {"FACS", "DSDT", "FACP", "APIC", "SSDT", "HPET", "SRAT", "SLIT",
               "HMAT", "MCFG", "NFIT", "CEDT", "WAET", "RSDT"}

-----------------------------------------------------------------------------
(***************************************************************************)
(* The tables.  A slot is one of the `*_offset' locals.                    *)
(***************************************************************************)

(* Seeded fault: a block pasted twice.                                     *)
AppendOrderTwice ==
  <<"facs", "dsdt", "fadt", "madt", "vmgenid", "hpet", "tcpa", "srat", "slit",
    "hmat", "mcfg", "iommu", "nfit", "cedt", "waet", "waet">>

(* The order of the append_table and append_placeholder_table calls.       *)
AppendOrder ==
  <<"facs", "dsdt", "fadt", "madt", "vmgenid", "hpet", "tcpa", "srat", "slit",
    "hmat", "mcfg", "iommu", "nfit", "cedt", "waet">>

(* Seeded fault: an optional table whose address is not pushed.            *)
EntryOrderNoSlit ==
  <<"fadt", "madt", "vmgenid", "hpet", "tcpa", "srat", "hmat", "mcfg",
    "iommu", "nfit", "cedt", "waet">>

(* The order of the rsdt_entries pushes.                                   *)
EntryOrder ==
  <<"fadt", "madt", "vmgenid", "hpet", "tcpa", "srat", "slit", "hmat", "mcfg",
    "iommu", "nfit", "cedt", "waet">>

Slots == {AppendOrder[k] : k \in 1 .. 15}

OnlyIf(switch, signature) == IF switch THEN signature ELSE None

(* The signature a slot is appended with, None when config leaves it out.  *)
Signature(c, slot) ==
  CASE slot = "facs"    -> "FACS"
    [] slot = "dsdt"    -> "DSDT"
    [] slot = "fadt"    -> "FACP"
    [] slot = "madt"    -> "APIC"
    [] slot = "vmgenid" -> OnlyIf(c.vmgenid, "SSDT")
    [] slot = "hpet"    -> OnlyIf(c.hpet, "HPET")
    [] slot = "tcpa"    -> c.tpm
    [] slot = "srat"    -> OnlyIf(c.numa, "SRAT")
    [] slot = "slit"    -> OnlyIf(c.slit, "SLIT")
    [] slot = "hmat"    -> OnlyIf(c.hmat, "HMAT")
    [] slot = "mcfg"    -> OnlyIf(c.mcfg, "MCFG")
    [] slot = "iommu"   -> c.iommu
    [] slot = "nfit"    -> OnlyIf(c.nvdimm, "NFIT")
    [] slot = "cedt"    -> OnlyIf(c.cxl, "CEDT")
    [] slot = "waet"    -> "WAET"

(* The tables that append_placeholder_table reserves as zero bytes.        *)
Placeholders ==
  {"SSDT", "TCPA", "TPM2", "SRAT", "SLIT", "HMAT", "DMAR", "IVRS", "VIOT",
   "NFIT", "CEDT"}

HeaderLen == 36

(* build_madt: processors, an I/O APIC and an override, then as many       *)
(* six-byte NMI entries as fit below target_madt_len.                      *)
MadtLen(c) ==
  LET current == HeaderLen + 8 + 8 * c.cpus + 12 + 10
      target  == 222 + 8 * c.cpus
  IN  IF c.compat /\ target > current
        THEN current + 6 * ((target - current) \div 6)
        ELSE current

(* optional_table_len("SRAT"): x2APIC entries from APIC id 255 on.         *)
SratLen(c) ==
  IF c.cpus <= 255 THEN 48 + 16 * c.cpus
                   ELSE 48 + 16 * 255 + 24 * (c.cpus - 255)

TableLen(c, signature) ==
  CASE signature = "FACS" -> 64
    [] signature = "DSDT" -> DsdtLen(c)
    [] signature = "FACP" -> HeaderLen + 208
    [] signature = "APIC" -> MadtLen(c)
    [] signature = "SSDT" -> 202
    [] signature = "HPET" -> HeaderLen + 20
    [] signature = "TCPA" -> 50
    [] signature = "TPM2" -> 52
    [] signature = "SRAT" -> SratLen(c)
    [] signature = "SLIT" -> 45
    [] signature = "HMAT" -> 40
    [] signature = "MCFG" -> HeaderLen + 24
    [] signature = "DMAR" -> 60
    [] signature = "IVRS" -> 64
    [] signature = "VIOT" -> 48
    [] signature = "NFIT" -> 40
    [] signature = "CEDT" -> 36
    [] signature = "WAET" -> HeaderLen + 4

-----------------------------------------------------------------------------
VARIABLES
  pc,       \* the phase build_minimal_acpi is in
  i,        \* the next slot of the phase's list, or the next directory entry
  config,   \* its argument
  size,     \* blob.data.len()
  image,    \* what the blob's bytes are: the tables at their true positions
  tables,   \* blob.tables, the directory
  at,       \* the `*_offset' locals, None before they are set
  entries,  \* rsdt_entries
  rsdp,     \* the address in the RSDP, None before it is built
  layout    \* BuiltBlob.layout

vars == <<pc, i, config, size, image, tables, at, entries, rsdp, layout>>

Init ==
  /\ pc = "front"
  /\ i = 1
  /\ config \in Configs
  /\ size = 0
  /\ image = {}
  /\ tables = <<>>
  /\ at = [s \in Slots |-> None]
  /\ entries = <<>>
  /\ rsdp = None
  /\ layout = {}

(* reserve_front, when config.front_padding > 0.                           *)
ReserveFront ==
  /\ pc = "front"
  /\ size' = IF size < config.front THEN config.front ELSE size
  /\ pc' = "append"
  /\ UNCHANGED <<i, config, image, tables, at, entries, rsdp, layout>>

(* address_of: 64 bits.                                                    *)
AddressOf(offset) == config.base + offset

(* Seeded fault: the directory gets addresses.                            *)
AppendBytesAddressed(signature, length, pointers) ==
  /\ image' = image \union
       {[table |-> signature, position |-> size, length |-> length,
         blank |-> signature \in Placeholders, pointers |-> pointers]}
  /\ tables' = Append(tables, [signature |-> signature,
                               offset |-> AddressOf(size) % U32,
                               length |-> length % U32])
  /\ size' = size + length

(* append_table and append_placeholder_table: the bytes go to the end of   *)
(* the data, the directory gets `data.len() as u32'.                       *)
AppendBytes(signature, length, pointers) ==
  /\ image' = image \union
       {[table |-> signature, position |-> size, length |-> length,
         blank |-> signature \in Placeholders, pointers |-> pointers]}
  /\ tables' = Append(tables, [signature |-> signature,
                               offset |-> size % U32,
                               length |-> length % U32])
  /\ size' = size + length

(* Seeded faults: the two addresses swapped; X_DSDT cut as well.           *)
FadtPointersSwapped ==
  <<AddressOf(at["dsdt"]) % U32, AddressOf(at["facs"]) % U32,
    AddressOf(at["dsdt"])>>

FadtPointersNarrow ==
  <<AddressOf(at["facs"]) % U32, AddressOf(at["dsdt"]) % U32,
    AddressOf(at["dsdt"]) % U32>>

(* build_fadt_with_facs: FIRMWARE_CTRL and DSDT are 32 bits wide, X_DSDT   *)
(* is 64; X_FIRMWARE_CTRL is zero.                                         *)
FadtPointers ==
  <<AddressOf(at["facs"]) % U32, AddressOf(at["dsdt"]) % U32,
    AddressOf(at["dsdt"])>>

Slot == AppendOrder[i]

(* The slot's table is switched on: it is built and appended.              *)
AppendTable ==
  /\ pc = "append"
  /\ i <= Len(AppendOrder)
  /\ Signature(config, Slot) # None
  /\ AppendBytes(Signature(config, Slot),
                 TableLen(config, Signature(config, Slot)),
                 IF Slot = "fadt" THEN FadtPointers ELSE <<>>)
  /\ at' = [at EXCEPT ![Slot] = size % U32]
  /\ i' = i + 1
  /\ UNCHANGED <<pc, config, entries, rsdp, layout>>

(* ... or switched off.                                                    *)
SkipTable ==
  /\ pc = "append"
  /\ i <= Len(AppendOrder)
  /\ Signature(config, Slot) = None
  /\ i' = i + 1
  /\ UNCHANGED <<pc, config, size, image, tables, at, entries, rsdp, layout>>

StartEntries ==
  /\ pc = "append"
  /\ i > Len(AppendOrder)
  /\ pc' = "push"
  /\ i' = 1
  /\ UNCHANGED <<config, size, image, tables, at, entries, rsdp, layout>>

(* `if let Some(offset) = ... { rsdt_entries.push(address_of(offset)) }'   *)
PushEntry ==
  /\ pc = "push"
  /\ i <= Len(EntryOrder)
  /\ entries' = IF at[EntryOrder[i]] = None
                  THEN entries
                  ELSE Append(entries, AddressOf(at[EntryOrder[i]]))
  /\ i' = i + 1
  /\ UNCHANGED <<pc, config, size, image, tables, at, rsdp, layout>>

(* build_rsdt truncates every entry to 32 bits, build_rsdp the address of  *)
(* the RSDT.                                                               *)
AppendRsdt ==
  /\ pc = "push"
  /\ i > Len(EntryOrder)
  /\ AppendBytes("RSDT", HeaderLen + 4 * Len(entries),
                 [n \in 1 .. Len(entries) |-> entries[n] % U32])
  /\ rsdp' = AddressOf(size % U32) % U32
  /\ pc' = "layout"
  /\ i' = 1
  /\ UNCHANGED <<config, at, entries, layout>>

(* layout.insert(signature, ...): a map, so an entry with the same key     *)
(* goes; the checksum byte is the tenth of a table.                        *)
InsertLayout ==
  /\ pc = "layout"
  /\ i <= Len(tables)
  /\ layout' = {l \in layout : l.signature # tables[i].signature} \union
       {[signature |-> tables[i].signature, offset |-> tables[i].offset,
         length |-> tables[i].length,
         checksum_offset |-> tables[i].offset + 9]}
  /\ i' = i + 1
  /\ UNCHANGED <<pc, config, size, image, tables, at, entries, rsdp>>

Return ==
  /\ pc = "layout"
  /\ i > Len(tables)
  /\ pc' = "done"
  /\ UNCHANGED <<i, config, size, image, tables, at, entries, rsdp, layout>>

Done ==
  /\ pc = "done"
  /\ UNCHANGED vars

Next ==
  \/ ReserveFront
  \/ AppendTable \/ SkipTable \/ StartEntries
  \/ PushEntry \/ AppendRsdt
  \/ InsertLayout \/ Return
  \/ Done

Spec == Init /\ [][Next]_vars

-----------------------------------------------------------------------------
(***************************************************************************)
(* Properties                                                              *)
(***************************************************************************)

Signatures ==
  {"FACS", "DSDT", "FACP", "APIC", "SSDT", "HPET", "SRAT", "SLIT", "HMAT",
   "MCFG", "NFIT", "CEDT", "WAET", "RSDT"} \union Tpms \union Iommus

TableRef == [signature : Signatures, offset : Nat, length : Nat]
TableLayout == [signature : Signatures, offset : Nat, length : Nat,
                checksum_offset : Nat]

(* Types of the builder's fields and of build_minimal_acpi's locals.       *)
TypeOK ==
  /\ pc \in {"front", "append", "push", "layout", "done"}
  /\ i \in Nat \ {0}
  /\ IsConfig(config)
  /\ size \in Nat
  /\ \A t \in image :
       /\ t.table \in Signatures
       /\ t.position \in Nat
       /\ t.length \in Nat /\ t.length >= 36
       /\ t.pointers \in Seq(Nat)
  /\ tables \in Seq(TableRef)
  /\ at \in [Slots -> Nat \union {None}]
  /\ entries \in Seq(Nat)
  /\ rsdp \in Nat \union {None}
  /\ layout \subseteq TableLayout

(* What is at an address of guest memory, the blob being at config.base.   *)
Addressed(address) == {t \in image : config.base + t.position = address}

(* The whole blob lies below 4 GiB.                                        *)
Low == config.base + size <= U32

(* The tables tile the blob behind the reserved front: no two overlap and  *)
(* there is no gap, for any combination of real tables, placeholders and   *)
(* switched-off tables.                                                    *)
Tiled ==
  /\ \A t, u \in image :
       \/ t = u
       \/ t.position + t.length <= u.position
       \/ u.position + u.length <= t.position
  /\ \A t \in image :
       /\ \/ t.position = config.front
          \/ \E u \in image : u.position + u.length = t.position
       /\ \/ t.position + t.length = size
          \/ \E u \in image : t.position + t.length = u.position

(* The RSDP leads to the RSDT, and the RSDT lists every table of the blob  *)
(* but itself, the FACS and the DSDT, each once and in ascending order,    *)
(* and nothing else: the list of pushes agrees with the list of appends    *)
(* under every configuration.                                              *)
RsdtListsTables ==
  (pc \in {"layout", "done"} /\ Low) =>
    \E r \in Addressed(rsdp) :
      /\ r.table = "RSDT"
      /\ \A m, n \in 1 .. Len(r.pointers) :
           m < n => r.pointers[m] < r.pointers[n]
      /\ \A n \in 1 .. Len(r.pointers) :
           \E t \in Addressed(r.pointers[n]) :
             t.table \notin {"FACS", "DSDT", "RSDT"}
      /\ \A t \in image :
           \/ t.table \in {"FACS", "DSDT", "RSDT"}
           \/ \E n \in 1 .. Len(r.pointers) : t \in Addressed(r.pointers[n])

(* The FADT is encoded before the tables behind it exist and is not        *)
(* patched afterwards: its pointers must still lead to the FACS and to the *)
(* DSDT when the blob is complete, and land on real tables.                *)
FadtFindsTables ==
  Low =>
    \A f \in image : f.table = "FACP" =>
      /\ \E t \in Addressed(f.pointers[1]) : t.table = "FACS" /\ ~t.blank
      /\ \E t \in Addressed(f.pointers[2]) : t.table = "DSDT" /\ ~t.blank

(* A blob placed above 4 GiB is still entered correctly through X_DSDT,    *)
(* the one pointer that is not truncated.                                  *)
XDsdtFindsDsdt ==
  size <= U32 =>
    \A f \in image : f.table = "FACP" =>
      \E t \in Addressed(f.pointers[3]) : t.table = "DSDT" /\ ~t.blank

(* An entry of the layout map is that of a table.                          *)
Frames(l, t) ==
  /\ l.signature = t.table
  /\ l.offset = t.position
  /\ l.offset + l.length = t.position + t.length
  /\ l.checksum_offset < t.position + t.length

(* The layout map has an entry for every table of the blob, which frames   *)
(* its bytes (two tables of one signature would lose one), and no entry    *)
(* that does not frame a table.                                            *)
LayoutFramesTables ==
  (pc = "done" /\ size < U32) =>
    /\ \A t \in image : \E l \in layout : Frames(l, t)
    /\ \A l \in layout : \E t \in image : Frames(l, t)
=============================================================================
