----------------------------- MODULE AcpiLinker -----------------------------
(***************************************************************************)
(* acpi_build (src/acpi-build.c) puts one table after the other into the   *)
(* blob "tables" and records for the firmware, in the linker script, which *)
(* fields are pointers and which byte ranges have a checksum.  The         *)
(* firmware allocates the files, adds their addresses to the fields and    *)
(* computes the sums, command by command.                                  *)
(*                                                                         *)
(* A table is a sequence of fields; only their widths and the pointers     *)
(* matter here.                                                            *)
(***************************************************************************)
EXTENDS Integers, Sequences, FiniteSets

CONSTANTS
  Optional,     \* the optional tables an instance looks at
  FadtLayouts,  \* <<revision, minor>> of the FADT
  Revisions,    \* revisions of the RSDP: 0, or 2 where an XSDT is built
  OtherLen,     \* body length of a table another file builds
  Nowhere       \* what a field that is no pointer points to

F(w)    == [w |-> w, to |-> Nowhere]
P(w, t) == [w |-> w, to |-> t]

(* Where the k-th field ends, and how long all of them are.                *)
Ends(fields) ==
  LET end[k \in 0 .. Len(fields)] ==
        IF k = 0 THEN 0 ELSE end[k - 1] + fields[k].w
  IN  end
W(fields) == Ends(fields)[Len(fields)]

(* The header acpi_table_begin appends: signature, Length, Revision,       *)
(* Checksum, OEMID, OEM Table ID, OEM Revision, Creator ID and Revision.   *)
Header == <<F(4), F(4), F(1), F(1), F(6), F(8), F(4), F(4), F(4)>>
ChecksumOffset == 9

Facs == <<F(4), F(4), F(4), F(4), F(4), F(4), F(40)>>
Gas == F(12)

(* build_fadt: what every revision has, what 2.0 and later add up to the   *)
(* extended blocks, the sleep registers of 5.0 and the vendor field of 6.0.*)
FadtFields(rev, minor) ==
  <<P(4, "FACS"), P(4, "DSDT"), F(12), F(32), F(8), F(8), F(5), F(2), F(1), F(4)>>
  \o (IF rev = 1 THEN << >>
      ELSE <<Gas, F(1)>>
           \o (IF rev >= 6 \/ (rev = 5 /\ minor > 0) THEN <<F(2), F(1)>> ELSE <<F(3)>>)
           \o <<F(8), P(8, "DSDT"), Gas, Gas, Gas, Gas, Gas, Gas, Gas, Gas>>)
  \o (IF rev <= 4 THEN << >> ELSE <<Gas, Gas>>)
  \o (IF rev <= 5 THEN << >> ELSE <<F(8)>>)

Tpm2Fields == <<F(2), F(2), F(8), F(4), F(12), F(4), P(8, "LOG")>>
TcpaFields == <<F(2), F(4), P(8, "LOG")>>
HpetFields == <<F(4), Gas, F(1), F(2), F(1)>>
WaetFields == <<F(4)>>

Body(sig, layout) ==
  CASE sig = "FACP" -> FadtFields(layout[1], layout[2])
    [] sig = "TPM2" -> Tpm2Fields
    [] sig = "TCPA" -> TcpaFields
    [] sig = "HPET" -> HpetFields
    [] sig = "WAET" -> WaetFields
    [] OTHER        -> <<F(OtherLen)>>

(* The order acpi_build appends in.  Tables of the user, which bring their *)
(* own checksum, are the last ones the RSDT lists.                         *)
Order == <<"FACS", "DSDT", "FACP", "APIC", "ERST", "VMGENID", "HPET", "TCPA",
           "TPM2", "SRAT", "SLIT", "HMAT", "MCFG", "IVRS", "DMAR", "VIOT",
           "NFIT", "CEDT", "WAET", "USER">>
Required == {"FACS", "DSDT", "FACP", "APIC", "WAET"}
Rank(sig) == CHOOSE k \in 1 .. Len(Order) : Order[k] = sig

ASSUME TablesAssumption ==
  /\ Optional \subseteq {Order[k] : k \in 1 .. Len(Order)} \ Required
  /\ FadtLayouts \subseteq Nat \X Nat
  /\ Revisions \subseteq {0, 2}
  /\ OtherLen \in Nat
  /\ Nowhere \notin {"FACS", "DSDT", "LOG"}

(* The conditions around the calls: a TPM has one version and the machine  *)
(* one IOMMU, SLIT and HMAT are built when there are NUMA nodes.           *)
Configs ==
  {c \in SUBSET Optional :
    /\ Cardinality(c \cap {"TCPA", "TPM2"}) <= 1
    /\ Cardinality(c \cap {"IVRS", "DMAR", "VIOT"}) <= 1
    /\ c \cap {"SLIT", "HMAT"} # {} => "SRAT" \in c}

-----------------------------------------------------------------------------
(* Commands of the script (bios_linker_loader), in the order of the calls. *)
(* Nothing below relies on the builder of the script moving the            *)
(* allocations to its front.                                               *)
Alloc(file) == [op |-> "alloc", file |-> file]
Pointer(file, off, w, dst, dstOff) ==
  [op |-> "pointer", file |-> file, off |-> off, w |-> w, dst |-> dst,
   dstOff |-> dstOff]
Checksum(file, start, len, at) ==
  [op |-> "checksum", file |-> file, off |-> start, w |-> len, at |-> at]

VARIABLES
  pc,       \* "tables", "roots", "firmware"
  config,   \* the optional tables of this machine, FADT layout, RSDP revision
  todo,     \* the tables acpi_build has yet to come to
  where,    \* signature -> [off, len] in the blob "tables"
  len,      \* length of that blob
  listed,   \* table_offsets
  script,   \* the linker script
  ran,      \* commands the firmware has executed
  memory    \* what the firmware has done: files, patched fields, sums

linkVars == <<pc, config, todo, where, len, listed, script, ran, memory>>

LinkInit ==
  /\ pc = "tables"
  /\ config \in [tables : Configs, fadt : FadtLayouts, rsdp : Revisions]
  /\ todo = Required \union config.tables
  /\ where = << >>
  /\ len = 0
  /\ listed = << >>
  /\ script = <<Alloc("tables")>>
  /\ ran = 0
  /\ memory = [files |-> {}, patched |-> {}, sums |-> {}]

Place(sig, n) == [s \in DOMAIN where \union {sig} |->
                   IF s = sig THEN [off |-> len, len |-> n] ELSE where[s]]

(* The pointer commands of a table whose fields start at off; a table has  *)
(* been placed before the ones that point to it.                           *)
PointerOf(f, at) ==
  IF f.to = "LOG" THEN Pointer("tables", at, f.w, "tpmlog", 0)
                  ELSE Pointer("tables", at, f.w, "tables", where[f.to].off)

Pointers(fields, off) ==
  LET cmds[k \in 0 .. Len(fields)] ==
        IF k = 0 THEN << >>
        ELSE IF fields[k].to = Nowhere THEN cmds[k - 1]
        ELSE Append(cmds[k - 1], PointerOf(fields[k], off + Ends(fields)[k - 1]))
  IN  cmds[Len(fields)]

(* The next table in acpi_build's order.                                   *)
NextTable(sig) == sig \in todo /\ \A s \in todo : Rank(sig) <= Rank(s)

(* build_facs: no header, no checksum, not listed in the RSDT.             *)
BuildFacs ==
  /\ pc = "tables" /\ NextTable("FACS")
  /\ where' = Place("FACS", W(Facs))
  /\ len' = len + W(Facs)
  /\ todo' = todo \ {"FACS"}
  /\ UNCHANGED <<pc, config, listed, script, ran, memory>>

(* Seeded fault: the checksum command added before the pointers.           *)
TableCommandsSumFirst(sig, fields) ==
  (IF sig \in {"TPM2", "TCPA"} THEN <<Alloc("tpmlog")>> ELSE << >>)
  \o (IF sig = "USER" THEN << >>
      ELSE <<Checksum("tables", len, W(fields), len + ChecksumOffset)>>)
  \o Pointers(fields, len)

(* Seeded fault: the log's pointer added before the log is allocated.      *)
TableCommandsAllocLast(sig, fields) ==
  Pointers(fields, len)
  \o (IF sig \in {"TPM2", "TCPA"} THEN <<Alloc("tpmlog")>> ELSE << >>)
  \o (IF sig = "USER" THEN << >>
      ELSE <<Checksum("tables", len, W(fields), len + ChecksumOffset)>>)

(* acpi_table_end adds the checksum when all of a table's commands are in. *)
TableCommands(sig, fields) ==
  (IF sig \in {"TPM2", "TCPA"} THEN <<Alloc("tpmlog")>> ELSE << >>)
  \o Pointers(fields, len)
  \o (IF sig = "USER" THEN << >>
      ELSE <<Checksum("tables", len, W(fields), len + ChecksumOffset)>>)

(* Seeded fault: acpi_add_table called after the table is appended.        *)
BuildTableListsEnd(sig) ==
  /\ pc = "tables" /\ sig # "FACS" /\ NextTable(sig)
  /\ LET fields == Header \o Body(sig, config.fadt)
     IN  /\ where' = Place(sig, W(fields))
         /\ len' = len + W(fields)
         /\ listed' = IF sig = "DSDT" THEN listed ELSE Append(listed, len')
         /\ script' = script \o TableCommands(sig, fields)
  /\ todo' = todo \ {sig}
  /\ UNCHANGED <<pc, config, ran, memory>>

(* acpi_add_table, acpi_table_begin, the fields, acpi_table_end.           *)
BuildTable(sig) ==
  /\ pc = "tables" /\ sig # "FACS" /\ NextTable(sig)
  /\ LET fields == Header \o Body(sig, config.fadt)
     IN  /\ where' = Place(sig, W(fields))
         /\ len' = len + W(fields)
         /\ listed' = IF sig = "DSDT" THEN listed ELSE Append(listed, len)
         /\ script' = script \o TableCommands(sig, fields)
  /\ todo' = todo \ {sig}
  /\ UNCHANGED <<pc, config, ran, memory>>

(* build_rsdt (w = 4) and build_xsdt (w = 8): an entry for each listed     *)
(* table, then the checksum.                                               *)
RootCommands(w, off) ==
  [k \in 1 .. Len(listed) |->
    Pointer("tables", off + W(Header) + w * (k - 1), w, "tables", listed[k])]
  \o <<Checksum("tables", off, W(Header) + w * Len(listed), off + ChecksumOffset)>>

(* build_rsdp: the fields of ACPI 1.0 are 20 bytes long, those of 2.0 36.  *)
RsdpCommands(rsdt, xsdt) ==
  <<Alloc("rsdp"), Pointer("rsdp", 16, 4, "tables", rsdt), Checksum("rsdp", 0, 20, 8)>>
  \o (IF config.rsdp = 0 THEN << >>
      ELSE <<Pointer("rsdp", 24, 8, "tables", xsdt), Checksum("rsdp", 0, 36, 32)>>)

BuildRoots ==
  /\ pc = "tables" /\ todo = {}
  /\ LET rsdtLen == W(Header) + 4 * Len(listed)
         xsdt == len + rsdtLen
     IN  /\ where' = [s \in DOMAIN where \union {"RSDT"}
                          \union (IF config.rsdp = 2 THEN {"XSDT"} ELSE {}) |->
                       CASE s = "RSDT" -> [off |-> len, len |-> rsdtLen]
                         [] s = "XSDT" -> [off |-> xsdt,
                                           len |-> W(Header) + 8 * Len(listed)]
                         [] OTHER -> where[s]]
         /\ len' = xsdt + (IF config.rsdp = 2 THEN W(Header) + 8 * Len(listed) ELSE 0)
         /\ script' = script \o RootCommands(4, len)
                        \o (IF config.rsdp = 2 THEN RootCommands(8, xsdt) ELSE << >>)
                        \o RsdpCommands(len, xsdt)
  /\ pc' = "firmware"
  /\ UNCHANGED <<config, todo, listed, ran, memory>>

-----------------------------------------------------------------------------
(* The firmware's loader.  A pointer written into a summed range spoils    *)
(* the sum; the byte a sum is stored in is part of its own range only.     *)
Overlaps(c, off, w) == c.off < off + w /\ off < c.off + c.w

Execute ==
  /\ pc = "firmware" /\ ran < Len(script)
  /\ LET c == script[ran + 1]
         spoiled(off, w) == {s \in memory.sums : s.file = c.file /\ Overlaps(s, off, w)}
     IN memory' =
          CASE c.op = "alloc" -> [memory EXCEPT !.files = @ \union {c.file}]
            [] c.op = "pointer" ->
                 [memory EXCEPT !.patched = @ \union {c}, !.sums = @ \ spoiled(c.off, c.w)]
            [] OTHER ->
                 [memory EXCEPT !.sums = (@ \ spoiled(c.at, 1)) \union {c}]
  /\ ran' = ran + 1
  /\ UNCHANGED <<pc, config, todo, where, len, listed, script>>

LinkNext ==
  BuildFacs \/ (\E sig \in todo : BuildTable(sig)) \/ BuildRoots \/ Execute

LinkSpec == LinkInit /\ [][LinkNext]_linkVars

-----------------------------------------------------------------------------
Loaded == pc = "firmware" /\ ran = Len(script)

LinkTypeOK ==
  /\ len \in Nat /\ ran \in 0 .. Len(script)
  /\ memory.files \subseteq {"tables", "tpmlog", "rsdp"}
  /\ \A s \in DOMAIN where : where[s].off + where[s].len <= len

(* The firmware meets no command about a file it has not allocated yet.    *)
AllocatedFirst ==
  pc = "firmware" /\ ran < Len(script) =>
    LET c == script[ran + 1] IN
      /\ c.op # "alloc" => c.file \in memory.files
      /\ c.op = "pointer" => c.dst \in memory.files

(* A sum is final: no later command changes a byte it covers, so each      *)
(* table but FACS and the user's ends with its checksum valid; and so does *)
(* the RSDP, whose XSDT pointer is outside what the first sum covers.      *)
SumsStayValid ==
  Loaded =>
    /\ \A s \in DOMAIN where \ {"FACS", "USER"} :
         \E c \in memory.sums : c.file = "tables" /\ c.off = where[s].off
                                  /\ c.w = where[s].len
    /\ Cardinality({c \in memory.sums : c.file = "rsdp"}) =
         IF config.rsdp = 2 THEN 2 ELSE 1

(* An operating system that starts at the RSDP finds every table: a field  *)
(* of it, of the RSDT and XSDT and of the FADT points to its start.        *)
PointsTo(from, s) ==
  \E c \in memory.patched :
    /\ c.file = "tables" /\ c.dst = "tables" /\ c.dstOff = where[s].off
    /\ where[from].off + W(Header) <= c.off
    /\ c.off + c.w <= where[from].off + where[from].len
EveryTableFound ==
  Loaded =>
    /\ \E c \in memory.patched : c.file = "rsdp" /\ c.dstOff = where["RSDT"].off
    /\ config.rsdp = 2 =>
         \E c \in memory.patched : c.file = "rsdp" /\ c.dstOff = where["XSDT"].off
    /\ \A s \in DOMAIN where \ {"FACS", "DSDT", "RSDT", "XSDT"} :
         PointsTo("RSDT", s) /\ (config.rsdp = 2 => PointsTo("XSDT", s))
    /\ PointsTo("FACP", "FACS") /\ PointsTo("FACP", "DSDT")

(* The length of the script is a function of how many tables are listed    *)
(* and of the TPM: the file's length, a multiple of 32 commands, changes   *)
(* when a table that appears later (MCFG, once the guest has mapped it)    *)
(* is the one that fills a page.                                           *)
ScriptLength ==
  pc = "firmware" =>
    LET user == IF "USER" \in config.tables THEN 1 ELSE 0
        tpm == IF config.tables \cap {"TPM2", "TCPA"} # {} THEN 2 ELSE 0
        fadt == IF config.fadt[1] = 1 THEN 2 ELSE 3
        roots == IF config.rsdp = 2 THEN Len(listed) + 3 ELSE 0
    IN  Len(script) = 6 + 2 * Len(listed) - user + tpm + fadt + roots

(* A script that can be executed from its first command to its last.       *)
ScriptSound == LinkTypeOK /\ AllocatedFirst /\ ScriptLength
=============================================================================
