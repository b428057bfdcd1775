# TLA+ verification of the q35 ACPI table builder

The repository is a Rust command line program that builds the ACPI tables of a
QEMU q35 guest (an Intel TDX one) as a single binary blob, so that its size and
layout are known before the machine runs. Beside it lie two C files,
`acpi-build.c` and `aml-build.c`: QEMU's own table builder, which the Rust code
reproduces and which is the reference for what it ought to produce. Cargo does
not build them. This directory holds TLA+ models of both, the TLC runs that
check them on small instances, and TLAPS proofs for every instance.

File names below are relative to `src/`; the Rust sources are under
`src/src/acpi/`.

## Inventory

| Part | State | Operations | What makes it correct |
|---|---|---|---|
| Blob assembly: `mod.rs` `build_minimal_acpi`, `blob.rs` | `data`, `tables` (directory), `base_address`; locals `*_offset`, `rsdt_entries`, `layout` | `reserve_front`, `append_table`, `append_placeholder_table`, `address_of`, `finish`; `build_rsdt`, `build_rsdp` | tables tile the blob; RSDP → RSDT → every table; FADT → FACS, DSDT; `layout` frames every table; 32-bit truncations harmless below 4 GiB |
| DSDT padding: `dsdt/mod.rs` `encode_dsdt_with_padding` | `low`, `high`, `best`, `candidate` | bisection over the pad, fix-up loop | terminates; meets the target where a pad can; never short; overshoot bounded |
| DSDT generator: `dsdt/mod.rs` | none (pure) | one function per device, scope and method | length (used by the layout); contents |
| AML encoder: `aml.rs` | none (pure) | `to_aml_bytes` per object, `create_pkg_length` | a reader parses what was emitted; same bytes as the reference |
| Configuration: `config.rs`, `vm.rs` | `PlatformConfig`, `VmConfig` | `intel_tdx_q35`, `target_*_len`; TOML to platform: switches, devices, `devfn`s | devices keep distinct addresses; switches follow devices |
| Table bodies: `fadt.rs`, `gas.rs`, `madt.rs`, `hpet.rs`, `mcfg.rs`, `waet.rs`, `facs.rs`, `header.rs`, `checksum.rs` | none (pure) | `build_*`, `finalize_table`, `acpi_checksum` | lengths, pointers, fields that do not overlap, checksum, processor ids that agree with the DSDT |
| Command line: `main.rs` | the two output files | parse arguments, `write_blob`, `print_layout` | blob and RSDP belong to one build |
| Reference, life cycle: `acpi-build.c` `acpi_setup` … | `AcpiBuildState`: three files, `patched` | `acpi_setup`, `acpi_build_update`, `acpi_build_reset`, migration | the guest sees one snapshot per reset, read whole |
| Reference, ranges and host bridges: `aml-build.c` `crs_*`, `build_crs`; `build_dsdt`'s loop over the expanders | `CrsRangeSet` | insert, sort, merge, complement; one `_CRS` per host bridge | claims are disjoint and together the holes |
| Reference, names of the DSDT: `build_dsdt` | the AML tree | some twenty blocks | scopes exist, names are unique, what methods use is declared |
| Reference, hotplug AML: `_E01`, `PCNT`, `DVNT`, `PCEJ`, `AIDX`, `PDSM` | `BNUM` and the other registers, `BLCK` | run by the guest, concurrently | each acts on the bus it selected; no event is lost |
| Reference, interrupt routing: `build_prt`, `append_q35_prt_entry`, link devices | `PRQx` registers | `_PRT`, `_SRS`, `_DIS`, `_CRS`, `_STA` | links exist, pins on different links, settings read back |
| Reference, SRAT memory: `build_srat` | `mem_base`, `next_base` | one step per node, fillers | addresses in one node each, holes left out, a length that does not depend on the sizes |
| Reference, IOMMU: `build_dmar_q35`, `build_amd_iommu` | the scope and IVHD blobs | walks over the PCI hierarchy | every device in one entry, under the id of its requests |
| Reference, assembly: `acpi_build`, `acpi_table_begin`, `acpi_table_end`, `build_rsdt` … | `tables_blob`, linker commands | tables, pointers, checksums | all sums valid and all tables found after the firmware's run |
| Reference, descriptors: `aml_*` resources | none (pure) | one function per descriptor | a reader stays in step |

**Interactions.** `main` turns its arguments (or a `VmConfig`) into a
`PlatformConfig` and calls `build_minimal_acpi`, which calls the table builders
in a fixed order. A builder's result is appended to the blob and only its offset
is remembered; the FADT needs the offsets of two tables before it, the RSDT
those of all, the RSDP that of the RSDT. `build_dsdt` calls the AML encoder,
repeatedly when it searches for a pad. On the reference side fw_cfg calls back
into `acpi_build_update` when the guest selects a file, and the reset and
migration machinery call into the same state.

**Hard behaviours.** The Rust program is single-threaded and keeps nothing: its
hazards are numeric (widths that change with the value they encode, truncations
to 8 and 32 bits, unsigned subtractions), loops that must end although the
function they search is not linear, and lists of code that must agree under
2^10 switches. The one interface that can fail between two steps is
`write_blob`. The reference has the concurrency: a guest that reads three files
piecewise while it reprograms the chipset, resets, and migrations; a guest whose
threads run the hotplug methods over one set of registers; firmware that
programs bridges and executes the linker's commands one by one. `PROJECT.json`
lists the hazards, each at its line, with the properties that would catch them,
or the reason why there is none.

## Modules

| Module | Models | Extends / instances |
|---|---|---|
| `AmlSize` | lengths of encoded AML objects (`aml.rs`) | |
| `Dsdt` | the DSDT's length for a configuration (`dsdt/mod.rs`, `config.rs` target lengths), and `PaddedLen`, what the padding ought to return, in closed form | `AmlSize` |
| `DsdtPadding` | `encode_dsdt_with_padding`, step by step | `Dsdt` |
| `AcpiBlob` | `build_minimal_acpi` on `AcpiBlobBuilder` | |
| `PkgLength` | both PkgLength encoders and the reader | `AmlSize` |
| `AcpiSnapshot` | the promise of the life cycle: one snapshot per reset | |
| `AcpiBuildState` | the life cycle of the reference | instances `AcpiSnapshot` |
| `CrsEntries` | the steps of the two range functions, as operators (`crs_range_merge`, `crs_replace_with_free_ranges`) | |
| `CrsRanges` | the two functions, entry by entry | `CrsEntries` |
| `PciResources` | `build_crs` for each expander and `PCI0`'s `_CRS` (`build_dsdt`) | `CrsEntries` |
| `DsdtNames` | the blocks of `build_dsdt`, their scopes, names and uses of names | |
| `PciHotplug` | the hotplug methods as a guest runs them, with the hotplug device | |
| `IrqRouting` | the three `_PRT` generators (two in C, one in Rust) and the link devices | |
| `SratMemory` | the memory structures of `build_srat` | |
| `IommuScopes` | the walks of `build_dmar_q35` and `build_amd_iommu` | `FieldSums` |
| `AcpiLinker` | the tables and the linker script of `acpi_build`, and the firmware that executes it | |
| `AmlDescriptors` | the resource descriptors of `aml-build.c` and `aml.rs`, and a reader of the template | `FieldSums` |
| `FieldSums` | where each of a row of fields ends, and how long the row is | |
| `MC*` | instances for TLC | `MCAcpiBlob` instances `Dsdt`; `MCPkgLength` extends `PkgLength` and `AmlDescriptors`; `MCPciResources` extends `CrsRanges` and `PciResources` |
| `Recursion` | induction over numbers, and the existence of functions defined by recursion, for the proofs | |
| `DsdtPaddingProofs`, `AcpiBlobProofs`, `SratMemoryProofs` | theorems about one module | the module, `TLAPS`; `SratMemoryProofs` also `Recursion` |
| `AmlEncodingProofs` | theorems about `PkgLength` and `AmlDescriptors` | both, `Recursion`, `TLAPS` |
| `AcpiBuildProofs` | theorems about `AcpiBuildState` and `AcpiLinker` | both, `Recursion`, `TLAPS` |
| `CrsRangesProofs` | theorems about `CrsRanges` and `PciResources` | both, `Recursion`, `TLAPS` |
| `PciGuestProofs` | theorems about `PciHotplug`, `IrqRouting` and `IommuScopes` | all three, `Recursion`, `TLAPS` |

`MCPkgLength` and `MCPciResources` each check a pair of modules that belong
together (two views of the encoding; the loops over ranges and the host bridges
made with them) in one run: a variable `part` says which of the two a behaviour
is about, the other one's variables rest. An operator whose comment says *Seeded
fault* is a variant of a definition near it, used to show that a
property can fail.

**State and code.** `DsdtPadding` has the function's locals as variables and `pc`
for its two loops; every arm of the `match` is an action (`ProbeEqual`,
`ProbeLess`, `ProbeGreater`), so is each way out. An encoded body is represented
by its length, which is all the function looks at. `AcpiBlob` keeps apart what
the code keeps apart: `image`, the bytes at their true positions, `tables`, the
directory with truncated offsets, and `at`, the `*_offset` locals; one action
per append, skip, push and layout insertion. A table's contents are its length
and its pointers. `AcpiBuildState` represents the contents of a file by the
*shape* of the machine for which `acpi_build` was called, and lengths by
functions of the shape; each callback is one step, because callbacks run under
QEMU's big lock. `PkgLength` has the C function's locals; `create_pkg_length` is an operator.

`CrsRanges` has the loop's locals in one record and a step per entry, and takes
the steps from `CrsEntries`, from which `PciResources` makes the whole functions
(functions by recursion over the sorted array), so that both use the same
definitions. `PciResources` has an action per child of the root bus; what the
firmware has programmed is chosen at the start (`given`), and `crs` holds an
expander's resources under its position in the list of children. `DsdtNames`
keeps the namespace as a function from paths to kinds, the scopes that were
opened but not declared (`lost`), the names declared twice and the uses of
names; every block of `build_dsdt` is an action, which chooses the part of the
machine that the block looks at. In `PciHotplug` a thread has a program counter
and every access to a register or to the mutex is a step, because a guest's
interpreter may switch threads there. `AcpiLinker` has an action per table (the
order is the position in `Order` of those still to do) and one that executes the
next command; a table is a sequence of field widths with pointers, `Ends` says
where each field ends and `Pointers` which commands the table adds.
`IommuScopes` numbers the devices in the order of the walk and has an action per
device met. `SratMemory` has an action per way through the loop body. In
`AmlDescriptors` a descriptor is its tag, the length it states and the widths of
its fields.

## Runs

| Run | Question | Instance |
|---|---|---|
| `dsdt_padding` | does the search end and return the right length for every body and target? | bodies 0, 1, 36 and 5402 (the real one for one processor); targets on both sides of every change of width (pads 0, 1, 2, 63, 256, 4094, 65536) and at the program's own target |
| `acpi_blob` | do the pointers and the layout lead to the tables, and what do the truncations do? | 2 processors with all 3072 combinations of ten switches; and 0, 1, 17, 64 processors in blobs that end below, at and above the 32-bit limit (scaled to 16384), start above it, or whose own offsets wrap |
| `build_state_modern` | does the guest see one snapshot, whole? | three shapes: cold, programmed, and one beyond half the buffer; a migration to a destination of any shape |
| `build_state_rsdp` | is the RSDP updated along with the tables, as the comment in `acpi_setup` says? **Violated** | an old machine type (heap copy of the RSDP, computed legacy length), with migrations |
| `aml_encodings` | do the two PkgLength encoders agree, does a reader get the length back, and does a reader of resource templates stay in step? | lengths around every change of width and carry; templates of up to three descriptors of every encoder, GPIO connections of one to three pins |
| `host_bridges` | do merging and complement keep the addresses they should, and do the host bridges' claims stay apart and fill the holes? | every sorted array of up to three ranges over fourteen addresses; up to two children of the root bus (plain bridges, PXB and CXL expanders), every assignment of seven regions on both sides of the 32-bit limit (6) to them, with and without MMCONFIG and the 64-bit hole, the CXL window right above the limit and where its end is cut into the hole |
| `srat_memory` | is each address of each node's RAM in one structure of that node, is the hotplug window clear of them, and how many are there? | up to three nodes of sizes 0 .. 6 over holes [3, 5) and [7 or 9, 9 or 12); no device memory, or right behind the RAM, or one or two (the length of the hole) behind; 0, 1 or 4 structures of devices |
| `acpi_linker` | are all checksums valid and all tables found after the firmware's run? | every combination of the optional tables an instance may have together, all layouts of the FADT, RSDP revisions 0 and 2 |
| `dsdt_names` | do the scopes exist, are the names unique, and is what methods use declared? | both machine types; bridges in bridges with and without hotplug over five places; and ten optional devices and expanders beside a few trees |
| `pci_hotplug` | do the methods act on the bus they selected, however they interleave? Is every plugged device announced, and does every method end? | two buses; the walk of an event, an ejection and a `_DSM`, under fairness |
| `irq_routing` | which links do the tables name, and do the links read back what was set? | all 32 slots with four pins, both interrupt modes, three links the guest uses |
| `iommu_scopes` | is every device in the entry it belongs to? | hierarchies of up to three devices of every kind on two host bridges |

*Why the bounds are enough.* The padding depends on a body and a target only
through their distance and the target's lengths of length, which change at the
listed edges; the search's depth (17 probes) grows with the logarithm. The
blob's switches are exhaustive. Placement is decided by the order of three
numbers (base, end, limit), all orders are included. The life cycle's lengths
matter only relative to the buffer, half of it and each other: one shape of each
kind, and two of the fitting ones. The theorems then cover all values.
`MCAcpiBlob` also asserts (`GroundTruth`) the table lengths that the tests of
`mod.rs` assert, so that the length model is tied to the program's own numbers.
No run has a bound on its depth; every state space is finite and explored whole.

Ranges are decided by the order and the adjacency of their ends, and fourteen
addresses hold every order of three ranges. The SRAT's loop looks at one node at
a time and keeps one number, so that three nodes reach every combination of
"before, in, behind" for the two holes; the gaps in front of the device memory lie
on both sides of the distance by which a node that ends in the hole can move the
others. The linker script is exhaustive. The
walks of the IOMMU tables keep nothing between siblings; three devices give
every nesting of two bridges above a device. Two buses are enough for the
hotplug registers, since an access can only hit the wrong bus or the right one.
A template's reader keeps only its position, so that three descriptors are more
than it takes for a wrong length to show.

*Deadlock* is checked where the system goes on for ever or has an explicit
`Done`; a generator that has written its table stops, and the runs of those
modules turn the check off.

*Fairness.* `DsdtPadding` (`Termination`) has weak fairness of its next-state
relation: the code is straight-line, single-threaded and does not block.
`PciHotplug`'s `FairSpec` has weak fairness of each thread's steps, as an
interpreter gives that does not starve a runnable thread, and strong fairness of
acquiring `BLCK`, as a mutex with a queue provides: a waiting thread gets its
turn although others take the mutex in between. Nothing is assumed of the
guest's plugging and ejecting. The life cycle has none: nothing obliges a guest
to read.

### Findings

- `build_state_rsdp`. `acpi_setup` says of the heap copy of the RSDP that it is updated
  "along with the rest of tables on guest access" (`acpi-build.c:3028`). TLC finds:
  the guest selects the tables (all three files are rebuilt, `patched` is set), the
  machine is migrated (`patched` and the RAM-backed files go along, the heap copy
  is what the destination built at its own `acpi_setup`), the guest selects the
  RSDP: `patched` is set, nothing is rebuilt, and the RSDP is not as new as the
  tables. The modern machine types are not affected (`build_state_modern`), and
  without migrations the comment holds: that is proved, for every value of the
  constants (`SnapshotCorrect`, whose hypothesis is `RsdpSafe`).

### Observations

Where the code does less than one would expect in general, the property states
the exception, and no more than it:

- `FreeInsideHole`. `build_dsdt` puts the CXL host region, above 4 GiB, into the
  used ranges of the hole below 4 GiB (`acpi-build.c:1713`). The complement
  inserts a free range up to the base of every used entry, whatever `end` is
  (`aml-build.c:138`), although it is said to compute the free ranges "from the
  same interval" (`aml-build.c:123`): with a CXL expander PCI0 claims what lies
  between the hole's last used address and the CXL region, with the limit cut to
  32 bits. Without one it stays in its hole. `CutInHole`: when that cut limit lies
  in or below the hole, the last range is shorter than what is free or empty, and
  the rest of the hole is claimed by nobody; `Pci0ClaimsTheRest` leaves this case
  out.
- `RightNode`, `OneNode`. `build_srat` has a branch with the comment "Check for the
  rare case: 640K < RAM < 1M" (`acpi-build.c:2128`), but what it compares with the
  hole is the end of one node's memory, whatever follows. The branch moves
  `next_base` to 1 MiB, so that the following nodes' memory is described too high,
  by less than the hole's length, the last structure ends beyond RAM, and it can
  reach into the window for memory hotplug, which begins where the RAM above 4 GiB
  really ends or behind (`acpi-build.c:2189`). Both properties name this case as
  their one exception, and the theorems show that there is no other: nodes of RAM
  never overlap each other, and a window as far behind the RAM as the hole is
  long is out of reach.
- `FixedLength`. The SRAT is filled up to two structures more than there are nodes,
  what the two holes can cost. The structures of NVDIMM and SGX come before the
  fillers are counted (`acpi-build.c:2173`) and take their places: without devices
  the number does not depend on the sizes, with them it can (one node and one
  device make three structures, or four if the node meets both holes). The
  property says so: never fewer than nodes + 2, at most as many more as there are
  such structures, and then without a filler.
- `DsmAnswers`. Function 0 of `PDSM` knows the value of a machine without `PIDX`
  (`acpi-build.c:715`), function 7 returns it as the index.
- `ReaderInStep`, `Misstated`. The stated length of a GPIO connection has room
  for one pin (`aml-build.c:902`), the encoder writes "(2n bytes)"
  (`aml-build.c:930`). `Register` states 0x12 (18) bytes and writes the 12 of a
  `GAS` (`aml.rs:776`); the DSDT generator does not use it.
- `RustAgrees`. The Rust routing table equals the reference's only for every
  fourth of the slots below 24 and for all from there.
- `BusNumbersApart`. PCI0's bus numbers end below every expander's but in two
  cases, named there.

## Proofs

All theorems hold for every value of the constants that meets the modules'
`ASSUME`s; TLC evaluates those in the runs.

- **`DsdtPaddingProofs`.** The inductive invariant `IInv` says where the encoded
  length of `low - 1`, `high + 1` and `best` lie relative to the target; it
  needs that the length is strictly increasing in the pad and grows by at most
  a fixed amount at each step, lemmas about `AmlSize`. `SearchBrackets` follows
  when the interval is empty, hence `FixupOnce` (the first turn of the fix-up
  uses the right `high`), `ExactWhenReachable`, `NeverShort`, `OvershootBound`
  and the equality with `PaddedLen`. `SearchShrinks` is the variant of the loop.
- **`AcpiBlobProofs`.** The invariant ties `image`, `tables`, `at` and `entries`
  to the prefix of `AppendOrder` (and `EntryOrder`) that has been processed:
  positions ascend and touch, `at[slot]` is the truncated position of the slot's
  table, the entries are the addresses of the pushed slots in order. The RSDT
  theorem then needs only that the two orders list the same slots. The layout is
  the image of the directory under `LayoutOf` (`LayoutInv`), so that every table
  has an entry and every entry a table.
- **`AcpiBuildProofs`**, life cycle. `SnapshotInv`: unpatched means unread; patched
  means that the three files agree and nothing else has been read. It is
  inductive if the RSDP is RAM or there are no migrations (`RsdpSafe`): exactly
  what the finding shows to be necessary. `SnapshotImplemented` maps the abstract
  snapshot to the tables' shape while `patched`. `LengthInv`: until a warning,
  every length ever given to the tables is that of an unwarned shape, of which
  there is one by `UnwarnedLength`.
- **`AcpiBuildProofs`**, linker. For any set of optional tables, any layout of the
  FADT and either RSDP. The script is taken apart into pieces, one per table and
  root: a piece writes behind the bytes that earlier sums cover and refers to
  files that are allocated (`Piece`), so that appending it keeps the script
  `Sound` (`SoundConcat`). The invariant `LinkInv` says, while tables are built,
  that every one in place is listed, summed and, from the FADT, referred to, and
  how long the script is; once the roots are built, the same of RSDT, XSDT and
  RSDP; and always that `memory` is the effect of the commands executed
  (`Executed`), since none of them spoils a sum (`LinkExecute`). How many pointers
  a table has and what to (`Shape`) is computed from its pieces, that the fields
  do not overlap by induction over them (`EndsGrow`).
- **`AmlEncodingProofs`**, package length. The value is the sum of its digits in the mixed base
  16, 256, 256, 256 (`Digits`), taking it apart from the high end finds the
  same digits (`HighDigits`), and the widths leave room (`Values`, `Fits`).
  `CInv` follows the C switch case by case, whichever case it was entered at.
- **`AmlEncodingProofs`**, descriptors. Every descriptor is `Legible`: it is as
  long as it states or one of the two that misstate, and a GPIO connection's
  offsets are the ends of its parts; for all numbers of pins and interrupts, by
  lemmas about the ends of rows of fields (`EndsConcat`, `EndsEqual`).
  `TemplateInv` is about templates of any length: the reader has met the tags of
  the descriptors behind it, if none of them misstates its length (`Trusted`), and
  in any case no more tags than descriptors.
- **`CrsRangesProofs`**, ranges. For any sorted array: the addresses in the output
  and in the pending range are those of the entries done (`MergeSoFar`), and those
  below the next free base that no entry done covers (`FreeSoFar`).
  `MergeComplete` needs the ranges to be disjoint, as `build_crs` inserts them.
- **`CrsRangesProofs`**, host bridges. The same two lemmas, by induction over the
  array, say what `Merge` and `FreeRanges` return; `ByBase` is a permutation in
  order because the number of entries ahead is a bijection onto the positions.
  Three invariants: `Placed`, the ranges remembered are the claims of the
  expanders passed, in their holes and disjoint, whoever owns a region; `Numbers`,
  the bus limit is below every expander passed but in the two cases the property
  names; `Resources`, what `PCI0` is given once it is built. `AddressesCorrect` and
  `NumbersCorrect` are about any list of children and any regions the assumptions
  allow.
- **`PciGuestProofs`**, hotplug and interrupts. The invariant says which threads can be past their
  acquisition (the holder of `BLCK` alone) and that from the selection on `BNUM`
  is the bus of the holder. Everything else follows from it: no other thread
  writes a register in between; `DsmCorrect` says the same of the answers of `_DSM`
  and `EDSM`. For any buses, slots and numbers of threads. Of the interrupt
  routing: the rows of each table are given in closed form (a link is a function
  of slot and pin), from which the distinctness of a slot's pins is arithmetic
  modulo 4 and 8; and a register is written by the link it belongs to alone.
- **`PciGuestProofs`**, IOMMU. For any number of devices, host bridges and root bus
  numbers. The hierarchy comes first: the bridges above a device are a chain
  (`AboveChain`), and what comes between a bridge and a device below it in the
  order of the walk is below the bridge, too (`BelowContiguous`). Bus numbers are
  sums over the devices, compared term by term (`TotalUnder`, `GivenFewer`): a
  bridge's buses are inside those of the bridges above it (`BusesNested`) and
  apart from the others' (`BusesApart`, `HostsApart`). So the range of ids from a
  bridge's secondary to its subordinate bus has the ids of the devices below it
  and no others (`IntervalIds`), which is what makes a range entry right. Exactly
  one device speaks for each device behind the IOMMU: itself, or the topmost bridge
  above it where the walk stops (`OneSpeaks`). The invariant `WalkInv` says that
  what is written is what the devices got to have to say, each once (`Listed`),
  where those got to are the ones reached that neither a host bridge left nor the
  queue still leads to (`VisitedOf`); this needs the queue to hold no device below
  another one (`Queue`). `DevicesCoveredCorrect` and `RequestersCorrect` follow; the
  latter also needs that below a bridge whose secondary and subordinate bus are
  the same there is no other bridge, and that the bridge where the walk stops is
  the outermost conventional one.
- **`SratMemoryProofs`.** `Ordered`: the structures ascend and end at `nextBase` or
  before, until the window is appended (`Closed`). `Cover`: they hold the addresses
  below `nextBase` outside both holes, and `nextBase` is never inside one.
  `Count`: as many structures as nodes done, and one more for each hole behind
  (`Passed`). The two ways to cut a node are one
  lemma about `CutPciHole` (`CutFacts`) over one about `Emit` (`EmitFacts`).
  `RightSoFar` is the invariant behind `RightNode`, under the property's condition
  that no node ends between 640 KiB and 1 MiB: the next node begins where its
  first byte is mapped, every byte of the earlier nodes' RAM outside the hole is
  in a structure of its node, and every structure ends with such a byte. The RAM
  before a node is a sum over the nodes before it (`BeforeFacts`, `BeforeGrows`).
  `Reach`, for `OneNode`, holds without that condition: the next node begins where
  its RAM is mapped or, if a node before it ended in the hole, higher by less than
  the hole's length (`Shifted`), so that the window is clear of the last structure
  unless it is as near as that (`WindowClear`).
- **`Recursion`.** A definition by recursion in the modules with proofs is a
  function (`f[k \in 0 .. n] == IF k = 0 ...`). That there is one is shown here, by
  induction over its domain (`Iteration`), for a step given as a function. The
  induction itself (`Induction`, `BoundedInduction`) is about a set of numbers,
  since the library's, which is about an operator, cannot be instantiated; it
  rests on the well-foundedness of < on the natural numbers. `TreeRecursion` is
  the same along the parents of a tree, for `Above` and `Host` of `IommuScopes`,
  and `PartialSums` is about the sums of `FieldSums`.

The proof modules also hold facts that no run checks, because they follow from
the ones above or would take a run of their own: each module's `TypeCorrect`,
`Tiled` (the tables tile the blob), `SearchBrackets`, `FixupOnce`,
`SearchShrinks` and `MergeLeavesGaps`. In `DsdtNames`, which has no proofs, the
type invariant is a conjunct of `Loads`.

*Assumptions.* `SizesAssumption` of `AcpiBuildState`, `ShapesAssumption`: lengths
are numbers and the sizes positive. `FixedAssumption`: on old machine types everything but the AML
has one size, which is what the comment in `acpi_build` says its computation
rests on. `ConfigsAssumption`, `DsdtLenAssumption`: configurations have their
types, and a DSDT has a header. `LensAssumption`: lengths fit in 28 bits;
`create_pkg_length` drops the higher bits without a word. `CountsAssumption`: the
number of interrupts is a byte and positive, as asserted, and that of pins small
enough for 16-bit offsets. `HoleAssumption`,
`MapAssumption` and the assumptions of `CrsRanges` and
`PciHotplug`: addresses are numbers, RAM below 4 GiB ends at or before the RAM
above begins, and names are distinct. `SizesAssumption` of `SratMemory`: there is
a node, as `acpi_build` asks before it calls `build_srat`.
`DeviceMemoryAssumption`: device memory begins where the RAM above 4 GiB ends or
behind; where it lies is the machine's choice, outside the repository.
`TablesAssumption`: the tables that may be
missing are in the order of `acpi_build` and not required, and the RSDP has
revision 0 or 2. `HolesAssumption`, `WindowsAssumption`: the holes do not meet,
MMCONFIG is in the lower hole and the CXL window above 4 GiB.
`ChildrenAssumption`: a secondary bus number is not 0. `RegionsAssumption`: the
firmware maps into the holes and no two things to one address; it is what makes
the ranges disjoint that `crs_range_merge` is handed. `HostsAssumption`: host
bridges are finitely many, have different root bus numbers, and are not numbers
(devices are). What the firmware guarantees of bus numbers is in `Machine`: they
are given depth first (`Sec`, `Sub`), and those of one host bridge end before the
next root bus (`RootsApart`).

*Model-checked only.* Liveness (`Termination`, `PluggedIsNoted`, `MethodsEnd`),
which needs fairness, out of the prover's reach. The tabulated lengths of `Dsdt`
(`GroundTruth`), which are a computation, and the three properties over long
tables of constants, where a proof would only repeat the enumeration: `Loads`,
`SlotsOnTheirBus` and `PcntReachesAll` of `DsdtNames`.

## Abstractions

- `address_of` adds in 64 bits: bases near 2^64 are left out. The program itself
  always passes base 0 and front padding 0.
- APIC ids are 0 .. n-1, as `intel_tdx_q35` fills them.
- Placeholder tables are zero bytes, as the code leaves them (no header).
- fw_cfg, firmware, chipset writes and the reset and migration machinery are not
  part of the repository: they are modelled as the callbacks' contracts in
  `acpi-build.c` show them (a select runs the callback, then data are read
  piecewise; RAM-backed files and `patched` migrate, heap memory does not).
- `acpi_setup`'s early returns (no fw_cfg, ACPI disabled) leave nothing behind and
  are not modelled: the life cycle begins when the files exist.
- The hotplug device, the guest's interpreter and its dispatching of `_E01` are
  external to the repository: `PciHotplug` models them as the methods use them
  (a register per access, an event that is cleared before its handler runs).
- PCI hierarchies in `IommuScopes` have one function per slot; secondary bus
  numbers are the walk's own numbering. In `DsdtNames` objects have a kind and a
  number of arguments, not a value.
- RAM sizes and addresses of `SratMemory` are unbounded naturals: the code's 64
  bits are not reached by a memory map. The structures that other files append
  for NVDIMM and SGX are only counted, so `OneNode` is about those `build_srat`
  writes itself.
- `PIDX` reads as the device's index, zero, or the marker of a machine without
  the register, at any reading: a guest can be migrated to one.

## Not modelled

- *AML operators.* The constructors of expressions in `aml-build.c` and `aml.rs`
  write an opcode and append their operands; a model would repeat them.
- *Static tables.* PPTT, SLIT, the SRAT's processor structures, the bodies of
  HPET, TPM and WAET tables: fields written in a row, without a decision.
- *Tables that other files build.* VIOT, NFIT, CEDT, HMAT, ERST, VMGENID: only a
  call is in the repository; the linker model gives them a length.
- *The start of `acpi_build`.* Reading the machine's properties is QEMU's object
  model; the modules choose the results freely.
- *The VM configuration file* (`vm.rs`). One pass without a state: switches looked
  up from properties and drivers, addresses computed per device and sorted. TOML
  parsing, the QEMU argument strings and printing are text. Its edge in
  arithmetic (a position taken for a slot, `vm.rs:346`) is among the hazards.
- *The command line* (`main.rs`). Two calls and two writes of files in a row. A
  failure between the writes leaves a new blob beside an old RSDP: a hazard, at
  `main.rs:60`.
- *Processor ids.* The MADT cuts ids to eight bits (`madt.rs:24`) and the DSDT's
  processor names have three digits (`dsdt/mod.rs:378`): limits to read off one
  line each.
- *Checksums as numbers.* The linker model says which ranges have a valid sum, the
  models hold no bytes to add.
