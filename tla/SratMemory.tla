----------------------------- MODULE SratMemory -----------------------------
(***************************************************************************)
(* The memory affinity structures of the SRAT (build_srat,                 *)
(* src/acpi-build.c): the guest's RAM is handed out to the NUMA nodes in   *)
(* order, around the hole below 1 MiB and around the PCI hole below 4 GiB. *)
(* Then the table is filled up to two structures more than there are       *)
(* nodes, and the window for memory hotplug comes last.                    *)
(***************************************************************************)
EXTENDS Integers, Sequences

CONSTANTS
  HoleStart, HoleEnd,  \* HOLE_640K_START and HOLE_640K_END
  Sizes,               \* the nodes' sizes (node_mem), a set of sequences
  LowLimits,           \* how much RAM the machine puts below 4 GiB at most
  HighStarts,          \* above_4g_mem_start
  Devices,             \* how many structures NVDIMM and SGX add
  Windows,             \* device memory: its length, and how far behind the RAM
  Null                 \* machine->device_memory of a machine that has none

ASSUME HoleAssumption == HoleStart \in Nat /\ HoleEnd \in Nat /\ HoleStart < HoleEnd
ASSUME SizesAssumption == Sizes \subseteq Seq(Nat) \ {<< >>}
ASSUME MapAssumption ==
  /\ LowLimits \subseteq Nat /\ HighStarts \subseteq Nat /\ Devices \subseteq Nat
  /\ \A l \in LowLimits, h \in HighStarts : HoleEnd <= l /\ l <= h
ASSUME DeviceMemoryAssumption ==
  /\ Windows \subseteq [gap : Nat, len : Nat]
  /\ Null \notin [base : Nat, len : Nat]

Structure(base, len, node, flags) ==
  [base |-> base, len |-> len, node |-> node, flags |-> flags]

VARIABLES
  pc,        \* which part of build_srat comes next
  sizes,     \* numa_info[].node_mem
  low,       \* below_4g_mem_size
  high,      \* above_4g_mem_start
  device,    \* machine->device_memory
  i,         \* nodes done
  nextBase,  \* next_base
  table,     \* the memory affinity structures so far
  extra      \* structures of NVDIMM and SGX, which table leaves out

vars == <<pc, sizes, low, high, device, i, nextBase, table, extra>>
Input == <<sizes, low, high, device>>

(* build_srat_memory, for a part that is not empty.                        *)
Emit(tab, base, len, node) ==
  IF len > 0 THEN Append(tab, Structure(base, len, node, "enabled")) ELSE tab

(* RAM offsets: the nodes' memory one behind the other, whose sum is the   *)
(* RAM size, and the addresses the machine maps it to.                     *)
Before[k \in 0 .. Len(sizes)] == IF k = 0 THEN 0 ELSE Before[k - 1] + sizes[k]
Ram == Before[Len(sizes)]
AddressOf(o) == IF o < low THEN o ELSE high + (o - low)
RamEnd == high + (Ram - low)
EndsInHole(k) == HoleStart < Before[k] /\ Before[k] < HoleEnd

(* RAM up to a limit is mapped below 4 GiB; device memory begins where the *)
(* RAM above 4 GiB ends, or behind.                                        *)
Init ==
  /\ pc = "nodes"
  /\ sizes \in Sizes
  /\ \E limit \in LowLimits :
       low \in 0 .. limit /\ low = IF Ram < limit THEN Ram ELSE limit
  /\ high \in HighStarts
  /\ device \in {Null} \union {[base |-> RamEnd + w.gap, len |-> w.len] : w \in Windows}
  /\ i = 0
  /\ nextBase = 0
  /\ table = << >>
  /\ extra = 0

Base == nextBase
End  == nextBase + sizes[i + 1]
CrossesHole640K == Base <= HoleStart /\ End > HoleStart

(* Seeded fault: the part below 4 GiB not taken off the part above.        *)
CutPciHoleTwice(tab, base, end) ==
  IF base <= low /\ end > low
  THEN /\ table' = Emit(Emit(tab, base, end - base, i), high, end - low, i)
       /\ nextBase' = high + (end - low)
  ELSE /\ table' = Emit(tab, base, end - base, i)
       /\ nextBase' = end

(* Seeded fault: the part above 4 GiB put where RAM below ends.            *)
CutPciHoleNot(tab, base, end) ==
  IF base <= low /\ end > low
  THEN /\ table' = Emit(Emit(tab, base, low - base, i), low, end - low, i)
       /\ nextBase' = high + (end - low)
  ELSE /\ table' = Emit(tab, base, end - base, i)
       /\ nextBase' = end

(* What the iteration does from "Cut out the ACPI_PCI hole" on.            *)
CutPciHole(tab, base, end) ==
  IF base <= low /\ end > low
  THEN /\ table' = Emit(Emit(tab, base, low - base, i), high, end - low, i)
       /\ nextBase' = high + (end - low)
  ELSE /\ table' = Emit(tab, base, end - base, i)
       /\ nextBase' = end

NextNode == i' = i + 1 /\ pc' = pc /\ UNCHANGED <<Input, extra>>

(* A node away from the first hole.                                        *)
Node ==
  /\ pc = "nodes" /\ i < Len(sizes)
  /\ ~CrossesHole640K
  /\ CutPciHole(table, Base, End)
  /\ NextNode

(* Seeded fault: the node continues inside the hole.                       *)
NodeAcrossKeepsHole ==
  /\ pc = "nodes" /\ i < Len(sizes)
  /\ CrossesHole640K /\ End > HoleEnd
  /\ CutPciHole(Emit(table, Base, HoleStart - Base, i), HoleStart, End)
  /\ NextNode

(* A node that has memory on both sides of the hole.                       *)
NodeAcross ==
  /\ pc = "nodes" /\ i < Len(sizes)
  /\ CrossesHole640K /\ End > HoleEnd
  /\ CutPciHole(Emit(table, Base, HoleStart - Base, i), HoleEnd, End)
  /\ NextNode

(* "The rare case: 640K < RAM < 1M": the node ends in the hole.            *)
NodeEndsInHole ==
  /\ pc = "nodes" /\ i < Len(sizes)
  /\ CrossesHole640K /\ End <= HoleEnd
  /\ table' = Emit(table, Base, HoleStart - Base, i)
  /\ nextBase' = HoleEnd
  /\ NextNode

(* nvdimm_build_srat and sgx_epc_build_srat append structures of the same  *)
(* length.                                                                 *)
DeviceStructures ==
  /\ pc = "nodes" /\ i = Len(sizes)
  /\ extra' \in Devices
  /\ pc' = "fill"
  /\ UNCHANGED <<Input, i, nextBase, table>>

(* Seeded fault: one structure held for the two holes.                     *)
MissingOneHole == Len(table) + extra < Len(sizes) + 1

(* `slots < nb_numa_nodes + 2': slots counts what there is behind the      *)
(* processors, the structures of the devices included.                     *)
Missing == Len(table) + extra < Len(sizes) + 2

Fill ==
  /\ pc = "fill"
  /\ Missing
  /\ table' = Append(table, Structure(0, 0, 0, "noflags"))
  /\ UNCHANGED <<Input, pc, i, nextBase, extra>>

(* The window for memory hotplug, of the last node.  "hotpluggable" stands *)
(* for both flags, MEM_AFFINITY_HOTPLUGGABLE and MEM_AFFINITY_ENABLED.     *)
HotplugWindow ==
  /\ pc = "fill"
  /\ ~Missing
  /\ table' = IF device = Null THEN table
              ELSE Append(table, Structure(device.base, device.len,
                                           Len(sizes) - 1, "hotpluggable"))
  /\ pc' = "done"
  /\ UNCHANGED <<Input, i, nextBase, extra>>

Next ==
  \/ Node \/ NodeAcross \/ NodeEndsInHole
  \/ DeviceStructures \/ Fill \/ HotplugWindow

Spec == Init /\ [][Next]_vars

-----------------------------------------------------------------------------
Flags == {"enabled", "noflags", "hotpluggable"}
TypeOK ==
  /\ pc \in {"nodes", "fill", "done"}
  /\ sizes \in Seq(Nat) \ {<< >>}
  /\ device \in {Null} \union [base : Nat, len : Nat]
  /\ i \in 0 .. Len(sizes)
  /\ nextBase \in Nat
  /\ extra \in Nat
  /\ table \in Seq([base : Nat, len : Nat, node : Nat, flags : Flags])

In(x, s) == s.base <= x /\ x < s.base + s.len
IsRam(s) == s.flags = "enabled"
Holds(x) == \E k \in 1 .. Len(table) : IsRam(table[k]) /\ In(x, table[k])

(* The structures of RAM cover every address up to where the nodes' memory *)
(* ends, and none in one of the two holes (RAM of less than 1 MiB aside).  *)
CoversMap ==
  HoleEnd <= low => \A x \in 0 .. nextBase + 1 :
    Holds(x) <=> /\ x < nextBase
                 /\ ~(HoleStart <= x /\ x < HoleEnd)
                 /\ ~(low <= x /\ x < high)

Apart(s, t) ==
  s.len = 0 \/ t.len = 0 \/ s.base + s.len <= t.base \/ t.base + t.len <= s.base

(* No address is in two of the structures build_srat writes itself: a      *)
(* guest would have to pick one node.  The one exception is the window for *)
(* hotplug, which the RAM of a machine can reach when a node ends inside   *)
(* the hole below 1 MiB, because that moves the nodes that follow upwards: *)
(* by less than the hole's length, so that a window as far behind the RAM  *)
(* is out of reach.                                                        *)
OneNode ==
  \A k, l \in 1 .. Len(table) : k < l =>
    \/ Apart(table[k], table[l])
    \/ /\ table[l].flags = "hotpluggable"
       /\ \E n \in 1 .. Len(sizes) : EndsInHole(n)
       /\ device.base < RamEnd + (HoleEnd - HoleStart)

(* However the sizes fall on the holes, a machine without devices has      *)
(* nodes + 2 structures (and the window), no more and no less.  Structures *)
(* of devices take the place of fillers first: with them there are as many *)
(* or up to so many more, and no filler if there are more.  How many more  *)
(* does depend on the sizes: one node and one device are three structures, *)
(* or four if the node meets both holes.                                   *)
FixedLength ==
  pc = "done" =>
    LET own == Len(table) + extra - (IF device = Null THEN 0 ELSE 1)
        reserved == Len(sizes) + 2
    IN  /\ extra = 0 => own = reserved
        /\ own \in reserved .. reserved + extra
        /\ own > reserved => \A k \in 1 .. Len(table) : table[k].flags # "noflags"

(* Each byte of a node's RAM outside the hole is in a structure of that    *)
(* node, and every structure of RAM ends in RAM, as long as no node ends   *)
(* inside the hole below 1 MiB.  A node that does moves all that follow.   *)
RightNode ==
  pc = "done" /\ (\A k \in 1 .. Len(sizes) : ~EndsInHole(k)) =>
    /\ \A k \in 1 .. Len(sizes) : \A o \in Before[k - 1] .. Before[k] - 1 :
         \/ HoleStart <= o /\ o < HoleEnd
         \/ \E s \in 1 .. Len(table) :
              IsRam(table[s]) /\ In(AddressOf(o), table[s]) /\ table[s].node = k - 1
    /\ \A k \in {k \in 1 .. Len(table) : IsRam(table[k])} :
         \E o \in 0 .. Ram - 1 : AddressOf(o) = table[k].base + table[k].len - 1
=============================================================================
