---------------------------- MODULE PciResources ----------------------------
(***************************************************************************)
(* The resources of the PCI host bridges in the DSDT: build_dsdt           *)
(* (src/acpi-build.c) walks the children of the root bus, gives every      *)
(* expander root bus a _CRS made of what the firmware has programmed into  *)
(* its devices (build_crs, src/aml-build.c), and leaves PCI0 what remains  *)
(* of the holes.                                                           *)
(***************************************************************************)
EXTENDS CrsEntries, FiniteSets, SequencesExt

CONSTANTS
  Max32,               \* UINT32_MAX
  MaxBus,              \* 0xFF
  IoStart, IoEnd,      \* 0x0D00 and 0xFFFF
  HoleLo, HoleHi,      \* pci_hole
  Hole64Lo, Hole64Hi,  \* pci_hole64
  McfgRange,           \* the MMCONFIG window, an entry
  CxlRanges,           \* where the CXL window above 4 GiB may be, entries
  Regions,             \* what the firmware may have programmed
  Children             \* sequences of children the root bus may have

(* The holes do not meet, and end below the last word.                     *)
ASSUME HolesAssumption ==
  /\ Max32 \in Word /\ MaxBus \in Nat
  /\ 1 <= IoStart /\ IoStart <= IoEnd /\ IoEnd < MaxWord
  /\ 1 <= HoleLo /\ HoleLo <= HoleHi /\ HoleHi < Max32
  /\ Max32 < Hole64Lo /\ Hole64Lo <= Hole64Hi /\ Hole64Hi < MaxWord
  /\ {IoStart, IoEnd, HoleLo, HoleHi, Hole64Lo, Hole64Hi} \subseteq Nat

(* MMCONFIG is in the lower hole, the CXL window above 4 GiB.              *)
ASSUME WindowsAssumption ==
  /\ McfgRange \in Entries /\ McfgRange.base <= McfgRange.limit
  /\ HoleLo <= McfgRange.base /\ McfgRange.limit <= HoleHi
  /\ \A c \in CxlRanges :
       c \in Entries /\ Max32 < c.base /\ c.base <= c.limit /\ c.limit < MaxWord

(* pci_bus_num is the secondary bus number of a bridge: never 0.           *)
ASSUME ChildrenAssumption ==
  Children \subseteq
    Seq([kind : {"bridge", "pxb", "cxl"}, num : 1 .. MaxBus, sub : 0 .. MaxBus])

-----------------------------------------------------------------------------
(* build_crs.  A region is the BAR of a device or an open or closed window *)
(* of a bridge on the bus; the end of an unmapped BAR (all ones) wraps.    *)
Limit(r) == (r.addr + r.size - 1) % (MaxWord + 1)
Range64(r) == Entry(r.addr, Limit(r))

(* The work-around for old firmware that knows one root bus only.          *)
Skipped(r) == r.addr = 0 \/ r.addr > Limit(r)

SpaceOf(r) ==
  CASE r.io -> "io"
    [] ~r.io /\ Limit(r) <= Max32 /\ r.size <= Max32 -> "mem"
    [] OTHER -> "mem64"

(* Firmware maps no two things to one address, and maps into the holes.    *)
ASSUME RegionsAssumption ==
  /\ IsFiniteSet(Regions)
  /\ Regions \subseteq [io : BOOLEAN, addr : Word, size : Word]
  /\ \A r \in Regions : Skipped(r) \/
       CASE SpaceOf(r) = "io" -> IoStart <= r.addr /\ Limit(r) <= IoEnd
         [] SpaceOf(r) = "mem" -> HoleLo <= r.addr /\ Limit(r) <= HoleHi
         [] OTHER -> Hole64Lo <= r.addr /\ Limit(r) <= Hole64Hi
  /\ \A r, q \in Regions :
       \/ r = q \/ r.io # q.io \/ Skipped(r) \/ Skipped(q)
       \/ Limit(r) < q.addr \/ Limit(q) < r.addr

(* The array after g_ptr_array_sort with crs_range_compare: how many       *)
(* entries are ahead of one says where it goes.                            *)
Ahead(s, k) ==
  {l \in 1 .. Len(s) :
    s[l].base < s[k].base \/ (s[l].base = s[k].base /\ l < k)}

ByBase(s) ==
  [j \in 1 .. Len(s) |->
    s[CHOOSE k \in 1 .. Len(s) : Cardinality(Ahead(s, k)) = j - 1]]

Merge(s) ==
  LET t == ByBase(s)
      done[k \in 0 .. Len(t) - 1] ==
        IF k = 0 THEN [out |-> << >>, base |-> t[1].base, limit |-> t[1].limit]
                 ELSE MergeEntry(done[k - 1], t[k + 1])
      last == done[Len(t) - 1]
  IN  IF s = << >> THEN s ELSE Append(last.out, Entry(last.base, last.limit))

FreeRanges(s, lo, hi) ==
  LET t == ByBase(s)
      done[k \in 0 .. Len(t)] ==
        IF k = 0 THEN [out |-> << >>, base |-> lo, limit |-> 0]
                 ELSE FreeEntry(done[k - 1], t[k])
  IN  FreeTail(done[Len(t)], hi)

Spaces == {"io", "mem", "mem64"}

Collect(regions, space) ==
  SetToSeq({Range64(r) : r \in {q \in regions : ~Skipped(q) /\ SpaceOf(q) = space}})

(* The descriptors of one _CRS: the address spaces and the bus numbers.    *)
Crs(host) ==
  [io |-> Merge(Collect(host.regions, "io")),
   mem |-> Merge(Collect(host.regions, "mem")),
   mem64 |-> Merge(Collect(host.regions, "mem64")),
   busMin |-> host.num,
   busMax |-> IF host.sub > host.num THEN host.sub ELSE host.num]

(* A dword descriptor keeps 32 bits of its addresses.                      *)
Dword(s) ==
  [k \in 1 .. Len(s) |->
    Entry(s[k].base % (Max32 + 1), s[k].limit % (Max32 + 1))]

-----------------------------------------------------------------------------
VARIABLES
  children,  \* the children of the root bus, in list order
  mcfg,      \* mcfg_valid
  hole64,    \* pci_hole64 is not empty
  hostMr,    \* cxl_devices_state.host_mr
  n,         \* how many children the loop has passed
  rangeSet,  \* crs_range_set
  rootLimit, \* root_bus_limit
  crs,       \* the _CRS of the expanders built so far, by their position
  pci0       \* PCI0._CRS, << >> until it is built

given == <<children, mcfg, hole64, hostMr>>
hostVars == <<given, n, rangeSet, rootLimit, crs, pci0>>

(* Firmware hands each region to at most one bus (owner), and no region    *)
(* outside the holes the machine has.                                      *)
HostInit ==
  /\ mcfg \in BOOLEAN
  /\ hole64 \in BOOLEAN
  /\ hostMr \in CxlRanges
  /\ \E list \in Children : \E owner \in [Regions -> 0 .. Len(list)] :
       /\ \A r \in Regions : owner[r] > 0 /\ ~Skipped(r) =>
            /\ list[owner[r]].kind # "bridge"
            /\ SpaceOf(r) = "mem64" => hole64
            /\ SpaceOf(r) = "mem" /\ mcfg =>
                 Limit(r) < McfgRange.base \/ McfgRange.limit < r.addr
       /\ children = [k \in 1 .. Len(list) |->
            [kind |-> list[k].kind, num |-> list[k].num, sub |-> list[k].sub,
             regions |-> {r \in Regions : owner[r] = k}]]
  /\ n = 0
  /\ rangeSet = [s \in Spaces |-> << >>]
  /\ rootLimit = MaxBus
  /\ crs = << >>
  /\ pci0 = << >>

(* A bridge below PCI0: the loop looks for expander root buses only.       *)
SkipChild ==
  /\ n < Len(children)
  /\ children[n + 1].kind = "bridge"
  /\ n' = n + 1
  /\ UNCHANGED <<given, rangeSet, rootLimit, crs, pci0>>

(* The loop's body for an expander: its _CRS, and the ranges handed out.   *)
Below(host) == IF host.num < rootLimit THEN host.num - 1 ELSE rootLimit

WithNext(built) ==
  [h \in DOMAIN crs \union {n + 1} |-> IF h = n + 1 THEN built ELSE crs[h]]

Taken(host, built) ==
  [s \in Spaces |->
    IF s = "mem" /\ host.kind = "cxl"
    THEN Append(rangeSet[s] \o built[s], hostMr) ELSE rangeSet[s] \o built[s]]

(* Seeded fault: the ranges handed out are not remembered for PCI0.        *)
ExpanderForgets ==
  /\ n < Len(children)
  /\ LET host == children[n + 1] IN
       /\ host.kind # "bridge"
       /\ rootLimit' = Below(host)
       /\ crs' = WithNext(Crs(host))
  /\ n' = n + 1
  /\ UNCHANGED <<given, rangeSet, pci0>>

(* Seeded fault: the root bus range up to and with the expander's number.  *)
ExpanderWithBus ==
  /\ n < Len(children)
  /\ LET host == children[n + 1] IN
       /\ host.kind # "bridge"
       /\ rootLimit' = IF host.num < rootLimit THEN host.num ELSE rootLimit
       /\ crs' = WithNext(Crs(host))
       /\ rangeSet' = Taken(host, Crs(host))
  /\ n' = n + 1
  /\ UNCHANGED <<given, pci0>>

Expander ==
  /\ n < Len(children)
  /\ LET host == children[n + 1] IN
       /\ host.kind # "bridge"
       /\ rootLimit' = Below(host)
       /\ crs' = WithNext(Crs(host))
       /\ rangeSet' = Taken(host, Crs(host))
  /\ n' = n + 1
  /\ UNCHANGED <<given, pci0>>

(* The ranges the expanders and MMCONFIG use become the ones left, and     *)
(* those PCI0's resources.                                                 *)
Used(s) == IF s = "mem" /\ mcfg THEN Append(rangeSet[s], McfgRange) ELSE rangeSet[s]

Free ==
  [io |-> FreeRanges(Used("io"), IoStart, IoEnd),
   mem |-> FreeRanges(Used("mem"), HoleLo, HoleHi),
   mem64 |-> IF hole64 THEN FreeRanges(Used("mem64"), Hole64Lo, Hole64Hi)
                       ELSE Used("mem64")]

Pci0 ==
  /\ n = Len(children)
  /\ pci0 = << >>
  /\ rangeSet' = Free
  /\ pci0' = [io |-> Free.io,
              mem |-> Dword(Free.mem),
              mem64 |-> IF hole64 THEN Free.mem64 ELSE << >>,
              busMin |-> 0, busMax |-> rootLimit]
  /\ UNCHANGED <<given, n, rootLimit, crs>>

HostNext == SkipChild \/ Expander \/ Pci0

HostSpec == HostInit /\ [][HostNext]_hostVars

-----------------------------------------------------------------------------
HostTypeOK ==
  /\ n \in 0 .. Len(children)
  /\ rootLimit \in 0 .. MaxBus
  /\ \A s \in Spaces : \A k \in 1 .. Len(rangeSet[s]) :
       rangeSet[s][k] \in Entries /\ rangeSet[s][k].base <= rangeSet[s][k].limit
  /\ DOMAIN crs = {k \in 1 .. n : children[k].kind # "bridge"}

Built == pci0 # << >>
InMemory(c, x) == Covers(c.mem, x) \/ Covers(c.mem64, x)

(* What an expander's _CRS claims is exactly what the firmware has mapped  *)
(* on its bus: merging and the split by 4 GiB lose and add no address.     *)
ExpandersClaimTheirs ==
  \A h \in DOMAIN crs : \A x \in Word :
    LET mapped == {r \in children[h].regions :
                    ~Skipped(r) /\ r.addr <= x /\ x <= Limit(r)}
    IN  /\ Covers(crs[h].io, x) <=> \E r \in mapped : r.io
        /\ InMemory(crs[h], x) <=> \E r \in mapped : ~r.io

(* No address is claimed by PCI0 and by an expander ("these ranges will be *)
(* excluded from the PCI0._CRS"), nor MMCONFIG by PCI0.                    *)
Pci0AvoidsExpanders ==
  Built => \A x \in Word :
    /\ \A h \in DOMAIN crs :
         /\ ~(Covers(pci0.io, x) /\ Covers(crs[h].io, x))
         /\ ~(InMemory(pci0, x) /\ InMemory(crs[h], x))
    /\ mcfg /\ Covers(<<McfgRange>>, x) => ~InMemory(pci0, x)

(* The CXL window above 4 GiB is put into the 32-bit ranges.  The free     *)
(* range below it then reaches out of the hole, up to the window, and is   *)
(* cut to 32 bits where it is written: it still covers the hole's rest     *)
(* unless the cut falls into the hole or below it.                         *)
WithCxl == \E k \in 1 .. Len(children) : children[k].kind = "cxl"
CutInHole == WithCxl /\ (hostMr.base - 1) % (Max32 + 1) <= HoleHi

(* PCI0 gets every address of the holes that no expander and not MMCONFIG  *)
(* uses, except a hole of one address at a hole's very end.                *)
Pci0ClaimsTheRest ==
  Built =>
    /\ \A x \in IoStart .. IoEnd - 1 :
         Covers(pci0.io, x) \/ \E h \in DOMAIN crs : Covers(crs[h].io, x)
    /\ \A x \in (IF CutInHole THEN {} ELSE HoleLo .. HoleHi - 1)
                \union (IF hole64 THEN Hole64Lo .. Hole64Hi - 1 ELSE {}) :
         \/ InMemory(pci0, x)
         \/ \E h \in DOMAIN crs : InMemory(crs[h], x)
         \/ mcfg /\ Covers(<<McfgRange>>, x)

(* The memory PCI0 claims lies in the two holes: crs_replace_with_free_    *)
(* ranges "computes the 'free' ranges from the same interval".  With a CXL *)
(* expander it may reach out of the lower one, up to 4 GiB.                *)
FreeInsideHole ==
  Built =>
    /\ Inside(pci0.mem, HoleLo, IF WithCxl THEN Max32 ELSE HoleHi)
    /\ Inside(pci0.mem64, Hole64Lo, Hole64Hi)
    /\ ~CutInHole =>
         \A k \in 1 .. Len(pci0.mem) : pci0.mem[k].base <= pci0.mem[k].limit

(* The address spaces are divided up: every expander claims what is on its *)
(* bus, PCI0 the rest of the holes and nothing else.                       *)
AddressesPartitioned ==
  /\ HostTypeOK
  /\ ExpandersClaimTheirs
  /\ Pci0AvoidsExpanders
  /\ Pci0ClaimsTheRest
  /\ FreeInsideHole

(* PCI0's bus numbers end below every expander's, unless the loop met the  *)
(* next higher number first (the limit is then this expander's own number  *)
(* and the comparison is strict) or the expander has the highest number.   *)
BusNumbersApart ==
  Built => \A h \in DOMAIN crs :
    \/ pci0.busMax < crs[h].busMin
    \/ crs[h].busMin = MaxBus
    \/ \E g \in DOMAIN crs : g < h /\ crs[g].busMin = crs[h].busMin + 1
=============================================================================
