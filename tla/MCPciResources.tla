--------------------------- MODULE MCPciResources ---------------------------
(***************************************************************************)
(* One instance of CrsRanges and one of PciResources, which uses the same  *)
(* loop bodies (CrsEntries).  A behaviour is one of the two: `part' says   *)
(* which, and the variables of the other one stay at rest.                 *)
(***************************************************************************)
EXTENDS CrsRanges, PciResources

VARIABLE part  \* which of the two

(* Seven of fourteen addresses are below "4 GiB".  Of the regions some are *)
(* adjacent, hence merged, some at the end of a hole, one is an unmapped   *)
(* BAR (its end wraps).                                                    *)
Region(io, addr, size) == [io |-> io, addr |-> addr, size |-> size]
AllRegions ==
  {Region(TRUE, 3, 1), Region(TRUE, 4, 1),
   Region(FALSE, 2, 1), Region(FALSE, 4, 1),
   Region(FALSE, 9, 1), Region(FALSE, 10, 2), Region(FALSE, 13, 2)}

Child(kind, num, sub) == [kind |-> kind, num |-> num, sub |-> sub]
Lists ==
  {<<Child(j, 9, 9)>> : j \in {"pxb", "cxl"}}
  \union {<<Child(j, 9, 9), Child("pxb", b, b)>> :
            j \in {"pxb", "cxl"}, b \in {8, 10, 255}}
  \union {<< >>, <<Child("pxb", 6, 8), Child("bridge", 1, 2)>>,
          <<Child("bridge", 1, 2), Child("pxb", 255, 255)>>,
          <<Child("cxl", 9, 9), Child("cxl", 7, 7)>>}

Mmconfig == Entry(2, 2)

(* One window right above "4 GiB", one that is cut into the hole.          *)
Windows == {Entry(7, 8), Entry(8, 8)}

(* At rest: crs_range_merge has returned, build_dsdt has not begun.        *)
MCInit ==
  \/ /\ part = "ranges" /\ Init
     /\ children = << >> /\ mcfg = FALSE /\ hole64 = FALSE /\ hostMr = Mmconfig
     /\ n = 0 /\ rangeSet = [s \in Spaces |-> << >>] /\ rootLimit = MaxBus
     /\ crs = << >> /\ pci0 = << >>
  \/ /\ part = "hosts" /\ HostInit
     /\ op = "merge" /\ pc = "done" /\ ranges = << >> /\ i = 0
     /\ st = [out |-> << >>, base |-> 0, limit |-> 0]

RangesStep == part = "ranges" /\ Next /\ UNCHANGED <<part, hostVars>>
HostsStep == part = "hosts" /\ HostNext /\ UNCHANGED <<part, vars>>

MCSpec == MCInit /\ [][RangesStep \/ HostsStep]_<<part, vars, hostVars>>
=============================================================================
