---------------------------- MODULE IommuScopes ----------------------------
(***************************************************************************)
(* The walk over the PCI hierarchy in src/acpi-build.c that tells the      *)
(* guest which devices are behind the IOMMU: the device scopes of the DMAR *)
(* table and the IVHD device entries of the IVRS table.                    *)
(*                                                                         *)
(* Devices are numbered in the order a depth-first walk meets them, which  *)
(* also gives each its devfn; a bridge's secondary bus has the bridge's    *)
(* number, a root bus is a host bridge.                                    *)
(***************************************************************************)
EXTENDS Integers, Sequences, FiniteSets, FieldSums

CONSTANTS
  Hosts,    \* host bridges: the main one and the expander bridges
  RootBus,  \* the number of each one's root bus
  MaxDevs   \* bound: the devices of an instance

ASSUME HostsAssumption ==
  /\ IsFiniteSet(Hosts) /\ MaxDevs \in Nat \ {0}
  /\ \A h \in Hosts : h \notin Nat
  /\ RootBus \in [Hosts -> Nat]
  /\ \A g, h \in Hosts : g # h => RootBus[g] # RootBus[h]

VARIABLES
  which,   \* which of the two tables is built
  on,      \* on[d]: the bus device d sits on
  kind,    \* "endpoint" or what sort of bridge
  spare,   \* bus numbers the firmware reserves behind a bridge
  bypass,  \* the host bridges with bypass_iommu=on
  stage, hosts, todo,  \* the walk: host bridges and devices left
  blob,    \* scope_blob, ivhd_blob
  lengths  \* of each structure: the length it states, the bytes it has

machine == <<which, on, kind, spare, bypass>>
scopeVars == <<machine, stage, hosts, todo, blob, lengths>>

Devs == DOMAIN on
Bridge(d) == kind[d] # "endpoint"

(* The devices on a bus, by devfn.                                         *)
Children(b) ==
  LET c[k \in 0 .. Len(on)] ==
        IF k = 0 THEN << >>
        ELSE IF on[k] = b THEN Append(c[k - 1], k) ELSE c[k - 1]
  IN  c[Len(on)]

(* The bridges a device is behind, and the host bridge it hangs from.      *)
Above[d \in Devs] == IF on[d] \in Hosts THEN {} ELSE {on[d]} \cup Above[on[d]]
Host[d \in Devs] == IF on[d] \in Hosts THEN on[d] ELSE Host[on[d]]
Below(b) == {d \in Devs : b \in Above[d]}

(* pci_bus_is_express of the bridge's secondary bus.                       *)
Express(b) == kind[b] = "port"

(* What plugs where: a PCI Express bridge needs a PCI Express bus.         *)
Takes(b, k) == Bridge(b) /\ (k \in {"port", "topci"} => Express(b))
Pluggable ==
  \A d \in {c \in Devs : on[c] \notin Hosts} : Takes(on[d], kind[d])

OnlyBridgesReserve == \A d \in Devs : ~Bridge(d) => spare[d] = 0

DepthFirst ==
  \A d \in Devs \ {1} :
    on[d] \in Hosts \cup {d - 1} \cup Above[d - 1]

(* The firmware numbers the buses depth first; what it reserves comes      *)
(* after the buses that exist.  When it is at a bridge, the bridges in     *)
(* `open' have got their own number, those in `closed' all of theirs.      *)
Given(open, closed) ==
  Total([a \in Devs |-> IF a \in open THEN 1
                        ELSE IF a \in closed /\ Bridge(a) THEN 1 + spare[a]
                        ELSE 0])
Earlier(b) == {a \in Devs : a < b /\ Host[a] = Host[b]}
Sec(b) == RootBus[Host[b]] + Given(Above[b] \cup {b}, Earlier(b))
Sub(b) == RootBus[Host[b]] + Given(Above[b], Earlier(b) \cup {b} \cup Below(b))

BusNum(b) == IF b \in Hosts THEN RootBus[b] ELSE Sec(b)

(* Device ids: PCI_BUILD_BDF with devfn 0 .. MaxDevs.                      *)
LastFn == MaxDevs
Bdf(bus, fn) == bus * (LastFn + 1) + fn
DevId(d) == Bdf(BusNum(on[d]), d)

RootsApart ==
  \A d \in Devs : \A h \in Hosts :
    Bridge(d) /\ RootBus[h] > RootBus[Host[d]] => Sub(d) < RootBus[h]

Machine ==
  /\ which \in {"DMAR", "IVRS"}
  /\ \E n \in 1 .. MaxDevs :
       /\ on \in [1 .. n -> Hosts \cup 1 .. n - 1]
       /\ \A d \in 1 .. n : on[d] \in Hosts \cup 1 .. d - 1
       /\ DepthFirst
       /\ kind \in [1 .. n -> {"endpoint", "port", "topci", "legacy"}]
       /\ Pluggable
       /\ spare \in [1 .. n -> 0 .. 1]
  /\ OnlyBridgesReserve /\ RootsApart
  /\ bypass \in SUBSET Hosts

ScopesInit ==
  /\ Machine
  /\ stage = "walk" /\ hosts = Hosts /\ todo = << >>
  /\ blob = << >> /\ lengths = << >>

-----------------------------------------------------------------------------
(* Entries; `bytes' is what appending the fields adds.                     *)
Scope(d) ==
  [is |-> IF Bridge(d) THEN "bridge" ELSE "endpoint",
   from |-> DevId(d), to |-> DevId(d), for |-> DevId(d), bytes |-> 8]
Select(d) ==
  [is |-> "select", from |-> DevId(d), to |-> DevId(d), for |-> DevId(d),
   bytes |-> 4]

Leaf(b) ==
  [is |-> "range", from |-> Bdf(Sec(b), 0), to |-> Bdf(Sub(b), LastFn),
   for |-> 0, bytes |-> 4 + 4]

(* Seeded fault: the two sorts of bridges taken for each other.            *)
AliasSwapped(b) ==
  [is |-> "alias", from |-> Bdf(Sec(b), 0), to |-> Bdf(Sub(b), LastFn),
   for |-> IF kind[b] = "topci" THEN DevId(b) ELSE Bdf(Sec(b), 0),
   bytes |-> 8 + 4]

Alias(b) ==
  [is |-> "alias", from |-> Bdf(Sec(b), 0), to |-> Bdf(Sub(b), LastFn),
   for |-> IF kind[b] = "topci" THEN Bdf(Sec(b), 0) ELSE DevId(b),
   bytes |-> 8 + 4]
AllDevices == [is |-> "all", from |-> 0, to |-> 0, for |-> 0, bytes |-> 4]

Bytes(s) == Total([k \in DOMAIN s |-> s[k].bytes])

(* insert_ivhd: a device is selected; below a bridge there is a range, an  *)
(* alias range, or the walk goes on.                                       *)
Ivhd(d) ==
  CASE ~Bridge(d)                        -> << >>
    [] Express(d) /\ Sec(d) = Sub(d)     -> <<Leaf(d)>>
    [] Express(d) /\ Sec(d) # Sub(d)     -> << >>
    [] Bridge(d) /\ ~Express(d)          -> <<Alias(d)>>

(* Seeded fault: only root buses are walked.                               *)
DescendNever(d) == << >>

Descend(d) ==
  IF which = "IVRS" /\ Bridge(d) /\ Express(d) /\ Sec(d) # Sub(d)
  THEN Children(d) ELSE << >>

(* dmar_host_bridges, ivrs_host_bridges: the object tree has no order.     *)
WalkHost(h) ==
  /\ stage = "walk" /\ todo = << >>
  /\ h \in hosts
  /\ hosts' = hosts \ {h}
  /\ todo' = IF h \in bypass THEN << >> ELSE Children(h)
  /\ UNCHANGED <<machine, stage, blob, lengths>>

(* insert_scope and insert_ivhd.                                           *)
InsertDevice ==
  /\ stage = "walk" /\ todo # << >>
  /\ LET d == Head(todo)
     IN  /\ blob' = blob \o (IF which = "DMAR" THEN <<Scope(d)>>
                             ELSE <<Select(d)>> \o Ivhd(d))
         /\ todo' = Descend(d) \o Tail(todo)
  /\ UNCHANGED <<machine, stage, hosts, lengths>>

Length(stated, widths) == [stated |-> stated, bytes |-> widths]

(* The Remapping Hardware Unit Definition with the I/O APIC's scope and    *)
(* the scopes found; the ATS capability follows with device IOTLBs (dt).   *)
FinishDmar ==
  /\ stage = "walk" /\ which = "DMAR" /\ hosts = {} /\ todo = << >>
  /\ \E dt \in BOOLEAN :
       LET ioapic == Total(<<1, 1, 2, 1, 1, 1, 1>>)
           unit == Total(<<2, 2, 1, 1, 2, 8>>) + ioapic + Bytes(blob)
           found == <<Length(16 + 8 + Bytes(blob), unit), Length(8, ioapic)>>
       IN  lengths' = IF dt THEN Append(found, Length(8, Total(<<2, 2, 1, 1, 2>>)))
                      ELSE found
  /\ stage' = "done"
  /\ UNCHANGED <<machine, hosts, todo, blob>>

IvhdLength(entries, ir) == 24 + Bytes(entries) + (IF ir THEN 8 ELSE 0)

(* The IVHD block: its fields, the entries found, or one for all devices   *)
(* when there is none, and the I/O APIC's with interrupt remapping (ir).   *)
FinishIvrs ==
  /\ stage = "walk" /\ which = "IVRS" /\ hosts = {} /\ todo = << >>
  /\ blob' = IF blob = << >> THEN <<AllDevices>> ELSE blob
  /\ \E ir \in BOOLEAN :
       lengths' = <<Length(IvhdLength(blob', ir),
                           Total(<<1, 1, 2, 2, 2, 8, 2, 2, 4>>) + Bytes(blob')
                             + (IF ir THEN 8 ELSE 0))>>
  /\ stage' = "done"
  /\ UNCHANGED <<machine, hosts, todo>>

ScopesNext ==
  \/ \E h \in Hosts : WalkHost(h)
  \/ InsertDevice \/ FinishDmar \/ FinishIvrs

ScopesSpec == ScopesInit /\ [][ScopesNext]_scopeVars

-----------------------------------------------------------------------------
ScopesTypeOK ==
  /\ stage \in {"walk", "done"} /\ hosts \subseteq Hosts /\ bypass \subseteq Hosts
  /\ \A k \in 1 .. Len(todo) : todo[k] \in Devs
  /\ \A k \in 1 .. Len(blob) :
       /\ blob[k].is \in {"bridge", "endpoint"} <=> which = "DMAR"
       /\ blob[k].from <= blob[k].to

Behind == {d \in Devs : Host[d] \notin bypass}
CoveredBy(d) ==
  {k \in 1 .. Len(blob) :
     blob[k].is = "all" \/ (blob[k].from <= DevId(d) /\ DevId(d) <= blob[k].to)}

(* "complete set of IVHD entries": a device behind the IOMMU, at whatever  *)
(* depth, is in exactly one entry, never in a Select and in a range.       *)
EntriesComplete ==
  stage = "done" /\ which = "IVRS" =>
    \A d \in Behind : Cardinality(CoveredBy(d)) = 1

(* The id a device's requests carry: its own, until a conventional bus is  *)
(* on the way; then the bridge to the outermost one speaks for it.         *)
Requester(d) ==
  LET conventional == {b \in Above[d] : ~Express(b)}
      b == CHOOSE c \in conventional : Above[c] \cap conventional = {}
  IN  IF conventional = {} THEN DevId(d)
      ELSE IF kind[b] = "topci" THEN Bdf(Sec(b), 0) ELSE DevId(b)

(* The entry a device is in maps it to the id its requests carry.          *)
RequestersNamed ==
  stage = "done" /\ which = "IVRS" =>
    \A d \in Behind : \A k \in CoveredBy(d) :
      Requester(d) = (IF blob[k].is = "alias" THEN blob[k].for ELSE DevId(d))

(* A device whose host bridge bypasses the IOMMU is in no entry; unless no *)
(* device is behind it, when the entry for all devices takes them all in.  *)
BypassLeftOut ==
  stage = "done" /\ which = "IVRS" /\ Behind # {} =>
    \A d \in Devs \ Behind : CoveredBy(d) = {}

(* DMAR: exactly one scope, its own or that of a bridge above it, speaks   *)
(* for a device behind the IOMMU, and none for the others.                 *)
ScopesComplete ==
  stage = "done" /\ which = "DMAR" =>
    \A d \in Devs :
      Cardinality({k \in 1 .. Len(blob) :
          \/ blob[k].for = DevId(d)
          \/ blob[k].is = "bridge" /\ \E b \in Above[d] : blob[k].for = DevId(b)})
        = IF d \in Behind THEN 1 ELSE 0

(* Each structure is as long as it says: a reader finds the next one.      *)
LengthsExact ==
  \A k \in 1 .. Len(lengths) : lengths[k].stated = lengths[k].bytes

(* Each device is told of once, and only if it is behind the IOMMU.        *)
DevicesCovered ==
  ScopesTypeOK /\ EntriesComplete /\ BypassLeftOut /\ ScopesComplete /\ LengthsExact
=============================================================================
