------------------------------ MODULE DsdtNames ------------------------------
(***************************************************************************)
(* The names of the DSDT that build_dsdt (src/acpi-build.c) writes: which  *)
(* devices, objects and methods the table declares, under which scopes,    *)
(* and which names their methods use.  The table is the concatenation of   *)
(* some twenty blocks; a guest loads them in order, so that the scope a    *)
(* block opens has to exist by then, and a name may be declared once.  The *)
(* names that a method uses are looked up when it runs: in its own scope   *)
(* first and then in the enclosing ones.  One action per block; an action  *)
(* chooses the part of the machine that its block looks at.                *)
(***************************************************************************)
EXTENDS Integers, Sequences, FiniteSets, SequencesExt, TLC

CONSTANTS
  Machines,      \* the machine types, out of "i440fx" and "q35"
  Setups,        \* the populations an instance looks at; for each of them:
  Extras,        \* the optional devices that may be present
  Expanders,     \* sets of expander buses, records [kind, num, numa]
  Devfns,        \* the values of devfn that are enumerated
  Trees          \* what may be plugged below the root bus

(* What a name stands for: a method by the number of its arguments.        *)
Data == 8
Device == 9
Mutex == 10

Root == << >>
SB == <<"_SB">>
GPE == <<"_GPE">>
PCI0 == <<"_SB", "PCI0">>

Objects(names) == {<<n, Data>> : n \in names}
Methods(names) == {<<n, 0>> : n \in names}

(* Names looked up upwards from a scope, and names given by a path.        *)
Use(from, name, kind) ==
  [up |-> TRUE, from |-> from, path |-> <<name>>, kind |-> kind]
UsePath(from, path, kind) ==
  [up |-> FALSE, from |-> from, path |-> path, kind |-> kind]
Uses(from, pairs) == {Use(from, p[1], p[2]) : p \in pairs}

(* aml_device and aml_scope with what is appended to them.                 *)
Dev(at, objs, uses) ==
  [op |-> "device", at |-> at, objs |-> objs, uses |-> uses]
Scope(at, objs, uses) ==
  [op |-> "scope", at |-> at, objs |-> objs, uses |-> uses]

-----------------------------------------------------------------------------
(* What a guest makes of the table: a namespace (a function from paths to  *)
(* kinds), the scopes it did not find, the names declared twice and the    *)
(* uses.                                                                   *)
Empty ==
  [names |-> [p \in {Root, SB, GPE} |-> Device],
   lost |-> {}, twice |-> {}, uses |-> {}]

LoadTerm(d, t) ==
  LET new == {<<t.at \o <<o[1]>>, o[2]>> : o \in t.objs}
             \union {<<t.at, Device>> : x \in {t.op} \ {"scope"}}
      parent == IF t.op = "scope" THEN t.at ELSE Front(t.at)
      paths == {n[1] : n \in new}
      added == [p \in paths |-> (CHOOSE n \in new : n[1] = p)[2]]
  IN  [names |-> d.names @@ added,
       lost |-> d.lost \union ({parent} \ DOMAIN d.names),
       twice |-> d.twice \union (paths \intersect DOMAIN d.names)
                 \union {p \in paths :
                           Cardinality({n \in new : n[1] = p}) > 1},
       uses |-> d.uses \union t.uses]

Load(d, terms) == FoldLeft(LoadTerm, d, terms)

(* The declaration that a use finds, or << >>.                             *)
Found(names, u) ==
  IF u.up
  THEN LET hits == {k \in 0 .. Len(u.from) :
                      SubSeq(u.from, 1, k) \o u.path \in DOMAIN names}
       IN  IF hits = {} THEN << >>
           ELSE SubSeq(u.from, 1, CHOOSE k \in hits : \A j \in hits : j <= k)
                \o u.path
  ELSE IF u.path \in DOMAIN names THEN u.path ELSE << >>

(* A method without arguments yields its value where an object is used.    *)
Fits(have, want) == have = want \/ (want = Data /\ have = 0)

-----------------------------------------------------------------------------
(* The PCI tree.  A bus is the sequence of the devfns of the bridges above *)
(* it, a device the bus and its own devfn; a tree says what each device    *)
(* is, which buses have a BSEL, which are hotpluggable without ACPI, and   *)
(* in which order the child buses are listed.  Kinds: "fixed" (its class   *)
(* is not hotpluggable), "indexed" (the same, with an acpi-index), "plug"  *)
(* (hotpluggable, with an acpi-index), "bridge" (cold plugged),            *)
(* "newbridge" (hotplugged), "isa" (the bridge whose callback declares the *)
(* PIRQ registers), "expander" (its secondary bus is a root bus).          *)
VARIABLES
  pc,        \* the block to be written next
  setup,     \* the population, given to a run
  machine, pm,
  tree,
  dsdt

vars == <<pc, setup, machine, pm, tree, dsdt>>

Name(devfn) == "S" \o ToString(devfn)
Slot(devfn) == devfn \div 8
Func(devfn) == devfn % 8
BusPath(bus) == PCI0 \o [i \in DOMAIN bus |-> Name(bus[i])]

DevfnSeq == SetToSortSeq(Devfns, <)
Populated(t, bus, d) == bus \o <<d>> \in DOMAIN t.kind
Kind(t, bus, d) == t.kind[bus \o <<d>>]
IsBridge(kind) == kind \in {"bridge", "newbridge", "expander"}
Buses(t) == {Root} \union {p \in DOMAIN t.kind : IsBridge(t.kind[p])}

(* PCI Express: q35's root bus and the buses of its root ports.            *)
Express(bus) == machine = "q35" /\ Len(bus) <= 1

IgnoredGeneric(t, bus, d) ==
  Func(d) # 0 /\ Kind(t, bus, d) = "newbridge"

Hotpluggable(kind) == kind \in {"plug", "bridge", "newbridge"}

(* Seeded fault: no empty slot is described on an express bus.             *)
IgnoredHotplugExpress(t, bus, d) ==
  IF Populated(t, bus, d)
  THEN \/ IgnoredGeneric(t, bus, d) \/ ~Hotpluggable(Kind(t, bus, d))
       \/ Kind(t, bus, d) = "bridge"
  ELSE Func(d) # 0 \/ Express(bus)

IgnoredHotplug(t, bus, d) ==
  IF Populated(t, bus, d)
  THEN \/ IgnoredGeneric(t, bus, d)
       \/ ~Hotpluggable(Kind(t, bus, d))
       \/ Kind(t, bus, d) = "bridge"
  ELSE Func(d) # 0 \/ (Express(bus) /\ Slot(d) > 0)

(* aml_pci_device_dsm and the slot around it.                              *)
DsmUses(at) == Uses(at, {<<"BSEL", Data>>, <<"ASUN", Data>>, <<"PDSM", 5>>})

SlotTerm(t, bus, d) ==
  LET at == BusPath(bus) \o <<Name(d)>>
      objs == Objects({"ASUN", "_SUN"}) \union {<<"_DSM", 4>>, <<"_EJ0", 1>>}
      uses == DsmUses(at)
              \union Uses(at, {<<"BSEL", Data>>, <<"_SUN", Data>>, <<"PCEJ", 2>>})
  IN  IF Populated(t, bus, d) THEN Scope(at, objs, uses)
      ELSE Dev(at, objs \union Objects({"_ADR"}), uses)

(* build_append_pcihp_slots: the slots, and DVNT, which notifies function  *)
(* zero of each.                                                           *)
Slots(t, bus) ==
  LET at == BusPath(bus)
      shown == SelectSeq(DevfnSeq, LAMBDA d : ~IgnoredHotplug(t, bus, d))
  IN  <<Scope(at, Objects({"BSEL"}), {})>>
      \o [i \in DOMAIN shown |-> SlotTerm(t, bus, shown[i])]
      \o <<Scope(at, {<<"DVNT", 2>>},
                 {Use(at, Name(8 * Slot(d)), Device) : d \in Range(shown)})>>

(* The devices' callbacks: a cold plugged bridge describes its secondary   *)
(* bus, an ISA bridge the PIRQ registers.                                  *)
Pirqs == IF machine = "i440fx" THEN {"PRQ0", "PRQ1", "PRQ2", "PRQ3"}
         ELSE {"PRQA", "PRQB", "PRQC", "PRQD", "PRQE", "PRQF", "PRQG", "PRQH"}

(* The `hotpluggable' property is about the class and the bus.             *)
HotpluggableHere(t, bus, d) ==
  Hotpluggable(Kind(t, bus, d)) /\ bus \in t.bsel \union t.native

(* Seeded fault: every device with an acpi-index gets the static _DSM.     *)
StaticDsmAlways(t, bus, d) == Kind(t, bus, d) \in {"indexed", "plug"}

StaticDsm(t, bus, d) ==
  Kind(t, bus, d) \in {"indexed", "plug"} /\ ~HotpluggableHere(t, bus, d)

(* build_append_pci_bus_devices.                                           *)
BusDevices(t) ==
  LET Below[bus \in Buses(t)] ==
        LET Callback(d) ==
              LET sec == bus \o <<d>>
              IN  CASE Kind(t, bus, d) = "bridge" ->
                         Below[sec]
                         \o IF sec \in t.bsel THEN Slots(t, sec) ELSE << >>
                    [] Kind(t, bus, d) = "isa" -> <<Scope(SB, Objects(Pirqs), {})>>
                    [] OTHER -> << >>
            Describe(d) ==
              LET at == BusPath(bus) \o <<Name(d)>>
              IN  <<Dev(at, Objects({"_ADR"}), {})>> \o Callback(d)
                  \o IF StaticDsm(t, bus, d)
                     THEN <<Scope(at, {<<"_DSM", 4>>}, {Use(at, "EDSM", 5)})>>
                     ELSE << >>
            shown == SelectSeq(DevfnSeq, LAMBDA d :
                       Populated(t, bus, d) /\ ~IgnoredGeneric(t, bus, d))
        IN  FlattenSeq([i \in DOMAIN shown |-> Describe(shown[i])])
  IN  Below[Root]

(* build_append_notfication_callback: what a bus adds to the table, and    *)
(* whether it or a bus below it is notified of events.                     *)
PcntUses(t, bus, called) ==
  LET at == BusPath(bus)
  IN  {UsePath(at, BusPath(c) \o <<"PCNT">>, 0) : c \in Range(called)}
      \union IF bus \notin t.bsel THEN {}
             ELSE Uses(at, {<<"BNUM", Data>>, <<"PCIU", Data>>,
                            <<"PCID", Data>>, <<"DVNT", 2>>})

ChildBuses(t, bus) ==
  SelectSeq(t.children, LAMBDA c : Len(c) = Len(bus) + 1 /\ Front(c) = bus)

(* Seeded fault: a bus answers for itself only, not for those below it.    *)
NotifiedItself(t, bus, below) == bus \in t.bsel
Notified(t, bus, below) == below \/ bus \in t.bsel

Notification(t) ==
  LET Of[bus \in Buses(t)] ==
        LET Visit(acc, c) ==
              IF t.kind[c] = "expander" THEN acc
              ELSE IF ~(acc.notified \/ Of[c].notified) THEN acc
                   ELSE [called |-> Append(acc.called, c),
                         terms |-> acc.terms \o Of[c].terms, notified |-> TRUE]
            none == [called |-> << >>, terms |-> << >>, notified |-> FALSE]
            all == FoldLeft(Visit, none, ChildBuses(t, bus))
        IN  [notified |-> Notified(t, bus, all.notified),
             terms |-> Append(all.terms,
                              Scope(BusPath(bus), Methods({"PCNT"}),
                                    PcntUses(t, bus, all.called)))]
  IN  Of[Root]

-----------------------------------------------------------------------------
(* The parts of build_dsdt.                                                *)
DbgTerms ==
  <<Scope(Root, Objects({"DBG", "DBGB"}) \union {<<"DBUG", 1>>},
          {Use(Root, "DBGB", Data)})>>

(* build_x86_acpi_pci_hotplug with aml_pci_pdsm.                           *)
HotplugTerms ==
  <<Scope(PCI0,
      Objects({"PCST", "PCIU", "PCID", "SEJ", "B0EJ", "BNMR", "BNUM", "PIDX"})
      \union {<<"BLCK", Mutex>>, <<"PCEJ", 2>>, <<"AIDX", 2>>, <<"PDSM", 5>>},
      Uses(PCI0, {<<"BLCK", Mutex>>, <<"BNUM", Data>>, <<"B0EJ", Data>>,
                  <<"PIDX", Data>>, <<"AIDX", 2>>}))>>

(* build_link_dev, build_gsi_link_dev.                                     *)
LinkDev(name, reg) ==
  Dev(SB \o <<name>>,
      Objects({"_HID", "_UID", "_PRS"})
      \union Methods({"_STA", "_DIS", "_CRS"}) \union {<<"_SRS", 1>>},
      Uses(SB \o <<name>>, {<<"IQST", 1>>, <<"IQCR", 1>>, <<reg, Data>>}))

GsiLinkDev(name) ==
  Dev(SB \o <<name>>,
      Objects({"_HID", "_UID", "_PRS", "_CRS"})
      \union Methods({"_DIS"}) \union {<<"_SRS", 1>>}, {})

SciLinkDev ==
  Dev(SB \o <<"LNKS">>,
      Objects({"_HID", "_UID", "_PRS"})
      \union Methods({"_STA", "_DIS", "_CRS"}) \union {<<"_SRS", 1>>},
      {Use(SB \o <<"LNKS">>, "_PRS", Data)})

(* build_prt: the links of the conventional routing method.                *)
PrtLinks(isPci0) ==
  {"LNKA", "LNKB", "LNKC", "LNKD"} \union IF isPci0 THEN {"LNKS"} ELSE {}
PrtUses(at, isPci0) == {Use(at, l, Device) : l \in PrtLinks(isPci0)}

Links(prefix, letters) ==
  [i \in DOMAIN letters |-> prefix \o letters[i]]
AtoD == <<"A", "B", "C", "D">>
AtoH == AtoD \o <<"E", "F", "G", "H">>

IqTerms == <<Scope(SB, {<<"IQST", 1>>, <<"IQCR", 1>>}, {})>>

Piix4Int ==
  <<Scope(PCI0, Methods({"_PRT"}), PrtUses(PCI0, TRUE))>> \o IqTerms
  \o [i \in 1 .. 4 |->
        LinkDev("LNK" \o AtoD[i], "PRQ" \o ToString(i - 1))]
  \o <<SciLinkDev>>

Q35Int ==
  <<Scope(Root, Objects({"PICF"}) \union {<<"_PIC", 1>>},
          {Use(Root, "PICF", Data)}),
    Scope(PCI0, Objects({"PRTP", "PRTA"}) \union Methods({"_PRT"}),
          {Use(PCI0, l, Device) :
             l \in Range(Links("LNK", AtoH) \o Links("GSI", AtoH))}
          \union Uses(PCI0, {<<"PICF", Data>>, <<"PRTP", Data>>,
                             <<"PRTA", Data>>}))>>
  \o IqTerms
  \o [i \in 1 .. 8 |-> LinkDev("LNK" \o AtoH[i], "PRQ" \o AtoH[i])]
  \o [i \in 1 .. 8 |-> GsiLinkDev("GSI" \o AtoH[i])]

DramTerms == <<Dev(SB \o <<"DRAC">>, Objects({"_HID", "_CRS"}), {})>>

SmiTerms ==
  <<Dev(PCI0 \o <<"SMI0">>, Objects({"_HID", "_UID", "_CRS", "SMIR", "SMIC"}), {})>>

Q35Pci0 ==
  <<Dev(PCI0, Objects({"_HID", "_CID", "_UID"})
              \union {<<"_OSC", 4>>, <<"EDSM", 5>>}, {})>>

(* An expander root bus.                                                   *)
ExpanderTerm(x) ==
  LET at == SB \o <<(IF x.kind = "cxl" THEN "CL" ELSE "PC") \o ToString(x.num)>>
      own == CASE x.kind = "cxl" -> Objects({"_CID", "SUPP", "CTRL"})
                                    \union {<<"_OSC", 4>>}
               [] x.kind = "express" -> Objects({"_CID"}) \union {<<"_OSC", 4>>}
               [] OTHER -> {}
  IN  Dev(at, Objects({"_HID", "_UID", "_BBN", "_CRS"})
              \union Objects({"_PXM" : n \in {x.numa} \ {FALSE}})
              \union Methods({"_PRT"}) \union own, PrtUses(at, FALSE))

-----------------------------------------------------------------------------
Init ==
  /\ pc = "dbg"
  /\ setup \in Setups
  /\ machine \in Machines
  /\ pm \in [bridge : BOOLEAN, root : BOOLEAN, smi : BOOLEAN]
  /\ machine = "q35" => ~pm.root
  /\ machine = "i440fx" => ~pm.smi
  /\ tree = [kind |-> << >>, bsel |-> {}, native |-> {}, children |-> << >>]
  /\ dsdt = Empty

Write(terms) == dsdt' = Load(dsdt, terms)
Then(here, next) == pc = here /\ pc' = next
Optional(o) == {FALSE} \union {TRUE : x \in {o} \intersect Extras[setup]}
WhenTerms(b, terms) == IF b THEN terms ELSE << >>

BuildDbg ==
  /\ Then("dbg", "pci0")
  /\ Write(DbgTerms)
  /\ UNCHANGED <<setup, machine, pm, tree>>

BuildPci0 ==
  /\ Then("pci0", "hpet")
  /\ \E mcfg \in Optional("mcfg") :
       IF machine = "i440fx"
       THEN Write(<<Dev(PCI0, Objects({"_HID", "_UID"}) \union {<<"EDSM", 5>>}, {})>>
                  \o WhenTerms(pm.bridge \/ pm.root, HotplugTerms)
                  \o Piix4Int)
       ELSE Write(Q35Pci0 \o WhenTerms(mcfg, DramTerms)
                  \o WhenTerms(pm.smi, SmiTerms)
                  \o WhenTerms(pm.bridge, HotplugTerms)
                  \o Q35Int)
  /\ UNCHANGED <<setup, machine, pm, tree>>

BuildHpet ==
  /\ Then("hpet", "vmbus")
  /\ \E hpet \in Optional("hpet") :
       LET at == SB \o <<"HPET">>
       IN  Write(WhenTerms(hpet,
             <<Dev(at, Objects({"_HID", "_UID", "HPTM", "VEND", "PRD", "_CRS"})
                       \union Methods({"_STA"}),
                   Uses(at, {<<"VEND", Data>>, <<"PRD", Data>>}))>>))
  /\ UNCHANGED <<setup, machine, pm, tree>>

BuildVmbus ==
  /\ Then("vmbus", "gpe")
  /\ \E vmbus \in Optional("vmbus") :
       LET at == SB \o <<"VMBS">>
       IN  Write(WhenTerms(vmbus,
             <<Dev(at, Objects({"STA", "_HID", "_UID", "_DDN", "_PS3", "_CRS"})
                       \union Methods({"_DIS", "_PS0", "_STA"}),
                   {Use(at, "STA", Data)})>>))
  /\ UNCHANGED <<setup, machine, pm, tree>>

(* NVDR is declared by the SSDT of the NVDIMMs, which exists with them.    *)
BuildGpe ==
  /\ Then("gpe", "cpus")
  /\ \E nvdimm \in Optional("nvdimm") :
       Write(<<Scope(GPE, Objects({"_HID"})
                          \union IF nvdimm THEN Methods({"_E04"}) ELSE {}, {})>>)
  /\ UNCHANGED <<setup, machine, pm, tree>>

(* build_legacy_cpu_hotplug_aml, build_cpus_aml, build_memory_hotplug_aml  *)
(* and fw_cfg_add_acpi_dsdt.                                               *)
CpuTerms(legacy) ==
  IF legacy
  THEN <<Dev(SB \o <<"PRES">>, {}, {}), Scope(GPE, Methods({"_E02"}), {})>>
  ELSE <<Dev(PCI0 \o <<"PRES">>, {},
             IF pm.smi
             THEN {UsePath(PCI0 \o <<"PRES">>, PCI0 \o <<"SMI0", "SMIC">>, Data)}
             ELSE {}),
         Dev(SB \o <<"CPUS">>, {}, {}), Scope(GPE, Methods({"_E02"}), {})>>
MemoryTerms ==
  <<Dev(PCI0 \o <<"MHPD">>, {}, {}), Dev(SB \o <<"MHPC">>, {}, {}),
    Scope(GPE, Methods({"_E03"}), {})>>
FwCfgTerms == <<Dev(PCI0 \o <<"FWCF">>, {}, {})>>

BuildCpus ==
  /\ Then("cpus", "expanders")
  /\ \E legacy \in Optional("legacy"), memory \in Optional("memory") :
       Write(CpuTerms(legacy) \o WhenTerms(memory, MemoryTerms))
  /\ UNCHANGED <<setup, machine, pm, tree>>

BuildExpanders ==
  /\ Then("expanders", "crs")
  /\ \E xs \in Expanders[setup] :
       LET order == SetToSortSeq(xs, LAMBDA x, y : x.num > y.num)
           at == SB \o <<"CXLM">>
       IN  Write([i \in DOMAIN order |-> ExpanderTerm(order[i])]
                 \o WhenTerms(\E x \in xs : x.kind = "cxl",
                      <<Dev(at, Objects({"_HID"}) \union Methods({"_STA"})
                                \union {<<"_DSM", 4>>}, {})>>))
  /\ UNCHANGED <<setup, machine, pm, tree>>

(* PCI0._CRS and the reserved ports, then the sleep states and fw_cfg.     *)
BuildCrs ==
  /\ Then("crs", "devices")
  /\ \E s3 \in Optional("s3"), s4 \in Optional("s4"), io \in Optional("io") :
       LET reserved == Objects({"_HID", "_UID", "_STA", "_CRS"})
           sleep == {"_S5"} \union (IF s3 THEN {"_S3"} ELSE {})
                            \union (IF s4 THEN {"_S4"} ELSE {})
       IN  Write(<<Scope(PCI0, Objects({"_CRS"}), {}),
                   Dev(PCI0 \o <<"GPE0">>, reserved, {})>>
                 \o WhenTerms(io /\ (pm.bridge \/ pm.root),
                              <<Dev(PCI0 \o <<"PHPR">>, reserved, {})>>)
                 \o <<Scope(Root, Objects(sleep), {})>>
                 \o FwCfgTerms)
  /\ UNCHANGED <<setup, machine, pm, tree>>

(* Hotplug by ACPI is set up for the root bus by root_en and for the buses *)
(* of cold plugged bridges by bridge_en.                                   *)
MayHaveBsel(t) ==
  {b \in Buses(t) : IF b = Root THEN pm.root
                    ELSE pm.bridge /\ t.kind[b] = "bridge"}

BuildDevices ==
  /\ Then("devices", "notify")
  /\ \E t \in Trees[setup][machine] :
       /\ t.bsel \subseteq MayHaveBsel(t)
       /\ pm.root => Root \in t.bsel
       /\ \A p \in DOMAIN t.kind :
            t.kind[p] = "newbridge" => Front(p) \in t.bsel \union t.native
       /\ tree' = t
       /\ \E tpm \in Optional("tpm"), epc \in Optional("epc") :
            Write(BusDevices(t)
                  \o WhenTerms(Root \in t.bsel, Slots(t, Root))
                  \o WhenTerms(tpm, <<Dev(SB \o <<"TPM">>,
                       Objects({"_HID", "_STR", "_CRS", "_STA", "_UID"}), {})>>)
                  \o WhenTerms(epc, <<Dev(SB \o <<"EPC">>,
                       Objects({"_HID", "_STR", "_CRS"})
                       \union Methods({"_STA"}), {})>>))
  /\ UNCHANGED <<setup, machine, pm>>

EventUses(notified) ==
  IF notified
  THEN {UsePath(GPE, PCI0 \o <<"BLCK">>, Mutex),
        UsePath(GPE, PCI0 \o <<"PCNT">>, 0)}
  ELSE {}

BuildNotify ==
  /\ Then("notify", "done")
  /\ LET n == Notification(tree)
     IN  Write(WhenTerms(pm.bridge \/ pm.root,
           WhenTerms(n.notified, n.terms)
           \o <<Scope(GPE, Methods({"_E01"}), EventUses(n.notified))>>))
  /\ UNCHANGED <<setup, machine, pm, tree>>

Next ==
  \/ BuildDbg \/ BuildPci0 \/ BuildHpet \/ BuildVmbus \/ BuildGpe
  \/ BuildCpus \/ BuildExpanders \/ BuildCrs \/ BuildDevices \/ BuildNotify

Spec == Init /\ [][Next]_vars

-----------------------------------------------------------------------------
(* The namespace is a tree whose names have kinds.                         *)
TypeOK ==
  /\ pc \in {"dbg", "pci0", "hpet", "vmbus", "gpe", "cpus", "expanders",
             "crs", "devices", "notify", "done"}
  /\ machine \in {"i440fx", "q35"}
  /\ \A p \in DOMAIN dsdt.names :
       /\ dsdt.names[p] \in 0 .. 10
       /\ p = Root \/ Front(p) \in DOMAIN dsdt.names
  /\ {u.kind : u \in dsdt.uses} \subseteq 0 .. 10

(* Every scope that a block of build_dsdt opens, and the parent of every   *)
(* device, has been declared by an earlier one: a guest rejects the table  *)
(* otherwise.                                                              *)
ScopesExist == dsdt.lost = {}

(* No name is declared twice: the PCI devices, the slots over them, the    *)
(* notification methods and the fixed devices share the scopes.            *)
NoDuplicates == dsdt.twice = {}

(* In the finished table every name a method uses is declared, with the    *)
(* number of arguments the call passes.                                    *)
UsesResolve ==
  pc = "done" =>
    \A u \in dsdt.uses :
      LET f == Found(dsdt.names, u)
      IN  f # << >> /\ Fits(dsdt.names[f], u.kind)

(* A guest loads the finished table, and its methods run.                 *)
Loads == TypeOK /\ ScopesExist /\ NoDuplicates /\ UsesResolve

(* BSEL is declared in the scope of a bus, that is of a bridge: the _DSM   *)
(* and _EJ0 of a slot must find the BSEL of the bus the slot is on, not    *)
(* that of a bus behind it.  And a bus's DVNT must notify the slots of     *)
(* that bus: one that is not declared there would be looked up above.      *)
SlotsOnTheirBus ==
  pc = "done" =>
    /\ \A u \in dsdt.uses :
         u.path = <<"BSEL">> => Found(dsdt.names, u) = Front(u.from) \o <<"BSEL">>
    /\ \A b \in tree.bsel, d \in Devfns :
         LET u == Use(BusPath(b), Name(d), Device)
         IN  u \in dsdt.uses =>
               Found(dsdt.names, u) = BusPath(b) \o <<Name(d)>>

(* From _E01 the calls of PCNT reach every bus that has hotplug, through   *)
(* the buses above it, whether these have hotplug themselves or not.       *)
PcntReachesAll ==
  pc = "done" =>
    \A b \in tree.bsel :
      /\ UsePath(GPE, PCI0 \o <<"PCNT">>, 0) \in dsdt.uses
      /\ \A k \in 1 .. Len(b) :
           UsePath(BusPath(SubSeq(b, 1, k - 1)),
                   BusPath(SubSeq(b, 1, k)) \o <<"PCNT">>, 0) \in dsdt.uses
=============================================================================
