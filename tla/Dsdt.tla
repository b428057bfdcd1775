-------------------------------- MODULE Dsdt --------------------------------
(***************************************************************************)
(* The length of the DSDT (src/src/acpi/dsdt/mod.rs): encode_dsdt_body     *)
(* section by section, and the target that DsdtPadding pads it to.         *)
(*                                                                         *)
(* A configuration c has the fields cpus, hpet, compat and devices, a      *)
(* sequence of PCI devices [driver, id, root, devfn]: id is the length of  *)
(* the id string or None, root whether the device sits on pcie.0.          *)
(***************************************************************************)
EXTENDS AmlSize, Sequences, FiniteSetsExt

CONSTANT None  \* Rust's Option::None

ASSUME NoneAssumption == None \notin Nat

(* The opcodes: Device is an ExtOp, the others are one byte.               *)
DeviceLen(children) == Block(2, NameSegLen + children)
MethodLen(children) == Block(1, NameSegLen + 1 + children)
EisaLen == IntLen(2^30)

SumOver(S, f(_)) == MapThenSumSet(f, S)

(* pci_device_description and append_device_specific_objects, in the       *)
(* lengths of their strings.                                               *)
Description ==
  [net |-> 21, blk |-> 19, scsi |-> 22, balloon |-> 21]
Class == [net |-> 3, blk |-> 5, scsi |-> 7, balloon |-> 6]

(* pci_adr: the slot in the high word, the function in the low one.        *)
PciAdr(devfn) == (devfn \div 8) * 65536 + (devfn % 8)

(* build_pci_device_bytes                                                  *)
PciDeviceLen(d) ==
  DeviceLen(
    NameLen(IntLen(PciAdr(d.devfn))) + NameLen(IntLen(15))
    + 2 * NameLen(IntLen(d.devfn \div 8))
    + (IF d.id = None THEN 0 ELSE NameLen(StringLen(d.id)))
    + (IF d.driver \notin DOMAIN Class THEN 0
       ELSE NameLen(StringLen(Description[d.driver]))
            + NameLen(StringLen(Class[d.driver]))))

(* build_pci0_device_bytes: _HID, _CID, _UID, _OSC, the root bus devices.  *)
Pci0Len(c) ==
  DeviceLen(
    2 * NameLen(EisaLen) + NameLen(IntLen(0)) + MethodLen(2)
    + SumOver({k \in 1 .. Len(c.devices) : c.devices[k].root},
              LAMBDA k : PciDeviceLen(c.devices[k])))

(* build_cpu_device_bytes: _HID, _UID, _STA and a 16-byte _MAT.            *)
CpuDeviceLen(uid) ==
  DeviceLen(NameLen(StringLen(8)) + NameLen(IntLen(uid)) + NameLen(IntLen(15))
            + NameLen(BufferLen(16)))

(* build_hpet_device_bytes, with the 14 bytes of hpet_resource_template.   *)
HpetDeviceLen ==
  DeviceLen(NameLen(EisaLen) + NameLen(IntLen(0)) + NameLen(IntLen(15))
            + NameLen(BufferLen(14)))

(* build_root_scope_bytes: Scope(\_SB_).                                   *)
RootScopeLen(c) ==
  Block(1, 1 + NameSegLen + Pci0Len(c)
           + SumOver(0 .. c.cpus - 1, CpuDeviceLen)
           + (IF c.hpet THEN HpetDeviceLen ELSE 0))

(* build_q35_routing_table: 32 slots of four pins, an entry being a        *)
(* package of the address, the pin, the link's name and a zero.            *)
PrtEntryLen(slot, pin) ==
  Block(1, 1 + IntLen(slot * 65536 + 65535) + IntLen(pin) + NameSegLen + 1)
RoutingTableLen ==
  Block(1, 1 + SumOver((0 .. 31) \X (0 .. 3),
                       LAMBDA p : PrtEntryLen(p[1], p[2])))

(* ResourceTemplate of n Interrupt descriptors, with its end tag.          *)
InterruptsLen(n) == BufferLen(9 * n + 2)

(* build_link_device_bytes, build_gsi_link_device_bytes                    *)
LinkDeviceLen(uid) ==
  DeviceLen(NameLen(EisaLen) + NameLen(IntLen(uid)) + NameLen(InterruptsLen(3))
            + MethodLen(1 + IntLen(11)) + MethodLen(1 + NameSegLen)
            + 2 * MethodLen(0))
GsiLinkDeviceLen(uid) ==
  DeviceLen(NameLen(EisaLen) + NameLen(IntLen(uid))
            + 2 * NameLen(InterruptsLen(1)) + 2 * MethodLen(0))

(* build_q35_irq_routing_bytes: PICF, _PIC, Scope(\_SB_.PCI0) with the     *)
(* tables and _PRT, Scope(\_SB_) with the link devices.                    *)
PrtMethodLen ==
  MethodLen(Block(1, 1 + NameSegLen + 1 + 1 + NameSegLen)
            + Block(1, 1 + NameSegLen))
IrqRoutingLen ==
  NameLen(IntLen(0)) + MethodLen(1 + 1 + NameSegLen)
  + Block(1, 2 + 2 * NameSegLen + 2 * NameLen(RoutingTableLen) + PrtMethodLen)
  + Block(1, 1 + NameSegLen
             + SumOver(0 .. 7, LAMBDA uid : NameLen(IntLen(16 + uid))
                                            + LinkDeviceLen(uid)
                                            + GsiLinkDeviceLen(16 + uid)))

(* build_root_sleep_bytes, build_gpe_scope_bytes                           *)
RootSleepLen == NameLen(Block(1, 1 + 4 * IntLen(0)))
GpeScopeLen == Block(1, NameSegLen + NameLen(StringLen(8)))

(* encode_dsdt_body(config, 0)                                             *)
BodyLen(c) == RootScopeLen(c) + IrqRoutingLen + RootSleepLen + GpeScopeLen

(* encode_dsdt_body(config, pad).len() for an unpadded body of b bytes:     *)
(* a Name(QPAD, Buffer(pad)) follows when pad > 0.                         *)
EncodedLen(b, pad) == IF pad = 0 THEN b ELSE b + NameLen(BufferLen(pad))

(* target_dsdt_len: lengths measured for 1, 2 and 16 processors, and       *)
(* extrapolated.                                                           *)
TargetDsdtLen(c) ==
  IF ~c.compat THEN None ELSE
  LET base == CASE c.cpus = 1        -> 8031
                [] c.cpus = 2        -> 8028
                [] c.cpus \in 3 .. 16 -> 8029
                [] OTHER             -> 8031
  IN  base + 86 * c.cpus + (IF c.hpet THEN 142 ELSE 0) + 17 * Len(c.devices)

(* What encode_dsdt_with_padding is to return for a body of b bytes and a  *)
(* target t: the body as it is when it is long enough, the target when     *)
(* some pad meets it, and otherwise the next thing above it that the       *)
(* missing bytes lead to.  Module DsdtPadding is the algorithm, and shows  *)
(* that it computes this.                                                  *)
PaddedLen(b, t) ==
  IF t = None \/ (t # None /\ b >= t) THEN b ELSE
  LET pad == CHOOSE p \in 0 .. t - b :
               EncodedLen(b, p) <= t /\ t < EncodedLen(b, p + 1)
  IN  IF EncodedLen(b, pad) = t
        THEN t
        ELSE EncodedLen(b, pad + (t - EncodedLen(b, pad)))

(* target_total_len.saturating_sub(36)                                     *)
TargetBodyLen(c) ==
  LET total == TargetDsdtLen(c)
  IN  IF total = None THEN None ELSE IF total < 36 THEN 0 ELSE total - 36

(* build_dsdt: the header and the padded body.                             *)
BuiltDsdtLen(c) == 36 + PaddedLen(BodyLen(c), TargetBodyLen(c))
=============================================================================
