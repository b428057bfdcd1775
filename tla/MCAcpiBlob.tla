----------------------------- MODULE MCAcpiBlob -----------------------------
(***************************************************************************)
(* Instances of AcpiBlob for TLC, with the DSDT's real length.             *)
(***************************************************************************)
EXTENDS AcpiBlob

D == INSTANCE Dsdt

(* PlatformConfig::intel_tdx_q35(n)                                        *)
IntelTdxQ35(n) ==
  [base |-> 0, front |-> 0, cpus |-> n, compat |-> TRUE, devices |-> <<>>,
   hpet |-> FALSE, mcfg |-> TRUE, vmgenid |-> FALSE,
   numa |-> FALSE, slit |-> FALSE, hmat |-> FALSE,
   nvdimm |-> FALSE, cxl |-> FALSE, tpm |-> None, iommu |-> None]

(* build_dsdt(config).len(), tabulated for the configurations below.       *)
BuiltLen == [n \in {0, 1, 2, 16, 17, 48, 64}, h \in BOOLEAN, k \in BOOLEAN |->
  D!BuiltDsdtLen([IntelTdxQ35(n) EXCEPT !.hpet = h, !.compat = k])]

MCDsdtLen(c) == BuiltLen[c.cpus, c.hpet, c.compat]

Net == [driver |-> "net", id |-> 7, root |-> TRUE, devfn |-> 8]

(* The lengths that the tests of mod.rs assert, and the unpadded one.      *)
ASSUME GroundTruth ==
  /\ MCDsdtLen(IntelTdxQ35(1)) = 8117
  /\ MCDsdtLen(IntelTdxQ35(2)) = 8200
  /\ MCDsdtLen(IntelTdxQ35(48)) = 12159
  /\ MCDsdtLen(IntelTdxQ35(64)) = 13535
  /\ MCDsdtLen([IntelTdxQ35(16) EXCEPT !.hpet = TRUE]) = 9547
  /\ D!BuiltDsdtLen([IntelTdxQ35(16) EXCEPT !.devices = <<Net>>]) = 9422
  /\ MadtLen(IntelTdxQ35(48)) = 606
  /\ MadtLen(IntelTdxQ35(64)) = 734
  /\ MCDsdtLen([IntelTdxQ35(1) EXCEPT !.compat = FALSE]) = 5438

(* Every combination of the optional tables, for one small machine.        *)
Switches ==
  [hpet : BOOLEAN, mcfg : BOOLEAN, vmgenid : BOOLEAN, numa : BOOLEAN,
   slit : BOOLEAN, hmat : BOOLEAN, nvdimm : BOOLEAN, cxl : BOOLEAN,
   tpm : Tpms \union {None}, iommu : Iommus \union {None}]

With(c, s) == [f \in DOMAIN c |-> IF f \in DOMAIN s THEN s[f] ELSE c[f]]

AllSwitches == {With(IntelTdxQ35(2), s) : s \in Switches}

(* Where the blob lies and how large it is: with a scaled U32 of 16384 the *)
(* blob ends below, at and above the limit, starts above it, and its own   *)
(* offsets wrap.                                                           *)
Few == {[hpet |-> h, mcfg |-> TRUE, vmgenid |-> v, numa |-> TRUE,
         slit |-> TRUE, hmat |-> FALSE, nvdimm |-> FALSE, cxl |-> v,
         tpm |-> t, iommu |-> "DMAR"] :
         h \in BOOLEAN, v \in BOOLEAN, t \in {None, "TPM2"}}

Placements ==
  {With([IntelTdxQ35(n) EXCEPT !.base = b, !.front = f, !.compat = k], s) :
     n \in {0, 1, 17, 64}, b \in {0, 5000, 16384, 40000}, f \in {0, 1, 4096},
     k \in BOOLEAN, s \in Few}

MCConfigs == AllSwitches \union Placements
=============================================================================
