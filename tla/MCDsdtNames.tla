---------------------------- MODULE MCDsdtNames ----------------------------
(***************************************************************************)
(* Trees of two levels of bridges over five places, function one included, *)
(* besides the host bridge and the ISA bridge.                             *)
(***************************************************************************)
EXTENDS DsdtNames

Fixed(m) ==
  IF m = "i440fx" THEN <<0>> :> "fixed" @@ <<8>> :> "isa"
  ELSE <<0>> :> "fixed" @@ <<248>> :> "isa"

AtPlace ==
  <<16>> :> {"none", "indexed", "plug", "bridge", "newbridge", "expander"}
  @@ <<17>> :> {"none", "bridge", "newbridge"}
  @@ <<16, 0>> :> {"none", "fixed", "plug", "bridge"}
  @@ <<17, 1>> :> {"none", "plug", "bridge", "newbridge"}
  @@ <<16, 0, 0>> :> {"none", "plug"}
Places == DOMAIN AtPlace

(* Only a cold plugged bridge has devices behind it that matter here.      *)
Populations ==
  {f \in [Places -> UNION {AtPlace[p] : p \in Places}] :
     \A p \in Places :
       /\ f[p] \in AtPlace[p]
       /\ f[p] # "none" /\ Len(p) > 1 => f[Front(p)] = "bridge"}

Occupied(f) == [p \in {q \in Places : f[q] # "none"} |-> f[p]]

(* A new child bus is put at the head of the list: the hotplugged ones     *)
(* come first, the others in the order of their creation.                  *)
Listed(kind, ascending) ==
  LET bridges == {p \in DOMAIN kind : IsBridge(kind[p])}
      Rank(p) == (IF kind[p] = "newbridge" THEN 0 ELSE 1000)
                 + (IF ascending THEN Last(p) ELSE 500 - Last(p))
  IN  SetToSortSeq(bridges, LAMBDA p, q :
        Rank(p) < Rank(q) \/ (Rank(p) = Rank(q) /\ Len(p) < Len(q)))

TreesOf(m, populations) ==
  UNION {LET kind == Occupied(f) @@ Fixed(m)
             cold == {p \in DOMAIN kind : kind[p] = "bridge"}
         IN  {[kind |-> kind, bsel |-> b, native |-> n,
               children |-> Listed(kind, a)] :
                b \in SUBSET (cold \union {Root}), n \in {{}, cold},
                a \in BOOLEAN} :
           f \in populations}

(* One tree of each kind, for the setup with the optional devices.         *)
OneBridge ==
  {[p \in Places |-> CASE p = <<16>> -> "bridge"
                       [] p = <<16, 0>> -> "plug"
                       [] OTHER -> "none"]}
FewTrees ==
  [m \in {"i440fx", "q35"} |->
    {t \in TreesOf(m, OneBridge) : t.native = {} /\ t.children # << >>
                                   /\ t.bsel \in {{}, {Root}, {<<16>>}}}]
Hosts ==
  {{}, {[kind |-> "pci", num |-> 6, numa |-> FALSE]},
   {[kind |-> "cxl", num |-> 12, numa |-> TRUE],
    [kind |-> "express", num |-> 64, numa |-> FALSE],
    [kind |-> "pci", num |-> 200, numa |-> TRUE]}}
Devices ==
  {"mcfg", "hpet", "vmbus", "nvdimm", "legacy", "memory", "s4", "io", "tpm",
   "epc"}

(* Every tree on a bare machine, and every set of devices and expanders    *)
(* beside a few trees.                                                     *)
MCTrees ==
  "trees" :> [m \in {"i440fx", "q35"} |-> TreesOf(m, Populations)]
  @@ "extras" :> FewTrees
MCExtras == "trees" :> {} @@ "extras" :> Devices
MCExpanders == "trees" :> {{}} @@ "extras" :> Hosts
=============================================================================
