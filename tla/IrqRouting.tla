----------------------------- MODULE IrqRouting -----------------------------
(***************************************************************************)
(* PCI interrupt routing in the DSDT: the _PRT entries that build_prt      *)
(* makes for the i440fx bridge and for expanders, the Q35 code             *)
(* (build_q35_routing_table) and the Rust generator, and the link devices  *)
(* the guest sets them up through.                                         *)
(* A link is the code of its last letter, 65 for "LNKA" or "GSIA".         *)
(***************************************************************************)
EXTENDS Integers, FiniteSets

CONSTANT Touched  \* bound: the links the guest sets up

A == 65
E == 69
S == 83  \* LNKS, fixed to the SCI
Links == A .. E + 3
Irqs == {5, 10, 11}
Off == 128
Nothing == -1

ASSUME TouchedAssumption == Touched \subseteq Links

VARIABLES
  gen,     \* whose table: "i440fx", "expander", "q35" or "rust"
  next,    \* the next pin (i440fx) or slot to be routed
  routes,  \* the entries so far
  picf,    \* PICF: 0 for the PIC, 1 for the APIC
  reg,     \* the links' registers, PRQ0 .. PRQ3 or PRQA .. PRQH
  asked    \* the interrupt the guest last set each link to, or Off

irqVars == <<gen, next, routes, picf, reg, asked>>

Piix == gen \in {"i440fx", "expander"}
Rows == IF Piix THEN 128 ELSE 32
Route(slot, pin, link) == [slot |-> slot, pin |-> pin, link |-> link]
Overflow == -1  \* a panic in a build that checks u8 arithmetic

-----------------------------------------------------------------------------
(* build_prt: the link of the index `pin' the method counts to 128.        *)
PiixLink(pin) ==
  LET index == (pin + pin \div 4) % 4
  IN  CASE index = 0 -> A + 3
        [] index = 1 -> IF gen = "i440fx" /\ pin = 4 THEN S ELSE A
        [] OTHER     -> A + index - 1

(* Seeded fault: the head starts again at zero instead of minus i.         *)
HeadZero(letter, base, i, negative) ==
  LET h[k \in 0 .. 3] ==
        LET head == IF k = 0 THEN letter - base ELSE h[k - 1]
        IN  IF head + k > 3 THEN 0 ELSE head
  IN  h[i]

(* The head of the rotation when pin i is reached.                         *)
HeadAt(letter, base, i, negative) ==
  LET h[k \in 0 .. 3] ==
        LET head == IF k = 0 THEN letter - base ELSE h[k - 1]
        IN  IF head + k > 3 THEN negative[k] ELSE head
  IN  h[i]

BaseOf(letter) == IF letter < E THEN A ELSE E

(* append_q35_prt_entry.                                                   *)
Q35Link(letter, i) ==
  BaseOf(letter) + HeadAt(letter, BaseOf(letter), i, [k \in 0 .. 3 |-> -k]) + i

(* The same in Rust, where head is a u8: minus i is 256 - i.               *)
RustLink(letter, i) ==
  LET base == BaseOf(letter)
      head == HeadAt(letter, base, i, [k \in 0 .. 3 |-> (256 - k) % 256])
  IN  IF base + head > 255 \/ head + i > 255 THEN Overflow ELSE base + head + i

Q35Letter(slot) ==
  CASE slot < 24            -> E + (slot % 4)
    [] slot \in {24, 30}    -> E
    [] OTHER                -> A

RustLetter(slot) ==
  CASE slot <= 24 \/ slot = 30 -> E
    [] OTHER                   -> A

-----------------------------------------------------------------------------
(* The firmware leaves a link off, or set to an interrupt.                 *)
IrqInit ==
  /\ gen \in {"i440fx", "expander", "q35", "rust"}
  /\ next = 0 /\ routes = {} /\ picf = 0
  /\ reg \in {r \in [Links -> {128, 10}] : \A l \in Links \ Touched : r[l] = 128}
  /\ asked = [l \in Links |-> Nothing]

(* One turn of the _PRT method's loop.                                     *)
PiixRow ==
  /\ Piix /\ next < Rows
  /\ routes' = routes \cup {Route(next \div 4, next % 4, PiixLink(next))}
  /\ next' = next + 1
  /\ UNCHANGED <<gen, picf, reg, asked>>

(* One slot's four entries.                                                *)
Q35Row ==
  /\ gen = "q35" /\ next < Rows
  /\ routes' = routes \cup
       {Route(next, i, Q35Link(Q35Letter(next), i)) : i \in 0 .. 3}
  /\ next' = next + 1
  /\ UNCHANGED <<gen, picf, reg, asked>>

RustRow ==
  /\ gen = "rust" /\ next < Rows
  /\ routes' = routes \cup
       {Route(next, i, RustLink(RustLetter(next), i)) : i \in 0 .. 3}
  /\ next' = next + 1
  /\ UNCHANGED <<gen, picf, reg, asked>>

(* _PIC, which the i440fx tables do not have.                              *)
Pic(mode) ==
  /\ next = Rows /\ ~Piix
  /\ picf' = mode
  /\ UNCHANGED <<gen, next, routes, reg, asked>>

(* The link devices of the C code; in Rust _SRS and _DIS are empty.        *)
Settable(l) ==
  /\ next = Rows /\ gen # "expander"
  /\ l \in IF gen = "i440fx" THEN A .. A + 3 ELSE Links

(* Seeded fault: the setting joined to what was there.                     *)
SrsJoined(l, irq) ==
  /\ Settable(l)
  /\ reg' = IF gen = "rust" THEN reg
            ELSE [reg EXCEPT ![l] = irq + (@ \div 128) * 128]
  /\ asked' = [asked EXCEPT ![l] = irq]
  /\ UNCHANGED <<gen, next, routes, picf>>

Srs(l, irq) ==
  /\ Settable(l)
  /\ reg' = IF gen = "rust" THEN reg ELSE [reg EXCEPT ![l] = irq]
  /\ asked' = [asked EXCEPT ![l] = irq]
  /\ UNCHANGED <<gen, next, routes, picf>>

Dis(l) ==
  /\ Settable(l)
  /\ reg' = IF gen = "rust" THEN reg ELSE [reg EXCEPT ![l] = (@ % 128) + 128]
  /\ asked' = [asked EXCEPT ![l] = Off]
  /\ UNCHANGED <<gen, next, routes, picf>>

IrqNext ==
  \/ PiixRow \/ Q35Row \/ RustRow
  \/ \E mode \in {0, 1} : Pic(mode)
  \/ \E l \in Touched : Dis(l) \/ \E irq \in Irqs : Srs(l, irq)

IrqSpec == IrqInit /\ [][IrqNext]_irqVars

-----------------------------------------------------------------------------
(* IQCR: the interrupts _CRS reports; the Rust _CRS returns all of _PRS.   *)
Crs(l) ==
  CASE gen = "i440fx" -> IF reg[l] < 128 THEN {reg[l]} ELSE {0}
    [] gen = "q35"    -> {reg[l] % 16}
    [] gen = "rust"   -> Irqs

(* IQST.                                                                   *)
Sta(l) == IF gen # "rust" /\ reg[l] >= 128 THEN 9 ELSE 11

(* The devices declared (for an expander those of both machines), and the  *)
(* ones _PRT leads to in the current mode.   *)
Declared ==
  CASE gen = "i440fx"   -> {<<"LNK", l>> : l \in (A .. A + 3) \cup {S}}
    [] gen = "expander" -> {<<"LNK", l>> : l \in A .. A + 3}
    [] OTHER            -> {"LNK", "GSI"} \X Links
Led == {<<IF picf = 0 THEN "LNK" ELSE "GSI", r.link>> : r \in routes}

(* The table without its one exception, the SCI's link for LNKA.           *)
LinkAt(slot, pin) ==
  LET r == CHOOSE t \in routes : t.slot = slot /\ t.pin = pin
  IN  IF r.link = S THEN A ELSE r.link

IrqTypeOK ==
  /\ next \in 0 .. Rows /\ picf \in {0, 1}
  /\ reg \in [Links -> 0 .. 255]
  /\ Cardinality(routes) = next * (IF Piix THEN 1 ELSE 4)

(* _PRT names only link devices that exist, in both modes: the rotation    *)
(* never leaves its four letters, and no u8 overflows on the way.          *)
LinksExist == Led \subseteq Declared

(* The four pins of a slot are on four links, wherever the rotation starts.*)
PinsApart ==
  next = Rows =>
    \A slot \in 0 .. 31 : Cardinality({LinkAt(slot, pin) : pin \in 0 .. 3}) = 4

(* "to equally distribute the interrupts over the 4 existing ACPI links":  *)
(* four neighbouring slots have their INTA, and so on, on four links.      *)
SlotsSpread ==
  next = Rows /\ gen # "rust" =>
    \A first \in 0 .. (IF gen = "q35" THEN 20 ELSE 28) : \A pin \in 0 .. 3 :
      Cardinality({LinkAt(slot, pin) : slot \in first .. first + 3}) = 4

(* The Rust table agrees with the Q35 code where that starts at E or A by  *)
(* itself, and in no other slot.                                           *)
RustAgrees ==
  next = Rows /\ gen = "rust" =>
    {slot \in 0 .. 31 :
       \A pin \in 0 .. 3 : LinkAt(slot, pin) = Q35Link(Q35Letter(slot), pin)}
      = {slot \in 0 .. 23 : slot % 4 = 0} \cup 24 .. 31

(* Every table routes every pin, in turn, to links that exist.             *)
PinsRouted == IrqTypeOK /\ LinksExist /\ PinsApart /\ SlotsSpread /\ RustAgrees

(* A link reports the interrupt it was last set to and that it is on, and  *)
(* that it is off once disabled; the i440fx one then reports no interrupt. *)
(* The Rust links are left out: they have no register, their _SRS and _DIS *)
(* are empty and their _CRS is fixed.                                      *)
SettingsReported ==
  gen # "rust" =>
    \A l \in Links :
      /\ asked[l] \in Irqs => Crs(l) = {asked[l]} /\ Sta(l) = 11
      /\ asked[l] = Off => Sta(l) = 9 /\ (gen = "i440fx" => Crs(l) = {0})
=============================================================================
