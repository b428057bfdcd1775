--------------------------- MODULE AmlDescriptors ---------------------------
(***************************************************************************)
(* Resource descriptors as src/aml-build.c and the Rust encoder (aml.rs)   *)
(* write them into a resource template, and a reader that goes through the *)
(* template by the lengths they state: from tag to tag, up to the end tag. *)
(***************************************************************************)
EXTENDS Integers, Sequences, FieldSums

CONSTANTS
  Kinds,     \* the descriptors an instance uses
  Counts,    \* of a GPIO connection's pins, of the interrupts in a list
  MaxItems   \* bound: descriptors in a template

(* irq_count is a byte, and asserted to be positive.                       *)
ASSUME CountsAssumption == Counts \subseteq 1 .. 255
ASSUME KindsAssumption ==
  /\ MaxItems \in Nat
  /\ Kinds \subseteq
       {"space", "fixed", "interrupt", "gpio", "i2c", "rust", "register"}

VARIABLES
  rust,      \* whether the Rust encoder writes the template
  template,  \* the descriptors in the buffer
  size,      \* the buffer's length, 0 until it is packed
  at,        \* where the reader is
  seen       \* the tags the reader has met

templateVars == <<rust, template, size, at, seen>>

(* A descriptor: its tag, the length stated after a large one's tag, the   *)
(* widths of the fields that follow, and the offsets it gives inside.      *)
Large(tag, stated, fields) ==
  [tag |-> tag, stated |-> stated, fields |-> fields, parts |-> << >>]
Small(tag, fields) ==
  [tag |-> tag, stated |-> 0, fields |-> fields, parts |-> << >>]

Written(d) == (IF d.tag >= 128 THEN 3 ELSE 1) + Total(d.fields)

-----------------------------------------------------------------------------
Header == <<1, 1, 1>>  \* aml_as_desc_header

WordSpace == Large(136, 13, Header \o <<2, 2, 2, 2, 2>>)
DwordSpace == Large(135, 23, Header \o <<4, 4, 4, 4, 4>>)
QwordSpace == Large(138, 43, Header \o <<8, 8, 8, 8, 8>>)
Memory32 == Large(134, 9, <<1>> \o <<1, 1, 1, 1>> \o <<1, 1, 1, 1>>)
IoPort == Small(71, <<1>> \o <<1, 1>> \o <<1, 1>> \o <<1, 1>>)
IrqNoFlags == Small(34, <<1, 1>>)
Dma == Small(42, <<1, 1>>)

Interrupt(n) == Large(137, 2 + n * 4, <<1, 1>> \o [k \in 1 .. n |-> 4])

SourceLen == 4  \* a resource source's name, one segment

(* Up to the flags, the pins' configuration, offsets and lengths.          *)
GpioFields == <<1, 1, 2, 2>> \o <<1, 2, 2>> \o <<2, 1, 2, 2, 2>>

(* Seeded fault: the pin table's offset counted without the tag.           *)
GpioOffsetShort(pins, vendor) ==
  LET least == 22
      names == least + pins * 2
  IN  [tag |-> 140, stated |-> least + SourceLen + 1 + vendor,
       fields |-> GpioFields \o [k \in 1 .. pins |-> 2] \o <<SourceLen, 1, vendor>>,
       parts |-> <<least, names, names + SourceLen + 1>>]

(* aml_gpio_connection: the parts are the pin table, the source's name and *)
(* the vendor data, if any.                                                 *)
Gpio(pins, vendor) ==
  LET least == 22
      names == least + 1 + pins * 2
  IN  [tag |-> 140, stated |-> least + SourceLen + 1 + vendor,
       fields |-> GpioFields \o [k \in 1 .. pins |-> 2] \o <<SourceLen, 1, vendor>>,
       parts |-> <<least + 1, names, names + SourceLen + 1>>]

(* aml_i2c_serial_bus_device, on aml_serial_bus_device.                    *)
I2c ==
  LET data == 6
  IN  Large(142, data + (SourceLen + 1) + 9,
            <<1, 1, 1, 1>> \o <<2, 1, 2>> \o <<4, 2>> \o <<SourceLen + 1>>)

(* Rust: three bytes of header, then five numbers of w bytes.              *)
RustSpace(w) ==
  Large(CASE w = 2 -> 136 [] w = 4 -> 135 [] w = 8 -> 138,
        3 + 5 * w, <<1, 1, 1>> \o [k \in 1 .. 5 |-> w])
RustMemory32 == Large(134, 9, <<1, 4, 4>>)
RustIo == Small(71, <<1, 2, 2, 1, 1>>)
RustInterrupt == Large(137, 6, <<1, 1, 4>>)

(* A constant for the length of a GAS.                                     *)
RustRegister == Large(130, 18, <<1, 1, 1, 1, 8>>)

Descriptors(kind) ==
  CASE kind = "space"     -> {WordSpace, DwordSpace, QwordSpace}
    [] kind = "fixed"     -> {Memory32, IoPort, IrqNoFlags, Dma}
    [] kind = "interrupt" -> {Interrupt(n) : n \in Counts}
    [] kind = "gpio"      -> {Gpio(n, v) : n \in Counts, v \in {0, 2}}
    [] kind = "i2c"       -> {I2c}
    [] kind = "rust"      -> {RustSpace(w) : w \in {2, 4, 8}}
                               \cup {RustMemory32, RustIo, RustInterrupt}
    [] kind = "register"  -> {RustRegister}

EndTag == Small(121, <<1>>)

Lengths(items) == [k \in DOMAIN items |-> Written(items[k])]

-----------------------------------------------------------------------------
TemplateInit ==
  rust \in BOOLEAN /\ template = << >> /\ size = 0 /\ at = 0 /\ seen = << >>

(* aml_append of a descriptor to the template.                             *)
AppendDescriptor ==
  /\ size = 0 /\ Len(template) < MaxItems
  /\ \E kind \in {k \in Kinds : rust <=> k \in {"rust", "register"}} :
       \E d \in Descriptors(kind) : template' = Append(template, d)
  /\ UNCHANGED <<rust, size, at, seen>>

(* aml_append of the template itself: end tag, length, package.            *)
Pack ==
  /\ size = 0
  /\ template' = Append(template, EndTag)
  /\ size' = Total(Lengths(template'))
  /\ UNCHANGED <<rust, at, seen>>

(* Where the k-th descriptor starts.                                       *)
Start(k) == Ends(Lengths(template))[k - 1]

(* A small descriptor has its length in its tag.                           *)
Advance(d) == IF d.tag >= 128 THEN 3 + d.stated ELSE 1 + (d.tag % 8)

(* The reader takes what is at `at' for a descriptor and goes on behind it.*)
Read ==
  /\ size > 0 /\ at < size
  /\ \E k \in DOMAIN template :
       /\ Start(k) = at
       /\ seen' = Append(seen, template[k].tag)
       /\ at' = at + Advance(template[k])
  /\ UNCHANGED <<rust, template, size>>

TemplateNext == AppendDescriptor \/ Pack \/ Read

TemplateSpec == TemplateInit /\ [][TemplateNext]_templateVars

-----------------------------------------------------------------------------
TemplateTypeOK ==
  /\ rust \in BOOLEAN /\ size \in Nat /\ at \in Nat
  /\ Len(seen) <= Len(template) /\ Len(template) <= MaxItems + 1
  /\ size > 0 => template[Len(template)] = EndTag

Pins(d) == Len(d.fields) - 15  \* of a GPIO connection

(* Two encoders state a wrong length: Register 18 bytes where the 12 of a  *)
(* GAS follow, aml_gpio_connection one pin's two bytes for all of them.    *)
Misstated(d) == d = RustRegister \/ (d.parts # << >> /\ Pins(d) # 1)

(* Wherever the reader arrives, a descriptor starts or the buffer ends:    *)
(* every stated length is the number of bytes that follow.  At the end it  *)
(* has met what was appended, in its order, and the end tag.               *)
ReaderInStep ==
  size > 0 /\ (\A k \in DOMAIN template : Start(k) < at => ~Misstated(template[k])) =>
    /\ at = size \/ \E k \in DOMAIN template : Start(k) = at
    /\ at = size => seen = [k \in DOMAIN template |-> template[k].tag]

(* The offsets in a GPIO connection are where its parts are: behind its    *)
(* twelve fields, behind its pins, behind the name's terminator.           *)
PartsFound ==
  \A d \in {template[k] : k \in DOMAIN template} :
    LET Offset(n) == 3 + Ends(d.fields)[n]
    IN  d.parts # << >> =>
          d.parts = <<Offset(12), Offset(12 + Pins(d)), Offset(14 + Pins(d))>>

(* The template can be read as it was meant.                               *)
Readable == TemplateTypeOK /\ ReaderInStep /\ PartsFound
=============================================================================
