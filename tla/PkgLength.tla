----------------------------- MODULE PkgLength -----------------------------
(***************************************************************************)
(* The PkgLength field of AML, written twice: create_pkg_length of aml.rs  *)
(* computes all bytes from the length, the reference implementation's      *)
(* build_prepend_package_length (aml-build.c) takes the length apart from  *)
(* its high end, prepending a byte at a time in a switch that falls        *)
(* through.  The reader's side is the paragraph of the ACPI specification  *)
(* that aml.rs quotes.                                                     *)
(*                                                                         *)
(* The length includes the field's own bytes (except for a NamedField), so *)
(* the width has to be chosen before the value is known: around a change   *)
(* of width an off-by-one leaves a reader in the middle of an object.      *)
(***************************************************************************)
EXTENDS AmlSize, Sequences

Bits20 == 1048576
Bits28 == 268435456

CONSTANT Lens  \* the lengths to encode; longer ones do not fit in 28 bits

ASSUME LensAssumption == \A len \in Lens : len \in Nat /\ len < Bits28 - 4

Byte == 0 .. 255

(* Seeded fault: the width chosen without the field's own bytes.           *)
PkgWidthExclusive(len) ==
  CASE len < 64                -> 1
    [] len >= 64 /\ len < 4096 -> 2
    [] len >= 4096 /\ len < Bits20 -> 3
    [] OTHER -> 4

(* `length_length' of create_pkg_length.                                   *)
PkgWidth(len) == PkgLengthLen(len)

(* create_pkg_length: the value, and its bytes from the low end.           *)
PkgValue(len, includeSelf) == len + (IF includeSelf THEN PkgWidth(len) ELSE 0)

PkgBytes(width, length) ==
  CASE width = 1 -> <<length % 256>>
    [] width = 2 -> <<64 + (length % 16), (length \div 16) % 256>>
    [] width = 3 -> <<128 + (length % 16), (length \div 16) % 256,
                      (length \div 4096) % 256>>
    [] width = 4 -> <<192 + (length % 16), (length \div 16) % 256,
                      (length \div 4096) % 256, (length \div Bits20) % 256>>

CreatePkgLength(len, includeSelf) ==
  PkgBytes(PkgWidth(len), PkgValue(len, includeSelf))

(* The reader: the two high bits of the first byte tell how many follow.   *)
FollowingBytes(bytes) == bytes[1] \div 64

DecodePkgLength(bytes) ==
  CASE FollowingBytes(bytes) = 0 -> bytes[1] % 64
    [] FollowingBytes(bytes) = 1 -> (bytes[1] % 16) + 16 * bytes[2]
    [] FollowingBytes(bytes) = 2 -> (bytes[1] % 16) + 16 * bytes[2]
                                    + 4096 * bytes[3]
    [] FollowingBytes(bytes) = 3 -> (bytes[1] % 16) + 16 * bytes[2]
                                    + 4096 * bytes[3] + Bits20 * bytes[4]

-----------------------------------------------------------------------------
VARIABLES
  pc,           \* where build_prepend_package_length is
  input,        \* the length it was called with
  inclSelf,     \* its argument incl_self
  length,       \* `length', what is left of the value
  lengthBytes,  \* `length_bytes'
  package       \* what it has prepended

vars == <<pc, input, inclSelf, length, lengthBytes, package>>

Init ==
  /\ pc = "measure"
  /\ input \in Lens
  /\ inclSelf \in BOOLEAN
  /\ length = input
  /\ lengthBytes = 0
  /\ package = <<>>

(* The if-else chain, and `switch (length_bytes)'.                         *)
CWidth(n) ==
  CASE n + 1 < 64                          -> 1
    [] n + 1 >= 64 /\ n + 2 < 4096         -> 2
    [] n + 2 >= 4096 /\ n + 3 < Bits20    -> 3
    [] OTHER                               -> 4

Measure ==
  /\ pc = "measure"
  /\ lengthBytes' = CWidth(length)
  /\ pc' = "include"
  /\ UNCHANGED <<input, inclSelf, length, package>>

Entry(width) ==
  CASE width = 1 -> "single" [] width = 2 -> "case2"
    [] width = 3 -> "case3"  [] width = 4 -> "case4"

IncludeSelf ==
  /\ pc = "include"
  /\ length' = IF inclSelf THEN length + lengthBytes ELSE length
  /\ pc' = Entry(lengthBytes)
  /\ UNCHANGED <<input, inclSelf, lengthBytes, package>>

(* `byte = length' and build_prepend_byte, of the one-byte form.           *)
PrependSingle ==
  /\ pc = "single"
  /\ package' = <<length % 256>>
  /\ pc' = "done"
  /\ UNCHANGED <<input, inclSelf, length, lengthBytes>>

(* A case: the bits from `unit' on go into a byte and out of the length.   *)
PrependHigh(case, unit, next) ==
  /\ pc = case
  /\ package' = <<(length \div unit) % 256>> \o package
  /\ length' = length % unit
  /\ pc' = next
  /\ UNCHANGED <<input, inclSelf, lengthBytes>>

(* Seeded fault: the mask after the highest byte forgotten.                *)
PrependCase2Unmasked ==
  /\ pc = "case2"
  /\ package' = <<(length \div 16) % 256>> \o package
  /\ pc' = "lead"
  /\ UNCHANGED <<input, inclSelf, length, lengthBytes>>

PrependCase4 == PrependHigh("case4", Bits20, "case3")
PrependCase3 == PrependHigh("case3", 4096, "case2")
PrependCase2 == PrependHigh("case2", 16, "lead")

PrependLead ==
  /\ pc = "lead"
  /\ package' = <<((lengthBytes - 1) * 64 + length) % 256>> \o package
  /\ pc' = "done"
  /\ UNCHANGED <<input, inclSelf, length, lengthBytes>>

Done ==
  /\ pc = "done"
  /\ UNCHANGED vars

Next ==
  \/ Measure \/ IncludeSelf
  \/ PrependSingle \/ PrependCase4 \/ PrependCase3 \/ PrependCase2
  \/ PrependLead \/ Done

Spec == Init /\ [][Next]_vars

-----------------------------------------------------------------------------
(***************************************************************************)
(* Properties                                                              *)
(***************************************************************************)

(* Types of the C function's variables.                                    *)
TypeOK ==
  /\ pc \in {"measure", "include", "single", "case4", "case3", "case2", "lead",
             "done"}
  /\ input \in Lens
  /\ inclSelf \in BOOLEAN
  /\ length \in Nat /\ length < Bits28
  /\ lengthBytes \in 0 .. 4
  /\ package \in Seq(Byte) /\ Len(package) <= 4

(* create_pkg_length produces what the reference implementation produces.  *)
SameBytes ==
  pc = "done" => package = CreatePkgLength(input, inclSelf)

(* A reader of the Rust encoder's bytes gets the length back, and with the *)
(* field included ends exactly behind the object.                          *)
RoundTrip ==
  LET bytes == CreatePkgLength(input, inclSelf)
  IN  /\ FollowingBytes(bytes) = Len(bytes) - 1
      /\ DecodePkgLength(bytes) =
           input + (IF inclSelf THEN Len(bytes) ELSE 0)
=============================================================================
