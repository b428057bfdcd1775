------------------------------ MODULE AmlSize ------------------------------
(***************************************************************************)
(* How many bytes the AML encoder (src/src/acpi/aml.rs) produces.          *)
(*                                                                         *)
(* Every composite AML object is serialised as an opcode, a PkgLength and  *)
(* its contents, and the width of the PkgLength depends on the contents:   *)
(* the size of an object is therefore not the sum of its parts plus a      *)
(* constant.  The DSDT padding search and the table layout depend on these *)
(* sizes only, so the bytes themselves are left out here.                  *)
(***************************************************************************)
EXTENDS Integers

(* to_aml_bytes of u8/u16/u32/u64/usize: ZeroOp and OneOp take one byte,   *)
(* larger values a prefix and the narrowest of 1, 2, 4 or 8 bytes.         *)
IntLen(v) ==
  CASE v <= 1                                 -> 1
    [] v > 1     /\ v <= 255                  -> 2
    [] v > 255   /\ v <= 65535                -> 3
    [] v > 65535 /\ v \div 65536 <= 65535     -> 5
    [] OTHER                                  -> 9

(* create_pkg_length: the number of bytes of the PkgLength field.          *)
PkgLengthLen(len) ==
  CASE len < 63                               -> 1    \* 2^6 - 1
    [] len >= 63   /\ len < 4094              -> 2    \* 2^12 - 2
    [] len >= 4094 /\ len < 1048573           -> 3    \* 2^20 - 3
    [] OTHER                                  -> 4

(* An object with `op' opcode bytes, a PkgLength and `len' bytes in it:    *)
(* Package, Device, Scope, Method, If, Else, Buffer ...                    *)
Block(op, len) == op + PkgLengthLen(len) + len

(* A NameSeg, and Name(NAME, value) with a value of `len' bytes.           *)
NameSegLen == 4
NameLen(len) == 1 + NameSegLen + len

(* create_aml_string: StringOp, the characters, a NUL.                     *)
StringLen(chars) == chars + 2

(* BufferData: the buffer size as an integer, then the data.               *)
BufferLen(len) == Block(1, IntLen(len) + len)

=============================================================================
