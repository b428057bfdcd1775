---------------------------- MODULE MCPkgLength ----------------------------
(***************************************************************************)
(* What encoders write and readers read: one instance of PkgLength, whose  *)
(* lengths lie around every change of the width and around the carries     *)
(* between the bytes, and one of AmlDescriptors.  A behaviour is one of    *)
(* the two: `part' says which, and the other one's variables rest.         *)
(***************************************************************************)
EXTENDS PkgLength, AmlDescriptors

VARIABLE part  \* which of the two

Near(n) == {m \in n - 6 .. n + 6 : m >= 0 /\ m < 268435456 - 4}

MCLens ==
  UNION {Near(n) : n \in {0, 16, 63, 256, 4094, 65536, 1048573, 16777216,
                          268435455}}

(* At rest: an empty template, and a field still to be measured.           *)
MCInit ==
  \/ /\ part = "length" /\ Init
     /\ rust = FALSE /\ template = << >> /\ size = 0 /\ at = 0 /\ seen = << >>
  \/ /\ part = "descriptors" /\ TemplateInit
     /\ pc = "measure" /\ input = 0 /\ inclSelf = FALSE
     /\ length = 0 /\ lengthBytes = 0 /\ package = << >>

LengthStep == part = "length" /\ Next /\ UNCHANGED <<part, templateVars>>
DescriptorStep ==
  part = "descriptors" /\ TemplateNext /\ UNCHANGED <<part, vars>>

MCSpec == MCInit /\ [][LengthStep \/ DescriptorStep]_<<part, vars, templateVars>>
=============================================================================
