--------------------------- MODULE MCDsdtPadding ---------------------------
(***************************************************************************)
(* Instances of DsdtPadding for TLC.  The targets lie on both sides of     *)
(* every width change of the encoding that a table of realistic size can   *)
(* meet: the wrapper (pads 0 and 1), the one-byte integers (2), the        *)
(* two-byte PkgLength (63), the word (256), the three-byte PkgLength       *)
(* (4094) and the double word (65536).                                     *)
(***************************************************************************)
EXTENDS DsdtPadding

(* The unpadded body for one processor is 5402 bytes.                      *)
MCBodies == {0, 1, 36, 5402}

(* Distances from the body at which the encoding changes its width, and    *)
(* the one that the program's own target for one processor lies at.        *)
Edges == {0, 64, 256, 4096, 65536}
Real == 8081 - 5402

MCTargets ==
  (0 .. 330)
  \union UNION {36 + e - 8 .. 36 + e + 16 : e \in Edges}
  \union UNION {5402 + e - 2 .. 5402 + e + 10 : e \in {0, 256, Real}}
=============================================================================
