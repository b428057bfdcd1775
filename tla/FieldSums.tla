----------------------------- MODULE FieldSums -----------------------------
(***************************************************************************)
(* Rows of fields, given by their widths: where each field ends, and how   *)
(* long the row is.                                                        *)
(***************************************************************************)
EXTENDS Integers, Sequences

Ends(widths) ==
  LET e[k \in 0 .. Len(widths)] == IF k = 0 THEN 0 ELSE e[k - 1] + widths[k]
  IN  e
Total(widths) == Ends(widths)[Len(widths)]
=============================================================================
