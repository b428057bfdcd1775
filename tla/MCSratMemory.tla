---------------------------- MODULE MCSratMemory ----------------------------
(***************************************************************************)
(* The hole below 1 MiB is [3, 5), the one below 4 GiB starts at 7 or 9,   *)
(* so that up to three nodes of sizes up to 6 fall on every side of both.  *)
(* Device memory begins right behind the RAM, or one less than the hole's  *)
(* length behind it, or as far as that.                                    *)
(***************************************************************************)
EXTENDS SratMemory

MCSizes == UNION {[1 .. n -> 0 .. 6] : n \in 1 .. 3}
MCWindows == {[gap |-> 0, len |-> 1], [gap |-> 1, len |-> 4], [gap |-> 2, len |-> 4]}
=============================================================================
