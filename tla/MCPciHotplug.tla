--------------------------- MODULE MCPciHotplug ----------------------------
(***************************************************************************)
(* Two buses, of which one is behind the other: the smallest instance on   *)
(* which the wrong bus can be selected.                                    *)
(***************************************************************************)
EXTENDS PciHotplug

MCOrder == <<0, 1>>
MCIndex == [p \in Places |-> 10 * p[1] + p[2]]
MCCalls == {[func |-> 7, uuid |-> TRUE, rev |-> 2]}
MCBothCalls == MCCalls \union {[func |-> 0, uuid |-> TRUE, rev |-> 2]}
=============================================================================
