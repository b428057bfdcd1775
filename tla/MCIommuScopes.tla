--------------------------- MODULE MCIommuScopes ---------------------------
(* The main host bridge and an expander's, with room for eight buses each. *)
EXTENDS IommuScopes, TLC

CONSTANTS pcie, pxb

Roots == {pcie, pxb}
RootNumbers == pcie :> 0 @@ pxb :> 8
=============================================================================
