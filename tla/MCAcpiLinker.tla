---------------------------- MODULE MCAcpiLinker ----------------------------
(***************************************************************************)
(* Tables with pointers of their own, tables without, and one of the user; *)
(* each length of the FADT.                                                *)
(***************************************************************************)
EXTENDS AcpiLinker

MCOptional == {"HPET", "TCPA", "TPM2", "SRAT", "SLIT", "MCFG", "USER"}
MCLayouts == {<<1, 0>>, <<3, 0>>, <<5, 1>>, <<6, 0>>}
=============================================================================
