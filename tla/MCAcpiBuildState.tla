-------------------------- MODULE MCAcpiBuildState --------------------------
(***************************************************************************)
(* Instances of AcpiBuildState.  Lengths are scaled: a page is 1 and       *)
(* ACPI_BUILD_TABLE_SIZE is 4.                                             *)
(***************************************************************************)
EXTENDS AcpiBuildState

(* A machine before and after the firmware has programmed the chipset, and *)
(* one with so many devices that its tables exceed half the buffer.        *)
MCShapes == {"cold", "programmed", "large"}

MCRawLen(s) == CASE s = "cold" -> 1 [] s = "programmed" -> 2 [] s = "large" -> 5
MCAmlLen(s) == 1
MCCmdLen(s) == IF s = "large" THEN 2 ELSE 1

(* A legacy machine: only the AML varies, from within the computed length  *)
(* to beyond it.                                                           *)
LegacyRawLen(s) ==
  CASE s = "cold" -> 2 [] s = "programmed" -> 3 [] s = "large" -> 4
LegacyAmlLen(s) == LegacyRawLen(s) - 1
=============================================================================
