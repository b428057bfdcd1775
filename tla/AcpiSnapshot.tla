---------------------------- MODULE AcpiSnapshot ----------------------------
(***************************************************************************)
(* What the guest is promised about the ACPI files of a virtual machine:   *)
(* between two resets it sees one snapshot of the machine, taken when it   *)
(* first asks for one of the files, whatever it programs into the chipset  *)
(* afterwards.  AcpiBuildState implements this.                            *)
(***************************************************************************)
CONSTANTS
  Shapes,  \* what the machine can look like to the table builders
  Files,   \* the files through which the tables are exposed
  None

VARIABLES
  machine,   \* how the machine looks now
  snapshot,  \* the shape the files show since the last reset, or None
  seen       \* the shapes that the guest has read from each file since

vars == <<machine, snapshot, seen>>

Unread == [f \in Files |-> {}]

Init ==
  /\ machine \in Shapes
  /\ snapshot = None
  /\ seen = Unread

Reconfigure ==
  /\ machine' \in Shapes
  /\ UNCHANGED <<snapshot, seen>>

Take ==
  /\ snapshot = None
  /\ snapshot' = machine
  /\ UNCHANGED <<machine, seen>>

Read(f) ==
  /\ snapshot # None
  /\ seen' = [seen EXCEPT ![f] = @ \union {snapshot}]
  /\ UNCHANGED <<machine, snapshot>>

Reset ==
  /\ machine' \in Shapes
  /\ snapshot' = None
  /\ seen' = Unread

Next ==
  \/ Reconfigure
  \/ Take
  \/ \E f \in Files : Read(f)
  \/ Reset

Spec == Init /\ [][Next]_vars
=============================================================================
