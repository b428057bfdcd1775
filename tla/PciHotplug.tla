----------------------------- MODULE PciHotplug -----------------------------
(***************************************************************************)
(* The AML that src/acpi-build.c writes for PCI hotplug, as a guest runs   *)
(* it.  The registers of the hotplug device show one bus at a time, the    *)
(* one whose number was last written to BNUM.  Three kinds of threads use  *)
(* them: the handler of the event _E01, which walks all buses (PCNT), the  *)
(* ejection of a slot (_EJ0, which calls PCEJ), and _DSM (PDSM, which asks *)
(* AIDX for the slot's acpi-index).  Every access to a register is a step, *)
(* since the interpreter may run another method between two of them; the   *)
(* methods hold the mutex BLCK.  The device and the guest's dispatching    *)
(* are external.                                                           *)
(***************************************************************************)
EXTENDS Integers, Sequences, FiniteSets

CONSTANTS
  Order,        \* the buses with a BSEL, in the order in which PCNT visits them
  Slots,
  Index,        \* the acpi-index of the device that is plugged into a slot
  Unsupported,  \* what PIDX reads as on a machine without that register
  Calls,        \* the arguments with which _DSM may be called
  Handler, Ejectors, Readers, None

Buses == {Order[i] : i \in 1 .. Len(Order)}
Places == Buses \X Slots
Threads == {Handler} \union Ejectors \union Readers

ASSUME ThreadsAssumption ==
  /\ Handler \notin Ejectors \union Readers
  /\ Ejectors \intersect Readers = {}
  /\ None \notin Threads

ASSUME BusesAssumption ==
  /\ Order \in Seq(Buses) /\ Len(Order) > 0
  /\ Index \in [Places -> Nat \ {0, Unsupported}]
  /\ Unsupported \in Nat \ {0}
  /\ \A p \in Places : None # p

VARIABLES
  present, up, down,  \* the places with a device, and the device's events
  gpe,                \* the event's status bit
  bnum, pidx,         \* registers
  lock,               \* the owner of BLCK
  pc, pos,            \* the threads, and the handler's position in Order
  arg,                \* the place that a running _EJ0 or _DSM is about
  call,               \* the arguments of a running _DSM
  noted,              \* places that were notified of a check or an ejection
  answer              \* what a running _DSM is about to return

device == <<present, up, down, gpe>>
vars == <<present, up, down, gpe, bnum, pidx, lock, pc, pos, arg, call,
          noted, answer>>

-----------------------------------------------------------------------------
(* The answers of _DSM: function 0 is a set of supported functions, other  *)
(* functions an index; "none" is a method that ends without a value.       *)
AllCalls == [func : {0, 7, 8}, uuid : BOOLEAN, rev : {1, 2}]
Answer(caps, index) == [caps |-> caps, index |-> index]
NoAnswer == Answer({}, 0)

BailsOut(c) == ~c.uuid \/ c.rev < 2

(* PDSM asks AIDX for its functions 0 and 7, unless it bails out.          *)
AsksIndex(c) == \/ c.func = 0 /\ ~BailsOut(c)
                \/ c.func = 7

NoIndex == {0, Unsupported}
PdsmReturns(c, index) ==
  IF c.func = 0
  THEN IF BailsOut(c) \/ index \in NoIndex THEN NoAnswer
       ELSE Answer({0, 7}, 0)
  ELSE IF c.func = 7 THEN Answer({}, index) ELSE NoAnswer

(* EDSM, for devices that are not hotpluggable.                            *)
EdsmReturns(c, index) ==
  IF c.func = 0
  THEN IF BailsOut(c) THEN NoAnswer ELSE Answer({0, 7}, 0)
  ELSE IF c.func = 7 THEN Answer({}, index) ELSE NoAnswer

-----------------------------------------------------------------------------
Init ==
  /\ present \in SUBSET Places
  /\ up = {} /\ down = {} /\ gpe = FALSE
  /\ bnum = Order[1] /\ pidx = 0
  /\ lock = None
  /\ pc = [t \in Threads |-> "idle"]
  /\ pos = 1
  /\ arg = [t \in Ejectors \union Readers |-> None]
  /\ call = [t \in Readers |-> None]
  /\ noted = {}
  /\ answer = [t \in Readers |-> NoAnswer]

(* The device: a hotplug request raises the event.                         *)
Plug(p) ==
  /\ p \notin present
  /\ present' = present \union {p}
  /\ up' = up \union {p}
  /\ gpe' = TRUE
  /\ UNCHANGED <<down, bnum, pidx, lock, pc, pos, arg, call, noted, answer>>

RequestUnplug(p) ==
  /\ p \in present \ down
  /\ down' = down \union {p}
  /\ gpe' = TRUE
  /\ UNCHANGED <<present, up, bnum, pidx, lock, pc, pos, arg, call, noted,
                 answer>>

Goto(t, where) == pc' = [pc EXCEPT ![t] = where]

(* Seeded fault: the handler calls PCNT without BLCK.                      *)
StartEventUnlocked ==
  /\ gpe /\ pc[Handler] = "idle"
  /\ gpe' = FALSE
  /\ Goto(Handler, "select")
  /\ pos' = 1
  /\ UNCHANGED <<present, up, down, bnum, pidx, lock, arg, call, noted, answer>>

(* _E01: the status bit of an edge event is cleared before its method runs. *)
StartEvent ==
  /\ gpe /\ pc[Handler] = "idle"
  /\ gpe' = FALSE
  /\ Goto(Handler, "acquire")
  /\ pos' = 1
  /\ UNCHANGED <<present, up, down, bnum, pidx, lock, arg, call, noted, answer>>

Acquire(t) ==
  /\ pc[t] = "acquire"
  /\ lock = None
  /\ lock' = t
  /\ Goto(t, "select")
  /\ UNCHANGED <<device, bnum, pidx, pos, arg, call, noted, answer>>

Release(t) ==
  /\ pc[t] = "release"
  /\ lock' = IF lock = t THEN None ELSE lock
  /\ Goto(t, "idle")
  /\ arg' = [x \in DOMAIN arg |-> IF x = t THEN None ELSE arg[x]]
  /\ call' = [x \in DOMAIN call |-> IF x = t THEN None ELSE call[x]]
  /\ answer' = [x \in DOMAIN answer |-> IF x = t THEN NoAnswer ELSE answer[x]]
  /\ UNCHANGED <<device, bnum, pidx, pos, noted>>

(* PCNT of one bus: select it, notify of what has been plugged and of what *)
(* is to be ejected, go on to the next.  Reading PCIU clears it.           *)
SelectBus ==
  /\ pc[Handler] = "select"
  /\ bnum' = Order[pos]
  /\ Goto(Handler, "check")
  /\ UNCHANGED <<device, pidx, lock, pos, arg, call, noted, answer>>

On(places, bus) == {p \in places : p[1] = bus}
Noted(what, places) ==
  {<<what, Order[pos], p[2]>> : p \in On(places, bnum)}

NotifyCheck ==
  /\ pc[Handler] = "check"
  /\ up' = up \ On(up, bnum)
  /\ noted' = noted \union Noted("check", up)
  /\ Goto(Handler, "request")
  /\ UNCHANGED <<present, down, gpe, bnum, pidx, lock, pos, arg, call, answer>>

(* Seeded fault: the PCNT of a bus calls none of those below it.           *)
NotifyRequestOnly ==
  /\ pc[Handler] = "request"
  /\ noted' = noted \union Noted("eject", down)
  /\ pos' = pos
  /\ Goto(Handler, "release")
  /\ UNCHANGED <<device, bnum, pidx, lock, arg, call, answer>>

(* Seeded fault: PCNT calls itself where it should call the bus below.     *)
NotifyRequestAgain ==
  /\ pc[Handler] = "request"
  /\ noted' = noted \union Noted("eject", down)
  /\ pos' = pos
  /\ Goto(Handler, "select")
  /\ UNCHANGED <<device, bnum, pidx, lock, arg, call, answer>>

NotifyRequest ==
  /\ pc[Handler] = "request"
  /\ noted' = noted \union Noted("eject", down)
  /\ IF pos < Len(Order)
     THEN pos' = pos + 1 /\ Goto(Handler, "select")
     ELSE pos' = pos /\ Goto(Handler, "release")
  /\ UNCHANGED <<device, bnum, pidx, lock, arg, call, answer>>

(* Seeded fault: PCEJ does not acquire BLCK.                               *)
StartEjectUnlocked(t, p) ==
  /\ pc[t] = "idle"
  /\ arg' = [arg EXCEPT ![t] = p]
  /\ Goto(t, "select")
  /\ UNCHANGED <<device, bnum, pidx, lock, pos, call, noted, answer>>

(* _EJ0 of a slot: PCEJ (BSEL, _SUN).                                      *)
StartEject(t, p) ==
  /\ pc[t] = "idle"
  /\ arg' = [arg EXCEPT ![t] = p]
  /\ Goto(t, "acquire")
  /\ UNCHANGED <<device, bnum, pidx, lock, pos, call, noted, answer>>

SelectEject(t) ==
  /\ pc[t] = "select"
  /\ bnum' = arg[t][1]
  /\ Goto(t, "eject")
  /\ UNCHANGED <<device, pidx, lock, pos, arg, call, noted, answer>>

(* B0EJ: the device removes what is in that slot of the selected bus.      *)
Eject(t) ==
  /\ pc[t] = "eject"
  /\ LET p == <<bnum, arg[t][2]>>
     IN  /\ present' = present \ {p} /\ up' = up \ {p} /\ down' = down \ {p}
         /\ noted' = noted \ ({"check", "eject"} \X {p[1]} \X {p[2]})
  /\ Goto(t, "release")
  /\ UNCHANGED <<gpe, bnum, pidx, lock, pos, arg, call, answer>>

(* Seeded fault: AIDX does not acquire BLCK.                               *)
StartDsmUnlocked(t, p, c) ==
  /\ pc[t] = "idle"
  /\ arg' = [arg EXCEPT ![t] = p]
  /\ call' = [call EXCEPT ![t] = c]
  /\ AsksIndex(c)
  /\ Goto(t, "select")
  /\ UNCHANGED <<device, bnum, pidx, lock, pos, noted, answer>>

(* _DSM of a slot: PDSM, which calls AIDX (BSEL, ASUN).  A call that does  *)
(* not ask for the index returns at once.                                  *)
StartDsm(t, p, c) ==
  /\ pc[t] = "idle"
  /\ arg' = [arg EXCEPT ![t] = p]
  /\ call' = [call EXCEPT ![t] = c]
  /\ AsksIndex(c)
  /\ Goto(t, "acquire")
  /\ UNCHANGED <<device, bnum, pidx, lock, pos, noted, answer>>

SelectIndex(t) ==
  /\ pc[t] = "select"
  /\ bnum' = arg[t][1]
  /\ Goto(t, "ask")
  /\ UNCHANGED <<device, pidx, lock, pos, arg, call, noted, answer>>

(* The machine may be one without the register ("old QEMU without PIDX     *)
(* reg", PDSM's comment): the guest may have been migrated there.          *)
AskIndex(t) ==
  /\ pc[t] = "ask"
  /\ LET p == <<bnum, arg[t][2]>>
     IN  pidx' \in {IF p \in present THEN Index[p] ELSE 0, Unsupported}
  /\ Goto(t, "read")
  /\ UNCHANGED <<device, bnum, lock, pos, arg, call, noted, answer>>

(* Reading PIDX clears it.                                                 *)
ReadIndex(t) ==
  /\ pc[t] = "read"
  /\ answer' = [answer EXCEPT ![t] = PdsmReturns(call[t], pidx)]
  /\ pidx' = 0
  /\ Goto(t, "release")
  /\ UNCHANGED <<device, bnum, lock, pos, arg, call, noted>>

Handling == StartEvent \/ SelectBus \/ NotifyCheck \/ NotifyRequest
Ejecting(t) == SelectEject(t) \/ Eject(t)
Reading(t) == SelectIndex(t) \/ AskIndex(t) \/ ReadIndex(t)

Next ==
  \/ \E p \in Places : Plug(p) \/ RequestUnplug(p)
  \/ StartEvent \/ SelectBus \/ NotifyCheck \/ NotifyRequest
  \/ \E t \in Threads : Acquire(t) \/ Release(t)
  \/ \E t \in Ejectors :
       \/ \E p \in Places : StartEject(t, p)
       \/ SelectEject(t) \/ Eject(t)
  \/ \E t \in Readers :
       \/ \E p \in Places, c \in Calls : StartDsm(t, p, c)
       \/ SelectIndex(t) \/ AskIndex(t) \/ ReadIndex(t)

(* The interpreter goes on with a method that can proceed, and hands a     *)
(* mutex to every thread that keeps asking for it; the device and the      *)
(* guest's calls need not come.                                            *)
Fairness ==
  /\ WF_vars(Handling)
  /\ \A t \in Ejectors : WF_vars(Ejecting(t))
  /\ \A t \in Readers : WF_vars(Reading(t))
  /\ \A t \in Threads : SF_vars(Acquire(t)) /\ WF_vars(Release(t))

Spec == Init /\ [][Next]_vars
FairSpec == Spec /\ Fairness

-----------------------------------------------------------------------------
(* The registers' and the threads' types; a device that left took its      *)
(* events along, and a method that has returned does not hold BLCK.        *)
TypeOK ==
  /\ present \subseteq Places
  /\ up \subseteq present /\ down \subseteq present
  /\ gpe \in BOOLEAN
  /\ bnum \in Buses
  /\ pidx \in Nat
  /\ lock \in {None} \union {t \in Threads : pc[t] \notin {"idle", "acquire"}}
  /\ pc \in [Threads -> {"idle", "acquire", "select", "check", "request",
                         "eject", "ask", "read", "release"}]
  /\ pos \in 1 .. Len(Order)
  /\ arg \in [Ejectors \union Readers -> Places \union {None}]
  /\ call \in [Readers -> Calls \union {None}]
  /\ noted \subseteq {"check", "eject"} \X Buses \X Slots

(* A device disappears only through an _EJ0 of its own place: PCEJ's write *)
(* to B0EJ must hit the bus that PCEJ selected.                            *)
EjectsItsPlace ==
  [][\A p \in Places :
       p \in present /\ p \notin present' =>
         \E t \in Ejectors : pc[t] = "eject" /\ arg[t] = p]_vars

(* A notification of the walk goes to the bus on which the event happened: *)
(* whatever was notified is, or has been, plugged there.                   *)
NotifiesItsPlace ==
  \A n \in noted : <<n[2], n[3]>> \in present

(* AIDX returns the index of the device in the slot it was asked for, or   *)
(* none: the two accesses of PIDX and the selection belong together.       *)
(* Function 7 passes on what marks a machine without the register.         *)
AnswersItsPlace ==
  \A t \in Readers :
    pc[t] = "release" => answer[t].index \in NoIndex \union {Index[arg[t]]}

(* About a device with an acpi-index the _DSM of a slot answers what EDSM  *)
(* answers if the device is fixed; without a device, or without PIDX, it   *)
(* answers for none.                                                       *)
BothDsmAgree ==
  \A t \in Readers :
    pc[t] = "release" =>
      answer[t] \in {PdsmReturns(call[t], n) : n \in NoIndex}
                      \union {EdsmReturns(call[t], Index[arg[t]])}

(* A _DSM call is answered about its own slot, as EDSM would.              *)
DsmAnswers == AnswersItsPlace /\ BothDsmAgree

(* What is plugged is announced, on whatever bus, even if it comes while   *)
(* the walk is under way or has passed its bus.                            *)
PluggedIsNoted ==
  \A p \in Places :
    p \in up ~> (p \notin present \/ <<"check", p[1], p[2]>> \in noted)

(* No method waits for BLCK for ever.                                      *)
MethodsEnd == \A t \in Threads : pc[t] # "idle" ~> pc[t] = "idle"
=============================================================================
