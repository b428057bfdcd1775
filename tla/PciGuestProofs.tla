--------------------------- MODULE PciGuestProofs ---------------------------
(***************************************************************************)
(* The safety properties of the AML through which a guest reaches the PCI  *)
(* devices.  First those of PciHotplug, for any number of buses, slots and *)
(* threads: the inductive invariant says who may be where.  A thread that  *)
(* has passed Acquire owns BLCK, so that at most one thread is there, and  *)
(* from its selection on BNUM holds the bus it selected.  Then those of    *)
(* IrqRouting, for any set of links the guest touches: the inductive       *)
(* invariant says what every row of the table is, in closed form.  Last    *)
(* those of IommuScopes, for any number of devices, host bridges and root  *)
(* bus numbers: the devices left are a queue from which, together with the *)
(* host bridges left, exactly the devices not yet written are reached.     *)
(***************************************************************************)
EXTENDS PciHotplug, IrqRouting, IommuScopes, Recursion, FiniteSetTheorems, TLAPS

States == {"idle", "acquire", "select", "check", "request",
           "eject", "ask", "read", "release"}
Inside == States \ {"idle", "acquire"}
Selected == {"check", "request", "eject", "ask", "read"}
Callers == Ejectors \union Readers
Target(t) == IF t = Handler THEN Order[pos] ELSE arg[t][1]

Types ==
  /\ present \in SUBSET Places
  /\ up \in SUBSET present /\ down \in SUBSET present
  /\ gpe \in BOOLEAN
  /\ bnum \in Buses
  /\ pidx \in Nat
  /\ lock \in Threads \union {None}
  /\ pc \in [Threads -> States]
  /\ pos \in 1 .. Len(Order)
  /\ arg \in [Callers -> Places \union {None}]
  /\ call \in [Readers -> Calls \union {None}]
  /\ noted \in SUBSET ({"check", "eject"} \X Buses \X Slots)
  /\ answer \in [Readers -> [caps : SUBSET {0, 7}, index : Nat]]

(* Every thread is where its own methods lead.                             *)
ThreadPlaces ==
  /\ pc[Handler] \notin {"eject", "ask", "read"}
  /\ \A t \in Ejectors : pc[t] \notin {"check", "request", "ask", "read"}
  /\ \A t \in Readers : pc[t] \notin {"check", "request", "eject"}
  /\ \A t \in Callers : pc[t] # "idle" => arg[t] \in Places

Owner ==
  /\ \A t \in Threads : pc[t] \in Inside => lock = t
  /\ \A t \in Threads : lock = t => pc[t] \in Inside

Selection == \A t \in Threads : pc[t] \in Selected => bnum = Target(t)

Answering ==
  \A t \in Readers :
    /\ pc[t] = "read" => pidx \in {0, Unsupported, Index[arg[t]]}
    /\ pc[t] = "release" =>
         answer[t] \in {PdsmReturns(call[t], 0), PdsmReturns(call[t], Unsupported),
                        PdsmReturns(call[t], Index[arg[t]])}

IInv == Types /\ ThreadPlaces /\ Owner /\ Selection /\ NotifiesItsPlace /\ Answering

-----------------------------------------------------------------------------
USE DEF Threads, Callers

(* Two threads are never both between Acquire and Release.                 *)
LEMMA Alone ==
  ASSUME Owner, NEW t \in Threads, pc[t] \in Inside,
         NEW u \in Threads, u # t
  PROVE  pc[u] \notin Inside
  BY DEF Owner

LEMMA AnswerType ==
  ASSUME NEW c, NEW i \in Nat
  PROVE  PdsmReturns(c, i) \in [caps : SUBSET {0, 7}, index : Nat]
  BY DEF PdsmReturns, Answer, NoAnswer

(* About a device with an index both methods answer the same.              *)
LEMMA SameAnswer ==
  ASSUME BusesAssumption, NEW c, NEW p \in Places
  PROVE  EdsmReturns(c, Index[p]) = PdsmReturns(c, Index[p])
  BY DEF EdsmReturns, PdsmReturns, NoIndex, BusesAssumption

LEMMA InitIInv == BusesAssumption /\ ThreadsAssumption /\ Init => IInv
<1> SUFFICES ASSUME BusesAssumption, ThreadsAssumption, Init PROVE IInv
  OBVIOUS
<1> USE DEF Init
<1>1. Order[1] \in Buses /\ 1 \in 1 .. Len(Order)
  BY DEF Buses, BusesAssumption
<1>2. Types
  BY <1>1 DEF Types, States, NoAnswer, Answer
<1>3. ThreadPlaces /\ Owner /\ Selection
  BY DEF ThreadPlaces, Owner, Selection, Inside, Selected, States, ThreadsAssumption
<1>4. NotifiesItsPlace /\ Answering
  BY DEF NotifiesItsPlace, Answering
<1> QED BY <1>2, <1>3, <1>4 DEF IInv

-----------------------------------------------------------------------------
(* One lemma per kind of step.  What the device and the idle threads do    *)
(* leaves Owner, Selection and Answering as they are.                      *)
LEMMA StepDevice ==
  ASSUME IInv, NEW p \in Places, Plug(p) \/ RequestUnplug(p)
  PROVE  IInv'
<1> USE DEF IInv
<1>1. Types'
  BY DEF Types, Plug, RequestUnplug
<1>2. ThreadPlaces' /\ Owner' /\ Selection'
  BY DEF ThreadPlaces, Owner, Selection, Target, Plug, RequestUnplug
<1>3. NotifiesItsPlace'
  BY DEF NotifiesItsPlace, Plug, RequestUnplug
<1>4. Answering'
  BY DEF Answering, Plug, RequestUnplug
<1> QED BY <1>1, <1>2, <1>3, <1>4

LEMMA StepStart ==
  ASSUME IInv, ThreadsAssumption, BusesAssumption,
         \/ StartEvent
         \/ \E t \in Ejectors, p \in Places : StartEject(t, p)
         \/ \E t \in Readers, p \in Places, c \in Calls : StartDsm(t, p, c)
  PROVE  IInv'
<1> USE DEF IInv
<1>1. CASE StartEvent
  <2>1. Types'
    <3>1. 1 \in 1 .. Len(Order)
      BY DEF BusesAssumption
    <3>2. pc' \in [Threads -> States]
      BY <1>1 DEF Types, StartEvent, Goto, States
    <3> QED BY <1>1, <3>1, <3>2 DEF Types, StartEvent
  <2>2. ThreadPlaces' /\ Owner' /\ Selection'
    BY <1>1 DEF Types, ThreadPlaces, Owner, Selection, Target, StartEvent, Goto,
                Inside, Selected, States, ThreadsAssumption
  <2>3. NotifiesItsPlace' /\ Answering'
    BY <1>1 DEF Types, NotifiesItsPlace, Answering, StartEvent, Goto,
                ThreadsAssumption
  <2> QED BY <2>1, <2>2, <2>3
<1>2. ASSUME NEW t \in Ejectors, NEW p \in Places, StartEject(t, p)
      PROVE  IInv'
  <2>1. Types'
    BY <1>2 DEF Types, StartEject, Goto, States, device
  <2>2. ThreadPlaces' /\ Owner' /\ Selection'
    BY <1>2 DEF Types, ThreadPlaces, Owner, Selection, Target, StartEject, Goto,
                Inside, Selected, States, ThreadsAssumption, device
  <2>3. NotifiesItsPlace' /\ Answering'
    BY <1>2 DEF Types, NotifiesItsPlace, Answering, StartEject, Goto,
                ThreadsAssumption, device
  <2> QED BY <2>1, <2>2, <2>3
<1>3. ASSUME NEW t \in Readers, NEW p \in Places, NEW c \in Calls,
             StartDsm(t, p, c)
      PROVE  IInv'
  <2>1. Types'
    BY <1>3 DEF Types, StartDsm, Goto, States, device
  <2>2. ThreadPlaces' /\ Owner' /\ Selection'
    BY <1>3 DEF Types, ThreadPlaces, Owner, Selection, Target, StartDsm, Goto,
                Inside, Selected, States, ThreadsAssumption, device
  <2>3. NotifiesItsPlace' /\ Answering'
    BY <1>3 DEF Types, NotifiesItsPlace, Answering, StartDsm, Goto,
                ThreadsAssumption, device
  <2> QED BY <2>1, <2>2, <2>3
<1> QED BY <1>1, <1>2, <1>3

LEMMA StepMutex ==
  ASSUME IInv, ThreadsAssumption, NEW t \in Threads, Acquire(t) \/ Release(t)
  PROVE  IInv'
<1> USE DEF IInv
<1>1. CASE Acquire(t)
  <2>1. Types'
    BY <1>1 DEF Types, Acquire, Goto, States, device
  <2>2. ThreadPlaces' /\ Selection'
    BY <1>1 DEF Types, ThreadPlaces, Selection, Target, Acquire, Goto, Selected,
                ThreadsAssumption, device
  <2>3. Owner'
    BY <1>1 DEF Types, Owner, Acquire, Goto, Inside, States, ThreadsAssumption
  <2>4. NotifiesItsPlace' /\ Answering'
    BY <1>1 DEF Types, NotifiesItsPlace, Answering, Acquire, Goto, device
  <2> QED BY <2>1, <2>2, <2>3, <2>4
<1>2. CASE Release(t)
  <2>0. lock = t
    BY <1>2 DEF Owner, Release, Inside, States
  <2>1. Types'
    BY <1>2 DEF Types, Release, Goto, States, device, NoAnswer, Answer
  <2>2. ThreadPlaces' /\ Selection'
    BY <1>2 DEF Types, ThreadPlaces, Selection, Target, Release, Goto, Selected,
                ThreadsAssumption, device
  <2>3. Owner'
    BY <1>2, <2>0 DEF Types, Owner, Release, Goto, Inside, States,
                      ThreadsAssumption
  <2>4. NotifiesItsPlace' /\ Answering'
    BY <1>2 DEF Types, NotifiesItsPlace, Answering, Release, Goto, device
  <2> QED BY <2>1, <2>2, <2>3, <2>4
<1> QED BY <1>1, <1>2

-----------------------------------------------------------------------------
(* A step of a thread inside finds all the others outside.                 *)
LEMMA StepWalk ==
  ASSUME IInv, ThreadsAssumption, BusesAssumption,
         SelectBus \/ NotifyCheck \/ NotifyRequest
  PROVE  IInv'
<1> USE DEF IInv
<1>0. /\ pc[Handler] \in Inside /\ Handler \in Threads
      /\ Order[pos] \in Buses
  BY DEF SelectBus, NotifyCheck, NotifyRequest, Inside, States, Types, Buses
<1>1. \A u \in Threads : u # Handler => pc[u] \notin Inside
  BY <1>0, Alone
<1>2. CASE SelectBus
  <2>1. Types'
    BY <1>2, <1>0 DEF Types, SelectBus, Goto, States, device
  <2>2. ThreadPlaces' /\ Owner'
    BY <1>2 DEF Types, ThreadPlaces, Owner, SelectBus, Goto, Inside, States,
                ThreadsAssumption
  <2>3. Selection'
    BY <1>2, <1>1 DEF Types, Selection, Target, SelectBus, Goto, Inside,
                      Selected, States
  <2>4. NotifiesItsPlace' /\ Answering'
    BY <1>2, <1>1 DEF Types, NotifiesItsPlace, Answering, SelectBus, Goto,
                      ThreadsAssumption, device, Inside, States
  <2> QED BY <2>1, <2>2, <2>3, <2>4
<1>3. ASSUME pc[Handler] \in Selected,
             NEW what \in {"check", "eject"}, NEW places \in SUBSET present,
             NEW n \in Noted(what, places)
      PROVE  /\ <<n[2], n[3]>> \in present
             /\ n \in {"check", "eject"} \X Buses \X Slots
  <2>1. bnum = Order[pos]
    BY <1>3, <1>0 DEF Selection, Target
  <2>2. PICK p \in On(places, bnum) : n = <<what, Order[pos], p[2]>>
    BY <1>3 DEF Noted
  <2>3. p \in present /\ p \in Places /\ p[1] = bnum
    BY <1>3, <2>2 DEF On, Types
  <2>4. p = <<p[1], p[2]>> /\ p[2] \in Slots
    BY <2>3 DEF Places
  <2> QED BY <2>1, <2>2, <2>3, <2>4, <1>0
<1>4. CASE NotifyCheck
  <2>0. pc[Handler] \in Selected
    BY <1>4 DEF NotifyCheck, Selected
  <2>1. Types'
    BY <1>4, <1>3, <2>0 DEF Types, NotifyCheck, Goto, States, On
  <2>2. ThreadPlaces' /\ Owner'
    BY <1>4 DEF Types, ThreadPlaces, Owner, NotifyCheck, Goto, Inside, States,
                ThreadsAssumption
  <2>3. Selection'
    BY <1>4, <1>1 DEF Types, Selection, Target, NotifyCheck, Goto, Inside,
                      Selected, States
  <2>4. NotifiesItsPlace'
    BY <1>4, <1>3, <2>0 DEF Types, NotifiesItsPlace, NotifyCheck
  <2>5. Answering'
    BY <1>4, <1>1 DEF Types, Answering, NotifyCheck, Goto, ThreadsAssumption
  <2> QED BY <2>1, <2>2, <2>3, <2>4, <2>5
<1>5. CASE NotifyRequest
  <2>0. pc[Handler] \in Selected
    BY <1>5 DEF NotifyRequest, Selected
  <2>1. Types'
    <3>1. pos' \in 1 .. Len(Order) /\ pc' \in [Threads -> States]
      BY <1>5, <1>0 DEF Types, NotifyRequest, Goto, States, BusesAssumption
    <3>2. noted' \in SUBSET ({"check", "eject"} \X Buses \X Slots)
      BY <1>5, <1>3, <2>0 DEF Types, NotifyRequest
    <3> QED BY <1>5, <3>1, <3>2 DEF Types, NotifyRequest, device
  <2>2. ThreadPlaces' /\ Owner'
    BY <1>5 DEF Types, ThreadPlaces, Owner, NotifyRequest, Goto, Inside, States,
                ThreadsAssumption
  <2>3. Selection'
    BY <1>5, <1>1 DEF Types, Selection, Target, NotifyRequest, Goto, Inside,
                      Selected, States
  <2>4. NotifiesItsPlace'
    BY <1>5, <1>3, <2>0 DEF Types, NotifiesItsPlace, NotifyRequest, device
  <2>5. Answering'
    BY <1>5, <1>1 DEF Types, Answering, NotifyRequest, Goto, ThreadsAssumption
  <2> QED BY <2>1, <2>2, <2>3, <2>4, <2>5
<1> QED BY <1>2, <1>4, <1>5

(* The write to B0EJ hits the place of the call.                           *)
LEMMA EjectHits ==
  ASSUME IInv, ThreadsAssumption, NEW t \in Ejectors, pc[t] = "eject"
  PROVE  <<bnum, arg[t][2]>> = arg[t] /\ arg[t] \in Places
<1>1. bnum = arg[t][1]
  BY DEF IInv, Selection, Selected, Target, ThreadsAssumption
<1>2. arg[t] \in Places
  BY DEF IInv, ThreadPlaces
<1> QED BY <1>1, <1>2 DEF Places

LEMMA StepEject ==
  ASSUME IInv, ThreadsAssumption, NEW t \in Ejectors,
         SelectEject(t) \/ Eject(t)
  PROVE  IInv'
<1> USE DEF IInv
<1>0. pc[t] \in Inside /\ t \in Threads /\ t # Handler
  BY DEF SelectEject, Eject, Inside, States, ThreadsAssumption
<1>1. \A u \in Threads : u # t => pc[u] \notin Inside
  BY <1>0, Alone
<1>2. arg[t] \in Places /\ arg[t][1] \in Buses
  BY <1>0 DEF ThreadPlaces, Inside, States, Places
<1>3. CASE SelectEject(t)
  <2>1. Types'
    BY <1>3, <1>2 DEF Types, SelectEject, Goto, States, device
  <2>2. ThreadPlaces' /\ Owner'
    BY <1>3, <1>0 DEF Types, ThreadPlaces, Owner, SelectEject, Goto, Inside, States,
                ThreadsAssumption
  <2>3. Selection'
    BY <1>3, <1>0, <1>1 DEF Types, Selection, Target, SelectEject, Goto, Inside,
                      Selected, States
  <2>4. NotifiesItsPlace' /\ Answering'
    BY <1>3, <1>1 DEF Types, NotifiesItsPlace, Answering, SelectEject, Goto,
                      ThreadsAssumption, device, Inside, States
  <2> QED BY <2>1, <2>2, <2>3, <2>4
<1>4. CASE Eject(t)
  <2> DEFINE q == arg[t]
  <2>0. <<bnum, arg[t][2]>> = q /\ pc[t] = "eject"
    BY <1>4, EjectHits DEF Eject
  <2>1. /\ present' = present \ {q} /\ up' = up \ {q} /\ down' = down \ {q}
        /\ noted' = noted \ ({"check", "eject"} \X {q[1]} \X {q[2]})
    BY <1>4, <2>0, <1>2 DEF Eject, Places
  <2>2. Types'
    BY <1>4, <2>1 DEF Types, Eject, Goto, States
  <2>3. ThreadPlaces' /\ Owner'
    BY <1>4, <1>0 DEF Types, ThreadPlaces, Owner, Eject, Goto, Inside, States,
                ThreadsAssumption
  <2>4. Selection'
    BY <1>4, <1>0, <1>1 DEF Types, Selection, Target, Eject, Goto, Inside,
                      Selected, States
  <2>5. NotifiesItsPlace'
    <3> SUFFICES ASSUME NEW n \in noted' PROVE <<n[2], n[3]>> \in present'
      BY DEF NotifiesItsPlace
    <3>1. n \in noted /\ <<n[2], n[3]>> \in present
      BY <2>1 DEF NotifiesItsPlace
    <3>2. n[1] \in {"check", "eject"} /\ n = <<n[1], n[2], n[3]>>
      BY <3>1 DEF Types
    <3>3. <<n[2], n[3]>> # q
      BY <3>1, <3>2, <2>1
    <3> QED BY <3>1, <3>3, <2>1
  <2>6. Answering'
    BY <1>4, <1>1 DEF Types, Answering, Eject, Goto, ThreadsAssumption
  <2> QED BY <2>2, <2>3, <2>4, <2>5, <2>6
<1> QED BY <1>3, <1>4

LEMMA StepRead ==
  ASSUME IInv, ThreadsAssumption, BusesAssumption, NEW t \in Readers,
         SelectIndex(t) \/ AskIndex(t) \/ ReadIndex(t)
  PROVE  IInv'
<1> USE DEF IInv
<1>0. pc[t] \in Inside /\ t \in Threads /\ t # Handler
  BY DEF SelectIndex, AskIndex, ReadIndex, Inside, States, ThreadsAssumption
<1>1. \A u \in Threads : u # t => pc[u] \notin Inside
  BY <1>0, Alone
<1>2. /\ arg[t] \in Places /\ arg[t][1] \in Buses
      /\ arg[t] = <<arg[t][1], arg[t][2]>> /\ Index[arg[t]] \in Nat
  BY <1>0 DEF ThreadPlaces, Inside, States, Places, BusesAssumption
<1>3. CASE SelectIndex(t)
  <2>1. Types'
    BY <1>3, <1>2 DEF Types, SelectIndex, Goto, States, device
  <2>2. ThreadPlaces' /\ Owner'
    BY <1>3, <1>0 DEF Types, ThreadPlaces, Owner, SelectIndex, Goto, Inside, States,
                ThreadsAssumption
  <2>3. Selection'
    BY <1>3, <1>0, <1>1 DEF Types, Selection, Target, SelectIndex, Goto, Inside,
                      Selected, States
  <2>4. NotifiesItsPlace' /\ Answering'
    BY <1>3, <1>1 DEF Types, NotifiesItsPlace, Answering, SelectIndex, Goto,
                      ThreadsAssumption, device, Inside, States
  <2> QED BY <2>1, <2>2, <2>3, <2>4
<1>4. CASE AskIndex(t)
  <2>0. pidx' \in {0, Unsupported, Index[arg[t]]} /\ pidx' \in Nat
    <3>1. bnum = arg[t][1]
      BY <1>4, <1>0 DEF AskIndex, Selection, Selected, Target
    <3>2. pidx' \in {Index[arg[t]], 0, Unsupported}
      BY <1>4, <1>2, <3>1 DEF AskIndex
    <3> QED BY <3>2, <1>2 DEF BusesAssumption
  <2>1. Types'
    BY <1>4, <2>0 DEF Types, AskIndex, Goto, States, device
  <2>2. ThreadPlaces' /\ Owner'
    BY <1>4, <1>0 DEF Types, ThreadPlaces, Owner, AskIndex, Goto, Inside, States,
                ThreadsAssumption
  <2>3. Selection'
    BY <1>4, <1>0, <1>1 DEF Types, Selection, Target, AskIndex, Goto, Inside,
                      Selected, States
  <2>4. NotifiesItsPlace'
    BY <1>4 DEF NotifiesItsPlace, AskIndex, device
  <2>5. Answering'
    BY <1>4, <1>1, <2>0 DEF Types, Answering, AskIndex, Goto, Inside, States
  <2> QED BY <2>1, <2>2, <2>3, <2>4, <2>5
<1>5. CASE ReadIndex(t)
  <2>0. pidx \in {0, Unsupported, Index[arg[t]]}
    BY <1>5 DEF ReadIndex, Answering
  <2>1. Types'
    <3>1. PdsmReturns(call[t], pidx) \in [caps : SUBSET {0, 7}, index : Nat]
      BY AnswerType DEF Types
    <3> QED BY <1>5, <3>1 DEF Types, ReadIndex, Goto, States, device
  <2>2. ThreadPlaces' /\ Owner'
    BY <1>5, <1>0 DEF Types, ThreadPlaces, Owner, ReadIndex, Goto, Inside, States,
                ThreadsAssumption
  <2>3. Selection'
    BY <1>5, <1>0, <1>1 DEF Types, Selection, Target, ReadIndex, Goto, Inside,
                      Selected, States
  <2>4. NotifiesItsPlace'
    BY <1>5 DEF NotifiesItsPlace, ReadIndex, device
  <2>5. Answering'
    BY <1>5, <1>1, <2>0 DEF Types, Answering, ReadIndex, Goto, Inside, States
  <2> QED BY <2>1, <2>2, <2>3, <2>4, <2>5
<1> QED BY <1>3, <1>4, <1>5

LEMMA StepIInv ==
  ASSUME IInv, ThreadsAssumption, BusesAssumption, [Next]_vars
  PROVE  IInv'
<1>1. CASE UNCHANGED vars
  BY <1>1 DEF IInv, vars, Types, ThreadPlaces, Owner, Selection, Target,
              NotifiesItsPlace, Answering
<1>2. CASE Next
  BY <1>2, StepDevice, StepStart, StepMutex, StepWalk, StepEject, StepRead
     DEF Next
<1> QED BY <1>1, <1>2

LEMMA Invariant == Spec => []IInv
  BY InitIInv, StepIInv, ThreadsAssumption, BusesAssumption, PTL DEF Spec

-----------------------------------------------------------------------------
(* The types of all registers and threads; an owner of BLCK is running.    *)
THEOREM TypeCorrect == Spec => []TypeOK
<1>1. IInv => TypeOK
  BY DEF IInv, Types, Owner, Inside, States, TypeOK
<1> QED BY <1>1, Invariant, PTL

(* Notifications go to the bus whose events the walk has read.             *)
THEOREM NotifiesCorrect == Spec => []NotifiesItsPlace
  BY Invariant, PTL DEF IInv

(* AIDX answers for the slot it was asked for.                             *)
THEOREM AnswersCorrect == Spec => []AnswersItsPlace
<1>1. IInv => AnswersItsPlace
  <2> SUFFICES ASSUME IInv, NEW t \in Readers, pc[t] = "release"
               PROVE  answer[t].index \in {0, Unsupported, Index[arg[t]]}
    BY DEF AnswersItsPlace, NoIndex
  <2>1. answer[t] \in {PdsmReturns(call[t], 0), PdsmReturns(call[t], Unsupported),
                       PdsmReturns(call[t], Index[arg[t]])}
    BY DEF IInv, Answering
  <2> QED BY <2>1 DEF PdsmReturns, NoAnswer, Answer
<1> QED BY <1>1, Invariant, PTL

(* A slot's _DSM answers as the one of a fixed device would.               *)
THEOREM DsmAgree == Spec => []BothDsmAgree
<1>1. IInv => BothDsmAgree
  <2> SUFFICES ASSUME IInv, NEW t \in Readers, pc[t] = "release"
               PROVE  answer[t] \in {PdsmReturns(call[t], 0),
                                     PdsmReturns(call[t], Unsupported),
                                     EdsmReturns(call[t], Index[arg[t]])}
    BY DEF BothDsmAgree, NoIndex
  <2>1. arg[t] \in Places
    BY DEF IInv, ThreadPlaces
  <2>2. EdsmReturns(call[t], Index[arg[t]]) = PdsmReturns(call[t], Index[arg[t]])
    BY <2>1, SameAnswer, BusesAssumption
  <2> QED BY <2>2 DEF IInv, Answering
<1> QED BY <1>1, Invariant, PTL

(* A _DSM call is answered about its own slot, as EDSM would.              *)
THEOREM DsmCorrect == Spec => []DsmAnswers
  BY AnswersCorrect, DsmAgree, PTL DEF DsmAnswers

(* A device disappears only through an _EJ0 of its own place.              *)
THEOREM EjectsCorrect == Spec => EjectsItsPlace
<1>1. ASSUME IInv, [Next]_vars, NEW p \in Places, p \in present, p \notin present'
      PROVE  \E t \in Ejectors : pc[t] = "eject" /\ arg[t] = p
  <2>1. PICK t \in Ejectors : Eject(t)
    BY <1>1 DEF Next, vars, device, Plug, RequestUnplug, StartEvent, SelectBus,
       NotifyCheck, NotifyRequest, Acquire, Release, StartEject, SelectEject,
       StartDsm, SelectIndex, AskIndex, ReadIndex
  <2>2. pc[t] = "eject" /\ p = <<bnum, arg[t][2]>>
    BY <1>1, <2>1 DEF Eject
  <2> QED BY <1>1, <2>2, EjectHits, ThreadsAssumption
<1>2. IInv /\ [Next]_vars =>
        [\A p \in Places :
           p \in present /\ p \notin present' =>
             \E t \in Ejectors : pc[t] = "eject" /\ arg[t] = p]_vars
  BY <1>1
<1> QED BY <1>2, Invariant, PTL DEF EjectsItsPlace, Spec

-----------------------------------------------------------------------------
(* Interrupt routing.                                                      *)

(* The recursion in append_q35_prt_entry, unrolled.                        *)
LEMMA IrqHead ==
  ASSUME NEW letter \in Int, NEW base \in Int, NEW negative \in [0 .. 3 -> Int]
  PROVE  LET Turn(k, head) == IF head + k > 3 THEN negative[k] ELSE head
             t0 == Turn(0, letter - base)
             t1 == Turn(1, t0)
             t2 == Turn(2, t1)
             t3 == Turn(3, t2)
         IN  \A i \in 0 .. 3 :
               HeadAt(letter, base, i, negative)
                 = IF i = 0 THEN t0 ELSE IF i = 1 THEN t1 ELSE IF i = 2 THEN t2 ELSE t3
<1> DEFINE Turn(k, head) == IF head + k > 3 THEN negative[k] ELSE head
           t0 == Turn(0, letter - base)
           t1 == Turn(1, t0)
           t2 == Turn(2, t1)
           t3 == Turn(3, t2)
           P(h) == h = [k \in 0 .. 3 |->
                    LET head == IF k = 0 THEN letter - base ELSE h[k - 1]
                    IN  IF head + k > 3 THEN negative[k] ELSE head]
           h == CHOOSE h : P(h)
<1>1. \A i \in 0 .. 3 : HeadAt(letter, base, i, negative) = h[i]
  BY DEF HeadAt
<1>2. P(h)
  <2> DEFINE w == [k \in 0 .. 3 |-> IF k = 0 THEN t0 ELSE IF k = 1 THEN t1
                                   ELSE IF k = 2 THEN t2 ELSE t3]
  <2>1. P(w)
    <3> HIDE DEF t0, t1, t2, t3
    <3>1. w[0] = t0 /\ w[1] = t1 /\ w[2] = t2 /\ w[3] = t3
      OBVIOUS
    <3>2. \A k \in 0 .. 3 : w[k] = Turn(k, IF k = 0 THEN letter - base ELSE w[k - 1])
      BY <3>1 DEF t0, t1, t2, t3
    <3> HIDE DEF w
    <3>3. w = [k \in 0 .. 3 |-> w[k]]
      BY DEF w
    <3> QED BY <3>2, <3>3
  <2> HIDE DEF P
  <2> QED BY <2>1
<1> HIDE DEF h
<1>3. h[0] = t0 /\ h[1] = Turn(1, h[0]) /\ h[2] = Turn(2, h[1]) /\ h[3] = Turn(3, h[2])
  BY <1>2
<1> HIDE DEF P
<1> QED BY <1>1, <1>3

(* The Q35 code's rotation: pin i of a slot whose letter is r links after  *)
(* its base is on the link (r + i) mod 4 after it.                         *)
LEMMA IrqQ35Link ==
  ASSUME NEW base \in {A, E}, NEW r \in 0 .. 3, NEW i \in 0 .. 3,
         base = A => r = 0
  PROVE  Q35Link(base + r, i) = base + ((r + i) % 4)
<1> DEFINE negative == [k \in 0 .. 3 |-> -k]
<1>1. base \in Int /\ BaseOf(base + r) = base /\ base + r \in Int
  BY DEF BaseOf, A, E
<1>2. negative \in [0 .. 3 -> Int] /\ \A k \in 0 .. 3 : negative[k] = -k
  OBVIOUS
<1>3. HeadAt(base + r, base, i, negative) + i = ((r + i) % 4)
  <2> DEFINE Turn(k, head) == IF head + k > 3 THEN negative[k] ELSE head
             t0 == Turn(0, (base + r) - base)
             t1 == Turn(1, t0)
             t2 == Turn(2, t1)
             t3 == Turn(3, t2)
  <2>1. HeadAt(base + r, base, i, negative)
          = IF i = 0 THEN t0 ELSE IF i = 1 THEN t1 ELSE IF i = 2 THEN t2 ELSE t3
    <3> HIDE DEF negative
    <3> QED BY <1>1, <1>2, IrqHead
  <2>2. (base + r) - base = r
    BY <1>1
  <2>3. t0 = r /\ t1 = (IF r = 3 THEN -1 ELSE r)
    BY <1>2, <2>2
  <2>4. t2 = IF r = 3 THEN -1 ELSE IF r = 2 THEN -2 ELSE r
    <3> HIDE DEF t1, negative
    <3> QED BY <1>2, <2>3
  <2>5. t3 = IF r = 3 THEN -1 ELSE IF r = 2 THEN -2 ELSE IF r = 1 THEN -3 ELSE r
    <3> HIDE DEF t2, negative
    <3> QED BY <1>2, <2>4
  <2> HIDE DEF t0, t1, t2, t3
  <2> QED BY <2>1, <2>3, <2>4, <2>5
<1> HIDE DEF negative
<1>4. HeadAt(base + r, base, i, negative) \in Int
  <2> DEFINE Turn(k, head) == IF head + k > 3 THEN negative[k] ELSE head
             t0 == Turn(0, (base + r) - base)
             t1 == Turn(1, t0)
             t2 == Turn(2, t1)
             t3 == Turn(3, t2)
  <2>1. t0 \in Int
    BY <1>1, <1>2
  <2>2. t1 \in Int
    BY <2>1, <1>2
  <2>3. t2 \in Int
    BY <2>2, <1>2
  <2>4. t3 \in Int
    BY <2>3, <1>2
  <2>5. HeadAt(base + r, base, i, negative)
          = IF i = 0 THEN t0 ELSE IF i = 1 THEN t1 ELSE IF i = 2 THEN t2 ELSE t3
    BY <1>1, <1>2, IrqHead
  <2> HIDE DEF t0, t1, t2, t3
  <2> QED BY <2>1, <2>2, <2>3, <2>4, <2>5
<1> QED BY <1>1, <1>3, <1>4 DEF Q35Link, negative

(* The Rust code's rotation: its letters are at their base, so that the    *)
(* head stays zero and no u8 overflows.                                    *)
LEMMA IrqRustLink ==
  ASSUME NEW base \in {A, E}, NEW i \in 0 .. 3
  PROVE  RustLink(base, i) = base + i
<1> DEFINE negative == [k \in 0 .. 3 |-> (256 - k) % 256]
           Turn(k, head) == IF head + k > 3 THEN negative[k] ELSE head
           t0 == Turn(0, base - base)
           t1 == Turn(1, t0)
           t2 == Turn(2, t1)
           t3 == Turn(3, t2)
<1>1. base \in Int /\ BaseOf(base) = base /\ base <= 69 /\ base >= 0
  BY DEF BaseOf, A, E
<1>2. negative \in [0 .. 3 -> Int]
  OBVIOUS
<1>3. HeadAt(base, base, i, negative)
        = IF i = 0 THEN t0 ELSE IF i = 1 THEN t1 ELSE IF i = 2 THEN t2 ELSE t3
  <2> HIDE DEF negative
  <2> QED BY <1>1, <1>2, IrqHead
<1>4. t0 = 0
  BY <1>1
<1>5. t1 = 0
  BY <1>4
<1>6. t2 = 0
  BY <1>5
<1>7. t3 = 0
  BY <1>6
<1>8. HeadAt(base, base, i, negative) = 0
  <2> HIDE DEF t0, t1, t2, t3, negative
  <2> QED BY <1>3, <1>4, <1>5, <1>6, <1>7
<1> QED BY <1>1, <1>8 DEF RustLink, negative

(* The links of a slot's pins, in the four tables.                         *)
IrqLink(slot, pin) ==
  IF Piix THEN PiixLink(4 * slot + pin)
  ELSE IF gen = "q35" THEN Q35Link(Q35Letter(slot), pin)
  ELSE RustLink(RustLetter(slot), pin)

(* All tables in one form.                                                 *)
LEMMA IrqLinks ==
  ASSUME NEW slot \in 0 .. 31, NEW pin \in 0 .. 3
  PROVE  /\ Piix =>
              IF slot = 1 /\ pin = 0 /\ gen = "i440fx" THEN IrqLink(slot, pin) = S
              ELSE IrqLink(slot, pin) = A + ((slot + pin + 3) % 4)
         /\ Q35Link(Q35Letter(slot), pin)
              = (IF slot <= 24 \/ slot = 30 THEN E ELSE A)
                + (((IF slot < 24 THEN slot % 4 ELSE 0) + pin) % 4)
         /\ RustLink(RustLetter(slot), pin)
              = (IF slot <= 24 \/ slot = 30 THEN E ELSE A) + pin
<1>1. Piix =>
              IF slot = 1 /\ pin = 0 /\ gen = "i440fx" THEN IrqLink(slot, pin) = S
              ELSE IrqLink(slot, pin) = A + ((slot + pin + 3) % 4)
  <2> SUFFICES ASSUME Piix
               PROVE  IF slot = 1 /\ pin = 0 /\ gen = "i440fx" THEN PiixLink(4 * slot + pin) = S
              ELSE PiixLink(4 * slot + pin) = A + ((slot + pin + 3) % 4)
    BY DEF IrqLink
  <2> DEFINE index == (slot + pin) % 4
  <2>1. ((4 * slot + pin) + (4 * slot + pin) \div 4) % 4 = index
    OBVIOUS
  <2>2. index \in 0 .. 3 /\ (slot + pin + 3) % 4 = IF index = 0 THEN 3 ELSE index - 1
    OBVIOUS
  <2>3. 4 * slot + pin = 4 <=> slot = 1 /\ pin = 0
    OBVIOUS
  <2>4. slot = 1 /\ pin = 0 => index = 1
    OBVIOUS
  <2> HIDE DEF index
  <2> QED BY <2>1, <2>2, <2>3, <2>4 DEF PiixLink, A, S
<1>2. Q35Link(Q35Letter(slot), pin)
              = (IF slot <= 24 \/ slot = 30 THEN E ELSE A)
                + (((IF slot < 24 THEN slot % 4 ELSE 0) + pin) % 4)
  <2> DEFINE base == IF slot <= 24 \/ slot = 30 THEN E ELSE A
             r == IF slot < 24 THEN slot % 4 ELSE 0
  <2>1. /\ base \in {A, E} /\ r \in 0 .. 3 /\ (base = A => r = 0)
        /\ Q35Letter(slot) = base + r
    BY DEF Q35Letter, A, E
  <2> HIDE DEF base, r
  <2>2. Q35Link(base + r, pin) = base + ((r + pin) % 4)
    BY <2>1, IrqQ35Link
  <2> QED BY <2>1, <2>2 DEF base, r
<1>3. RustLink(RustLetter(slot), pin)
              = (IF slot <= 24 \/ slot = 30 THEN E ELSE A) + pin
  BY IrqRustLink DEF RustLetter
<1> QED BY <1>1, <1>2, <1>3

(* Adding one, or four, new elements to a finite set.                      *)
LEMMA FourMore ==
  ASSUME NEW T, IsFiniteSet(T), NEW a, NEW b, NEW c, NEW d,
         a \notin T, b \notin T, c \notin T, d \notin T,
         a # b, a # c, a # d, b # c, b # d, c # d
  PROVE  IsFiniteSet(T \cup {a, b, c, d}) /\ Cardinality(T \cup {a, b, c, d}) = Cardinality(T) + 4
<1>1. IsFiniteSet(T \cup {a}) /\ Cardinality(T \cup {a}) = Cardinality(T) + 1
  BY FS_AddElement
<1>2. IsFiniteSet((T \cup {a}) \cup {b}) /\ Cardinality((T \cup {a}) \cup {b}) = (Cardinality(T) + 1) + 1
  <2>1. b \notin T \cup {a}
    OBVIOUS
  <2> QED BY <1>1, <2>1, FS_AddElement
<1>3. /\ IsFiniteSet(((T \cup {a}) \cup {b}) \cup {c})
      /\ Cardinality(((T \cup {a}) \cup {b}) \cup {c}) = ((Cardinality(T) + 1) + 1) + 1
  <2>1. c \notin (T \cup {a}) \cup {b}
    OBVIOUS
  <2> QED BY <1>2, <2>1, FS_AddElement
<1>4. /\ IsFiniteSet((((T \cup {a}) \cup {b}) \cup {c}) \cup {d})
      /\ Cardinality((((T \cup {a}) \cup {b}) \cup {c}) \cup {d}) = (((Cardinality(T) + 1) + 1) + 1) + 1
  <2>1. d \notin ((T \cup {a}) \cup {b}) \cup {c}
    OBVIOUS
  <2> QED BY <1>3, <2>1, FS_AddElement
<1>5. (((T \cup {a}) \cup {b}) \cup {c}) \cup {d} = T \cup {a, b, c, d}
  OBVIOUS
<1>6. Cardinality(T) \in Nat
  BY FS_CardinalityType
<1> QED BY <1>4, <1>5, <1>6

(* A set of four.                                                          *)
LEMMA FourApart ==
  ASSUME NEW a, NEW b, NEW c, NEW d,
         a # b, a # c, a # d, b # c, b # d, c # d
  PROVE  Cardinality({a, b, c, d}) = 4
<1> DEFINE T == {}
<1>1. IsFiniteSet(T) /\ Cardinality(T) = 0 /\ \A x : x \notin T
  BY FS_EmptySet
<1> HIDE DEF T
<1>2. Cardinality(T \cup {a, b, c, d}) = Cardinality(T) + 4
  <2>1. a \notin T /\ b \notin T /\ c \notin T /\ d \notin T /\ IsFiniteSet(T)
    BY <1>1
  <2> QED BY <2>1, FourMore
<1>3. T \cup {a, b, c, d} = {a, b, c, d}
  BY <1>1
<1> QED BY <1>1, <1>2, <1>3

-----------------------------------------------------------------------------
(* The pins routed so far, and the inductive invariant: the table is       *)
(* exactly those pins' links, and a link's register agrees with the last   *)
(* setting.                                                                *)
IrqRouted(slot, pin) == IF Piix THEN 4 * slot + pin < next ELSE slot < next
IrqPins == {x \in (0 .. 31) \X (0 .. 3) : IrqRouted(x[1], x[2])}
IrqTable == {Route(x[1], x[2], IrqLink(x[1], x[2])) : x \in IrqPins}

IrqTypes ==
  /\ gen \in {"i440fx", "expander", "q35", "rust"}
  /\ next \in 0 .. Rows
  /\ picf \in {0, 1} /\ (Piix => picf = 0)
  /\ reg \in [Links -> 0 .. 255]
  /\ asked \in [Links -> Irqs \cup {Off, Nothing}]

IrqCount ==
  IsFiniteSet(routes) /\ Cardinality(routes) = next * (IF Piix THEN 1 ELSE 4)

IrqSet ==
  \A l \in Links :
    /\ gen = "expander" => asked[l] = Nothing
    /\ gen # "rust" => /\ asked[l] \in Irqs => reg[l] = asked[l]
                       /\ asked[l] = Off => reg[l] >= 128

IrqInv == IrqTypes /\ routes = IrqTable /\ IrqCount /\ IrqSet

(* The table starts empty, every link off or set by the firmware.          *)
LEMMA IrqInitHolds ==
  ASSUME IrqInit
  PROVE  IrqInv
<1> USE DEF IrqInit
<1>1. IrqTypes
  <2>1. reg \in [Links -> 0 .. 255]
    OBVIOUS
  <2>2. asked \in [Links -> Irqs \cup {Off, Nothing}]
    OBVIOUS
  <2> QED BY <2>1, <2>2 DEF IrqTypes, Rows, Piix
<1>2. IrqPins = {}
  BY DEF IrqPins, IrqRouted
<1>3. routes = IrqTable
  BY <1>2 DEF IrqTable
<1>4. IrqCount
  BY FS_EmptySet DEF IrqCount
<1>5. IrqSet
  BY DEF IrqSet, Irqs, Off, Nothing
<1> QED BY <1>1, <1>3, <1>4, <1>5 DEF IrqInv

(* One pin more.                                                           *)
LEMMA IrqPiixRow ==
  ASSUME IrqInv, PiixRow
  PROVE  IrqInv'
<1> USE DEF PiixRow
<1> DEFINE s == next \div 4
           p == next % 4
           new == Route(s, p, PiixLink(next))
<1>1. /\ Piix /\ Piix' /\ next \in 0 .. 127 /\ next' = next + 1
      /\ s \in 0 .. 31 /\ p \in 0 .. 3 /\ next = 4 * s + p
  BY DEF IrqInv, IrqTypes, Rows, Piix
<1>2. IrqTypes' /\ IrqSet'
  BY <1>1 DEF IrqInv, IrqTypes, IrqSet, Rows, Piix
<1>3. \A x \in (0 .. 31) \X (0 .. 3) : IrqLink(x[1], x[2])' = IrqLink(x[1], x[2])
  BY <1>1 DEF IrqLink, PiixLink
<1>4. IrqPins' = IrqPins \cup {<<s, p>>}
  <2>1. \A x \in (0 .. 31) \X (0 .. 3) :
          4 * x[1] + x[2] < next + 1 <=> 4 * x[1] + x[2] < next \/ x = <<s, p>>
    BY <1>1
  <2> QED BY <1>1, <2>1 DEF IrqPins, IrqRouted
<1>5. <<s, p>> \in (0 .. 31) \X (0 .. 3) /\ <<s, p>>[1] = s /\ <<s, p>>[2] = p
  BY <1>1
<1>6. new = Route(s, p, IrqLink(s, p))
  BY <1>1 DEF IrqLink
<1>7. (routes = IrqTable)'
  <2>1. IrqTable' = {Route(x[1], x[2], IrqLink(x[1], x[2])) : x \in IrqPins'}
    BY <1>3 DEF IrqTable, IrqPins, Route
  <2>2. IrqTable' = IrqTable \cup {new}
    BY <1>4, <1>5, <1>6, <2>1 DEF IrqTable
  <2> QED BY <2>2 DEF IrqInv
<1>8. new \notin routes
  <2>1. <<s, p>> \notin IrqPins
    BY <1>1, <1>5 DEF IrqPins, IrqRouted
  <2>2. \A x \in IrqPins : x = <<x[1], x[2]>>
    BY DEF IrqPins
  <2> QED BY <2>1, <2>2 DEF IrqInv, IrqTable, Route
<1>9. IrqCount'
  <2>1. IsFiniteSet(routes) /\ Cardinality(routes) = next
    BY <1>1 DEF IrqInv, IrqCount
  <2>2. IsFiniteSet(routes \cup {new}) /\ Cardinality(routes \cup {new}) = next + 1
    <3> HIDE DEF new
    <3> QED BY <2>1, <1>8, FS_AddElement
  <2>3. IsFiniteSet(routes)' /\ Cardinality(routes)' = next'
    BY <1>1, <2>2
  <2> QED BY <1>1, <2>3 DEF IrqCount
<1> QED BY <1>2, <1>7, <1>9 DEF IrqInv

(* One slot more.                                                          *)
LEMMA IrqSlotRow ==
  ASSUME IrqInv, Q35Row \/ RustRow
  PROVE  IrqInv'
<1> DEFINE new(i) == Route(next, i, IrqLink(next, i))
<1>1. /\ ~Piix /\ ~Piix' /\ next \in 0 .. 31 /\ next' = next + 1
      /\ gen \in {"q35", "rust"} /\ UNCHANGED <<gen, picf, reg, asked>>
  BY DEF IrqInv, IrqTypes, Rows, Piix, Q35Row, RustRow
<1>2. IrqTypes' /\ IrqSet'
  BY <1>1 DEF IrqInv, IrqTypes, IrqSet, Rows, Piix
<1>3. routes' = routes \cup {new(0), new(1), new(2), new(3)}
  <2>1. routes' = routes \cup {new(i) : i \in 0 .. 3}
    BY <1>1 DEF Q35Row, RustRow, IrqLink
  <2>2. {new(i) : i \in 0 .. 3} = {new(0), new(1), new(2), new(3)}
    <3>1. 0 .. 3 = {0, 1, 2, 3}
      OBVIOUS
    <3> QED BY <3>1
  <2> QED BY <2>1, <2>2
<1>4. \A x \in (0 .. 31) \X (0 .. 3) : IrqLink(x[1], x[2])' = IrqLink(x[1], x[2])
  BY <1>1 DEF IrqLink
<1>5. IrqPins' = IrqPins \cup {<<next, i>> : i \in 0 .. 3}
  <2>1. \A x \in (0 .. 31) \X (0 .. 3) :
          x[1] < next + 1 <=> x[1] < next \/ x \in {<<next, i>> : i \in 0 .. 3}
    BY <1>1
  <2> QED BY <1>1, <2>1 DEF IrqPins, IrqRouted
<1>6. (routes = IrqTable)'
  <2>1. IrqTable' = {Route(x[1], x[2], IrqLink(x[1], x[2])) : x \in IrqPins'}
    BY <1>4 DEF IrqTable, IrqPins, Route
  <2>2. IrqTable' = IrqTable \cup {new(i) : i \in 0 .. 3}
    <3> DEFINE f(x) == Route(x[1], x[2], IrqLink(x[1], x[2]))
               more == {<<next, i>> : i \in 0 .. 3}
    <3>1. {f(x) : x \in more} = {new(i) : i \in 0 .. 3}
      <4>1. \A i \in 0 .. 3 : f(<<next, i>>) = new(i)
        OBVIOUS
      <4> HIDE DEF f, new
      <4> QED BY <4>1
    <3>2. IrqTable = {f(x) : x \in IrqPins} /\ IrqTable' = {f(x) : x \in IrqPins \cup more}
      BY <1>5, <2>1 DEF IrqTable
    <3> HIDE DEF f, more, new
    <3> QED BY <3>1, <3>2
  <2>3. routes' = routes \cup {new(i) : i \in 0 .. 3}
    BY <1>1 DEF Q35Row, RustRow, IrqLink
  <2> QED BY <2>2, <2>3 DEF IrqInv
<1>7. \A i \in 0 .. 3 : new(i) \notin routes
  <2>1. \A x \in IrqPins : x[1] < next
    BY <1>1 DEF IrqPins, IrqRouted
  <2>2. \A r \in routes : r.slot < next
    BY <2>1 DEF IrqInv, IrqTable, Route
  <2>3. \A i \in 0 .. 3 : new(i).slot = next
    BY DEF Route
  <2> HIDE DEF new
  <2> QED BY <1>1, <2>2, <2>3
<1>8. \A i, j \in 0 .. 3 : i # j => new(i) # new(j)
  BY DEF Route
<1>9. IrqCount'
  <2> HIDE DEF new
  <2>1. IsFiniteSet(routes') /\ Cardinality(routes') = Cardinality(routes) + 4
    BY <1>3, <1>7, <1>8, FourMore DEF IrqInv, IrqCount
  <2> QED BY <1>1, <2>1 DEF IrqInv, IrqCount
<1> QED BY <1>2, <1>6, <1>9 DEF IrqInv

(* The guest's calls leave the table alone.                                *)
LEMMA IrqCalls ==
  ASSUME IrqInv,
         \/ \E mode \in {0, 1} : Pic(mode)
         \/ \E l \in Touched : Dis(l) \/ \E irq \in Irqs : Srs(l, irq)
         \/ UNCHANGED irqVars
  PROVE  IrqInv'
<1>1. UNCHANGED <<gen, next, routes>>
  BY DEF Pic, Dis, Srs, irqVars
<1>2. (routes = IrqTable)' /\ IrqCount'
  <2>1. UNCHANGED <<IrqPins, Piix>>
    BY <1>1 DEF IrqPins, IrqRouted, Piix
  <2>2. IrqTable' = IrqTable
    BY <1>1, <2>1 DEF IrqTable, IrqLink, PiixLink
  <2> QED BY <1>1, <2>1, <2>2 DEF IrqInv, IrqCount
<1>3. IrqTypes' /\ IrqSet'
  <2>1. CASE \E mode \in {0, 1} : Pic(mode)
    BY <2>1, <1>1 DEF IrqInv, IrqTypes, IrqSet, Pic, Piix, Rows
  <2>2. ASSUME NEW l \in Touched, Dis(l)
        PROVE  IrqTypes' /\ IrqSet'
    <3>1. l \in Links /\ ((reg[l] % 128) + 128) \in 128 .. 255
      BY TouchedAssumption DEF IrqInv, IrqTypes
    <3>2. IrqTypes'
      BY <2>2, <1>1, <3>1 DEF IrqInv, IrqTypes, Dis, Piix, Rows
    <3>3. IrqSet'
      BY <2>2, <1>1, <3>1 DEF IrqInv, IrqTypes, IrqSet, Dis, Settable, Irqs, Off
    <3> QED BY <3>2, <3>3
  <2>3. ASSUME NEW l \in Touched, NEW irq \in Irqs, Srs(l, irq)
        PROVE  IrqTypes' /\ IrqSet'
    <3>1. l \in Links /\ irq \in 0 .. 255
      BY TouchedAssumption DEF Irqs
    <3>2. IrqTypes'
      BY <2>3, <1>1, <3>1 DEF IrqInv, IrqTypes, Srs, Piix, Rows
    <3>3. IrqSet'
      BY <2>3, <1>1, <3>1 DEF IrqInv, IrqTypes, IrqSet, Srs, Settable, Irqs, Off
    <3> QED BY <3>2, <3>3
  <2>4. CASE UNCHANGED irqVars
    BY <2>4 DEF IrqInv, IrqTypes, IrqSet, irqVars, Piix, Rows
  <2> QED BY <2>1, <2>2, <2>3, <2>4
<1> QED BY <1>2, <1>3 DEF IrqInv

(* The table and the links, for any calls of the guest.                    *)
THEOREM IrqInvariant == IrqSpec => []IrqInv
<1>1. IrqInit => IrqInv
  BY IrqInitHolds
<1>2. IrqInv /\ [IrqNext]_irqVars => IrqInv'
  BY IrqPiixRow, IrqSlotRow, IrqCalls DEF IrqNext
<1> QED BY <1>1, <1>2, PTL DEF IrqSpec

-----------------------------------------------------------------------------
(* SettingsReported: whatever the guest did, a link reports what it was    *)
(* last set to.                                                            *)
LEMMA IrqReported ==
  ASSUME IrqInv
  PROVE  SettingsReported
<1> SUFFICES ASSUME gen # "rust", NEW l \in Links
             PROVE  /\ asked[l] \in Irqs => Crs(l) = {asked[l]} /\ Sta(l) = 11
                    /\ asked[l] = Off => Sta(l) = 9 /\ (gen = "i440fx" => Crs(l) = {0})
  BY DEF SettingsReported
<1>0. reg[l] \in 0 .. 255
  BY DEF IrqInv, IrqTypes
<1>1. ASSUME asked[l] \in Irqs PROVE Crs(l) = {asked[l]} /\ Sta(l) = 11
  <2>1. reg[l] = asked[l] /\ asked[l] \in {5, 10, 11}
    BY <1>1 DEF IrqInv, IrqSet, Irqs
  <2>2. gen \in {"i440fx", "q35"}
    BY <2>1 DEF IrqInv, IrqSet, IrqTypes, Nothing
  <2> QED BY <2>1, <2>2 DEF Crs, Sta
<1>2. ASSUME asked[l] = Off PROVE Sta(l) = 9 /\ (gen = "i440fx" => Crs(l) = {0})
  BY <1>0, <1>2 DEF IrqInv, IrqSet, Crs, Sta
<1> QED BY <1>1, <1>2

THEOREM IrqSettingsReported ==
  IrqSpec => []SettingsReported
<1>1. IrqInv => SettingsReported
  BY IrqReported
<1> QED BY <1>1, IrqInvariant, PTL

(* Every route leads to a link device that is declared.                    *)
LEMMA IrqLinksAreThere ==
  ASSUME IrqInv
  PROVE  LinksExist
<1> USE DEF A, E, S
<1>1. SUFFICES ASSUME NEW x \in IrqPins
               PROVE  <<IF picf = 0 THEN "LNK" ELSE "GSI", IrqLink(x[1], x[2])>> \in Declared
  BY DEF LinksExist, Led, IrqInv, IrqTable, Route
<1> DEFINE slot == x[1]
           pin == x[2]
           link == IrqLink(slot, pin)
<1>2. slot \in 0 .. 31 /\ pin \in 0 .. 3
  BY DEF IrqPins
<1>3. /\ gen \in {"i440fx", "expander", "q35", "rust"}
      /\ picf \in {0, 1} /\ (Piix => picf = 0)
  BY DEF IrqInv, IrqTypes
<1>4. CASE Piix
  <2>1. link \in 65 .. 68 \/ (link = 83 /\ gen = "i440fx")
    <3>1. (slot + pin + 3) % 4 \in 0 .. 3
      BY <1>2
    <3> HIDE DEF slot, pin
    <3> QED BY <1>2, <1>4, <3>1, IrqLinks
  <2> QED BY <1>3, <1>4, <2>1 DEF Declared, Piix
<1>5. CASE ~Piix
  <2>1. link \in Links
    <3>1. ((IF slot < 24 THEN slot % 4 ELSE 0) + pin) % 4 \in 0 .. 3
      BY <1>2
    <3> HIDE DEF slot, pin
    <3> QED BY <1>2, <1>5, <3>1, IrqLinks DEF IrqLink, Links
  <2> QED BY <1>3, <1>5, <2>1 DEF Declared, Piix
<1> QED BY <1>4, <1>5

(* Once all pins are routed, LinkAt finds the pin's one entry.             *)
LEMMA IrqLinkAt ==
  ASSUME IrqInv, next = Rows, NEW slot \in 0 .. 31, NEW pin \in 0 .. 3
  PROVE  LinkAt(slot, pin)
           = IF IrqLink(slot, pin) = S THEN A ELSE IrqLink(slot, pin)
<1>1. <<slot, pin>> \in IrqPins
  BY DEF IrqPins, IrqRouted, Rows
<1> DEFINE t == Route(slot, pin, IrqLink(slot, pin))
<1>2. t \in routes /\ t.slot = slot /\ t.pin = pin /\ t.link = IrqLink(slot, pin)
  BY <1>1 DEF IrqInv, IrqTable, Route
<1>3. \A u \in routes : u.slot = slot /\ u.pin = pin => u = t
  <2>1. \A x \in IrqPins : Route(x[1], x[2], IrqLink(x[1], x[2])).slot = x[1]
                           /\ Route(x[1], x[2], IrqLink(x[1], x[2])).pin = x[2]
    BY DEF Route
  <2> QED BY <2>1 DEF IrqInv, IrqTable
<1> HIDE DEF t
<1>4. (CHOOSE u \in routes : u.slot = slot /\ u.pin = pin) = t
  BY <1>2, <1>3
<1> QED BY <1>2, <1>4 DEF LinkAt

(* The three closed forms of a finished table.                             *)
LEMMA IrqFinished ==
  ASSUME IrqInv, next = Rows, NEW slot \in 0 .. 31, NEW pin \in 0 .. 3
  PROVE  LinkAt(slot, pin) =
           IF Piix THEN 65 + ((slot + pin + 3) % 4)
           ELSE (IF slot <= 24 \/ slot = 30 THEN 69 ELSE 65)
                + (IF gen = "q35" THEN ((IF slot < 24 THEN slot % 4 ELSE 0) + pin) % 4 ELSE pin)
<1>1. LinkAt(slot, pin)
           = IF IrqLink(slot, pin) = S THEN A ELSE IrqLink(slot, pin)
  BY IrqLinkAt
<1>2. CASE Piix
  <2>1. (slot + pin + 3) % 4 \in 0 .. 3 /\ (slot = 1 /\ pin = 0 => (slot + pin + 3) % 4 = 0)
    OBVIOUS
  <2> QED BY <1>1, <1>2, <2>1, IrqLinks DEF A, S
<1>3. CASE ~Piix
  <2>1. ((IF slot < 24 THEN slot % 4 ELSE 0) + pin) % 4 \in 0 .. 3
    OBVIOUS
  <2> QED BY <1>1, <1>3, <2>1, IrqLinks DEF IrqLink, A, E, S
<1> QED BY <1>2, <1>3

(* A slot's pins are on four links.                                        *)
LEMMA IrqPinsApart ==
  ASSUME IrqInv
  PROVE  PinsApart
<1> SUFFICES ASSUME next = Rows, NEW slot \in 0 .. 31
             PROVE  Cardinality({LinkAt(slot, pin) : pin \in 0 .. 3}) = 4
  BY DEF PinsApart
<1> DEFINE L(pin) == LinkAt(slot, pin)
           Turned(pin) == IF Piix THEN (slot + pin + 3) % 4
                       ELSE IF gen = "q35" THEN ((IF slot < 24 THEN slot % 4 ELSE 0) + pin) % 4
                       ELSE pin
<1>1. {L(pin) : pin \in 0 .. 3} = {L(0), L(1), L(2), L(3)}
  <2>1. 0 .. 3 = {0, 1, 2, 3}
    OBVIOUS
  <2> QED BY <2>1
<1>2. \A pin \in 0 .. 3 : L(pin) = (IF Piix THEN 65 ELSE IF slot <= 24 \/ slot = 30 THEN 69 ELSE 65) + Turned(pin)
  BY IrqFinished
<1>3. \A p, q \in 0 .. 3 : p # q => Turned(p) # Turned(q) /\ Turned(p) \in Int
  <2>1. \A n \in 0 .. 31 : \A p, q \in 0 .. 3 : p # q => (n + p + 3) % 4 # (n + q + 3) % 4 /\ (n + p) % 4 # (n + q) % 4
    OBVIOUS
  <2>2. (IF slot < 24 THEN slot % 4 ELSE 0) \in 0 .. 31
    OBVIOUS
  <2> QED BY <2>1, <2>2
<1> HIDE DEF L, Turned
<1>4. L(0) # L(1) /\ L(0) # L(2) /\ L(0) # L(3) /\ L(1) # L(2) /\ L(1) # L(3) /\ L(2) # L(3)
  BY <1>2, <1>3
<1>5. Cardinality({L(0), L(1), L(2), L(3)}) = 4
  BY <1>4, FourApart
<1> QED BY <1>1, <1>5 DEF L

(* Four neighbouring slots' pins are on four links.                        *)
LEMMA IrqSlotsSpread ==
  ASSUME IrqInv
  PROVE  SlotsSpread
<1> SUFFICES ASSUME next = Rows, gen # "rust",
                    NEW first \in 0 .. (IF gen = "q35" THEN 20 ELSE 28), NEW pin \in 0 .. 3
             PROVE  Cardinality({LinkAt(slot, pin) : slot \in first .. first + 3}) = 4
  BY DEF SlotsSpread
<1> DEFINE L(slot) == LinkAt(slot, pin)
           a == L(first)
           b == L(first + 1)
           c == L(first + 2)
           d == L(first + 3)
<1>1. {L(slot) : slot \in first .. first + 3} = {a, b, c, d}
  <2>1. first .. first + 3 = {first, first + 1, first + 2, first + 3}
    OBVIOUS
  <2> HIDE DEF L
  <2> QED BY <2>1
<1>2. \A slot \in first .. first + 3 :
        L(slot) = IF Piix THEN 65 + ((slot + pin + 3) % 4) ELSE 69 + ((slot + pin) % 4)
  <2>1. gen \in {"i440fx", "expander", "q35", "rust"}
    BY DEF IrqInv, IrqTypes
  <2>2. SUFFICES ASSUME NEW slot \in first .. first + 3
                 PROVE  L(slot) = IF Piix THEN 65 + ((slot + pin + 3) % 4)
                                  ELSE 69 + ((slot + pin) % 4)
    OBVIOUS
  <2>3. slot \in 0 .. 31 /\ (~Piix => slot \in 0 .. 23 /\ gen = "q35")
    BY <2>1 DEF Piix
  <2>4. ((slot % 4) + pin) % 4 = (slot + pin) % 4
    BY <2>3
  <2> QED BY <2>3, <2>4, IrqFinished
<1> HIDE DEF L
<1>3. a # b /\ a # c /\ a # d /\ b # c /\ b # d /\ c # d
  <2>1. \A n \in 0 .. 63 : /\ n % 4 # (n + 1) % 4 /\ n % 4 # (n + 2) % 4 /\ n % 4 # (n + 3) % 4
                           /\ n % 4 \in Int
    OBVIOUS
  <2>2. CASE Piix
    <3> DEFINE m == first + pin + 3
    <3>1. /\ a = 65 + (m % 4) /\ b = 65 + ((m + 1) % 4) /\ c = 65 + ((m + 2) % 4)
          /\ d = 65 + ((m + 3) % 4)
      BY <1>2, <2>2
    <3>2. m \in 0 .. 63 /\ m + 1 \in 0 .. 63 /\ m + 2 \in 0 .. 63
      OBVIOUS
    <3> HIDE DEF m, a, b, c, d
    <3> QED BY <3>1, <3>2
  <2>3. CASE ~Piix
    <3> DEFINE m == first + pin
    <3>1. /\ a = 69 + (m % 4) /\ b = 69 + ((m + 1) % 4) /\ c = 69 + ((m + 2) % 4)
          /\ d = 69 + ((m + 3) % 4)
      BY <1>2, <2>3
    <3>2. m \in 0 .. 63 /\ m + 1 \in 0 .. 63 /\ m + 2 \in 0 .. 63
      OBVIOUS
    <3> HIDE DEF m, a, b, c, d
    <3> QED BY <3>1, <3>2
  <2> QED BY <2>2, <2>3
<1> HIDE DEF a, b, c, d
<1>5. Cardinality({a, b, c, d}) = 4
  BY <1>3, FourApart
<1> QED BY <1>1, <1>5 DEF L

(* The Rust table and the Q35 code meet where the rotation starts at zero. *)
LEMMA IrqRustAgrees ==
  ASSUME IrqInv
  PROVE  RustAgrees
<1> SUFFICES ASSUME next = Rows, gen = "rust"
             PROVE  {slot \in 0 .. 31 :
                       \A pin \in 0 .. 3 : LinkAt(slot, pin) = Q35Link(Q35Letter(slot), pin)}
                     = {slot \in 0 .. 23 : slot % 4 = 0} \cup 24 .. 31
  BY DEF RustAgrees
<1>1. ASSUME NEW slot \in 0 .. 31
      PROVE  (\A pin \in 0 .. 3 : LinkAt(slot, pin) = Q35Link(Q35Letter(slot), pin))
               <=> slot >= 24 \/ slot % 4 = 0
  <2> DEFINE r == IF slot < 24 THEN slot % 4 ELSE 0
             base == IF slot <= 24 \/ slot = 30 THEN 69 ELSE 65
  <2>1. ~Piix
    BY DEF Piix
  <2>2. \A pin \in 0 .. 3 : /\ LinkAt(slot, pin) = base + pin
                            /\ Q35Link(Q35Letter(slot), pin) = base + ((r + pin) % 4)
    BY <2>1, IrqFinished, IrqLinks DEF A, E
  <2>3. r \in 0 .. 3 /\ base \in Int /\ (r = 0 <=> slot >= 24 \/ slot % 4 = 0)
    OBVIOUS
  <2> HIDE DEF r, base
  <2>4. (\A pin \in 0 .. 3 : base + pin = base + ((r + pin) % 4)) <=> r = 0
    <3>1. r # 0 => base + 0 # base + ((r + 0) % 4)
      BY <2>3
    <3>2. r = 0 => \A pin \in 0 .. 3 : pin = (r + pin) % 4
      OBVIOUS
    <3> QED BY <2>3, <3>1, <3>2
  <2> QED BY <2>2, <2>3, <2>4
<1> QED BY <1>1

(* PinsRouted: in each of the four tables every pin is led, in turn, to a  *)
(* link device that exists, and the pins are spread as the comment of the  *)
(* Q35 code says.                                                          *)
THEOREM IrqPinsRouted ==
  IrqSpec => []PinsRouted
<1>1. IrqInv => PinsRouted
  <2>1. IrqInv => IrqTypeOK
    BY DEF IrqInv, IrqTypes, IrqCount, IrqTypeOK
  <2> QED BY <2>1, IrqLinksAreThere, IrqPinsApart, IrqSlotsSpread, IrqRustAgrees DEF PinsRouted
<1> QED BY <1>1, IrqInvariant, PTL

-----------------------------------------------------------------------------
(***************************************************************************)
(* IommuScopes.  First the hierarchy: `Above' is a chain, what comes       *)
(* between a bridge and a device below it in the order of the walk is also *)
(* below it.  Then the bus numbers: a bridge's range of buses has exactly  *)
(* the buses of the devices below it, so that an entry from Sec to Sub     *)
(* covers these devices and no others.  Then who speaks for a device: the  *)
(* device itself, or the topmost bridge above it where the walk stops.     *)
(* Then the walk, and what follows from its invariant.                     *)
(***************************************************************************)

(* What a machine looks like, device by device.                            *)
LEMMA MachineFacts ==
  ASSUME Machine
  PROVE  /\ MaxDevs \in Nat /\ Len(on) \in Nat /\ Len(on) <= MaxDevs
         /\ Devs = 1 .. Len(on) /\ 1 \in Devs
         /\ \A d \in Devs :
              /\ on[d] \in Hosts \/ (on[d] \in Devs /\ on[d] < d /\ Bridge(on[d]))
              /\ on[d] \in Devs => on[d] \notin Hosts
              /\ d # 1 => on[d] \in Hosts \/ on[d] = d - 1 \/ on[d] \in Above[d - 1]
              /\ spare[d] \in 0 .. 1
         /\ bypass \subseteq Hosts /\ RootsApart /\ which \in {"DMAR", "IVRS"}
<1>1. PICK n \in 1 .. MaxDevs :
        /\ on \in [1 .. n -> Hosts \cup 1 .. n - 1]
        /\ \A d \in 1 .. n : on[d] \in Hosts \cup 1 .. d - 1
        /\ DepthFirst
        /\ Pluggable
        /\ spare \in [1 .. n -> 0 .. 1]
  BY DEF Machine
<1>2. MaxDevs \in Nat /\ \A h \in Hosts : h \notin Nat
  BY HostsAssumption
<1>3. Devs = 1 .. n
  BY <1>1 DEF Devs
<1>4. Len(on) = n /\ n \in Nat /\ n <= MaxDevs
  BY <1>1, <1>2
<1>5. ASSUME NEW d \in Devs
      PROVE  /\ on[d] \in Hosts \/ (on[d] \in Devs /\ on[d] < d /\ Bridge(on[d]))
             /\ on[d] \in Devs => on[d] \notin Hosts
             /\ d # 1 => on[d] \in Hosts \/ on[d] = d - 1 \/ on[d] \in Above[d - 1]
             /\ spare[d] \in 0 .. 1
  <2>1. on[d] \notin Hosts => on[d] \in 1 .. d - 1
    BY <1>1, <1>3
  <2>2. on[d] \notin Hosts => Bridge(on[d])
    BY <1>1 DEF Pluggable, Takes
  <2>3. d # 1 => on[d] \in Hosts \/ on[d] = d - 1 \/ on[d] \in Above[d - 1]
    BY <1>1 DEF DepthFirst
  <2>4. spare[d] \in 0 .. 1
    BY <1>1, <1>3
  <2>5. on[d] \in 1 .. d - 1 => on[d] \in Devs /\ on[d] < d
    BY <1>3, <1>4
  <2>6. on[d] \in Devs => on[d] \notin Hosts
    BY <1>2, <1>3, <1>4
  <2> QED BY <2>1, <2>2, <2>3, <2>4, <2>5, <2>6
<1>6. bypass \subseteq Hosts /\ RootsApart /\ which \in {"DMAR", "IVRS"}
  BY DEF Machine
<1>7. 1 \in 1 .. n
  BY <1>2
<1> QED BY <1>2, <1>3, <1>4, <1>5, <1>6, <1>7

(* Induction along the tree.                                               *)
LEMMA TreeInduction ==
  ASSUME Machine, NEW T,
         \A d \in Devs : (on[d] \notin Hosts => on[d] \in T) => d \in T
  PROVE  Devs \subseteq T
<1>1. Devs \subseteq Nat
  BY MachineFacts
<1> SUFFICES ASSUME Devs \ T # {} PROVE FALSE
  OBVIOUS
<1>2. PICK x \in Devs \ T : \A y \in Devs \ T : x <= y
  BY <1>1, LeastElement
<1>3. on[x] \notin Hosts => on[x] \in Devs /\ on[x] < x
  BY <1>2, MachineFacts
<1>4. on[x] \notin Hosts => on[x] \in T
  <2> SUFFICES ASSUME on[x] \in Devs \ T, on[x] < x PROVE FALSE
    BY <1>3
  <2>1. x <= on[x] /\ x \in Nat /\ on[x] \in Nat
    BY <1>1, <1>2
  <2> QED BY <2>1
<1>5. x \in T
  BY <1>2, <1>4
<1> QED BY <1>2, <1>5

(* The bridges above a device: the one it sits on, and those above it.     *)
LEMMA AboveFacts ==
  ASSUME Machine
  PROVE  \A d \in Devs :
           Above[d] = IF on[d] \in Hosts THEN {} ELSE {on[d]} \cup Above[on[d]]
<1> DEFINE n == Len(on)
           V == SUBSET Devs
           parent == [d \in 1 .. n |-> IF on[d] \in Hosts THEN 0 ELSE on[d]]
           step == [d \in 1 .. n |-> [Z \in V |-> IF on[d] \in Hosts THEN {} ELSE {on[d]} \cup Z]]
           Def(f) == f = [d \in Devs |-> IF on[d] \in Hosts THEN {} ELSE {on[d]} \cup f[on[d]]]
<1>1. /\ n \in Nat /\ Devs = 1 .. n
      /\ \A d \in Devs : on[d] \in Hosts \/ (on[d] \in Devs /\ on[d] < d)
  BY MachineFacts
<1> HIDE DEF n
<1>2. parent \in Parents(n)
  BY <1>1 DEF Parents
<1>3. step \in [1 .. n -> [V -> V]]
  <2>1. ASSUME NEW d \in 1 .. n, NEW Z \in V
        PROVE  (IF on[d] \in Hosts THEN {} ELSE {on[d]} \cup Z) \in V
    BY <1>1
  <2> HIDE DEF V
  <2> QED BY <2>1
<1>4. {} \in V
  OBVIOUS
<1>5. PICK f \in [0 .. n -> V] : Follows(f, n, parent, {}, step)
  <2> HIDE DEF V, step, parent
  <2> QED BY <1>1, <1>2, <1>3, <1>4, TreeRecursion
<1> DEFINE g == [d \in Devs |-> f[d]]
<1>6. Def(g)
  <2>1. ASSUME NEW d \in Devs
        PROVE  g[d] = IF on[d] \in Hosts THEN {} ELSE {on[d]} \cup g[on[d]]
    <3>1. f[d] = step[d][f[parent[d]]] /\ f[parent[d]] \in V
      BY <1>1, <1>2, <1>5 DEF Follows, Parents
    <3>2. on[d] \notin Hosts => g[on[d]] = f[on[d]]
      BY <1>1
    <3> QED BY <1>1, <3>1, <3>2
  <2> HIDE DEF g
  <2>2. g = [d \in Devs |-> g[d]]
    BY DEF g
  <2> QED BY <2>1, <2>2
<1>7. Def(Above)
  <2>1. Above = CHOOSE e : Def(e)
    BY DEF Above
  <2> HIDE DEF Def, g
  <2> QED BY <1>6, <2>1
<1> QED BY <1>7

(* The host bridge at the root of a device's tree.                         *)
LEMMA HostFacts ==
  ASSUME Machine
  PROVE  \A d \in Devs : Host[d] = (IF on[d] \in Hosts THEN on[d] ELSE Host[on[d]])
<1> DEFINE n == Len(on)
           V == Hosts
           parent == [d \in 1 .. n |-> IF on[d] \in Hosts THEN 0 ELSE on[d]]
           step == [d \in 1 .. n |-> [h \in V |-> IF on[d] \in Hosts THEN on[d] ELSE h]]
           Def(f) == f = [d \in Devs |-> IF on[d] \in Hosts THEN on[d] ELSE f[on[d]]]
<1>1. /\ n \in Nat /\ Devs = 1 .. n
      /\ \A d \in Devs : on[d] \in Hosts \/ (on[d] \in Devs /\ on[d] < d)
  BY MachineFacts
<1>0. PICK base : base \in Hosts
  <2>1. 1 \in Devs
    BY MachineFacts
  <2>2. Devs \subseteq {d \in Devs : Hosts # {}}
    <3> DEFINE T == {d \in Devs : Hosts # {}}
    <3>1. \A d \in Devs : (on[d] \notin Hosts => on[d] \in T) => d \in T
      OBVIOUS
    <3> HIDE DEF T
    <3> QED BY <3>1, TreeInduction DEF T
  <2> QED BY <2>1, <2>2
<1> HIDE DEF n
<1>2. parent \in Parents(n)
  BY <1>1 DEF Parents
<1>3. step \in [1 .. n -> [V -> V]]
  BY <1>1
<1>5. PICK f \in [0 .. n -> V] : Follows(f, n, parent, base, step)
  <2> HIDE DEF V, step, parent
  <2>1. base \in V
    BY <1>0 DEF V
  <2> QED BY <2>1, <1>1, <1>2, <1>3, TreeRecursion
<1> DEFINE g == [d \in Devs |-> f[d]]
<1>6. Def(g)
  <2>1. ASSUME NEW d \in Devs
        PROVE  g[d] = IF on[d] \in Hosts THEN on[d] ELSE g[on[d]]
    <3>1. f[d] = step[d][f[parent[d]]] /\ f[parent[d]] \in V
      BY <1>1, <1>2, <1>5 DEF Follows, Parents
    <3>2. on[d] \notin Hosts => g[on[d]] = f[on[d]]
      BY <1>1
    <3> QED BY <1>1, <3>1, <3>2
  <2> HIDE DEF g
  <2>2. g = [d \in Devs |-> g[d]]
    BY DEF g
  <2> QED BY <2>1, <2>2
<1>7. Def(Host)
  <2>1. Host = CHOOSE e : Def(e)
    BY DEF Host
  <2> HIDE DEF Def, g
  <2> QED BY <1>6, <2>1
<1> QED BY <1>7

-----------------------------------------------------------------------------
(* The shape of the tree.  What is above a device are bridges with smaller *)
(* numbers, and what is above those.                                       *)
LEMMA AboveSmaller ==
  ASSUME Machine
  PROVE  \A d \in Devs : Above[d] \subseteq {a \in Devs : a < d /\ Bridge(a)}
<1> DEFINE T == {d \in Devs : Above[d] \subseteq {a \in Devs : a < d /\ Bridge(a)}}
<1>1. ASSUME NEW d \in Devs, on[d] \notin Hosts => on[d] \in T
      PROVE  d \in T
  <2>1. Above[d] = (IF on[d] \in Hosts THEN {} ELSE {on[d]} \cup Above[on[d]])
    BY AboveFacts
  <2>2. \A x \in Devs : x \in Nat
    BY MachineFacts
  <2>3. CASE on[d] \in Hosts
    BY <2>1, <2>3
  <2>4. CASE on[d] \notin Hosts
    <3>1. on[d] \in Devs /\ on[d] < d /\ Bridge(on[d])
      BY <2>4, MachineFacts
    <3>2. \A a \in Above[on[d]] : a \in Devs /\ a < on[d] /\ Bridge(a)
      BY <1>1, <2>4
    <3>3. ASSUME NEW a \in Above[on[d]] PROVE a < d
      <4>1. a \in Nat /\ on[d] \in Nat /\ d \in Nat
        BY <2>2, <3>1, <3>2
      <4>2. a < on[d] /\ on[d] < d
        BY <3>1, <3>2
      <4> QED BY <4>1, <4>2
    <3> QED BY <2>1, <2>4, <3>1, <3>2, <3>3
  <2> QED BY <2>3, <2>4
<1>2. Devs \subseteq T
  <2> HIDE DEF T
  <2> QED BY <1>1, TreeInduction
<1> QED BY <1>2

(* What is above a bridge is above the devices below it.                   *)
LEMMA AboveTransitive ==
  ASSUME Machine
  PROVE  \A d \in Devs : \A c \in Above[d] : Above[c] \subseteq Above[d]
<1> DEFINE T == {d \in Devs : \A c \in Above[d] : Above[c] \subseteq Above[d]}
<1>1. ASSUME NEW d \in Devs, on[d] \notin Hosts => on[d] \in T
      PROVE  d \in T
  <2>1. Above[d] = (IF on[d] \in Hosts THEN {} ELSE {on[d]} \cup Above[on[d]])
    BY AboveFacts
  <2>2. on[d] \notin Hosts => \A c \in Above[on[d]] : Above[c] \subseteq Above[on[d]]
    BY <1>1
  <2> QED BY <2>1, <2>2
<1>2. Devs \subseteq T
  <2> HIDE DEF T
  <2> QED BY <1>1, TreeInduction
<1> QED BY <1>2

(* Of two bridges above a device one is above the other.                   *)
LEMMA AboveChain ==
  ASSUME Machine
  PROVE  \A d \in Devs : \A a, c \in Above[d] : a < c => a \in Above[c]
<1> DEFINE T == {d \in Devs : \A a, c \in Above[d] : a < c => a \in Above[c]}
<1>1. ASSUME NEW d \in Devs, on[d] \notin Hosts => on[d] \in T
      PROVE  d \in T
  <2>1. Above[d] = (IF on[d] \in Hosts THEN {} ELSE {on[d]} \cup Above[on[d]])
    BY AboveFacts
  <2>2. CASE on[d] \in Hosts
    BY <2>1, <2>2
  <2>3. CASE on[d] \notin Hosts
    <3>1. on[d] \in Devs
      BY <2>3, MachineFacts
    <3>2. \A a, c \in Above[on[d]] : a < c => a \in Above[c]
      BY <1>1, <2>3
    <3>3. \A c \in Above[on[d]] : c \in Devs /\ c < on[d]
      BY <3>1, AboveSmaller
    <3>4. ASSUME NEW c \in Above[on[d]], on[d] < c PROVE FALSE
      <4>1. \A x \in Devs : x \in Nat
        BY MachineFacts
      <4>2. c \in Nat /\ on[d] \in Nat /\ c < on[d]
        BY <3>1, <3>3, <4>1
      <4> QED BY <3>4, <4>2
    <3>5. ~(on[d] < on[d])
      <4>1. \A x \in Devs : x \in Nat
        BY MachineFacts
      <4>2. on[d] \in Nat
        BY <3>1, <4>1
      <4> QED BY <4>2
    <3>6. ASSUME NEW a \in Above[d], NEW c \in Above[d], a < c
          PROVE  a \in Above[c]
      BY <2>1, <2>3, <3>2, <3>4, <3>5, <3>6
    <3> QED BY <3>6
  <2> QED BY <2>2, <2>3
<1>2. Devs \subseteq T
  <2> HIDE DEF T
  <2> QED BY <1>1, TreeInduction
<1> QED BY <1>2

(* The bridges above a device have its host bridge.                        *)
LEMMA AboveHost ==
  ASSUME Machine
  PROVE  \A d \in Devs : Host[d] \in Hosts /\ \A a \in Above[d] : Host[a] = Host[d]
<1> DEFINE T == {d \in Devs : Host[d] \in Hosts /\ \A a \in Above[d] : Host[a] = Host[d]}
<1>1. ASSUME NEW d \in Devs, on[d] \notin Hosts => on[d] \in T
      PROVE  d \in T
  <2>1. Above[d] = (IF on[d] \in Hosts THEN {} ELSE {on[d]} \cup Above[on[d]])
    BY AboveFacts
  <2>2. Host[d] = (IF on[d] \in Hosts THEN on[d] ELSE Host[on[d]])
    BY HostFacts
  <2>3. on[d] \notin Hosts =>
          Host[on[d]] \in Hosts /\ \A a \in Above[on[d]] : Host[a] = Host[on[d]]
    BY <1>1
  <2> QED BY <2>1, <2>2, <2>3
<1>2. Devs \subseteq T
  <2> HIDE DEF T
  <2> QED BY <1>1, TreeInduction
<1> QED BY <1>2

(* A device, or a bridge above it, is on the root bus.                     *)
LEMMA RootAbove ==
  ASSUME Machine
  PROVE  \A d \in Devs : \E r \in {d} \cup Above[d] : r \in Devs /\ on[r] = Host[d]
<1> DEFINE T == {d \in Devs : \E r \in {d} \cup Above[d] : r \in Devs /\ on[r] = Host[d]}
<1>1. ASSUME NEW d \in Devs, on[d] \notin Hosts => on[d] \in T
      PROVE  d \in T
  <2>1. Above[d] = (IF on[d] \in Hosts THEN {} ELSE {on[d]} \cup Above[on[d]])
    BY AboveFacts
  <2>2. Host[d] = (IF on[d] \in Hosts THEN on[d] ELSE Host[on[d]])
    BY HostFacts
  <2>3. CASE on[d] \in Hosts
    BY <2>2, <2>3
  <2>4. CASE on[d] \notin Hosts
    <3>1. PICK r \in {on[d]} \cup Above[on[d]] : r \in Devs /\ on[r] = Host[on[d]]
      BY <1>1, <2>4
    <3>2. r \in Above[d] /\ on[r] = Host[d]
      BY <2>1, <2>2, <2>4, <3>1
    <3> QED BY <3>1, <3>2
  <2> QED BY <2>3, <2>4
<1>2. Devs \subseteq T
  <2> HIDE DEF T
  <2> QED BY <1>1, TreeInduction
<1> QED BY <1>2

(* Depth first: what comes between a bridge and a device below it is below *)
(* the bridge as well.                                                     *)
LEMMA BelowContiguous ==
  ASSUME Machine, NEW d \in Devs, NEW b \in Above[d]
  PROVE  \A e \in Devs : b < e /\ e < d => b \in Above[e]
<1>1. /\ Devs = 1 .. Len(on) /\ Len(on) \in Nat
      /\ b \in Devs /\ b < d
  BY MachineFacts, AboveSmaller
<1>2. ASSUME NEW x \in Devs, b \in Above[x], b < x - 1
      PROVE  x - 1 \in Devs /\ b \in Above[x - 1]
  <2>1. x # 1 /\ x - 1 \in Devs
    BY <1>1, <1>2
  <2>2. Above[x] = (IF on[x] \in Hosts THEN {} ELSE {on[x]} \cup Above[on[x]])
    BY AboveFacts
  <2>3. on[x] \notin Hosts
    BY <1>2, <2>2
  <2>4. on[x] = x - 1 \/ on[x] \in Above[x - 1]
    BY <2>1, <2>3, MachineFacts
  <2>5. b = on[x] \/ b \in Above[on[x]]
    BY <1>2, <2>2, <2>3
  <2>6. CASE on[x] = x - 1
    <3>1. b # on[x]
      BY <1>1, <1>2, <2>6
    <3> QED BY <2>1, <2>5, <2>6, <3>1
  <2>7. CASE on[x] \in Above[x - 1]
    <3>1. Above[on[x]] \subseteq Above[x - 1]
      BY <2>1, <2>7, AboveTransitive
    <3> QED BY <2>1, <2>5, <2>7, <3>1
  <2> QED BY <2>4, <2>6, <2>7
<1> DEFINE T == {k \in Nat : b < d - k => d - k \in Devs /\ b \in Above[d - k]}
<1>3. 0 \in T
  <2>1. d - 0 = d
    BY <1>1
  <2> QED BY <2>1
<1>4. ASSUME NEW k \in 0 .. d - 1, k \in T PROVE k + 1 \in T
  <2>1. SUFFICES ASSUME b < d - (k + 1)
                 PROVE  d - (k + 1) \in Devs /\ b \in Above[d - (k + 1)]
    OBVIOUS
  <2>2. b < d - k /\ d - (k + 1) = (d - k) - 1 /\ b < (d - k) - 1
    BY <1>1, <2>1
  <2>3. d - k \in Devs /\ b \in Above[d - k]
    BY <1>4, <2>2
  <2> QED BY <1>2, <2>2, <2>3
<1>5. \A k \in 0 .. d : k \in T
  <2>1. d \in Nat
    BY <1>1
  <2> HIDE DEF T
  <2> QED BY <1>3, <1>4, <2>1, BoundedInduction
<1>6. ASSUME NEW e \in Devs, b < e, e < d
      PROVE  b \in Above[e]
  <2>1. d - e \in 0 .. d /\ d - (d - e) = e
    BY <1>1, <1>6
  <2>2. d - e \in T
    BY <1>5, <2>1
  <2> QED BY <1>6, <2>1, <2>2
<1> QED BY <1>6

-----------------------------------------------------------------------------
(* Sums over rows of numbers.                                              *)
LEMMA EndsSums ==
  ASSUME NEW n \in Nat, NEW f \in [1 .. n -> Nat]
  PROVE  /\ Ends(f) \in [0 .. n -> Nat] /\ Ends(f)[0] = 0 /\ Total(f) = Ends(f)[n]
         /\ \A k \in 1 .. n : Ends(f)[k] = Ends(f)[k - 1] + f[k]
<1>1. Len(f) = n /\ \A k \in 1 .. n : f[k] \in Nat
  OBVIOUS
<1>2. Ends(f) = SumsUpTo(n, f)
  BY <1>1 DEF Ends, SumsUpTo
<1>3. Total(f) = Ends(f)[n]
  BY <1>1 DEF Total
<1>4. /\ SumsUpTo(n, f) \in [0 .. n -> Nat] /\ SumsUpTo(n, f)[0] = 0
      /\ \A k \in 1 .. n : SumsUpTo(n, f)[k] = SumsUpTo(n, f)[k - 1] + f[k]
  BY <1>1, PartialSums
<1> QED BY <1>2, <1>3, <1>4

(* A row that is nowhere larger than another has no larger sum, and a      *)
(* smaller one if it is smaller somewhere.                                 *)
Under(v, w, n) == \A k \in 1 .. n : v[k] <= w[k]

LEMMA TotalUnder ==
  ASSUME NEW n \in Nat, NEW v \in [1 .. n -> Nat], NEW w \in [1 .. n -> Nat], Under(v, w, n)
  PROVE  /\ Total(v) \in Nat /\ Total(w) \in Nat /\ Total(v) <= Total(w)
         /\ (\E k \in 1 .. n : v[k] < w[k]) => Total(v) < Total(w)
<1> DEFINE d == Ends(v)  e == Ends(w)
           Strict(k) == \E j \in 1 .. k : v[j] < w[j]
           T == {k \in Nat : d[k] <= e[k] /\ (Strict(k) => d[k] < e[k])}
<1>1. /\ d \in [0 .. n -> Nat] /\ d[0] = 0 /\ Total(v) = d[n]
      /\ \A k \in 1 .. n : d[k] = d[k - 1] + v[k]
      /\ e \in [0 .. n -> Nat] /\ e[0] = 0 /\ Total(w) = e[n]
      /\ \A k \in 1 .. n : e[k] = e[k - 1] + w[k]
  BY EndsSums
<1> HIDE DEF d, e
<1>2. 0 \in T
  BY <1>1
<1>3. ASSUME NEW k \in 0 .. n - 1, k \in T PROVE k + 1 \in T
  <2>1. k + 1 \in 1 .. n /\ (k + 1) - 1 = k /\ k \in 0 .. n /\ k + 1 \in Nat
    OBVIOUS
  <2>2. d[k + 1] = d[k] + v[k + 1] /\ e[k + 1] = e[k] + w[k + 1]
    BY <1>1, <2>1
  <2>3. /\ d[k] \in Nat /\ e[k] \in Nat /\ v[k + 1] \in Nat /\ w[k + 1] \in Nat
        /\ v[k + 1] <= w[k + 1]
    BY <1>1, <2>1 DEF Under
  <2>0. d[k] <= e[k] /\ (Strict(k) => d[k] < e[k])
    BY <1>3, <2>1
  <2>4. d[k + 1] <= e[k + 1]
    BY <2>0, <2>2, <2>3
  <2>5. ASSUME Strict(k + 1) PROVE d[k + 1] < e[k + 1]
    <3>1. Strict(k) \/ v[k + 1] < w[k + 1]
      <4>1. PICK j \in 1 .. k + 1 : v[j] < w[j]
        BY <2>5
      <4>2. j = k + 1 \/ j \in 1 .. k
        BY <4>1
      <4> QED BY <4>1, <4>2
    <3> HIDE DEF Strict
    <3> QED BY <2>0, <2>2, <2>3, <3>1
  <2> QED BY <2>1, <2>4, <2>5
<1>4. \A k \in 0 .. n : k \in T
  <2> HIDE DEF T
  <2> QED BY <1>2, <1>3, BoundedInduction
<1>5. n \in T
  BY <1>4
<1> QED BY <1>1, <1>5

(* What a bridge has been given, and the sum over the bridges.             *)
Weight(a, open, closed) ==
  IF a \in open THEN 1 ELSE IF a \in closed /\ Bridge(a) THEN 1 + spare[a] ELSE 0
Fewer(open, closed, open2, closed2) ==
  \A a \in Devs : Weight(a, open, closed) <= Weight(a, open2, closed2)

LEMMA GivenFewer ==
  ASSUME Machine, NEW open, NEW closed, NEW open2, NEW closed2,
         Fewer(open, closed, open2, closed2)
  PROVE  /\ Given(open, closed) \in Nat /\ Given(open2, closed2) \in Nat
         /\ Given(open, closed) <= Given(open2, closed2)
         /\ (\E a \in Devs : Weight(a, open, closed) < Weight(a, open2, closed2)) =>
              Given(open, closed) < Given(open2, closed2)
<1> DEFINE n == Len(on)
           v == [a \in Devs |-> Weight(a, open, closed)]
           w == [a \in Devs |-> Weight(a, open2, closed2)]
<1>1. n \in Nat /\ Devs = 1 .. n /\ \A a \in Devs : spare[a] \in 0 .. 1
  BY MachineFacts
<1>2. Given(open, closed) = Total(v) /\ Given(open2, closed2) = Total(w)
  BY DEF Given, Weight
<1>3. v \in [1 .. n -> Nat] /\ w \in [1 .. n -> Nat]
  <2>1. \A a \in Devs : Weight(a, open, closed) \in Nat /\ Weight(a, open2, closed2) \in Nat
    BY <1>1 DEF Weight
  <2> HIDE DEF n
  <2> QED BY <1>1, <2>1
<1>4. Under(v, w, n)
  <2> HIDE DEF n
  <2> QED BY <1>1 DEF Fewer, Under
<1>5. \A a \in Devs : v[a] = Weight(a, open, closed) /\ w[a] = Weight(a, open2, closed2)
  OBVIOUS
<1> HIDE DEF n, v, w
<1>6. /\ Total(v) \in Nat /\ Total(w) \in Nat /\ Total(v) <= Total(w)
      /\ (\E k \in 1 .. n : v[k] < w[k]) => Total(v) < Total(w)
  BY <1>1, <1>3, <1>4, TotalUnder
<1> QED BY <1>1, <1>2, <1>5, <1>6

-----------------------------------------------------------------------------
(* The bus numbers.  A bridge's come after its root bus's and are in order.*)
LEMMA BusesInOrder ==
  ASSUME Machine, NEW b \in Devs, Bridge(b)
  PROVE  /\ Sec(b) \in Nat /\ Sub(b) \in Nat /\ RootBus[Host[b]] \in Nat
         /\ RootBus[Host[b]] < Sec(b) /\ Sec(b) <= Sub(b)
<1>1. RootBus[Host[b]] \in Nat
  BY AboveHost, HostsAssumption
<1>2. \A a \in Devs : spare[a] \in 0 .. 1
  BY MachineFacts
<1>3. b \notin Above[b]
  <2>1. b \in Nat /\ \A a \in Above[b] : a < b
    BY MachineFacts, AboveSmaller
  <2> QED BY <2>1
<1>4. /\ Given({}, {}) \in Nat
      /\ Given({}, {}) < Given(Above[b] \cup {b}, Earlier(b))
      /\ Given(Above[b] \cup {b}, Earlier(b)) \in Nat
  <2>1. Fewer({}, {}, Above[b] \cup {b}, Earlier(b))
    BY <1>2 DEF Fewer, Weight
  <2>2. Weight(b, {}, {}) < Weight(b, Above[b] \cup {b}, Earlier(b))
    BY DEF Weight
  <2> QED BY <2>1, <2>2, GivenFewer
<1>5. /\ Given(Above[b] \cup {b}, Earlier(b))
           <= Given(Above[b], Earlier(b) \cup {b} \cup Below(b))
      /\ Given(Above[b], Earlier(b) \cup {b} \cup Below(b)) \in Nat
  <2>1. Fewer(Above[b] \cup {b}, Earlier(b), Above[b], Earlier(b) \cup {b} \cup Below(b))
    BY <1>2 DEF Fewer, Weight
  <2> QED BY <2>1, GivenFewer
<1> QED BY <1>1, <1>4, <1>5 DEF Sec, Sub

(* The buses of a bridge are among those of the bridges above it, behind   *)
(* their own.                                                              *)
LEMMA BusesNested ==
  ASSUME Machine, NEW c \in Devs, Bridge(c), NEW b \in Above[c]
  PROVE  Sec(b) < Sec(c) /\ Sub(c) <= Sub(b)
<1>1. /\ b \in Devs /\ Bridge(b) /\ b < c /\ Host[b] = Host[c]
      /\ \A x \in Devs : x \in Nat /\ spare[x] \in 0 .. 1
  BY MachineFacts, AboveSmaller, AboveHost
<1>2. /\ Above[b] \subseteq Above[c]
      /\ \A x \in Above[c] : x < b => x \in Above[b]
      /\ \A x \in Above[c] : b < x => b \in Above[x]
  BY AboveTransitive, AboveChain
<1>3. /\ \A x \in Above[c] : x \in Devs /\ Bridge(x) /\ x < c /\ Host[x] = Host[c]
      /\ \A x \in Above[b] : x \in Devs /\ Bridge(x) /\ x < b
  BY <1>1, AboveSmaller, AboveHost
<1>4. RootBus[Host[b]] \in Nat
  BY <1>1, AboveHost, HostsAssumption
<1>5. /\ Given(Above[b] \cup {b}, Earlier(b)) \in Nat
      /\ Given(Above[c] \cup {c}, Earlier(c)) \in Nat
      /\ Given(Above[b] \cup {b}, Earlier(b)) < Given(Above[c] \cup {c}, Earlier(c))
  <2>1. ASSUME NEW x \in Devs
        PROVE  Weight(x, Above[b] \cup {b}, Earlier(b))
                 <= Weight(x, Above[c] \cup {c}, Earlier(c))
    <3>1. CASE x \in Above[b] \cup {b}
      BY <1>2, <3>1 DEF Weight
    <3>2. CASE x \notin Above[b] \cup {b} /\ x \in Earlier(b) /\ Bridge(x)
      <4>1. x < b /\ x < c /\ x \in Earlier(c)
        BY <1>1, <3>2 DEF Earlier
      <4>2. x \notin Above[c] \cup {c}
        BY <1>1, <1>2, <3>2, <4>1
      <4> QED BY <3>2, <4>1, <4>2, <1>1 DEF Weight
    <3>3. CASE x \notin Above[b] \cup {b} /\ ~(x \in Earlier(b) /\ Bridge(x))
      BY <1>1, <3>3 DEF Weight
    <3> QED BY <3>1, <3>2, <3>3
  <2>2. Fewer(Above[b] \cup {b}, Earlier(b), Above[c] \cup {c}, Earlier(c))
    BY <2>1 DEF Fewer
  <2>3. Weight(c, Above[b] \cup {b}, Earlier(b)) < Weight(c, Above[c] \cup {c}, Earlier(c))
    <3>1. c \notin Above[b] \cup {b} /\ c \notin Earlier(b)
      BY <1>1, <1>3 DEF Earlier
    <3> QED BY <3>1 DEF Weight
  <2> QED BY <2>2, <2>3, GivenFewer
<1>6. /\ Given(Above[b], Earlier(b) \cup {b} \cup Below(b)) \in Nat
      /\ Given(Above[c], Earlier(c) \cup {c} \cup Below(c)) \in Nat
      /\ Given(Above[c], Earlier(c) \cup {c} \cup Below(c))
           <= Given(Above[b], Earlier(b) \cup {b} \cup Below(b))
  <2>1. ASSUME NEW x \in Devs
        PROVE  Weight(x, Above[c], Earlier(c) \cup {c} \cup Below(c))
                 <= Weight(x, Above[b], Earlier(b) \cup {b} \cup Below(b))
    <3>1. x = b \/ x < b \/ b < x
      BY <1>1
    <3>2. CASE x \in Above[c]
      <4>1. x \in Above[b] \/ x = b \/ x \in Below(b)
        BY <1>2, <3>1, <3>2 DEF Below
      <4>2. Bridge(x)
        BY <1>3, <3>2
      <4> QED BY <1>1, <3>2, <4>1, <4>2 DEF Weight
    <3>3. CASE x \notin Above[c] /\ x \in Earlier(c) \cup {c} \cup Below(c) /\ Bridge(x)
      <4>1. x \notin Above[b]
        BY <1>2, <3>3
      <4>2. x \in Earlier(b) \cup {b} \cup Below(b)
        <5>1. CASE x \in Below(c)
          <6>1. Above[c] \subseteq Above[x]
            BY <5>1, AboveTransitive DEF Below
          <6> QED BY <6>1 DEF Below
        <5>2. CASE x = c
          BY <5>2 DEF Below
        <5>3. CASE x \in Earlier(c)
          <6>1. x < c /\ Host[x] = Host[b]
            BY <1>1, <5>3 DEF Earlier
          <6>2. b < x => b \in Above[x]
            BY <6>1, BelowContiguous
          <6> QED BY <3>1, <6>1, <6>2 DEF Earlier, Below
        <5> QED BY <3>3, <5>1, <5>2, <5>3
      <4> QED BY <3>3, <4>1, <4>2, <1>1 DEF Weight
    <3>4. CASE x \notin Above[c] /\ ~(x \in Earlier(c) \cup {c} \cup Below(c) /\ Bridge(x))
      BY <1>1, <3>4 DEF Weight
    <3> QED BY <3>2, <3>3, <3>4
  <2>2. Fewer(Above[c], Earlier(c) \cup {c} \cup Below(c),
              Above[b], Earlier(b) \cup {b} \cup Below(b))
    BY <2>1 DEF Fewer
  <2> QED BY <2>2, GivenFewer
<1> QED BY <1>1, <1>4, <1>5, <1>6 DEF Sec, Sub

(* Bridges with neither above the other have different buses, in the order *)
(* of the bridges.                                                         *)
LEMMA BusesApart ==
  ASSUME Machine, NEW b \in Devs, Bridge(b), NEW a \in Devs, Bridge(a),
         a < b, a \notin Above[b], Host[a] = Host[b]
  PROVE  Sub(a) < Sec(b)
<1>1. /\ \A x \in Devs : x \in Nat /\ spare[x] \in 0 .. 1
      /\ \A x \in Above[a] : x \in Devs /\ Bridge(x) /\ x < a /\ Host[x] = Host[a]
      /\ \A x \in Above[b] : x \in Devs /\ Bridge(x) /\ x < b
  BY MachineFacts, AboveSmaller, AboveHost
<1>2. RootBus[Host[b]] \in Nat
  BY AboveHost, HostsAssumption
<1>3. ASSUME NEW x \in Devs, a \in Above[x]
      PROVE  x < b /\ x \notin Above[b] \cup {b} /\ a < x /\ Host[x] = Host[a]
  <2>1. x # b /\ a < x /\ Host[x] = Host[a]
    BY <1>3, AboveSmaller, AboveHost
  <2>2. ~(b < x)
    BY <1>3, BelowContiguous
  <2>3. x \notin Above[b]
    BY <1>3, AboveTransitive
  <2> QED BY <1>1, <2>1, <2>2, <2>3
<1>4. ASSUME NEW x \in Above[b], x < a
      PROVE  x \in Above[a]
  BY <1>4, BelowContiguous
<1>5. ASSUME NEW x \in Devs
      PROVE  Weight(x, Above[a], Earlier(a) \cup {a} \cup Below(a))
               <= Weight(x, Above[b] \cup {b}, Earlier(b))
  <2>1. CASE x \in Above[a]
    <3>1. x < a /\ x < b /\ Host[x] = Host[b] /\ Bridge(x)
      BY <1>1, <2>1
    <3>2. x \in Earlier(b)
      BY <3>1 DEF Earlier
    <3> QED BY <1>1, <2>1, <3>1, <3>2 DEF Weight
  <2>2. CASE x \notin Above[a] /\ x \in Earlier(a) \cup {a} \cup Below(a) /\ Bridge(x)
    <3>1. x < b /\ x \notin Above[b] \cup {b} /\ Host[x] = Host[b]
      <4>1. CASE x \in Below(a)
        BY <1>3, <4>1 DEF Below
      <4>2. CASE x = a
        BY <1>1, <4>2
      <4>3. CASE x \in Earlier(a)
        <5>1. x < a /\ Host[x] = Host[b]
          BY <4>3 DEF Earlier
        <5>2. x < b
          BY <1>1, <5>1
        <5>3. x \notin Above[b]
          BY <1>4, <2>2, <5>1
        <5>4. x # b
          BY <1>1, <5>2
        <5> QED BY <5>1, <5>2, <5>3, <5>4
      <4> QED BY <2>2, <4>1, <4>2, <4>3
    <3>2. x \in Earlier(b)
      BY <3>1 DEF Earlier
    <3> QED BY <1>1, <2>2, <3>1, <3>2 DEF Weight
  <2>3. CASE x \notin Above[a] /\ ~(x \in Earlier(a) \cup {a} \cup Below(a) /\ Bridge(x))
    BY <1>1, <2>3 DEF Weight
  <2> QED BY <2>1, <2>2, <2>3
<1>6. Fewer(Above[a], Earlier(a) \cup {a} \cup Below(a), Above[b] \cup {b}, Earlier(b))
  BY <1>5 DEF Fewer
<1>7. Weight(b, Above[a], Earlier(a) \cup {a} \cup Below(a))
        < Weight(b, Above[b] \cup {b}, Earlier(b))
  <2>1. b \notin Above[a] /\ b \notin Earlier(a) \cup {a} \cup Below(a)
    <3>1. ~(b < a) /\ b # a
      BY <1>1
    <3> QED BY <1>1, <3>1 DEF Earlier, Below
  <2> QED BY <2>1 DEF Weight
<1>8. /\ Given(Above[a], Earlier(a) \cup {a} \cup Below(a)) \in Nat
      /\ Given(Above[b] \cup {b}, Earlier(b)) \in Nat
      /\ Given(Above[a], Earlier(a) \cup {a} \cup Below(a))
           < Given(Above[b] \cup {b}, Earlier(b))
  BY <1>6, <1>7, GivenFewer
<1> QED BY <1>2, <1>8 DEF Sec, Sub

(* Buses under different host bridges do not mix.                          *)
LEMMA HostsApart ==
  ASSUME Machine, NEW a \in Devs, Bridge(a), NEW h \in Hosts, h # Host[a]
  PROVE  /\ RootBus[h] \in Nat /\ RootBus[Host[a]] \in Nat
         /\ RootBus[h] < RootBus[Host[a]] \/ Sub(a) < RootBus[h]
         /\ RootBus[h] < RootBus[Host[a]] => RootBus[h] < Sec(a)
<1>1. Host[a] \in Hosts
  BY AboveHost
<1>2. RootBus[h] \in Nat /\ RootBus[Host[a]] \in Nat /\ RootBus[h] # RootBus[Host[a]]
  BY <1>1, HostsAssumption
<1>3. RootBus[h] > RootBus[Host[a]] => Sub(a) < RootBus[h]
  BY MachineFacts DEF RootsApart
<1>4. Sec(a) \in Nat /\ RootBus[Host[a]] < Sec(a)
  BY BusesInOrder
<1> QED BY <1>2, <1>3, <1>4

(* A bus is in the interval of a bridge if and only if the bridge is above *)
(* the devices on it.                                                      *)
LEMMA IntervalHolds ==
  ASSUME Machine, NEW b \in Devs, Bridge(b), NEW d \in Devs
  PROVE  /\ BusNum(on[d]) \in Nat
         /\ (Sec(b) <= BusNum(on[d]) /\ BusNum(on[d]) <= Sub(b)) <=> b \in Above[d]
<1>1. /\ Sec(b) \in Nat /\ Sub(b) \in Nat /\ RootBus[Host[b]] \in Nat
      /\ RootBus[Host[b]] < Sec(b) /\ Sec(b) <= Sub(b)
  BY BusesInOrder
<1>2. /\ Above[d] = (IF on[d] \in Hosts THEN {} ELSE {on[d]} \cup Above[on[d]])
      /\ Host[d] = (IF on[d] \in Hosts THEN on[d] ELSE Host[on[d]])
  BY AboveFacts, HostFacts
<1>3. CASE on[d] \in Hosts
  <2> DEFINE h == on[d]
  <2>1. BusNum(h) = RootBus[h] /\ RootBus[h] \in Nat
    BY <1>3, HostsAssumption DEF BusNum
  <2>2. CASE h = Host[b]
    BY <1>1, <1>2, <1>3, <2>1, <2>2
  <2>3. CASE h # Host[b]
    <3>1. /\ RootBus[h] < RootBus[Host[b]] \/ Sub(b) < RootBus[h]
          /\ RootBus[h] < RootBus[Host[b]] => RootBus[h] < Sec(b)
      BY <1>3, <2>3, HostsApart
    <3> QED BY <1>1, <1>2, <1>3, <2>1, <3>1
  <2> QED BY <2>2, <2>3
<1>4. CASE on[d] \notin Hosts
  <2> DEFINE c == on[d]
  <2>1. c \in Devs /\ Bridge(c)
    BY <1>4, MachineFacts
  <2>2. BusNum(c) = Sec(c)
    BY <1>4 DEF BusNum
  <2>3. Above[d] = {c} \cup Above[c]
    BY <1>2, <1>4
  <2> HIDE DEF c
  <2>4. /\ Sec(c) \in Nat /\ Sub(c) \in Nat /\ RootBus[Host[c]] \in Nat
        /\ RootBus[Host[c]] < Sec(c) /\ Sec(c) <= Sub(c)
    BY <2>1, BusesInOrder
  <2>5. CASE c = b
    BY <1>1, <2>2, <2>3, <2>5 DEF c
  <2>6. CASE b \in Above[c]
    <3>1. Sec(b) < Sec(c) /\ Sub(c) <= Sub(b)
      BY <2>1, <2>6, BusesNested
    <3>2. Sec(b) <= Sec(c) /\ Sec(c) <= Sub(b)
      BY <1>1, <2>4, <3>1
    <3> QED BY <2>2, <2>3, <2>4, <2>6, <3>2 DEF c
  <2>7. CASE c # b /\ b \notin Above[c]
    <3>1. Sec(c) < Sec(b) \/ Sub(b) < Sec(c)
      <4>1. CASE c \in Above[b]
        BY <4>1, BusesNested
      <4>2. CASE c \notin Above[b] /\ Host[b] = Host[c]
        <5>1. b < c \/ c < b
          <6>1. b \in Nat /\ c \in Nat
            BY <2>1, MachineFacts
          <6> QED BY <2>7, <6>1
        <5>2. CASE b < c
          BY <2>1, <2>7, <4>2, <5>2, BusesApart
        <5>3. CASE c < b
          <6>1. Sub(c) < Sec(b)
            BY <2>1, <4>2, <5>3, BusesApart
          <6> QED BY <1>1, <2>4, <6>1
        <5> QED BY <5>1, <5>2, <5>3
      <4>3. CASE Host[b] # Host[c]
        <5>1. Host[b] \in Hosts /\ Host[c] \in Hosts
          BY <2>1, AboveHost
        <5>2. RootBus[Host[c]] < RootBus[Host[b]] \/ Sub(b) < RootBus[Host[c]]
          BY <4>3, <5>1, HostsApart
        <5>3. RootBus[Host[b]] < RootBus[Host[c]] \/ Sub(c) < RootBus[Host[b]]
          BY <2>1, <4>3, <5>1, HostsApart
        <5> QED BY <1>1, <2>4, <5>2, <5>3
      <4> QED BY <4>1, <4>2, <4>3
    <3> QED BY <1>1, <2>2, <2>3, <2>4, <2>7, <3>1 DEF c
  <2> QED BY <2>5, <2>6, <2>7
<1> QED BY <1>3, <1>4

(* Device ids are in the order of the buses.                               *)
LEMMA IdOrder ==
  ASSUME NEW x \in Nat, NEW y \in Nat, NEW f, MaxDevs \in Nat, f \in 0 .. MaxDevs
  PROVE  /\ Bdf(x, 0) <= Bdf(y, f) <=> x <= y
         /\ Bdf(y, f) <= Bdf(x, LastFn) <=> y <= x
         /\ Bdf(y, f) \in Nat
<1> DEFINE m == MaxDevs + 1
<1>1. m \in Nat /\ f \in Nat /\ f < m /\ m >= 1
  OBVIOUS
<1>2. Bdf(x, 0) = x * m /\ Bdf(y, f) = y * m + f /\ Bdf(x, LastFn) = x * m + (m - 1)
  BY DEF Bdf, LastFn
<1> HIDE DEF m
<1>3. ASSUME NEW p \in Nat, NEW q \in Nat, p < q
      PROVE  p * m + m <= q * m
  <2>1. PICK k \in Nat : q = p + 1 + k
    <3>1. q - p - 1 \in Nat /\ q = p + 1 + (q - p - 1)
      BY <1>3
    <3> QED BY <3>1
  <2>2. (p + 1 + k) * m = p * m + m + k * m
    BY <1>1
  <2>3. k * m \in Nat /\ p * m \in Nat
    BY <1>1
  <2> QED BY <1>1, <2>1, <2>2, <2>3
<1>4. x * m \in Nat /\ y * m \in Nat
  BY <1>1
<1>5. x < y \/ x = y \/ y < x
  OBVIOUS
<1>6. CASE x < y
  BY <1>1, <1>2, <1>3, <1>4, <1>6
<1>7. CASE x = y
  BY <1>1, <1>2, <1>4, <1>7
<1>8. CASE y < x
  BY <1>1, <1>2, <1>3, <1>4, <1>8
<1> QED BY <1>5, <1>6, <1>7, <1>8

(* A device id tells the device.                                           *)
LEMMA IdsDiffer ==
  ASSUME Machine, NEW c \in Devs, NEW d \in Devs
  PROVE  DevId(c) \in Nat /\ (DevId(c) = DevId(d) => c = d)
<1>1. /\ MaxDevs \in Nat /\ c \in 0 .. MaxDevs /\ d \in 0 .. MaxDevs
  BY MachineFacts
<1>2. BusNum(on[c]) \in Nat /\ BusNum(on[d]) \in Nat
  <2>1. ASSUME NEW x \in Devs PROVE BusNum(on[x]) \in Nat
    <3>1. CASE on[x] \in Hosts
      BY <3>1, HostsAssumption DEF BusNum
    <3>2. CASE on[x] \notin Hosts
      <4>1. on[x] \in Devs /\ Bridge(on[x])
        BY <3>2, MachineFacts
      <4> QED BY <3>2, <4>1, BusesInOrder DEF BusNum
    <3> QED BY <3>1, <3>2
  <2> QED BY <2>1
<1> DEFINE x == BusNum(on[c])  y == BusNum(on[d])
<1>3. DevId(c) = Bdf(x, c) /\ DevId(d) = Bdf(y, d)
  BY DEF DevId
<1> HIDE DEF x, y
<1>4. x \in Nat /\ y \in Nat
  BY <1>2 DEF x, y
<1>5. Bdf(x, c) \in Nat
  BY <1>1, <1>4, IdOrder
<1>6. ASSUME Bdf(x, c) = Bdf(y, d) PROVE c = d
  <2>1. Bdf(x, 0) <= Bdf(x, c) /\ Bdf(x, c) <= Bdf(x, LastFn)
    BY <1>1, <1>4, IdOrder
  <2>2. Bdf(x, 0) <= Bdf(y, d) /\ Bdf(y, d) <= Bdf(x, LastFn)
    BY <1>6, <2>1
  <2>3. x <= y /\ y <= x
    BY <1>1, <1>4, <2>2, IdOrder
  <2>4. x = y
    BY <1>4, <2>3
  <2>5. x * (MaxDevs + 1) + c = x * (MaxDevs + 1) + d /\ x * (MaxDevs + 1) \in Nat
    BY <1>1, <1>4, <1>6, <2>4 DEF Bdf, LastFn
  <2> QED BY <1>1, <2>5
<1> QED BY <1>3, <1>5, <1>6

(* The ids in the interval of a bridge are those of the devices below it.  *)
LEMMA IntervalIds ==
  ASSUME Machine, NEW b \in Devs, Bridge(b), NEW d \in Devs
  PROVE  /\ (Bdf(Sec(b), 0) <= DevId(d) /\ DevId(d) <= Bdf(Sub(b), LastFn)) <=> b \in Above[d]
         /\ Bdf(Sec(b), 0) \in Nat /\ Bdf(Sub(b), LastFn) \in Nat
         /\ Bdf(Sec(b), 0) <= Bdf(Sub(b), LastFn)
<1>1. /\ MaxDevs \in Nat /\ d \in 0 .. MaxDevs /\ 0 \in 0 .. MaxDevs /\ LastFn \in 0 .. MaxDevs
  BY MachineFacts DEF LastFn
<1>2. /\ BusNum(on[d]) \in Nat
      /\ (Sec(b) <= BusNum(on[d]) /\ BusNum(on[d]) <= Sub(b)) <=> b \in Above[d]
  BY IntervalHolds
<1>3. Sec(b) \in Nat /\ Sub(b) \in Nat /\ Sec(b) <= Sub(b)
  BY BusesInOrder
<1>4. DevId(d) = Bdf(BusNum(on[d]), d)
  BY DEF DevId
<1>5. /\ Bdf(Sec(b), 0) <= DevId(d) <=> Sec(b) <= BusNum(on[d])
      /\ DevId(d) <= Bdf(Sub(b), LastFn) <=> BusNum(on[d]) <= Sub(b)
  BY <1>1, <1>2, <1>3, <1>4, IdOrder
<1>6. Bdf(Sec(b), 0) \in Nat /\ Bdf(Sub(b), LastFn) \in Nat
  BY <1>1, <1>3, IdOrder
<1>7. Bdf(Sec(b), 0) <= Bdf(Sub(b), LastFn)
  BY <1>1, <1>3, IdOrder
<1> QED BY <1>2, <1>5, <1>6, <1>7

(* Different bridges have different intervals.                             *)
LEMMA IntervalsDiffer ==
  ASSUME Machine, NEW a \in Devs, Bridge(a), NEW b \in Devs, Bridge(b), a # b
  PROVE  Bdf(Sec(a), 0) # Bdf(Sec(b), 0)
<1>1. /\ Sec(a) \in Nat /\ Sub(a) \in Nat /\ Sec(a) <= Sub(a)
      /\ RootBus[Host[a]] \in Nat /\ RootBus[Host[a]] < Sec(a)
      /\ Sec(b) \in Nat /\ Sub(b) \in Nat /\ Sec(b) <= Sub(b)
      /\ RootBus[Host[b]] \in Nat /\ RootBus[Host[b]] < Sec(b)
  BY BusesInOrder
<1>2. ASSUME NEW c \in Devs, Bridge(c), NEW d \in Devs, Bridge(d), c < d,
             Sec(c) \in Nat, Sub(c) \in Nat, Sec(c) <= Sub(c), Sec(d) \in Nat,
             Host[c] = Host[d]
      PROVE  Sec(c) # Sec(d)
  <2>1. CASE c \in Above[d]
    BY <1>2, <2>1, BusesNested
  <2>2. CASE c \notin Above[d]
    <3>1. Sub(c) < Sec(d)
      BY <1>2, <2>2, BusesApart
    <3> QED BY <1>2, <3>1
  <2> QED BY <2>1, <2>2
<1>3. Sec(a) # Sec(b)
  <2>1. CASE Host[a] = Host[b]
    <3>1. a < b \/ b < a
      <4>1. a \in Nat /\ b \in Nat
        BY MachineFacts
      <4> QED BY <4>1
    <3>2. CASE a < b
      BY <1>1, <1>2, <2>1, <3>2
    <3>3. CASE b < a
      BY <1>1, <1>2, <2>1, <3>3
    <3> QED BY <3>1, <3>2, <3>3
  <2>2. CASE Host[a] # Host[b]
    <3>1. Host[a] \in Hosts /\ Host[b] \in Hosts
      BY AboveHost
    <3>2. RootBus[Host[b]] < RootBus[Host[a]] \/ Sub(a) < RootBus[Host[b]]
      BY <2>2, <3>1, HostsApart
    <3>3. RootBus[Host[a]] < RootBus[Host[b]] \/ Sub(b) < RootBus[Host[a]]
      BY <2>2, <3>1, HostsApart
    <3> QED BY <1>1, <3>2, <3>3
  <2> QED BY <2>1, <2>2
<1>4. MaxDevs \in Nat /\ 0 \in 0 .. MaxDevs
  BY MachineFacts
<1>5. ASSUME Bdf(Sec(a), 0) = Bdf(Sec(b), 0) PROVE FALSE
  <2>1. Bdf(Sec(a), 0) \in Nat
    BY <1>1, <1>4, IdOrder
  <2>2. Bdf(Sec(a), 0) <= Bdf(Sec(b), 0) /\ Bdf(Sec(b), 0) <= Bdf(Sec(a), 0)
    BY <1>5, <2>1
  <2>3. Sec(a) <= Sec(b) /\ Sec(b) <= Sec(a)
    BY <1>1, <1>4, <2>2, IdOrder
  <2> QED BY <1>1, <1>3, <2>3
<1> QED BY <1>5

-----------------------------------------------------------------------------
(* Whether the walk goes on below a bridge, and the devices it gets to.    *)
Enters(b) == which = "IVRS" /\ Bridge(b) /\ Express(b) /\ Sec(b) # Sub(b)
Reach == {d \in Behind : \A b \in Above[d] : Enters(b)}

(* What is written for a device.                                           *)
Interval(b) == IF Express(b) THEN Leaf(b) ELSE Alias(b)
Own(d) ==
  IF which = "DMAR" THEN {Scope(d)}
  ELSE {Select(d)} \cup (IF Bridge(d) /\ ~Enters(d) THEN {Interval(d)} ELSE {})

(* The device that speaks for a device: itself, or the bridge above it     *)
(* where the walk stops.                                                   *)
Speaks(r, d) == r \in Reach /\ (r = d \/ (r \in Above[d] /\ ~Enters(r)))

(* Exactly one device speaks for a device behind the IOMMU, none for       *)
(* others.                                                                 *)
LEMMA OneSpeaks ==
  ASSUME Machine, NEW d \in Devs
  PROVE  /\ d \in Behind => \E r \in Devs : Speaks(r, d)
         /\ d \notin Behind => \A r \in Devs : ~Speaks(r, d)
         /\ \A r, s \in Devs : Speaks(r, d) /\ Speaks(s, d) => r = s
<1>1. /\ \A x \in Devs : x \in Nat
      /\ \A a \in Above[d] : a \in Devs /\ Host[a] = Host[d] /\ Above[a] \subseteq Above[d]
  BY MachineFacts, AboveSmaller, AboveHost, AboveTransitive
<1>2. \A a, c \in Above[d] : a < c => a \in Above[c]
  BY AboveChain
<1>3. ASSUME d \in Behind
      PROVE  \E r \in Devs : Speaks(r, d)
  <2> DEFINE Z == {b \in Above[d] : ~Enters(b)}
  <2>1. CASE Z = {}
    <3>1. d \in Reach
      BY <1>3, <2>1 DEF Reach
    <3> QED BY <3>1 DEF Speaks
  <2>2. CASE Z # {}
    <3>1. Z \subseteq Nat
      BY <1>1
    <3>2. PICK b \in Z : \A y \in Z : b <= y
      <4> HIDE DEF Z
      <4> QED BY <2>2, <3>1, LeastElement
    <3>3. ASSUME NEW a \in Above[b]
          PROVE  Enters(a)
      <4>1. a \in Above[d] /\ a \in Devs /\ a < b /\ a \in Nat /\ b \in Nat
        BY <1>1, <3>2, AboveSmaller
      <4> QED BY <3>2, <4>1
    <3>4. b \in Devs /\ Host[b] = Host[d]
      BY <1>1
    <3>5. b \in Reach
      BY <1>3, <3>3, <3>4 DEF Reach, Behind
    <3> QED BY <3>4, <3>5 DEF Speaks
  <2> QED BY <2>1, <2>2
<1>4. ASSUME d \notin Behind, NEW r \in Devs, Speaks(r, d)
      PROVE  FALSE
  <2>1. r \in Behind /\ Host[r] = Host[d]
    BY <1>1, <1>4 DEF Speaks, Reach
  <2> QED BY <1>4, <2>1 DEF Behind
<1>5. ASSUME NEW r \in Devs, NEW s \in Devs, Speaks(r, d), Speaks(s, d)
      PROVE  r = s
  <2>1. CASE r = d \/ s = d
    BY <1>5, <2>1 DEF Speaks, Reach
  <2>2. CASE r # d /\ s # d
    <3>1. /\ r \in Above[d] /\ ~Enters(r) /\ \A b \in Above[r] : Enters(b)
          /\ s \in Above[d] /\ ~Enters(s) /\ \A b \in Above[s] : Enters(b)
      BY <1>5, <2>2 DEF Speaks, Reach
    <3>2. ~(r < s) /\ ~(s < r)
      BY <1>2, <3>1
    <3>3. r \in Nat /\ s \in Nat
      BY <1>1
    <3> QED BY <3>2, <3>3
  <2> QED BY <2>1, <2>2
<1> QED BY <1>3, <1>4, <1>5

(* Entries.                                                                *)
Names == {"bridge", "endpoint", "select", "range", "alias"}
Entry == [is : Names, from : Nat, to : Nat, for : Nat, bytes : Nat]

LEMMA EntryFields ==
  ASSUME NEW s \in Names, NEW x \in Nat, NEW y \in Nat, NEW z \in Nat, NEW n \in Nat
  PROVE  [is |-> s, from |-> x, to |-> y, for |-> z, bytes |-> n] \in Entry
  BY DEF Entry

(* What is written for a device are entries of the right kind for the      *)
(* table.                                                                  *)
LEMMA OwnEntries ==
  ASSUME Machine, NEW d \in Devs
  PROVE  /\ Own(d) \subseteq Entry
         /\ \A e \in Own(d) :
              /\ e.from <= e.to /\ e.is # "all"
              /\ e.is \in {"bridge", "endpoint"} <=> which = "DMAR"
<1>1. DevId(d) \in Nat
  BY IdsDiffer
<1>2. Scope(d) \in Entry /\ Select(d) \in Entry
  <2>1. (IF Bridge(d) THEN "bridge" ELSE "endpoint") \in Names /\ "select" \in Names
    BY DEF Names
  <2>2. 8 \in Nat /\ 4 \in Nat
    OBVIOUS
  <2>3. Scope(d) \in Entry
    BY <1>1, <2>1, <2>2, EntryFields DEF Scope
  <2>4. Select(d) \in Entry
    BY <1>1, <2>1, <2>2, EntryFields DEF Select
  <2> QED BY <2>3, <2>4
<1>3. ASSUME Bridge(d)
      PROVE  /\ Interval(d) \in Entry /\ Interval(d).from <= Interval(d).to
             /\ Interval(d).is \in {"range", "alias"}
  <2>1. /\ Bdf(Sec(d), 0) \in Nat /\ Bdf(Sub(d), LastFn) \in Nat
        /\ Bdf(Sec(d), 0) <= Bdf(Sub(d), LastFn)
    BY <1>3, IntervalIds
  <2>2. 4 + 4 \in Nat /\ 8 + 4 \in Nat
    OBVIOUS
  <2>3. CASE Express(d)
    <3>1. Leaf(d) \in Entry
      <4>1. "range" \in Names /\ 0 \in Nat
        BY DEF Names
      <4> QED BY <2>1, <2>2, <4>1, EntryFields DEF Leaf
    <3> QED BY <2>1, <2>3, <3>1 DEF Interval, Leaf
  <2>4. CASE ~Express(d)
    <3>1. (IF kind[d] = "topci" THEN Bdf(Sec(d), 0) ELSE DevId(d)) \in Nat
      BY <1>1, <2>1
    <3>2. Alias(d) \in Entry
      <4>1. "alias" \in Names
        BY DEF Names
      <4> QED BY <2>1, <2>2, <3>1, <4>1, EntryFields DEF Alias
    <3> QED BY <2>1, <2>4, <3>2 DEF Interval, Alias
  <2> QED BY <2>3, <2>4
<1>4. /\ Scope(d).from <= Scope(d).to /\ Scope(d).is \in {"bridge", "endpoint"}
      /\ Select(d).from <= Select(d).to /\ Select(d).is = "select"
  BY <1>1 DEF Scope, Select
<1>5. CASE which = "DMAR"
  <2>1. Own(d) = {Scope(d)}
    BY <1>5 DEF Own
  <2> QED BY <1>2, <1>4, <1>5, <2>1
<1>6. CASE which # "DMAR"
  <2>1. \A e \in Own(d) : e = Select(d) \/ (Bridge(d) /\ e = Interval(d))
    BY <1>6 DEF Own
  <2> QED BY <1>2, <1>3, <1>4, <1>6, <2>1
<1> QED BY <1>5, <1>6

(* Devices have different entries.                                         *)
LEMMA OwnDiffer ==
  ASSUME Machine, NEW c \in Devs, NEW d \in Devs, c # d
  PROVE  Own(c) \cap Own(d) = {}
<1>1. DevId(c) # DevId(d)
  BY IdsDiffer
<1>2. Scope(c).for = DevId(c) /\ Scope(d).for = DevId(d)
  BY DEF Scope
<1>3. /\ Select(c).for = DevId(c) /\ Select(d).for = DevId(d)
      /\ Select(c).is = "select" /\ Select(d).is = "select"
  BY DEF Select
<1>4. /\ Interval(c).is # "select" /\ Interval(c).from = Bdf(Sec(c), 0)
      /\ Interval(d).is # "select" /\ Interval(d).from = Bdf(Sec(d), 0)
  BY DEF Interval, Leaf, Alias
<1>5. Bridge(c) /\ Bridge(d) => Bdf(Sec(c), 0) # Bdf(Sec(d), 0)
  BY IntervalsDiffer
<1>6. CASE which = "DMAR"
  BY <1>1, <1>2, <1>6 DEF Own
<1>7. CASE which # "DMAR"
  <2>1. /\ \A e \in Own(c) : e = Select(c) \/ (Bridge(c) /\ e = Interval(c))
        /\ \A e \in Own(d) : e = Select(d) \/ (Bridge(d) /\ e = Interval(d))
    BY <1>7 DEF Own
  <2> QED BY <1>1, <1>3, <1>4, <1>5, <2>1
<1> QED BY <1>6, <1>7

(* The entry that covers a device is one of the device that speaks for it. *)
Covering(r, d) == IF r = d THEN Select(r) ELSE Interval(r)

LEMMA OwnCovers ==
  ASSUME Machine, which = "IVRS", NEW d \in Devs, NEW r \in Reach
  PROVE  /\ \A e \in Own(r) :
              (e.from <= DevId(d) /\ DevId(d) <= e.to) <=> (Speaks(r, d) /\ e = Covering(r, d))
         /\ Speaks(r, d) => Covering(r, d) \in Own(r)
<1>1. /\ r \in Devs /\ d \notin Above[d] /\ r \notin Above[r]
      /\ \A a \in Above[d] : Bridge(a)
  <2>1. \A x \in Devs : x \in Nat /\ \A a \in Above[x] : a < x
    BY MachineFacts, AboveSmaller
  <2>2. r \in Devs
    BY DEF Reach, Behind
  <2> QED BY <2>1, <2>2, AboveSmaller
<1>2. DevId(r) \in Nat /\ DevId(d) \in Nat /\ (DevId(r) = DevId(d) => r = d)
  BY <1>1, IdsDiffer
<1>3. Own(r) = {Select(r)} \cup (IF Bridge(r) /\ ~Enters(r) THEN {Interval(r)} ELSE {})
  BY DEF Own
<1>4. Select(r).from = DevId(r) /\ Select(r).to = DevId(r) /\ Select(r).is = "select"
  BY DEF Select
<1>5. Interval(r).from = Bdf(Sec(r), 0) /\ Interval(r).to = Bdf(Sub(r), LastFn)
      /\ Interval(r).is # "select"
  BY DEF Interval, Leaf, Alias
<1>6. (Select(r).from <= DevId(d) /\ DevId(d) <= Select(r).to) <=> r = d
  BY <1>2, <1>4
<1>7. Bridge(r) =>
        ((Interval(r).from <= DevId(d) /\ DevId(d) <= Interval(r).to) <=> r \in Above[d])
  BY <1>1, <1>5, IntervalIds
<1>8. Select(r) # Interval(r)
  BY <1>4, <1>5
<1>9. Speaks(r, d) <=> (r = d \/ (r \in Above[d] /\ ~Enters(r)))
  BY DEF Speaks
<1>10. ASSUME NEW e \in Own(r)
       PROVE  (e.from <= DevId(d) /\ DevId(d) <= e.to) <=> (Speaks(r, d) /\ e = Covering(r, d))
  <2>1. CASE e = Select(r)
    BY <1>1, <1>6, <1>8, <1>9, <2>1 DEF Covering
  <2>2. CASE e # Select(r)
    <3>1. e = Interval(r) /\ Bridge(r) /\ ~Enters(r)
      BY <1>3, <2>2
    <3> QED BY <1>1, <1>7, <1>8, <1>9, <3>1 DEF Covering
  <2> QED BY <2>1, <2>2
<1>11. Speaks(r, d) => Covering(r, d) \in Own(r)
  BY <1>1, <1>3, <1>9 DEF Covering
<1> QED BY <1>10, <1>11

-----------------------------------------------------------------------------
(* Sequences without duplicates.                                           *)
Elements(s) == {s[k] : k \in 1 .. Len(s)}
Distinct(s) == \A k, l \in 1 .. Len(s) : s[k] = s[l] => k = l

(* The elements of two sequences in a row; they are distinct if those of   *)
(* each are and the two have none in common.                               *)
LEMMA ConcatDistinct ==
  ASSUME NEW Z, NEW s \in Seq(Z), NEW t \in Seq(Z)
  PROVE  /\ s \o t \in Seq(Z) /\ Elements(s \o t) = Elements(s) \cup Elements(t)
         /\ Distinct(s) /\ Distinct(t) /\ Elements(s) \cap Elements(t) = {} => Distinct(s \o t)
<1> DEFINE m == Len(s)  n == Len(t)  u == s \o t
<1>1. /\ m \in Nat /\ n \in Nat /\ u \in Seq(Z) /\ Len(u) = m + n
      /\ \A k \in 1 .. m : u[k] = s[k]
      /\ \A k \in m + 1 .. m + n : u[k] = t[k - m]
  OBVIOUS
<1>2. Elements(u) = {u[k] : k \in 1 .. m + n}
  BY <1>1 DEF Elements
<1>3. Elements(s) = {s[k] : k \in 1 .. m} /\ Elements(t) = {t[k] : k \in 1 .. n}
  BY DEF Elements
<1> HIDE DEF m, n, u
<1>4. \A k \in 1 .. m + n : k \in 1 .. m \/ (k \in m + 1 .. m + n /\ k - m \in 1 .. n)
  BY <1>1
<1>5. \A k \in 1 .. n : m + k \in m + 1 .. m + n /\ (m + k) - m = k
  BY <1>1
<1>6. \A k \in 1 .. m : k \in 1 .. m + n
  BY <1>1
<1>7. Elements(u) = Elements(s) \cup Elements(t)
  <2>1. ASSUME NEW x \in Elements(u) PROVE x \in Elements(s) \cup Elements(t)
    <3>1. PICK k \in 1 .. m + n : x = u[k]
      BY <1>2, <2>1
    <3> QED BY <1>1, <1>3, <1>4, <3>1
  <2>2. Elements(s) \subseteq Elements(u)
    BY <1>1, <1>2, <1>3, <1>6
  <2>3. ASSUME NEW x \in Elements(t) PROVE x \in Elements(u)
    <3>1. PICK k \in 1 .. n : x = t[k]
      BY <1>3, <2>3
    <3>2. m + k \in 1 .. m + n /\ u[m + k] = t[k]
      BY <1>1, <1>5
    <3> QED BY <1>2, <3>1, <3>2
  <2> QED BY <2>1, <2>2, <2>3
<1>8. ASSUME Distinct(s), Distinct(t), Elements(s) \cap Elements(t) = {},
             NEW k \in 1 .. m + n, NEW l \in 1 .. m + n, u[k] = u[l]
      PROVE  k = l
  <2>1. /\ \A p \in 1 .. m : \A q \in 1 .. m : s[p] = s[q] => p = q
        /\ \A p \in 1 .. n : \A q \in 1 .. n : t[p] = t[q] => p = q
        /\ \A p \in 1 .. m : \A q \in 1 .. n : s[p] # t[q]
    <3>1. \A p \in 1 .. m : \A q \in 1 .. m : s[p] = s[q] => p = q
      BY <1>8 DEF Distinct, m
    <3>2. \A p \in 1 .. n : \A q \in 1 .. n : t[p] = t[q] => p = q
      BY <1>8 DEF Distinct, n
    <3>3. ASSUME NEW p \in 1 .. m, NEW q \in 1 .. n
          PROVE  s[p] # t[q]
      <4>1. s[p] \in Elements(s) /\ t[q] \in Elements(t)
        BY <1>3
      <4> QED BY <1>8, <4>1
    <3> QED BY <3>1, <3>2, <3>3
  <2>2. k \in 1 .. m \/ (k \in m + 1 .. m + n /\ k - m \in 1 .. n)
    BY <1>4
  <2>3. l \in 1 .. m \/ (l \in m + 1 .. m + n /\ l - m \in 1 .. n)
    BY <1>4
  <2>4. CASE k \in 1 .. m /\ l \in 1 .. m
    BY <1>1, <1>8, <2>1, <2>4
  <2>5. CASE k \in 1 .. m /\ l \in m + 1 .. m + n /\ l - m \in 1 .. n
    BY <1>1, <1>8, <2>1, <2>5
  <2>6. CASE l \in 1 .. m /\ k \in m + 1 .. m + n /\ k - m \in 1 .. n
    BY <1>1, <1>8, <2>1, <2>6
  <2>7. CASE k \in m + 1 .. m + n /\ k - m \in 1 .. n /\ l \in m + 1 .. m + n /\ l - m \in 1 .. n
    <3>1. t[k - m] = t[l - m]
      BY <1>1, <1>8, <2>7
    <3>2. k - m = l - m
      BY <2>1, <2>7, <3>1
    <3> QED BY <1>1, <2>7, <3>2
  <2> QED BY <2>2, <2>3, <2>4, <2>5, <2>6, <2>7
<1>9. Distinct(s) /\ Distinct(t) /\ Elements(s) \cap Elements(t) = {} => Distinct(u)
  BY <1>1, <1>8 DEF Distinct
<1> QED BY <1>1, <1>7, <1>9 DEF u

(* The empty sequence and those with one element.                          *)
LEMMA ShortDistinct ==
  /\ Elements(<< >>) = {} /\ Distinct(<< >>)
  /\ \A Z : \A x \in Z : <<x>> \in Seq(Z) /\ Elements(<<x>>) = {x} /\ Distinct(<<x>>)
  /\ \A Z : << >> \in Seq(Z)
<1>1. Elements(<< >>) = {} /\ Distinct(<< >>)
  BY DEF Elements, Distinct
<1>2. ASSUME NEW Z, NEW x \in Z
      PROVE  <<x>> \in Seq(Z) /\ Elements(<<x>>) = {x} /\ Distinct(<<x>>)
  <2>1. <<x>> \in Seq(Z) /\ Len(<<x>>) = 1 /\ <<x>>[1] = x
    OBVIOUS
  <2>2. 1 .. 1 = {1}
    OBVIOUS
  <2> QED BY <2>1, <2>2 DEF Elements, Distinct
<1> QED BY <1>1, <1>2

(* Head and tail.                                                          *)
LEMMA TailDistinct ==
  ASSUME NEW Z, NEW s \in Seq(Z), s # << >>
  PROVE  /\ Head(s) \in Z /\ Tail(s) \in Seq(Z)
         /\ Elements(s) = {Head(s)} \cup Elements(Tail(s))
         /\ Distinct(s) => Distinct(Tail(s)) /\ Head(s) \notin Elements(Tail(s))
<1> DEFINE n == Len(s)  t == Tail(s)
<1>1. /\ n \in Nat /\ n >= 1 /\ Head(s) = s[1] /\ t \in Seq(Z) /\ Len(t) = n - 1
      /\ \A k \in 1 .. n - 1 : t[k] = s[k + 1]
      /\ \A k \in 1 .. n : s[k] \in Z
  OBVIOUS
<1>2. Elements(s) = {s[k] : k \in 1 .. n} /\ Elements(t) = {t[k] : k \in 1 .. n - 1}
  BY <1>1 DEF Elements
<1>3. Distinct(s) => \A k \in 1 .. n : \A l \in 1 .. n : s[k] = s[l] => k = l
  BY DEF Distinct
<1> HIDE DEF n, t
<1>4. 1 \in 1 .. n /\ \A k \in 1 .. n - 1 : k + 1 \in 1 .. n /\ k + 1 # 1
  BY <1>1
<1>5. \A k \in 1 .. n : k = 1 \/ (k - 1 \in 1 .. n - 1 /\ (k - 1) + 1 = k)
  BY <1>1
<1>6. Elements(s) = {Head(s)} \cup Elements(t)
  <2>1. ASSUME NEW x \in Elements(s) PROVE x \in {Head(s)} \cup Elements(t)
    <3>1. PICK k \in 1 .. n : x = s[k]
      BY <1>2, <2>1
    <3>2. CASE k = 1
      BY <1>1, <3>1, <3>2
    <3>3. CASE k # 1
      <4>1. k - 1 \in 1 .. n - 1 /\ t[k - 1] = x
        BY <1>1, <1>5, <3>1, <3>3
      <4> QED BY <1>2, <4>1
    <3> QED BY <3>2, <3>3
  <2>2. Head(s) \in Elements(s)
    BY <1>1, <1>2, <1>4
  <2>3. Elements(t) \subseteq Elements(s)
    BY <1>1, <1>2, <1>4
  <2> QED BY <2>1, <2>2, <2>3
<1>7. ASSUME Distinct(s) PROVE Distinct(t) /\ Head(s) \notin Elements(t)
  <2>1. ASSUME NEW k \in 1 .. n - 1, NEW l \in 1 .. n - 1, t[k] = t[l] PROVE k = l
    <3>1. s[k + 1] = s[l + 1] /\ k + 1 \in 1 .. n /\ l + 1 \in 1 .. n
      BY <1>1, <1>4, <2>1
    <3>2. k + 1 = l + 1
      BY <1>3, <1>7, <3>1
    <3> QED BY <3>2
  <2>2. ASSUME NEW k \in 1 .. n - 1 PROVE t[k] # Head(s)
    BY <1>1, <1>3, <1>4, <1>7
  <2>3. Distinct(t)
    BY <1>1, <2>1 DEF Distinct
  <2> QED BY <1>2, <2>2, <2>3
<1> QED BY <1>1, <1>4, <1>6, <1>7 DEF t

(* Children lists the devices on a bus, each once.                         *)
LEMMA ChildrenFacts ==
  ASSUME Machine, NEW b
  PROVE  /\ Children(b) \in Seq(Devs) /\ Distinct(Children(b))
         /\ Elements(Children(b)) = {d \in Devs : on[d] = b}
<1> DEFINE n == Len(on)
           V == Seq(Devs)
           step == [k \in 1 .. n |-> [s \in V |-> IF on[k] = b THEN Append(s, k) ELSE s]]
           Def(f) == f = [k \in 0 .. n |->
                            IF k = 0 THEN << >>
                            ELSE IF on[k] = b THEN Append(f[k - 1], k) ELSE f[k - 1]]
           c == CHOOSE f : Def(f)
<1>1. n \in Nat /\ Devs = 1 .. n
  BY MachineFacts
<1>2. Children(b) = c[n]
  BY DEF Children
<1> HIDE DEF n
<1>3. step \in [1 .. n -> [V -> V]]
  <2>1. ASSUME NEW k \in 1 .. n, NEW s \in V
        PROVE  (IF on[k] = b THEN Append(s, k) ELSE s) \in V
    <3>1. s \in Seq(Devs) /\ k \in Devs
      BY <1>1
    <3>2. Append(s, k) \in Seq(Devs)
      BY <3>1
    <3> QED BY <3>1, <3>2
  <2> HIDE DEF V
  <2> QED BY <2>1
<1>4. PICK r \in [0 .. n -> V] : Iterates(r, n, << >>, step)
  <2>1. << >> \in V
    OBVIOUS
  <2> HIDE DEF V, step
  <2> QED BY <1>1, <1>3, <2>1, Iteration
<1>5. Def(r)
  <2>1. ASSUME NEW k \in 1 .. n
        PROVE  r[k] = IF on[k] = b THEN Append(r[k - 1], k) ELSE r[k - 1]
    <3>1. r[k] = step[k][r[k - 1]]
      BY <1>4 DEF Iterates
    <3>2. r[k - 1] \in V
      BY <1>1
    <3> HIDE DEF V
    <3> QED BY <3>1, <3>2
  <2>2. r[0] = << >>
    BY <1>4 DEF Iterates
  <2>3. r = [k \in 0 .. n |-> r[k]]
    OBVIOUS
  <2>4. \A k \in 0 .. n : k = 0 \/ k \in 1 .. n
    BY <1>1
  <2> HIDE DEF V
  <2> QED BY <2>1, <2>2, <2>3, <2>4
<1>6. Def(c)
  <2> HIDE DEF Def
  <2> QED BY <1>5
<1> HIDE DEF c
<1>7. /\ c[0] = << >>
      /\ \A k \in 1 .. n : c[k] = IF on[k] = b THEN Append(c[k - 1], k) ELSE c[k - 1]
  <2>1. 0 \in 0 .. n /\ \A k \in 1 .. n : k \in 0 .. n /\ k # 0
    BY <1>1
  <2>2. c = [k \in 0 .. n |->
               IF k = 0 THEN << >>
               ELSE IF on[k] = b THEN Append(c[k - 1], k) ELSE c[k - 1]]
    BY <1>6
  <2> QED BY ONLY <2>1, <2>2
<1> DEFINE T == {k \in Nat : /\ c[k] \in Seq(Devs) /\ Distinct(c[k])
                             /\ Elements(c[k]) = {d \in 1 .. k : on[d] = b}}
<1>8. 0 \in T
  <2>1. 1 .. 0 = {}
    OBVIOUS
  <2> QED BY <1>7, <2>1, ShortDistinct
<1>9. ASSUME NEW k \in 0 .. n - 1, k \in T PROVE k + 1 \in T
  <2>1. /\ k + 1 \in 1 .. n /\ (k + 1) - 1 = k /\ k + 1 \in Nat /\ k + 1 \in Devs
        /\ 1 .. k + 1 = 1 .. k \cup {k + 1} /\ k + 1 \notin 1 .. k
    BY <1>1
  <2>2. c[k + 1] = IF on[k + 1] = b THEN Append(c[k], k + 1) ELSE c[k]
    BY <1>7, <2>1
  <2>3. CASE on[k + 1] = b
    <3>1. c[k + 1] = c[k] \o <<k + 1>>
      <4>1. \A s \in Seq(Devs) : Append(s, k + 1) = s \o <<k + 1>>
        BY <2>1
      <4> QED BY <1>9, <2>2, <2>3, <4>1
    <3>2. /\ <<k + 1>> \in Seq(Devs) /\ Elements(<<k + 1>>) = {k + 1}
          /\ Distinct(<<k + 1>>)
      BY <2>1, ShortDistinct
    <3>3. Elements(c[k]) \cap {k + 1} = {}
      BY <1>9, <2>1
    <3>4. /\ c[k + 1] \in Seq(Devs) /\ Distinct(c[k + 1])
          /\ Elements(c[k + 1]) = Elements(c[k]) \cup {k + 1}
      <4> DEFINE s == c[k]  t == <<k + 1>>
      <4>1. s \in Seq(Devs) /\ Distinct(s) /\ c[k + 1] = s \o t
        BY <1>9, <3>1
      <4>2. t \in Seq(Devs) /\ Distinct(t) /\ Elements(t) = {k + 1}
            /\ Elements(s) \cap Elements(t) = {}
        BY <3>2, <3>3
      <4> HIDE DEF s, t
      <4>3. /\ s \o t \in Seq(Devs) /\ Elements(s \o t) = Elements(s) \cup Elements(t)
            /\ Distinct(s \o t)
        BY <4>1, <4>2, ConcatDistinct
      <4>4. Elements(s) = Elements(c[k])
        BY DEF s
      <4> QED BY <4>1, <4>2, <4>3, <4>4
    <3>5. Elements(c[k + 1]) = {d \in 1 .. k + 1 : on[d] = b}
      BY <1>9, <2>1, <2>3, <3>4
    <3> QED BY <2>1, <3>4, <3>5
  <2>4. CASE on[k + 1] # b
    <3>1. {d \in 1 .. k + 1 : on[d] = b} = {d \in 1 .. k : on[d] = b}
      BY <2>1, <2>4
    <3> QED BY <1>9, <2>1, <2>2, <2>4, <3>1
  <2> QED BY <2>3, <2>4
<1>10. \A k \in 0 .. n : k \in T
  <2> HIDE DEF T
  <2> QED BY <1>1, <1>8, <1>9, BoundedInduction
<1>11. n \in T
  BY <1>1, <1>10
<1> QED BY <1>1, <1>2, <1>11

-----------------------------------------------------------------------------
(* What is written for a device, in its order.                             *)
Written(d) == IF which = "DMAR" THEN <<Scope(d)>> ELSE <<Select(d)>> \o Ivhd(d)

LEMMA WrittenEntries ==
  ASSUME Machine, NEW d \in Devs
  PROVE  /\ Written(d) \in Seq(Entry) /\ Distinct(Written(d))
         /\ Elements(Written(d)) = Own(d)
<1>1. Own(d) \subseteq Entry
  BY OwnEntries
<1>2. CASE which = "DMAR"
  <2>1. Written(d) = <<Scope(d)>> /\ Own(d) = {Scope(d)} /\ Scope(d) \in Entry
    BY <1>1, <1>2 DEF Written, Own
  <2> QED BY <2>1, ShortDistinct
<1>3. CASE which # "DMAR"
  <2>1. which = "IVRS"
    BY <1>3, MachineFacts
  <2>2. Own(d) = {Select(d)} \cup (IF Bridge(d) /\ ~Enters(d) THEN {Interval(d)} ELSE {})
    BY <1>3 DEF Own
  <2>3. Select(d) \in Entry
    BY <1>1, <2>2
  <2>4. CASE Bridge(d) /\ ~Enters(d)
    <3>1. Ivhd(d) = <<Interval(d)>>
      <4>1. CASE Express(d)
        <5>1. Sec(d) = Sub(d)
          BY <2>1, <2>4, <4>1 DEF Enters
        <5> QED BY <2>4, <4>1, <5>1 DEF Ivhd, Interval
      <4>2. CASE ~Express(d)
        BY <2>4, <4>2 DEF Ivhd, Interval
      <4> QED BY <4>1, <4>2
    <3>2. Interval(d) \in Entry /\ Own(d) = {Select(d)} \cup {Interval(d)}
      BY <1>1, <2>2, <2>4
    <3>3. Select(d).is = "select" /\ Interval(d).is # "select"
      BY DEF Select, Interval, Leaf, Alias
    <3> DEFINE s == <<Select(d)>>  t == <<Interval(d)>>
    <3>4. /\ s \in Seq(Entry) /\ Distinct(s) /\ Elements(s) = {Select(d)}
          /\ t \in Seq(Entry) /\ Distinct(t) /\ Elements(t) = {Interval(d)}
      BY <2>3, <3>2, ShortDistinct
    <3>5. Written(d) = s \o t
      BY <1>3, <3>1 DEF Written
    <3> HIDE DEF s, t
    <3>6. Elements(s) \cap Elements(t) = {}
      BY <3>3, <3>4
    <3>7. /\ s \o t \in Seq(Entry) /\ Elements(s \o t) = Elements(s) \cup Elements(t)
          /\ Distinct(s \o t)
      <4>1. s \in Seq(Entry) /\ t \in Seq(Entry) /\ Distinct(s) /\ Distinct(t)
        BY <3>4
      <4> QED BY ONLY <3>6, <4>1, ConcatDistinct
    <3> QED BY <3>2, <3>4, <3>5, <3>7
  <2>5. CASE ~(Bridge(d) /\ ~Enters(d))
    <3>1. Ivhd(d) = << >>
      <4>1. CASE ~Bridge(d)
        BY <4>1 DEF Ivhd, Express, Bridge
      <4>2. CASE Bridge(d)
        <5>1. Express(d) /\ Sec(d) # Sub(d)
          BY <2>5, <4>2 DEF Enters
        <5> QED BY <4>2, <5>1 DEF Ivhd
      <4> QED BY <4>1, <4>2
    <3>2. Written(d) = <<Select(d)>> /\ Own(d) = {Select(d)}
      <4>1. <<Select(d)>> \o << >> = <<Select(d)>>
        OBVIOUS
      <4>2. Written(d) = <<Select(d)>> \o Ivhd(d)
        BY <1>3 DEF Written
      <4>3. Own(d) = {Select(d)}
        BY <2>2, <2>5
      <4> QED BY <3>1, <4>1, <4>2, <4>3
    <3> QED BY <2>3, <3>2, ShortDistinct
  <2> QED BY <2>4, <2>5
<1> QED BY <1>2, <1>3

(* The entries written are those of the devices in D, each once.           *)
Listed(s, D) ==
  s \in Seq(Entry) /\ Distinct(s) /\ Elements(s) = UNION {Own(d) : d \in D}

LEMMA ListedMore ==
  ASSUME Machine, NEW D \in SUBSET Devs, NEW d \in Devs \ D, NEW s, Listed(s, D)
  PROVE  Listed(s \o Written(d), D \cup {d})
<1> DEFINE t == Written(d)
<1>1. t \in Seq(Entry) /\ Distinct(t) /\ Elements(t) = Own(d)
  BY WrittenEntries
<1>2. s \in Seq(Entry) /\ Distinct(s) /\ Elements(s) = UNION {Own(c) : c \in D}
  BY DEF Listed
<1>3. Elements(s) \cap Own(d) = {}
  <2>1. \A c \in D : Own(c) \cap Own(d) = {}
    BY OwnDiffer
  <2> QED BY <1>2, <2>1
<1> HIDE DEF t
<1>4. /\ s \o t \in Seq(Entry) /\ Elements(s \o t) = Elements(s) \cup Elements(t)
      /\ Distinct(s \o t)
  BY <1>1, <1>2, <1>3, ConcatDistinct
<1>5. UNION {Own(c) : c \in D \cup {d}} = (UNION {Own(c) : c \in D}) \cup Own(d)
  OBVIOUS
<1>6. Listed(s \o t, D \cup {d})
  BY <1>1, <1>2, <1>4, <1>5 DEF Listed
<1> QED BY <1>6 DEF t

(* Between a device and a bridge above it there is one on that bridge's bus*)
LEMMA ChildAbove ==
  ASSUME Machine
  PROVE  \A d \in Devs : \A b \in Above[d] :
           \E c \in {d} \cup Above[d] : c \in Devs /\ on[c] = b
<1> DEFINE T == {d \in Devs : \A b \in Above[d] :
                   \E c \in {d} \cup Above[d] : c \in Devs /\ on[c] = b}
<1>1. ASSUME NEW d \in Devs, on[d] \notin Hosts => on[d] \in T
      PROVE  d \in T
  <2>1. Above[d] = IF on[d] \in Hosts THEN {} ELSE {on[d]} \cup Above[on[d]]
    BY AboveFacts
  <2>2. CASE on[d] \in Hosts
    BY <2>1, <2>2
  <2>3. CASE on[d] \notin Hosts
    <3>1. \A b \in Above[on[d]] : \E c \in {on[d]} \cup Above[on[d]] : c \in Devs /\ on[c] = b
      BY <1>1, <2>3
    <3> QED BY <2>1, <2>3, <3>1
  <2> QED BY <2>2, <2>3
<1>2. Devs \subseteq T
  <2> HIDE DEF T
  <2> QED BY <1>1, TreeInduction
<1> QED BY <1>2

-----------------------------------------------------------------------------
(* The devices left: reached, from host bridges already walked, each once, *)
(* and none below another.                                                 *)
Queue(hs, q) ==
  /\ q \in Seq(Devs) /\ Distinct(q)
  /\ \A d \in Elements(q) : d \in Reach /\ Host[d] \notin hs
  /\ \A c, d \in Elements(q) : c \notin Above[d]

(* Of the devices the walk gets to, those it has yet to get to from the    *)
(* devices left, and those it has got to.                                  *)
PendingOf(q) == {d \in Reach : \E c \in Elements(q) : c = d \/ c \in Above[d]}
VisitedOf(hs, q) == {d \in Reach : Host[d] \notin hs} \ PendingOf(q)

(* The devices on a root bus behind the IOMMU are reached.                 *)
LEMMA RootsReached ==
  ASSUME Machine, NEW h \in Hosts
  PROVE  \A d \in Devs : on[d] = h =>
           Above[d] = {} /\ Host[d] = h /\ (h \notin bypass => d \in Reach)
<1> SUFFICES ASSUME NEW d \in Devs, on[d] = h
             PROVE  Above[d] = {} /\ Host[d] = h /\ (h \notin bypass => d \in Reach)
  OBVIOUS
<1>1. Above[d] = {} /\ Host[d] = h
  BY AboveFacts, HostFacts
<1> QED BY <1>1 DEF Reach, Behind

(* A host bridge: its devices are left, none of them is got to yet.        *)
LEMMA HostStep ==
  ASSUME Machine, NEW hs \in SUBSET Hosts, NEW h \in hs, Queue(hs, << >>),
         NEW q, q = IF h \in bypass THEN << >> ELSE Children(h)
  PROVE  Queue(hs \ {h}, q) /\ VisitedOf(hs \ {h}, q) = VisitedOf(hs, << >>)
<1>1. /\ q \in Seq(Devs) /\ Distinct(q)
      /\ Elements(q) = {d \in Devs : on[d] = h /\ h \notin bypass}
  BY ChildrenFacts, ShortDistinct
<1>2. \A d \in Elements(q) : Above[d] = {} /\ Host[d] = h /\ d \in Reach
  BY <1>1, RootsReached
<1>3. Queue(hs \ {h}, q)
  BY <1>1, <1>2 DEF Queue
<1>4. Reach \subseteq Devs /\ \A d \in Reach : Host[d] \notin bypass
  BY DEF Reach, Behind
<1>5. PendingOf(q) = {d \in Reach : Host[d] = h}
  <2>1. ASSUME NEW d \in PendingOf(q) PROVE d \in Reach /\ Host[d] = h
    <3>1. d \in Reach /\ \E c \in Elements(q) : c = d \/ c \in Above[d]
      BY <2>1 DEF PendingOf
    <3>2. \A a \in Above[d] : Host[a] = Host[d]
      BY <1>4, <3>1, AboveHost
    <3> QED BY <1>2, <3>1, <3>2
  <2>2. ASSUME NEW d \in Reach, Host[d] = h PROVE d \in PendingOf(q)
    <3>1. PICK r \in {d} \cup Above[d] : r \in Devs /\ on[r] = h
      BY <1>4, <2>2, RootAbove
    <3>2. r \in Elements(q)
      BY <1>1, <1>4, <2>2, <3>1
    <3> QED BY <3>1, <3>2 DEF PendingOf
  <2> QED BY <2>1, <2>2
<1>6. PendingOf(<< >>) = {}
  BY ShortDistinct DEF PendingOf
<1>7. VisitedOf(hs \ {h}, q) = VisitedOf(hs, << >>)
  BY <1>5, <1>6 DEF VisitedOf
<1> QED BY <1>3, <1>7

(* A device: it is got to, and the devices below it are left when the walk *)
(* goes on there.                                                          *)
LEMMA DescendFacts ==
  ASSUME Machine, NEW d \in Devs
  PROVE  /\ Descend(d) \in Seq(Devs) /\ Distinct(Descend(d))
         /\ Elements(Descend(d)) = {c \in Devs : on[c] = d /\ Enters(d)}
         /\ \A c \in Elements(Descend(d)) :
              Above[c] = {d} \cup Above[d] /\ Host[c] = Host[d] /\ d < c
<1>1. Descend(d) = IF Enters(d) THEN Children(d) ELSE << >>
  BY DEF Descend, Enters
<1>2. /\ Descend(d) \in Seq(Devs) /\ Distinct(Descend(d))
      /\ Elements(Descend(d)) = {c \in Devs : on[c] = d /\ Enters(d)}
  BY <1>1, ChildrenFacts, ShortDistinct
<1>3. ASSUME NEW c \in Devs, on[c] = d
      PROVE  Above[c] = {d} \cup Above[d] /\ Host[c] = Host[d] /\ d < c
  <2>1. on[c] \notin Hosts /\ d < c
    BY <1>3, MachineFacts
  <2> QED BY <1>3, <2>1, AboveFacts, HostFacts
<1> QED BY <1>2, <1>3

Onward(q) == Descend(Head(q)) \o Tail(q)

LEMMA DeviceStep ==
  ASSUME Machine, NEW hs \in SUBSET Hosts, NEW q, Queue(hs, q), q # << >>
  PROVE  /\ Head(q) \in Devs /\ Head(q) \notin VisitedOf(hs, q) /\ Queue(hs, Onward(q))
         /\ VisitedOf(hs, Onward(q)) = VisitedOf(hs, q) \cup {Head(q)}
<1> DEFINE d == Head(q)  r == Onward(q)  s == Descend(d)  t == Tail(q)
<1>1. q \in Seq(Devs) /\ Distinct(q)
  BY DEF Queue
<1>2. /\ d \in Devs /\ t \in Seq(Devs) /\ Elements(q) = {d} \cup Elements(t)
      /\ Distinct(t) /\ d \notin Elements(t)
  BY <1>1, TailDistinct
<1>3. /\ d \in Reach /\ Host[d] \notin hs
      /\ \A c \in Elements(t) : /\ c \in Reach /\ Host[c] \notin hs
                                /\ c \notin Above[d] /\ d \notin Above[c]
      /\ \A b, c \in Elements(t) : b \notin Above[c]
  BY <1>2 DEF Queue
<1>4. /\ s \in Seq(Devs) /\ Distinct(s)
      /\ Elements(s) = {c \in Devs : on[c] = d /\ Enters(d)}
      /\ \A c \in Elements(s) : Above[c] = {d} \cup Above[d] /\ Host[c] = Host[d] /\ d < c
  BY <1>2, DescendFacts
<1> HIDE DEF d, r, s, t
<1>5. Reach \subseteq Devs
  BY DEF Reach, Behind
<1>6. Elements(s) \cap Elements(t) = {}
  BY <1>3, <1>4
<1>7. r \in Seq(Devs) /\ Distinct(r) /\ Elements(r) = Elements(s) \cup Elements(t)
  <2>1. r = s \o t
    BY DEF d, r, s, t, Onward
  <2>2. s \in Seq(Devs) /\ t \in Seq(Devs) /\ Distinct(s) /\ Distinct(t)
    BY <1>2, <1>4
  <2> QED BY ONLY <1>6, <2>1, <2>2, ConcatDistinct
<1>8. ASSUME NEW c \in Elements(s) PROVE c \in Reach /\ Host[c] \notin hs
  <2>1. c \in Devs /\ Enters(d) /\ Above[c] = {d} \cup Above[d] /\ Host[c] = Host[d]
    BY <1>4
  <2>2. Host[d] \notin bypass /\ \A b \in Above[d] : Enters(b)
    BY <1>3 DEF Reach, Behind
  <2> QED BY <1>3, <2>1, <2>2 DEF Reach, Behind
<1>9. \A x \in Devs : x \in Nat /\ \A a \in Above[x] : a \in Devs /\ a < x
  BY MachineFacts, AboveSmaller
<1>10. ASSUME NEW b \in Elements(r), NEW c \in Elements(r), b \in Above[c] PROVE FALSE
  <2>1. CASE c \in Elements(s)
    <3>1. b = d \/ b \in Above[d]
      BY <1>4, <1>10, <2>1
    <3>2. ~(d < b)
      BY <1>2, <1>9, <3>1
    <3>3. b \in Elements(t)
      BY <1>4, <1>7, <3>2
    <3> QED BY <1>2, <1>3, <3>1, <3>3
  <2>2. CASE c \in Elements(t) /\ b \in Elements(s)
    <3>1. c \in Devs /\ d \in Above[b]
      BY <1>3, <1>4, <1>5, <2>2
    <3>2. d \in Above[c]
      BY <1>10, <3>1, AboveTransitive
    <3> QED BY <1>3, <2>2, <3>2
  <2>3. CASE c \in Elements(t) /\ b \in Elements(t)
    BY <1>3, <1>10, <2>3
  <2> QED BY <1>7, <2>1, <2>2, <2>3
<1>11. Queue(hs, r)
  BY <1>3, <1>7, <1>8, <1>10 DEF Queue
<1>12. d \in PendingOf(q) /\ d \notin PendingOf(r)
  <2>1. d \in PendingOf(q)
    BY <1>2, <1>3 DEF PendingOf
  <2>2. ASSUME NEW c \in Elements(s) PROVE c # d /\ c \notin Above[d]
    BY <1>2, <1>4, <1>9
  <2>3. ASSUME NEW c \in Elements(t) PROVE c # d /\ c \notin Above[d]
    BY <1>2, <1>3
  <2> QED BY <1>7, <2>1, <2>2, <2>3 DEF PendingOf
<1>13. ASSUME NEW x \in PendingOf(q), x # d PROVE x \in PendingOf(r)
  <2>1. x \in Reach /\ x \in Devs
    BY <1>5, <1>13 DEF PendingOf
  <2>2. PICK c \in Elements(q) : c = x \/ c \in Above[x]
    BY <1>13 DEF PendingOf
  <2>3. CASE c \in Elements(t)
    BY <1>7, <2>1, <2>2, <2>3 DEF PendingOf
  <2>4. CASE c = d
    <3>1. d \in Above[x]
      BY <1>13, <2>2, <2>4
    <3>2. Enters(d)
      BY <2>1, <3>1 DEF Reach
    <3>3. PICK y \in {x} \cup Above[x] : y \in Devs /\ on[y] = d
      BY <2>1, <3>1, ChildAbove
    <3>4. y \in Elements(r)
      BY <1>4, <1>7, <3>2, <3>3
    <3> QED BY <2>1, <3>3, <3>4 DEF PendingOf
  <2> QED BY <1>2, <2>2, <2>3, <2>4
<1>14. ASSUME NEW x \in PendingOf(r) PROVE x \in PendingOf(q)
  <2>1. x \in Reach /\ x \in Devs
    BY <1>5, <1>14 DEF PendingOf
  <2>2. PICK c \in Elements(r) : c = x \/ c \in Above[x]
    BY <1>14 DEF PendingOf
  <2>3. CASE c \in Elements(t)
    BY <1>2, <2>1, <2>2, <2>3 DEF PendingOf
  <2>4. CASE c \in Elements(s)
    <3>1. d \in Above[c]
      BY <1>4, <2>4
    <3>2. d \in Above[x]
      BY <2>1, <2>2, <3>1, AboveTransitive
    <3> QED BY <1>2, <2>1, <3>2 DEF PendingOf
  <2> QED BY <1>7, <2>2, <2>3, <2>4
<1>15. VisitedOf(hs, r) = VisitedOf(hs, q) \cup {d}
  BY <1>3, <1>12, <1>13, <1>14 DEF VisitedOf
<1> QED BY <1>2, <1>11, <1>12, <1>15 DEF VisitedOf, d, r

-----------------------------------------------------------------------------
(* The machine does not change.                                            *)
LEMMA MachineUnchanged ==
  ASSUME UNCHANGED machine
  PROVE  /\ Machine' = Machine /\ Devs' = Devs /\ Reach' = Reach /\ Behind' = Behind
         /\ Above' = Above /\ Host' = Host
         /\ \A d : Own(d)' = Own(d)
<1>1. /\ which' = which /\ on' = on /\ kind' = kind /\ spare' = spare
      /\ bypass' = bypass
  BY DEF machine
<1>2. Devs' = Devs
  BY <1>1 DEF Devs
<1>3. Above' = Above /\ Host' = Host
  BY <1>1, <1>2 DEF Above, Host
<1>4. \A d : Bridge(d)' = Bridge(d) /\ Express(d)' = Express(d)
  BY <1>1 DEF Bridge, Express
<1>5. \A d : Sec(d)' = Sec(d) /\ Sub(d)' = Sub(d)
  BY <1>1, <1>2, <1>3 DEF Sec, Sub, Earlier, Below, Given, Bridge
<1>6. \A d : DevId(d)' = DevId(d)
  BY <1>1, <1>5 DEF DevId, BusNum, Bdf
<1>7. Behind' = Behind
  BY <1>1, <1>2, <1>3 DEF Behind
<1>8. Reach' = Reach
  BY <1>1, <1>3, <1>4, <1>5, <1>7 DEF Reach, Enters
<1>9. \A d : Own(d)' = Own(d)
  BY <1>1, <1>4, <1>5, <1>6 DEF Own, Enters, Interval, Leaf, Alias, Scope, Select, Bdf
<1>10. Machine' = Machine
  BY <1>1, <1>2, <1>3, <1>4, <1>5 DEF Machine, DepthFirst, Pluggable, Takes, OnlyBridgesReserve, RootsApart
<1> QED BY <1>2, <1>3, <1>7, <1>8, <1>9, <1>10

-----------------------------------------------------------------------------
(* The bytes of entries, and the widths of the fields.                     *)
LEMMA BytesNat ==
  ASSUME NEW s, s \in Seq(Entry) \/ s = <<AllDevices>>
  PROVE  Bytes(s) \in Nat
<1> DEFINE n == Len(s)  w == [k \in DOMAIN s |-> s[k].bytes]
<1>1. CASE s \in Seq(Entry)
  <2>1. n \in Nat /\ DOMAIN s = 1 .. n /\ \A k \in 1 .. n : s[k] \in Entry
    BY <1>1
  <2>2. w \in [1 .. n -> Nat]
    BY <2>1 DEF Entry
  <2> HIDE DEF w, n
  <2>3. Total(w) = Ends(w)[n] /\ Ends(w) \in [0 .. n -> Nat]
    BY <2>1, <2>2, EndsSums
  <2>4. Bytes(s) = Total(w)
    BY DEF Bytes, w
  <2> QED BY <2>1, <2>3, <2>4
<1>2. CASE s = <<AllDevices>>
  <2>1. DOMAIN s = 1 .. 1 /\ \A k \in 1 .. 1 : s[k].bytes = 4
    BY <1>2 DEF AllDevices
  <2>2. w \in [1 .. 1 -> Nat]
    BY <2>1
  <2> HIDE DEF w
  <2>3. Total(w) = Ends(w)[1] /\ Ends(w) \in [0 .. 1 -> Nat]
    BY <2>2, EndsSums
  <2>4. Bytes(s) = Total(w)
    BY DEF Bytes, w
  <2> QED BY <2>3, <2>4
<1> QED BY <1>1, <1>2

(* The fields of the remapping unit, the I/O APIC's scope, the ATS         *)
(* structure and the IVHD block.                                           *)
LEMMA FieldWidths ==
  /\ Total(<<1, 1, 2, 1, 1, 1, 1>>) = 8 /\ Total(<<2, 2, 1, 1, 2, 8>>) = 16
  /\ Total(<<2, 2, 1, 1, 2>>) = 8 /\ Total(<<1, 1, 2, 2, 2, 8, 2, 2, 4>>) = 24
<1>1. Total(<<1, 1, 2, 1, 1, 1, 1>>) = 8
  <2> DEFINE f == <<1, 1, 2, 1, 1, 1, 1>>
  <2>1. /\ f \in [1 .. 7 -> Nat] /\ f[1] = 1 /\ f[2] = 1 /\ f[3] = 2 /\ f[4] = 1
        /\ f[5] = 1 /\ f[6] = 1 /\ f[7] = 1
    OBVIOUS
  <2> HIDE DEF f
  <2>2. /\ Ends(f)[0] = 0 /\ Total(f) = Ends(f)[7]
        /\ \A k \in 1 .. 7 : Ends(f)[k] = Ends(f)[k - 1] + f[k]
    BY <2>1, EndsSums
  <2> DEFINE e == Ends(f)
  <2>3. /\ e[1] = e[0] + f[1] /\ e[2] = e[1] + f[2] /\ e[3] = e[2] + f[3]
        /\ e[4] = e[3] + f[4] /\ e[5] = e[4] + f[5] /\ e[6] = e[5] + f[6]
        /\ e[7] = e[6] + f[7]
    BY <2>2
  <2>4. Total(f) = 8
    <3> HIDE DEF e
    <3> QED BY <2>1, <2>2, <2>3 DEF e
  <2> QED BY <2>4 DEF f
<1>2. Total(<<2, 2, 1, 1, 2, 8>>) = 16
  <2> DEFINE f == <<2, 2, 1, 1, 2, 8>>
  <2>1. /\ f \in [1 .. 6 -> Nat] /\ f[1] = 2 /\ f[2] = 2 /\ f[3] = 1 /\ f[4] = 1
        /\ f[5] = 2 /\ f[6] = 8
    OBVIOUS
  <2> HIDE DEF f
  <2>2. /\ Ends(f)[0] = 0 /\ Total(f) = Ends(f)[6]
        /\ \A k \in 1 .. 6 : Ends(f)[k] = Ends(f)[k - 1] + f[k]
    BY <2>1, EndsSums
  <2> DEFINE e == Ends(f)
  <2>3. /\ e[1] = e[0] + f[1] /\ e[2] = e[1] + f[2] /\ e[3] = e[2] + f[3]
        /\ e[4] = e[3] + f[4] /\ e[5] = e[4] + f[5] /\ e[6] = e[5] + f[6]
    BY <2>2
  <2>4. Total(f) = 16
    <3> HIDE DEF e
    <3> QED BY <2>1, <2>2, <2>3 DEF e
  <2> QED BY <2>4 DEF f
<1>3. Total(<<2, 2, 1, 1, 2>>) = 8
  <2> DEFINE f == <<2, 2, 1, 1, 2>>
  <2>1. f \in [1 .. 5 -> Nat] /\ f[1] = 2 /\ f[2] = 2 /\ f[3] = 1 /\ f[4] = 1 /\ f[5] = 2
    OBVIOUS
  <2> HIDE DEF f
  <2>2. /\ Ends(f)[0] = 0 /\ Total(f) = Ends(f)[5]
        /\ \A k \in 1 .. 5 : Ends(f)[k] = Ends(f)[k - 1] + f[k]
    BY <2>1, EndsSums
  <2> DEFINE e == Ends(f)
  <2>3. /\ e[1] = e[0] + f[1] /\ e[2] = e[1] + f[2] /\ e[3] = e[2] + f[3]
        /\ e[4] = e[3] + f[4] /\ e[5] = e[4] + f[5]
    BY <2>2
  <2>4. Total(f) = 8
    <3> HIDE DEF e
    <3> QED BY <2>1, <2>2, <2>3 DEF e
  <2> QED BY <2>4 DEF f
<1>4. Total(<<1, 1, 2, 2, 2, 8, 2, 2, 4>>) = 24
  <2> DEFINE f == <<1, 1, 2, 2, 2, 8, 2, 2, 4>>
  <2>1. /\ f \in [1 .. 9 -> Nat] /\ f[1] = 1 /\ f[2] = 1 /\ f[3] = 2 /\ f[4] = 2
        /\ f[5] = 2 /\ f[6] = 8 /\ f[7] = 2 /\ f[8] = 2 /\ f[9] = 4
    OBVIOUS
  <2> HIDE DEF f
  <2>2. /\ Ends(f)[0] = 0 /\ Total(f) = Ends(f)[9]
        /\ \A k \in 1 .. 9 : Ends(f)[k] = Ends(f)[k - 1] + f[k]
    BY <2>1, EndsSums
  <2> DEFINE e == Ends(f)
  <2>3. /\ e[1] = e[0] + f[1] /\ e[2] = e[1] + f[2] /\ e[3] = e[2] + f[3]
        /\ e[4] = e[3] + f[4] /\ e[5] = e[4] + f[5] /\ e[6] = e[5] + f[6]
        /\ e[7] = e[6] + f[7] /\ e[8] = e[7] + f[8] /\ e[9] = e[8] + f[9]
    BY <2>2
  <2>4. Total(f) = 24
    <3> HIDE DEF e
    <3> QED BY <2>1, <2>2, <2>3 DEF e
  <2> QED BY <2>4 DEF f
<1> QED BY <1>1, <1>2, <1>3, <1>4

-----------------------------------------------------------------------------
(* The inductive invariant: what is written is of the devices got to; at   *)
(* the end that is all the walk gets to.                                   *)
Finished(s) ==
  Listed(s, Reach) \/ (which = "IVRS" /\ Behind = {} /\ s = <<AllDevices>>)

WalkInv ==
  /\ Machine
  /\ hosts \in SUBSET Hosts
  /\ Queue(hosts, todo)
  /\ \/ stage = "walk" /\ Listed(blob, VisitedOf(hosts, todo)) /\ lengths = << >>
     \/ stage = "done" /\ LengthsExact /\ Finished(blob)

(* As the machine does not change, the invariant can be established with   *)
(* what the devices are before the step.                                   *)
LEMMA WalkInvAfter ==
  ASSUME UNCHANGED machine, Machine,
         hosts' \in SUBSET Hosts, Queue(hosts', todo'),
         \/ stage' = "walk" /\ Listed(blob', VisitedOf(hosts', todo')) /\ lengths' = << >>
         \/ stage' = "done" /\ LengthsExact' /\ Finished(blob')
  PROVE  WalkInv'
<1>1. /\ Machine' /\ Devs' = Devs /\ Reach' = Reach /\ Behind' = Behind
      /\ Above' = Above /\ Host' = Host /\ \A d : Own(d)' = Own(d)
      /\ which' = which
  BY MachineUnchanged DEF machine
<1>2. Queue(hosts, todo)'
  BY <1>1 DEF Queue, Elements, Distinct
<1>3. VisitedOf(hosts, todo)' = VisitedOf(hosts', todo')
  BY <1>1 DEF VisitedOf, PendingOf, Elements
<1>4. ASSUME NEW D, Listed(blob', D)
      PROVE  /\ blob' \in Seq(Entry) /\ Distinct(blob)'
             /\ Elements(blob)' = UNION {Own(d)' : d \in D}
  <2>1. {Own(d)' : d \in D} = {Own(d) : d \in D}
    BY <1>1
  <2> QED BY <1>4, <2>1 DEF Listed, Elements, Distinct
<1>5. CASE stage' = "walk" /\ Listed(blob', VisitedOf(hosts', todo')) /\ lengths' = << >>
  <2>1. Listed(blob, VisitedOf(hosts, todo))'
    BY <1>3, <1>4, <1>5 DEF Listed, Entry, Names
  <2> QED BY <1>1, <1>2, <1>5, <2>1 DEF WalkInv
<1>6. CASE stage' = "done" /\ LengthsExact' /\ Finished(blob')
  <2>1. CASE Listed(blob', Reach)
    <3>1. Listed(blob, Reach)'
      BY <1>1, <1>4, <2>1 DEF Listed, Entry, Names
    <3>2. Finished(blob)'
      BY <3>1 DEF Finished
    <3> QED BY <1>1, <1>2, <1>6, <3>2 DEF WalkInv
  <2>2. CASE which = "IVRS" /\ Behind = {} /\ blob' = <<AllDevices>>
    <3>1. Finished(blob)'
      BY <1>1, <2>2 DEF Finished, AllDevices
    <3> QED BY <1>1, <1>2, <1>6, <3>1 DEF WalkInv
  <2> QED BY <1>6, <2>1, <2>2 DEF Finished
<1> QED BY <1>5, <1>6

(* The walk starts with nothing written and nothing left.                  *)
LEMMA WalkInit == ScopesInit => WalkInv
<1> SUFFICES ASSUME ScopesInit PROVE WalkInv
  OBVIOUS
<1>1. Machine /\ stage = "walk" /\ hosts = Hosts /\ todo = << >> /\ blob = << >> /\ lengths = << >>
  BY DEF ScopesInit
<1>2. Queue(Hosts, << >>)
  BY ShortDistinct DEF Queue
<1>3. VisitedOf(Hosts, << >>) = {}
  BY <1>1, AboveHost DEF VisitedOf, Reach, Behind
<1>4. Listed(<< >>, {})
  BY ShortDistinct DEF Listed
<1> QED BY <1>1, <1>2, <1>3, <1>4 DEF WalkInv

(* With nothing left, all the walk gets to has been got to.                *)
LEMMA AllVisited ==
  ASSUME Machine
  PROVE  VisitedOf({}, << >>) = Reach /\ Reach \subseteq Devs
  BY ShortDistinct DEF VisitedOf, PendingOf, Reach, Behind

(* Each step keeps the invariant.  A host bridge: its devices are left     *)
(* now.                                                                    *)
LEMMA WalkHostStep ==
  ASSUME WalkInv, NEW h \in Hosts, WalkHost(h)
  PROVE  WalkInv'
<1>1. /\ Machine /\ hosts \in SUBSET Hosts /\ Queue(hosts, << >>) /\ stage = "walk"
      /\ Listed(blob, VisitedOf(hosts, << >>)) /\ lengths = << >>
  BY DEF WalkInv, WalkHost
<1>2. /\ h \in hosts /\ hosts' = hosts \ {h}
      /\ todo' = (IF h \in bypass THEN << >> ELSE Children(h))
      /\ UNCHANGED machine /\ stage' = stage /\ blob' = blob /\ lengths' = lengths
  BY DEF WalkHost
<1> DEFINE k == hosts'  q == todo'
<1>3. Queue(hosts \ {h}, q) /\ VisitedOf(hosts \ {h}, q) = VisitedOf(hosts, << >>)
  <2> HIDE DEF q
  <2>1. q = (IF h \in bypass THEN << >> ELSE Children(h))
    BY <1>2 DEF q
  <2> QED BY <1>1, <1>2, <2>1, HostStep
<1>4. Queue(k, q) /\ Listed(blob', VisitedOf(k, q)) /\ k \in SUBSET Hosts
  BY <1>1, <1>2, <1>3
<1> QED BY <1>1, <1>2, <1>4, WalkInvAfter

(* A device: it is written, and what the walk finds below it is left.      *)
LEMMA InsertDeviceStep ==
  ASSUME WalkInv, InsertDevice
  PROVE  WalkInv'
<1> DEFINE d == Head(todo)  r == Onward(todo)  D == VisitedOf(hosts, todo)
<1>1. /\ Machine /\ hosts \in SUBSET Hosts /\ Queue(hosts, todo) /\ stage = "walk"
      /\ Listed(blob, D) /\ lengths = << >> /\ todo # << >>
  BY DEF WalkInv, InsertDevice
<1>2. /\ blob' = blob \o Written(d) /\ todo' = r
      /\ UNCHANGED machine /\ stage' = stage /\ hosts' = hosts /\ lengths' = lengths
  BY DEF InsertDevice, Written, Onward
<1>3. d \in Devs /\ d \notin D /\ Queue(hosts, r) /\ VisitedOf(hosts, r) = D \cup {d}
  BY <1>1, DeviceStep
<1>4. D \subseteq Devs
  BY DEF VisitedOf, Reach, Behind
<1>5. Listed(blob \o Written(d), D \cup {d})
  <2> HIDE DEF d, D
  <2> QED BY <1>1, <1>3, <1>4, ListedMore
<1>6. Queue(hosts', todo') /\ Listed(blob', VisitedOf(hosts', todo'))
  <2> HIDE DEF d, D, r
  <2> QED BY <1>2, <1>3, <1>5
<1> QED BY <1>1, <1>2, <1>6, WalkInvAfter

(* Nothing found means that no device is behind the IOMMU.                 *)
LEMMA NothingListed ==
  ASSUME Machine, Listed(<< >>, Reach)
  PROVE  Behind = {}
<1>1. \A d \in Reach : Own(d) # {}
  BY DEF Own
<1>2. UNION {Own(d) : d \in Reach} = {}
  BY ShortDistinct DEF Listed
<1>3. Reach = {}
  BY <1>1, <1>2
<1>4. Behind \subseteq Devs
  BY DEF Behind
<1> QED BY <1>3, <1>4, OneSpeaks DEF Speaks

(* The end: everything reached is written, and the lengths are right.      *)
LEMMA FinishDmarStep ==
  ASSUME WalkInv, FinishDmar
  PROVE  WalkInv'
<1>1. /\ Machine /\ hosts = {} /\ todo = << >> /\ Queue({}, << >>) /\ Listed(blob, Reach)
  BY AllVisited DEF WalkInv, FinishDmar
<1>2. UNCHANGED <<machine, hosts, todo, blob>> /\ stage' = "done"
  BY DEF FinishDmar
<1>3. Bytes(blob) \in Nat
  BY <1>1, BytesNat DEF Listed
<1> DEFINE n == Bytes(blob)
           unit == Total(<<2, 2, 1, 1, 2, 8>>) + Total(<<1, 1, 2, 1, 1, 1, 1>>) + n
           found == <<Length(16 + 8 + n, unit), Length(8, Total(<<1, 1, 2, 1, 1, 1, 1>>))>>
           atsr == Length(8, Total(<<2, 2, 1, 1, 2>>))
<1>4. lengths' = found \/ lengths' = Append(found, atsr)
  BY DEF FinishDmar
<1>5. /\ unit = 16 + 8 + n /\ found = <<Length(16 + 8 + n, 16 + 8 + n), Length(8, 8)>>
      /\ atsr = Length(8, 8)
  <2> HIDE DEF n
  <2> QED BY <1>3, FieldWidths DEF n
<1>6. LengthsExact'
  <2> DEFINE Z == {Length(16 + 8 + n, 16 + 8 + n), Length(8, 8)}
  <2>1. found \in Seq(Z) /\ atsr \in Z
    BY <1>5
  <2>2. lengths' \in Seq(Z)
    <3> HIDE DEF Z, found, atsr
    <3> QED BY <1>4, <2>1
  <2>3. \A x \in Z : x.stated = x.bytes
    BY DEF Length
  <2>4. \A p \in 1 .. Len(lengths') : lengths'[p] \in Z
    <3> HIDE DEF Z
    <3> QED BY <2>2
  <2> HIDE DEF Z
  <2> QED BY <2>3, <2>4 DEF LengthsExact
<1>7. /\ hosts' \in SUBSET Hosts /\ Queue(hosts', todo') /\ Finished(blob')
      /\ UNCHANGED machine
  BY <1>1, <1>2 DEF Finished
<1> QED BY <1>1, <1>2, <1>6, <1>7, WalkInvAfter

(* With no entry there is one for all devices, and none is behind the      *)
(* IOMMU.                                                                  *)
LEMMA FinishIvrsStep ==
  ASSUME WalkInv, FinishIvrs
  PROVE  WalkInv'
<1>1. /\ Machine /\ hosts = {} /\ todo = << >> /\ Queue({}, << >>) /\ Listed(blob, Reach)
      /\ which = "IVRS"
  BY AllVisited DEF WalkInv, FinishIvrs
<1>2. /\ UNCHANGED machine /\ hosts' = hosts /\ todo' = todo /\ stage' = "done"
      /\ blob' = (IF blob = << >> THEN <<AllDevices>> ELSE blob)
  BY DEF FinishIvrs
<1>3. Finished(blob') /\ Bytes(blob') \in Nat
  <2>1. CASE blob = << >>
    <3>1. Behind = {} /\ blob' = <<AllDevices>>
      BY <1>1, <1>2, <2>1, NothingListed
    <3> QED BY <1>1, <3>1, BytesNat DEF Finished
  <2>2. CASE blob # << >>
    <3>1. blob' = blob /\ blob \in Seq(Entry)
      BY <1>1, <1>2, <2>2 DEF Listed
    <3> QED BY <1>1, <3>1, BytesNat DEF Finished
  <2> QED BY <2>1, <2>2
<1> DEFINE n == Bytes(blob')
<1>4. \E ir \in BOOLEAN :
        lengths' = <<Length(24 + n + (IF ir THEN 8 ELSE 0),
                            Total(<<1, 1, 2, 2, 2, 8, 2, 2, 4>>) + n + (IF ir THEN 8 ELSE 0))>>
  BY DEF FinishIvrs, IvhdLength
<1>5. PICK m : lengths' = <<Length(m, m)>>
  BY <1>4, FieldWidths
<1>6. LengthsExact'
  <2>1. \A p \in 1 .. Len(lengths') : lengths'[p] = Length(m, m)
    BY <1>5
  <2> QED BY <2>1 DEF LengthsExact, Length
<1>7. hosts' \in SUBSET Hosts /\ Queue(hosts', todo')
  BY <1>1, <1>2
<1> QED BY <1>1, <1>2, <1>3, <1>6, <1>7, WalkInvAfter

(* The invariant is inductive.                                             *)
LEMMA WalkStep == WalkInv /\ [ScopesNext]_scopeVars => WalkInv'
<1> SUFFICES ASSUME WalkInv, [ScopesNext]_scopeVars PROVE WalkInv'
  OBVIOUS
<1>1. ASSUME NEW h \in Hosts, WalkHost(h) PROVE WalkInv'
  BY <1>1, WalkHostStep
<1>2. CASE InsertDevice
  BY <1>2, InsertDeviceStep
<1>3. CASE FinishDmar
  BY <1>3, FinishDmarStep
<1>4. CASE FinishIvrs
  BY <1>4, FinishIvrsStep
<1>5. CASE UNCHANGED scopeVars
  <2>1. UNCHANGED <<machine, stage, hosts, todo, blob, lengths>>
    BY <1>5 DEF scopeVars
  <2>2. LengthsExact' = LengthsExact
    BY <2>1 DEF LengthsExact
  <2> QED BY <2>1, <2>2, WalkInvAfter DEF WalkInv
<1> QED BY <1>1, <1>2, <1>3, <1>4, <1>5 DEF ScopesNext

(* It holds in all behaviours.                                             *)
LEMMA WalkAlways == ScopesSpec => []WalkInv
  BY WalkInit, WalkStep, PTL DEF ScopesSpec

-----------------------------------------------------------------------------
(* An entry of a list is one of some device's, at one place.               *)
LEMMA ListedEntry ==
  ASSUME NEW s, NEW D, Listed(s, D)
  PROVE  /\ Len(s) \in Nat
         /\ \A k \in 1 .. Len(s) : \E r \in D : s[k] \in Own(r)
         /\ \A r \in D : \A e \in Own(r) : \E k \in 1 .. Len(s) : s[k] = e
         /\ \A k, l \in 1 .. Len(s) : s[k] = s[l] => k = l
<1>1. Len(s) \in Nat
  BY DEF Listed
<1>2. \A k, l \in 1 .. Len(s) : s[k] = s[l] => k = l
  BY DEF Listed, Distinct
<1>3. {s[k] : k \in 1 .. Len(s)} = UNION {Own(r) : r \in D}
  BY DEF Listed, Elements
<1>4. ASSUME NEW k \in 1 .. Len(s) PROVE \E r \in D : s[k] \in Own(r)
  <2>1. s[k] \in UNION {Own(r) : r \in D}
    BY <1>3
  <2> QED BY <2>1
<1>5. ASSUME NEW r \in D, NEW e \in Own(r) PROVE \E k \in 1 .. Len(s) : s[k] = e
  <2>1. e \in {s[k] : k \in 1 .. Len(s)}
    BY <1>3
  <2> QED BY <2>1
<1> QED BY <1>1, <1>2, <1>4, <1>5

(* IVRS: a device behind the IOMMU is covered by one entry, which the      *)
(* device that speaks for it wrote; others by none.                        *)
LEMMA CoveredOnce ==
  ASSUME Machine, which = "IVRS", Listed(blob, Reach), NEW d \in Devs
  PROVE  /\ d \in Behind => \E k : CoveredBy(d) = {k}
         /\ d \notin Behind => CoveredBy(d) = {}
         /\ \A k \in CoveredBy(d) : \E r \in Devs : Speaks(r, d) /\ blob[k] = Covering(r, d)
<1>1. Reach \subseteq Devs
  BY DEF Reach, Behind
<1>2. /\ \A k \in 1 .. Len(blob) : \E r \in Reach : blob[k] \in Own(r)
      /\ \A r \in Reach : \A e \in Own(r) : \E k \in 1 .. Len(blob) : blob[k] = e
      /\ \A k, l \in 1 .. Len(blob) : blob[k] = blob[l] => k = l
  BY ListedEntry
<1>3. ASSUME NEW k \in CoveredBy(d)
      PROVE  \E r \in Devs : Speaks(r, d) /\ blob[k] = Covering(r, d)
  <2>1. k \in 1 .. Len(blob)
    BY <1>3 DEF CoveredBy
  <2>2. PICK r \in Reach : blob[k] \in Own(r)
    BY <1>2, <2>1
  <2>3. r \in Devs /\ blob[k].is # "all"
    BY <1>1, <2>2, OwnEntries
  <2>4. blob[k].from <= DevId(d) /\ DevId(d) <= blob[k].to
    BY <1>3, <2>3 DEF CoveredBy
  <2> QED BY <2>2, <2>3, <2>4, OwnCovers
<1>4. ASSUME d \in Behind PROVE \E k : CoveredBy(d) = {k}
  <2>1. PICK r \in Devs : Speaks(r, d)
    BY <1>4, OneSpeaks
  <2>2. r \in Reach /\ Covering(r, d) \in Own(r)
    BY <2>1, OwnCovers DEF Speaks
  <2>3. PICK k \in 1 .. Len(blob) : blob[k] = Covering(r, d)
    BY <1>2, <2>2
  <2>4. k \in CoveredBy(d)
    BY <2>1, <2>2, <2>3, OwnCovers DEF CoveredBy
  <2>5. ASSUME NEW l \in CoveredBy(d) PROVE l = k
    <3>1. l \in 1 .. Len(blob)
      BY DEF CoveredBy
    <3>2. PICK s \in Devs : Speaks(s, d) /\ blob[l] = Covering(s, d)
      BY <1>3
    <3>3. s = r
      BY <2>1, <3>2, OneSpeaks
    <3> QED BY <1>2, <2>3, <3>1, <3>2, <3>3
  <2> QED BY <2>4, <2>5
<1>5. d \notin Behind => CoveredBy(d) = {}
  BY <1>3, OneSpeaks
<1> QED BY <1>3, <1>4, <1>5

(* DMAR: the scopes that speak for a device.                               *)
Scopes(d) ==
  {k \in 1 .. Len(blob) :
     \/ blob[k].for = DevId(d)
     \/ blob[k].is = "bridge" /\ \E b \in Above[d] : blob[k].for = DevId(b)}

(* One scope speaks for a device behind the IOMMU, none for others.        *)
LEMMA ScopedOnce ==
  ASSUME Machine, which = "DMAR", Listed(blob, Reach), NEW d \in Devs
  PROVE  /\ d \in Behind => \E k : Scopes(d) = {k}
         /\ d \notin Behind => Scopes(d) = {}
<1>1. /\ Reach \subseteq Devs
      /\ \A a \in Above[d] : a \in Devs /\ Bridge(a)
  BY AboveSmaller DEF Reach, Behind
<1>2. \A r \in Reach : Own(r) = {Scope(r)} /\ Scope(r).for = DevId(r)
                       /\ (Scope(r).is = "bridge" <=> Bridge(r))
  BY DEF Own, Scope
<1>3. /\ \A k \in 1 .. Len(blob) : \E r \in Reach : blob[k] = Scope(r)
      /\ \A r \in Reach : \E k \in 1 .. Len(blob) : blob[k] = Scope(r)
      /\ \A k, l \in 1 .. Len(blob) : blob[k] = blob[l] => k = l
  <2>1. /\ \A k \in 1 .. Len(blob) : \E r \in Reach : blob[k] \in Own(r)
        /\ \A r \in Reach : \A e \in Own(r) : \E k \in 1 .. Len(blob) : blob[k] = e
        /\ \A k, l \in 1 .. Len(blob) : blob[k] = blob[l] => k = l
    BY ListedEntry
  <2>2. \A r \in Reach : \A e : e \in Own(r) <=> e = Scope(r)
    BY <1>2
  <2>3. \A k \in 1 .. Len(blob) : \E r \in Reach : blob[k] = Scope(r)
    BY <2>1, <2>2
  <2>4. ASSUME NEW r \in Reach PROVE \E k \in 1 .. Len(blob) : blob[k] = Scope(r)
    <3>1. Scope(r) \in Own(r)
      BY <2>2
    <3> QED BY <2>1, <3>1
  <2> QED BY <2>1, <2>3, <2>4
<1>4. \A r \in Reach : Speaks(r, d) <=> (r = d \/ r \in Above[d])
  BY DEF Speaks, Enters
<1>5. \A b, c \in Devs : DevId(b) = DevId(c) => b = c
  BY IdsDiffer
<1>6. ASSUME NEW k \in 1 .. Len(blob), NEW r \in Reach, blob[k] = Scope(r)
      PROVE  k \in Scopes(d) <=> Speaks(r, d)
  <2>1. blob[k].for = DevId(r) /\ (blob[k].is = "bridge" <=> Bridge(r)) /\ r \in Devs
    BY <1>1, <1>2, <1>6
  <2>2. k \in Scopes(d) <=>
          (DevId(r) = DevId(d) \/ (Bridge(r) /\ \E b \in Above[d] : DevId(r) = DevId(b)))
    BY <2>1 DEF Scopes
  <2>3. (\E b \in Above[d] : DevId(r) = DevId(b)) <=> r \in Above[d]
    BY <1>1, <1>5, <2>1
  <2> QED BY <1>1, <1>4, <1>5, <2>1, <2>2, <2>3
<1>7. ASSUME d \in Behind PROVE \E k : Scopes(d) = {k}
  <2>1. PICK r \in Devs : Speaks(r, d)
    BY <1>7, OneSpeaks
  <2>2. PICK k \in 1 .. Len(blob) : r \in Reach /\ blob[k] = Scope(r)
    BY <1>3, <2>1 DEF Speaks
  <2>3. ASSUME NEW l \in Scopes(d) PROVE l = k
    <3>1. l \in 1 .. Len(blob)
      BY DEF Scopes
    <3>2. PICK s \in Reach : blob[l] = Scope(s)
      BY <1>3, <3>1
    <3>3. Speaks(s, d) /\ s \in Devs
      BY <1>1, <1>6, <3>1, <3>2
    <3>4. s = r
      BY <2>1, <3>3, OneSpeaks
    <3> QED BY <1>3, <2>2, <3>1, <3>2, <3>4
  <2>4. k \in Scopes(d)
    BY <1>6, <2>1, <2>2
  <2> QED BY <2>3, <2>4
<1>8. ASSUME d \notin Behind PROVE Scopes(d) = {}
  <2>1. ASSUME NEW l \in Scopes(d) PROVE FALSE
    <3>1. l \in 1 .. Len(blob)
      BY DEF Scopes
    <3>2. PICK s \in Reach : blob[l] = Scope(s)
      BY <1>3, <3>1
    <3>3. Speaks(s, d) /\ s \in Devs
      BY <1>1, <1>6, <3>1, <3>2
    <3> QED BY <1>8, <3>3, OneSpeaks
  <2> QED BY <2>1
<1> QED BY <1>7, <1>8

(* The invariant says what DevicesCovered does.                            *)
LEMMA Covered == WalkInv => DevicesCovered
<1> SUFFICES ASSUME WalkInv PROVE DevicesCovered
  OBVIOUS
<1>1. /\ Machine /\ hosts \in SUBSET Hosts /\ Queue(hosts, todo)
      /\ \/ stage = "walk" /\ Listed(blob, VisitedOf(hosts, todo)) /\ lengths = << >>
         \/ stage = "done" /\ LengthsExact /\ Finished(blob)
  BY DEF WalkInv
<1>2. ScopesTypeOK
  <2>1. \A k \in 1 .. Len(todo) : todo[k] \in Devs
    BY <1>1 DEF Queue
  <2>2. bypass \subseteq Hosts /\ which \in {"DMAR", "IVRS"}
    BY <1>1, MachineFacts
  <2>3. ASSUME NEW D \in SUBSET Devs, Listed(blob, D), NEW k \in 1 .. Len(blob)
        PROVE  /\ blob[k].is \in {"bridge", "endpoint"} <=> which = "DMAR"
               /\ blob[k].from <= blob[k].to
    <3>1. PICK r \in D : blob[k] \in Own(r)
      BY <2>3, ListedEntry
    <3> QED BY <1>1, <3>1, OwnEntries
  <2>4. ASSUME blob = <<AllDevices>>, which = "IVRS", NEW k \in 1 .. Len(blob)
        PROVE  /\ blob[k].is \in {"bridge", "endpoint"} <=> which = "DMAR"
               /\ blob[k].from <= blob[k].to
    <3>1. blob[k] = AllDevices
      BY <2>4
    <3> QED BY <2>4, <3>1 DEF AllDevices
  <2>5. VisitedOf(hosts, todo) \subseteq Devs /\ Reach \subseteq Devs
    BY DEF VisitedOf, Reach, Behind
  <2>6. \A k \in 1 .. Len(blob) :
          /\ blob[k].is \in {"bridge", "endpoint"} <=> which = "DMAR"
          /\ blob[k].from <= blob[k].to
    BY <1>1, <2>3, <2>4, <2>5 DEF Finished
  <2> QED BY <1>1, <2>1, <2>2, <2>6 DEF ScopesTypeOK
<1>3. EntriesComplete
  <2> SUFFICES ASSUME stage = "done", which = "IVRS", NEW d \in Behind
               PROVE  Cardinality(CoveredBy(d)) = 1
    BY DEF EntriesComplete
  <2>1. Listed(blob, Reach) /\ d \in Devs
    BY <1>1 DEF Finished, Behind
  <2>2. PICK k : CoveredBy(d) = {k}
    BY <1>1, <2>1, CoveredOnce
  <2> QED BY <2>2, FS_Singleton
<1>4. BypassLeftOut
  <2> SUFFICES ASSUME stage = "done", which = "IVRS", Behind # {}, NEW d \in Devs \ Behind
               PROVE  CoveredBy(d) = {}
    BY DEF BypassLeftOut
  <2> QED BY <1>1, CoveredOnce DEF Finished
<1>5. ScopesComplete
  <2> SUFFICES ASSUME stage = "done", which = "DMAR", NEW d \in Devs
               PROVE  Cardinality(Scopes(d)) = IF d \in Behind THEN 1 ELSE 0
    BY DEF ScopesComplete, Scopes
  <2>1. Listed(blob, Reach)
    BY <1>1 DEF Finished
  <2>2. CASE d \in Behind
    <3>1. PICK k : Scopes(d) = {k}
      BY <1>1, <2>1, <2>2, ScopedOnce
    <3> QED BY <2>2, <3>1, FS_Singleton
  <2>3. CASE d \notin Behind
    <3>1. Scopes(d) = {}
      BY <1>1, <2>1, <2>3, ScopedOnce
    <3> QED BY <2>3, <3>1, FS_EmptySet
  <2> QED BY <2>2, <2>3
<1>6. LengthsExact
  BY <1>1 DEF LengthsExact
<1> QED BY <1>2, <1>3, <1>4, <1>5, <1>6 DEF DevicesCovered

(* DevicesCovered: whatever the hierarchy, the tables tell of each device  *)
(* behind the IOMMU exactly once, of no other device unless none is behind *)
(* it, and every structure is as long as it says.                          *)
THEOREM DevicesCoveredCorrect == ScopesSpec => []DevicesCovered
  BY WalkAlways, Covered, PTL

(* The entry a device is in gives the id its requests carry.               *)
LEMMA RequesterOf ==
  ASSUME Machine, which = "IVRS", NEW d \in Devs, NEW r \in Devs, Speaks(r, d)
  PROVE  Requester(d) =
           (IF Covering(r, d).is = "alias" THEN Covering(r, d).for ELSE DevId(d))
<1> DEFINE conventional == {b \in Above[d] : ~Express(b)}
<1>1. /\ \A x \in Devs : x \in Nat
      /\ \A a \in Above[d] : a \in Devs /\ Bridge(a) /\ Above[a] \subseteq Above[d]
      /\ \A a, c \in Above[d] : a < c => a \in Above[c]
      /\ \A b \in Above[r] : b \in Devs /\ b < r
  BY MachineFacts, AboveSmaller, AboveTransitive, AboveChain
<1>2. \A b \in Above[r] : Express(b)
  BY DEF Speaks, Reach, Enters
<1>3. conventional = {} => Requester(d) = DevId(d)
  BY DEF Requester
<1>4. CASE r = d
  <2>1. conventional = {}
    BY <1>2, <1>4
  <2>2. Covering(r, d).is = "select"
    BY <1>4 DEF Covering, Select
  <2> QED BY <1>3, <2>1, <2>2
<1>5. CASE r # d
  <2>1. r \in Above[d] /\ ~Enters(r) /\ Bridge(r) /\ Covering(r, d) = Interval(r)
    BY <1>1, <1>5 DEF Speaks, Covering
  <2>2. CASE Express(r)
    <3>1. Sec(r) = Sub(r)
      BY <2>1, <2>2 DEF Enters
    <3>2. ASSUME NEW b \in conventional PROVE FALSE
      <4>1. b \in Above[d] /\ b # r /\ b \notin Above[r] /\ b \in Devs /\ Bridge(b)
        BY <1>1, <1>2, <2>2
      <4>2. r \in Above[b]
        <5>1. b \in Nat /\ r \in Nat
          BY <1>1, <4>1
        <5>2. b < r \/ r < b
          BY <4>1, <5>1
        <5> QED BY <1>1, <2>1, <4>1, <5>2
      <4>3. Sec(r) < Sec(b) /\ Sub(b) <= Sub(r)
        BY <4>1, <4>2, BusesNested
      <4>4. /\ Sec(b) \in Nat /\ Sub(b) \in Nat /\ Sec(b) <= Sub(b)
            /\ Sec(r) \in Nat /\ Sub(r) \in Nat
        BY <2>1, <4>1, BusesInOrder
      <4> QED BY <3>1, <4>3, <4>4
    <3>3. Covering(r, d).is = "range"
      BY <2>1, <2>2 DEF Interval, Leaf
    <3> QED BY <1>3, <3>2, <3>3
  <2>3. CASE ~Express(r)
    <3> DEFINE Outermost(c) == Above[c] \cap conventional = {}
    <3>1. r \in conventional /\ Outermost(r)
      BY <1>2, <2>1, <2>3
    <3>2. ASSUME NEW c \in conventional, Outermost(c) PROVE c = r
      <4>1. c \in Above[d] /\ c \in Devs /\ c \notin Above[r] /\ r \notin Above[c]
        BY <1>1, <3>1, <3>2
      <4>2. ~(c < r) /\ ~(r < c)
        BY <1>1, <2>1, <4>1
      <4>3. c \in Nat /\ r \in Nat
        BY <1>1, <4>1
      <4> QED BY <4>2, <4>3
    <3>3. (CHOOSE c \in conventional : Outermost(c)) = r
      <4> HIDE DEF conventional, Outermost
      <4> QED BY <3>1, <3>2
    <3>4. Requester(d) = (IF kind[r] = "topci" THEN Bdf(Sec(r), 0) ELSE DevId(r))
      BY <3>1, <3>3 DEF Requester
    <3>5. /\ Covering(r, d).is = "alias"
          /\ Covering(r, d).for = (IF kind[r] = "topci" THEN Bdf(Sec(r), 0) ELSE DevId(r))
      BY <2>1, <2>3 DEF Interval, Alias
    <3> QED BY <3>4, <3>5
  <2> QED BY <2>2, <2>3
<1> QED BY <1>4, <1>5

(* The invariant says what RequestersNamed does.                           *)
LEMMA Named == WalkInv => RequestersNamed
<1> SUFFICES ASSUME WalkInv, stage = "done", which = "IVRS", NEW d \in Behind,
                    NEW k \in CoveredBy(d)
             PROVE  Requester(d) = (IF blob[k].is = "alias" THEN blob[k].for ELSE DevId(d))
  BY DEF RequestersNamed
<1>1. Machine /\ Listed(blob, Reach) /\ d \in Devs
  BY DEF WalkInv, Finished, Behind
<1>2. PICK r \in Devs : Speaks(r, d) /\ blob[k] = Covering(r, d)
  BY <1>1, CoveredOnce
<1> QED BY <1>1, <1>2, RequesterOf

(* RequestersNamed: the entry that covers a device names the id its        *)
(* requests carry, whatever bridges are above the device.                  *)
THEOREM RequestersCorrect == ScopesSpec => []RequestersNamed
  BY WalkAlways, Named, PTL
=============================================================================
