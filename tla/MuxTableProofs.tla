--------------------------- MODULE MuxTableProofs ---------------------------
(***************************************************************************)
(* Theorems about MuxTable, and about EchoLine, which adds measurements to *)
(* it: for every table, any number of devices and programs, both drivers.  *)
(***************************************************************************)
EXTENDS EchoLine, TLAPS

(* The parts of a pin.                                                     *)

LEMMA PartOfPin ==
  ASSUME NEW n \in Pins, NEW stage \in Stages
  PROVE  Part(stage, n) \subseteq AllParts(n) /\ AllParts(n) \subseteq Gpios
<1>1. AllParts(n) \subseteq Gpios
  BY DEF AllParts, Gpios
<1> QED
  BY <1>1 DEF Part, AllParts, Stages

\* The gpios of a pin that are not in one of the parts are in the others.
LEMMA PartsOfPin ==
  ASSUME NEW n, NEW g \in AllParts(n)
  PROVE  \E stage \in Stages : g \in Part(stage, n)
  BY DEF AllParts, Part, Stages

LEMMA PartsDisjoint ==
  ASSUME NEW n \in Pins, NEW s \in Stages, NEW t \in Stages, s /= t
  PROVE  Part(s, n) \cap Part(t, n) = {}
<1>1. /\ GpioPin[n] /= DirectionPin[n]
      /\ GpioPin[n] \notin FunctionPins[n]
      /\ DirectionPin[n] \notin FunctionPins[n]
  BY MuxAssumption
<1> QED
  BY <1>1 DEF Part, Stages

LEMMA LevelType ==
  ASSUME NEW stage, NEW f
  PROVE  Level(stage, f) \in {"in", "0", "1"}
  BY DEF Level

LEMMA AfterType ==
  ASSUME NEW stage \in Stages
  PROVE  After(stage) \in Stages \cup {"set"}
  BY DEF After, Stages

-----------------------------------------------------------------------------
(* Types.                                                                  *)

Labels == {"idle", "check_echo", "check_trigger", "read_back", "find", "claim",
           "set", "store"} \cup Stages

Holding(p) == pc[p] \in Stages \cup {"claim", "set"}

LEMMA NoCallType == NoCall \in CallOK
<1>1. [f \in Functions |-> 0] \in [Functions -> AskedPins]
  BY MuxAssumption
<1>2. [f \in Functions |-> 0] \in [Functions -> Int]
  OBVIOUS
<1>3. 1 \in Devices
  BY MuxAssumption DEF Devices
<1> QED
  BY <1>1, <1>2, <1>3 DEF NoCall, CallOK, Functions

LEMMA InitType == Init => TypeOK
<1> SUFFICES ASSUME Init PROVE TypeOK
  OBVIOUS
<1>1. 1 \in Devices /\ 0 \in AskedPins
  BY MuxAssumption DEF Devices
<1>2. exit \in ExitOK
  BY <1>1 DEF Init, ExitOK, Functions
<1>3. call \in [Programs -> CallOK]
  BY NoCallType DEF Init
<1>4. calls \in Seq(Devices)
  BY DEF Init
<1>5. \A p \in Programs : pc[p] = "idle"
  BY DEF Init
<1> QED
  BY <1>1, <1>2, <1>3, <1>4, <1>5 DEF Init, TypeOK, Stages

\* What a step on a program's call leaves to show.
LEMMA EntryUnchanged ==
  ASSUME NEW p, UNCHANGED call
  PROVE  Entry(p)' = Entry(p)
  BY DEF Entry

\* A program's step that only moves its pc to a label without a claimed pin, or
\* keeps its entry.
LEMMA GotoType ==
  ASSUME TypeOK, NEW p \in Programs, NEW label \in Labels, Goto(p, label),
         UNCHANGED call,
         label \in Stages \cup {"claim", "set"} => Entry(p) \in Entries
  PROVE  /\ pc' \in [Programs -> Labels]
         /\ \A q \in Programs : Holding(q)' => Entry(q)' \in Entries
<1>1. pc' = [pc EXCEPT ![p] = label]
  BY DEF Goto
<1>2. pc \in [Programs -> Labels]
  BY DEF TypeOK, Labels
<1>3. ASSUME NEW q \in Programs, Holding(q)'
      PROVE  Entry(q)' \in Entries
  <2>1. Entry(q)' = Entry(q)
    BY DEF Entry
  <2>2. CASE q = p
    BY <1>1, <1>2, <1>3, <2>1, <2>2 DEF Holding
  <2>3. CASE q /= p
    BY <1>1, <1>2, <1>3, <2>1, <2>3 DEF Holding, TypeOK
  <2> QED
    BY <2>2, <2>3
<1> QED
  BY <1>1, <1>2, <1>3

\* ... or gets a new call.
LEMMA CallType ==
  ASSUME TypeOK, NEW p \in Programs, NEW label \in Labels, NEW new \in CallOK,
         Goto(p, label), call' = [call EXCEPT ![p] = new],
         label \notin Stages \cup {"claim", "set"}
  PROVE  /\ pc' \in [Programs -> Labels]
         /\ call' \in [Programs -> CallOK]
         /\ \A q \in Programs : Holding(q)' => Entry(q)' \in Entries
<1>1. pc' = [pc EXCEPT ![p] = label]
  BY DEF Goto
<1>2. pc \in [Programs -> Labels] /\ call \in [Programs -> CallOK]
  BY DEF TypeOK, Labels
<1>3. ASSUME NEW q \in Programs, Holding(q)'
      PROVE  Entry(q)' \in Entries
  <2>1. q /= p
    BY <1>1, <1>2, <1>3 DEF Holding
  <2>2. call'[q] = call[q] /\ pc'[q] = pc[q]
    BY <1>1, <1>2, <2>1
  <2>3. Entry(q)' = Entry(q)
    BY <2>2 DEF Entry
  <2> QED
    BY <1>3, <2>2, <2>3 DEF Holding, TypeOK
<1> QED
  BY <1>1, <1>2, <1>3

\* Returned is such a step.
LEMMA ReturnedType ==
  ASSUME TypeOK, NEW p \in Programs, NEW result \in Int, Returned(p, result)
  PROVE  /\ pc' \in [Programs -> Labels]
         /\ call' \in [Programs -> CallOK]
         /\ \A q \in Programs : Holding(q)' => Entry(q)' \in Entries
<1> DEFINE f     == call[p].func
           more  == call[p].kind = "ioctl" /\ f = "input"
           new   == [call[p] EXCEPT !.gpio[f] = result,
                                    !.func = IF more THEN "output" ELSE f]
           label == IF more THEN "find" ELSE "store"
<1>1. call \in [Programs -> CallOK] /\ call[p] \in CallOK /\ f \in Functions
  BY DEF TypeOK, CallOK
<1>2. new \in CallOK
  <2>1. [call[p].gpio EXCEPT ![f] = result] \in [Functions -> Int]
    BY <1>1 DEF CallOK
  <2>2. (IF more THEN "output" ELSE f) \in Functions
    BY <1>1 DEF Functions
  <2> QED
    BY <1>1, <2>1, <2>2 DEF CallOK
<1>3. call' = [call EXCEPT ![p] = new]
  BY <1>1 DEF Returned
<1>4. Goto(p, label) /\ label \in Labels /\ label \notin Stages \cup {"claim", "set"}
  BY DEF Returned, Labels, Stages
<1> HIDE DEF new, label
<1> QED
  BY <1>2, <1>3, <1>4, CallType

\* The programs' part of TypeOK, as the lemmas above give it.
ProgramsOK ==
  /\ pc \in [Programs -> Labels]
  /\ call \in [Programs -> CallOK]
  /\ \A q \in Programs : Holding(q) => Entry(q) \in Entries

LEMMA ProgramsUnchanged ==
  ASSUME TypeOK, UNCHANGED programs
  PROVE  ProgramsOK'
<1>1. \A q \in Programs : Entry(q)' = Entry(q) /\ pc'[q] = pc[q]
  BY DEF programs, Entry
<1> QED
  BY <1>1 DEF ProgramsOK, TypeOK, Labels, programs, Holding

LEMMA BeginType ==
  ASSUME TypeOK, NEW p, NEW d \in Devices, NEW kind, NEW f, NEW label,
         Begin(p, d, kind, f, label)
  PROVE  calls' \in Seq(Devices)
  BY DEF TypeOK, Begin

LEMMA ConfigureType ==
  ASSUME TypeOK, NEW p \in Programs, Configure(p)
  PROVE  TypeOK'
<1> USE DEF history, table, device
<1>0. call \in [Programs -> CallOK] /\ call[p] \in CallOK
  BY DEF TypeOK
<1>1. CASE CheckEcho(p)
  <2>1. ProgramsOK'
    BY <1>1, GotoType DEF CheckEcho, ProgramsOK, TypeOK, Labels, Stages
  <2> QED
    BY <1>1, <2>1 DEF CheckEcho, TypeOK, ProgramsOK, Labels, Holding
<1>2. CASE CheckTrigger(p)
  <2>1. ProgramsOK'
    BY <1>2, GotoType DEF CheckTrigger, ProgramsOK, TypeOK, Labels, Stages
  <2> QED
    BY <1>2, <2>1 DEF CheckTrigger, TypeOK, ProgramsOK, Labels, Holding
<1>3. CASE ReadBack(p)
  <2> DEFINE f   == call[p].func
             new == [call[p] EXCEPT !.pin[f] = pin[call[p].device][f]]
  <2>1. f \in Functions /\ call[p].device \in Devices
    BY <1>0 DEF CallOK
  <2>2. pin[call[p].device][f] \in AskedPins
    BY <2>1 DEF TypeOK
  <2>3. new \in CallOK
    <3>1. [call[p].pin EXCEPT ![f] = pin[call[p].device][f]]
            \in [Functions -> AskedPins]
      BY <1>0, <2>1, <2>2 DEF CallOK
    <3> QED
      BY <1>0, <3>1 DEF CallOK
  <2>4. call' = [call EXCEPT ![p] = new]
    BY <1>0, <1>3 DEF ReadBack
  <2>5. Goto(p, "find") /\ "find" \in Labels
        /\ "find" \notin Stages \cup {"claim", "set"}
    BY <1>3 DEF ReadBack, Labels, Stages
  <2>6. ProgramsOK'
    <3> HIDE DEF new
    <3> QED
      BY <2>3, <2>4, <2>5, CallType DEF ProgramsOK
  <2> QED
    BY <1>3, <2>6 DEF ReadBack, TypeOK, ProgramsOK, Labels, Holding
<1>4. CASE FindPin(p)
  <2>1. CASE IsFree(Entry(p)[1], Entry(p)[2])
    <3>1. Entry(p) \in Entries
      BY <2>1 DEF IsFree, Entry
    <3>2. Goto(p, "claim") /\ UNCHANGED call
      BY <1>4, <2>1 DEF FindPin
    <3>3. ProgramsOK'
      BY <3>1, <3>2, GotoType DEF ProgramsOK, TypeOK, Labels
    <3> QED
      BY <1>4, <3>3 DEF FindPin, TypeOK, ProgramsOK, Labels, Holding
  <2>2. CASE ~ IsFree(Entry(p)[1], Entry(p)[2])
    <3>1. Returned(p, - EINVAL) /\ - EINVAL \in Int
      BY <1>4, <2>2 DEF FindPin, EINVAL
    <3>2. ProgramsOK'
      BY <3>1, ReturnedType DEF ProgramsOK
    <3> QED
      BY <1>4, <3>2 DEF FindPin, TypeOK, ProgramsOK, Labels, Holding
  <2> QED
    BY <2>1, <2>2
<1>5. CASE ClaimPin(p)
  <2>1. Entry(p) \in Entries
    BY <1>5 DEF ClaimPin, TypeOK
  <2>2. Goto(p, "gpio") /\ UNCHANGED call
    BY <1>5 DEF ClaimPin
  <2>3. ProgramsOK'
    BY <2>1, <2>2, GotoType DEF ProgramsOK, TypeOK, Labels, Stages
  <2>4. is_in_use' \in [Entries -> BOOLEAN]
    BY <1>5 DEF ClaimPin, TypeOK
  <2>5. touched' \in [Gpios -> Nat]
    BY <1>5 DEF ClaimPin, TypeOK
  <2> QED
    BY <1>5, <2>3, <2>4, <2>5 DEF ClaimPin, TypeOK, ProgramsOK, Labels, Holding
<1>6. CASE SetUp(p)
  <2> DEFINE part == Part(pc[p], Entry(p)[1])
  <2>1. pc[p] \in Stages /\ Entry(p) \in Entries
    BY <1>6 DEF SetUp, TypeOK
  <2>2. Goto(p, After(pc[p])) /\ UNCHANGED call
    BY <1>6 DEF SetUp
  <2>3. After(pc[p]) \in Stages \cup {"set"}
    BY <2>1, AfterType
  <2>4. ProgramsOK'
    BY <2>1, <2>2, <2>3, GotoType DEF ProgramsOK, TypeOK, Labels
  <2>5. requested' \subseteq Gpios
    <3>1. part \subseteq Gpios
      BY <2>1, PartOfPin DEF Entries
    <3> QED
      BY <1>6, <3>1 DEF SetUp, TypeOK
  <2>6. line' \in [Gpios -> {"in", "0", "1"}]
    BY <1>6, LevelType DEF SetUp, TypeOK
  <2> QED
    BY <1>6, <2>4, <2>5, <2>6 DEF SetUp, TypeOK, ProgramsOK, Labels, Holding
<1>7. CASE PinIsSet(p)
  <2>1. Entry(p) \in Entries /\ Entry(p)[1] \in Pins
    BY <1>7 DEF PinIsSet, TypeOK, Entries
  <2>2. GpioPin[Entry(p)[1]] \in Int
    <3>1. GpioPin \in [Pins -> Nat]
      BY MuxAssumption
    <3> QED
      BY <2>1, <3>1
  <2>3. Returned(p, GpioPin[Entry(p)[1]])
    BY <1>7 DEF PinIsSet
  <2>4. ProgramsOK'
    BY <2>2, <2>3, ReturnedType DEF ProgramsOK
  <2> QED
    BY <1>7, <2>1, <2>4 DEF PinIsSet, TypeOK, ProgramsOK, Labels, Holding
<1>8. CASE Store(p)
  <2> DEFINE d == call[p].device
             f == call[p].func
  <2>1. d \in Devices /\ f \in Functions
    BY <1>0 DEF CallOK
  <2>2. call[p].pin \in [Functions -> AskedPins] /\ call[p].gpio \in [Functions -> Int]
        /\ call[p].gpio[f] \in Int
    BY <1>0, <2>1 DEF CallOK
  <2>3. pin' \in [Devices -> [Functions -> AskedPins]]
    BY <1>8, <2>1, <2>2 DEF Store, TypeOK
  <2>4. gpio' \in [Devices -> [Functions -> Int]]
    <3>1. gpio \in [Devices -> [Functions -> Int]]
      BY DEF TypeOK
    <3>2. \/ gpio' = [gpio EXCEPT ![d] = call[p].gpio]
          \/ gpio' = [gpio EXCEPT ![d] = [gpio[d] EXCEPT ![f] = call[p].gpio[f]]]
      BY <1>8 DEF Store
    <3>3. [gpio[d] EXCEPT ![f] = call[p].gpio[f]] \in [Functions -> Int]
      BY <2>1, <2>2, <3>1
    <3> QED
      BY <2>2, <3>1, <3>2, <3>3
  <2>5. /\ Goto(p, "idle") /\ call' = [call EXCEPT ![p] = NoCall]
        /\ "idle" \in Labels /\ "idle" \notin Stages \cup {"claim", "set"}
    BY <1>8 DEF Store, Labels, Stages
  <2>6. ProgramsOK'
    BY <2>5, NoCallType, CallType DEF ProgramsOK
  <2> QED
    BY <1>8, <2>3, <2>4, <2>6 DEF Store, TypeOK, ProgramsOK, Labels, Holding
<1> QED
  BY <1>1, <1>2, <1>3, <1>4, <1>5, <1>6, <1>7, <1>8 DEF Configure

LEMMA CallsType ==
  ASSUME TypeOK, NEW p \in Programs, NEW d \in Devices, Call(p, d)
  PROVE  TypeOK'
<1> USE DEF history, table, device
<1>1. ASSUME NEW echo \in AskedPins, NEW trigger \in AskedPins,
             ConfigPins(p, d, echo, trigger)
      PROVE  TypeOK'
  <2> DEFINE label == IF driver = "character" THEN "check_echo" ELSE "find"
             new   == [NoCall EXCEPT !.device = d,
               !.pin = [f \in Functions |-> IF f = "input" THEN echo ELSE trigger]]
  <2>1. Begin(p, d, "ioctl", "input", label) /\ call' = [call EXCEPT ![p] = new]
    BY <1>1 DEF ConfigPins
  <2>2. new \in CallOK
    <3>1. [f \in Functions |-> IF f = "input" THEN echo ELSE trigger]
            \in [Functions -> AskedPins]
      OBVIOUS
    <3> QED
      BY <3>1, NoCallType DEF CallOK
  <2>3. label \in Labels /\ label \notin Stages \cup {"claim", "set"}
    BY DEF Labels, Stages
  <2>4. Goto(p, label) /\ calls' \in Seq(Devices)
    BY <2>1, BeginType DEF Begin
  <2>5. ProgramsOK'
    <3> HIDE DEF new, label
    <3> QED
      BY <2>1, <2>2, <2>3, <2>4, CallType DEF ProgramsOK
  <2>6. UNCHANGED <<driver, table, device, exit, configured, touched>>
    BY <1>1 DEF ConfigPins, Begin
  <2> QED
    BY <2>4, <2>5, <2>6 DEF TypeOK, ProgramsOK, Labels, Holding
<1>2. ASSUME NEW f \in Functions, NEW n \in AskedPins, StorePin(p, d, f, n)
      PROVE  TypeOK'
  <2> DEFINE new == [NoCall EXCEPT !.kind = "store", !.device = d, !.func = f]
  <2>1. Begin(p, d, "store", f, "read_back") /\ call' = [call EXCEPT ![p] = new]
    BY <1>2 DEF StorePin
  <2>2. new \in CallOK
    BY NoCallType DEF CallOK
  <2>3. "read_back" \in Labels /\ "read_back" \notin Stages \cup {"claim", "set"}
    BY DEF Labels, Stages
  <2>4. Goto(p, "read_back") /\ calls' \in Seq(Devices)
    BY <2>1, BeginType DEF Begin
  <2>5. ProgramsOK'
    <3> HIDE DEF new
    <3> QED
      BY <2>1, <2>2, <2>3, <2>4, CallType DEF ProgramsOK
  <2>6. UNCHANGED <<driver, table, gpio, exit, configured, touched>>
    BY <1>2 DEF StorePin, Begin
  <2>7. pin' \in [Devices -> [Functions -> AskedPins]]
    BY <1>2 DEF StorePin, TypeOK
  <2> QED
    BY <2>4, <2>5, <2>6, <2>7 DEF TypeOK, ProgramsOK, Labels, Holding
<1> QED
  BY <1>1, <1>2 DEF Call

LEMMA ExitNextType ==
  ASSUME TypeOK, ExitNext
  PROVE  exit' \in ExitOK
<1>1. exit \in ExitOK
  BY DEF TypeOK
<1>2. exit.device < NumDevices => exit.device + 1 \in Devices
  BY <1>1, MuxAssumption DEF ExitOK, Devices
<1> QED
  BY <1>1, <1>2 DEF ExitNext, ExitOK, Functions

LEMMA ExitType ==
  ASSUME TypeOK, Exit
  PROVE  TypeOK'
<1> USE DEF history, table, device
<1>0. exit \in ExitOK
  BY DEF TypeOK
<1>1. CASE ExitBegin
  <2>1. exit' \in ExitOK /\ UNCHANGED programs
    BY <1>0, <1>1 DEF ExitBegin, ExitOK
  <2> QED
    BY <1>1, <2>1, ProgramsUnchanged
       DEF ExitBegin, TypeOK, ProgramsOK, Labels, Holding
<1>2. CASE ExitFind
  <2>1. exit' \in ExitOK
    <3>1. [exit EXCEPT !.at = "gpio"] \in ExitOK
      BY <1>0 DEF ExitOK, Stages
    <3> QED
      BY <1>2, <3>1, ExitNextType DEF ExitFind
  <2>2. is_in_use' \in [Entries -> BOOLEAN] /\ configured' \subseteq Entries
    BY <1>2 DEF ExitFind, TypeOK
  <2>3. UNCHANGED programs
    BY <1>2 DEF ExitFind
  <2> QED
    BY <1>2, <2>1, <2>2, <2>3, ProgramsUnchanged
       DEF ExitFind, TypeOK, ProgramsOK, Labels, Holding
<1>3. CASE ExitFree
  <2>1. exit' \in ExitOK
    <3>1. exit.at \in Stages
      BY <1>3 DEF ExitFree
    <3>2. exit.at /= "function" => [exit EXCEPT !.at = After(exit.at)] \in ExitOK
      BY <1>0, <3>1 DEF ExitOK, Stages, After
    <3> QED
      BY <1>3, <3>2, ExitNextType DEF ExitFree
  <2>2. requested' \subseteq Gpios
    BY <1>3 DEF ExitFree, TypeOK
  <2>3. line' \in [Gpios -> {"in", "0", "1"}]
    BY <1>3 DEF ExitFree, TypeOK
  <2>4. UNCHANGED programs
    BY <1>3 DEF ExitFree
  <2> QED
    BY <1>3, <2>1, <2>2, <2>3, <2>4, ProgramsUnchanged
       DEF ExitFree, TypeOK, ProgramsOK, Labels, Holding
<1> QED
  BY <1>1, <1>2, <1>3 DEF Exit

LEMMA NextType == TypeOK /\ [Next]_vars => TypeOK'
<1> SUFFICES ASSUME TypeOK, [Next]_vars PROVE TypeOK'
  OBVIOUS
<1>1. CASE UNCHANGED vars
  <2>1. UNCHANGED programs
    BY <1>1 DEF vars
  <2> QED
    BY <1>1, <2>1, ProgramsUnchanged
       DEF vars, table, device, history, TypeOK, ProgramsOK, Labels, Holding
<1>2. CASE Next
  BY <1>2, ConfigureType, CallsType, ExitType DEF Next
<1> QED
  BY <1>1, <1>2

\* Every variable of the pins stays in its range, whatever the table is: no
\* call claims or sets up a pin that mux_table does not have.
THEOREM TypeCorrect == Spec => []TypeOK
<1>1. Init => TypeOK
  BY InitType
<1>2. TypeOK /\ [Next]_vars => TypeOK'
  BY NextType
<1> QED
  BY <1>1, <1>2, PTL DEF Spec

-----------------------------------------------------------------------------
(* What the table knows.                                                   *)

\* p has marked its entry, and set_pin_conf has not returned.
Busy(p) == pc[p] \in Stages \cup {"set"}

\* The module is unloaded when no program is in a call.
ExitAlone == exit.at /= "no" => \A p \in Programs : pc[p] = "idle"

BusyInUse == \A p \in Programs : Busy(p) => is_in_use[Entry(p)]

\* What exit_gpio_driver is freeing is an entry, and marked free already.
ExitTook == exit.at \in Stages => ExitEntry \in Entries /\ ~ is_in_use[ExitEntry]

InUseInv == TypeOK /\ ExitAlone /\ BusyInUse /\ ExitTook /\ RequestedIsInUse

LEMMA InitInUse == Init => InUseInv
  BY InitType DEF Init, InUseInv, ExitAlone, BusyInUse, Busy, ExitTook,
                  RequestedIsInUse, Stages

\* A program's step leaves the other programs where they are.
LEMMA OthersKeep ==
  ASSUME TypeOK, NEW p \in Programs,
         Configure(p) \/ \E d \in Devices : Call(p, d),
         NEW q \in Programs, q /= p
  PROVE  pc'[q] = pc[q] /\ call'[q] = call[q] /\ Entry(q)' = Entry(q)
<1>1. pc \in [Programs -> Labels] /\ call \in [Programs -> CallOK]
  BY DEF TypeOK, Labels
<1>2. ASSUME NEW label, Goto(p, label)
      PROVE  pc'[q] = pc[q]
  BY <1>1, <1>2 DEF Goto
<1>3. pc'[q] = pc[q]
  BY <1>2 DEF Configure, Call, CheckEcho, CheckTrigger, ReadBack, FindPin,
              ClaimPin, SetUp, PinIsSet, Store, ConfigPins, StorePin, Begin,
              Returned
<1>4. call'[q] = call[q]
  BY <1>1 DEF Configure, Call, CheckEcho, CheckTrigger, ReadBack, FindPin,
              ClaimPin, SetUp, PinIsSet, Store, ConfigPins, StorePin, Returned
<1> QED
  BY <1>3, <1>4 DEF Entry

\* A program is busy after its own step only when it has claimed its entry, or
\* has set up a part of it.
LEMMA OwnBusy ==
  ASSUME TypeOK, NEW p \in Programs,
         Configure(p) \/ \E d \in Devices : Call(p, d), Busy(p)'
  PROVE  /\ ClaimPin(p) \/ SetUp(p)
         /\ Entry(p)' = Entry(p)
<1>1. pc \in [Programs -> Labels]
  BY DEF TypeOK, Labels
<1>2. ASSUME NEW label, Goto(p, label)
      PROVE  pc'[p] = label
  BY <1>1, <1>2 DEF Goto
<1>3. ClaimPin(p) \/ SetUp(p)
  BY <1>2 DEF Configure, Call, CheckEcho, CheckTrigger, ReadBack, FindPin,
              PinIsSet, Store, ConfigPins, StorePin, Begin, Returned, Busy, Stages
<1> QED
  BY <1>3 DEF ClaimPin, SetUp, Entry

\* In a call, the module is not being unloaded.
LEMMA ConfigureAlone ==
  ASSUME TypeOK, ExitAlone, NEW p \in Programs, Configure(p)
  PROVE  exit.at = "no" /\ UNCHANGED exit
<1>1. pc[p] /= "idle"
  BY DEF Configure, CheckEcho, CheckTrigger, ReadBack, FindPin, ClaimPin, SetUp,
         PinIsSet, Store, Stages
<1> QED
  BY <1>1 DEF ExitAlone, Configure, CheckEcho, CheckTrigger, ReadBack, FindPin,
              ClaimPin, SetUp, PinIsSet, Store

\* A configuring step marks at most its own entry, and requests gpios of it only.
LEMMA ConfigureTable ==
  ASSUME TypeOK, NEW p \in Programs, Configure(p)
  PROVE  /\ \A e \in Entries : is_in_use[e] => is_in_use'[e]
         /\ ClaimPin(p) => is_in_use'[Entry(p)]
         /\ SetUp(p) \/ UNCHANGED <<requested, line>>
<1>1. is_in_use \in [Entries -> BOOLEAN]
  BY DEF TypeOK
<1>2. CASE ClaimPin(p)
  <2>1. Entry(p) \in Entries
    BY <1>2 DEF ClaimPin, TypeOK
  <2> QED
    BY <1>1, <1>2, <2>1 DEF ClaimPin
<1>3. CASE ~ ClaimPin(p)
  BY <1>3 DEF Configure, CheckEcho, CheckTrigger, ReadBack, FindPin, SetUp,
              PinIsSet, Store, table
<1> QED
  BY <1>2, <1>3

LEMMA ConfigureInUse ==
  ASSUME InUseInv, NEW p \in Programs, Configure(p)
  PROVE  InUseInv'
<1>0. TypeOK /\ TypeOK'
  BY ConfigureType DEF InUseInv
<1>1. exit.at = "no" /\ exit' = exit
  BY <1>0, ConfigureAlone DEF InUseInv
<1>2. ExitAlone' /\ ExitTook'
  BY <1>1 DEF ExitAlone, ExitTook, Stages
<1>3. BusyInUse'
  <2> SUFFICES ASSUME NEW q \in Programs, Busy(q)' PROVE is_in_use'[Entry(q)']
    BY DEF BusyInUse
  <2>1. CASE q /= p
    <3>1. Busy(q) /\ Entry(q)' = Entry(q)
      BY <1>0, <2>1, OthersKeep DEF Busy
    <3>2. is_in_use[Entry(q)] /\ Entry(q) \in Entries
      BY <1>0, <3>1 DEF InUseInv, BusyInUse, Busy, TypeOK
    <3> QED
      BY <1>0, <3>1, <3>2, ConfigureTable
  <2>2. CASE q = p
    <3>1. (ClaimPin(p) \/ SetUp(p)) /\ Entry(p)' = Entry(p)
      BY <1>0, <2>2, OwnBusy
    <3>2. CASE ClaimPin(p)
      BY <1>0, <2>2, <3>1, <3>2, ConfigureTable
    <3>3. CASE SetUp(p)
      <4>1. Busy(p) /\ is_in_use[Entry(p)] /\ Entry(p) \in Entries
        BY <1>0, <3>3 DEF SetUp, Busy, InUseInv, BusyInUse, TypeOK
      <4> QED
        BY <1>0, <2>2, <3>1, <4>1, ConfigureTable
    <3> QED
      BY <3>1, <3>2, <3>3
  <2> QED
    BY <2>1, <2>2
<1>4. RequestedIsInUse'
  <2> SUFFICES ASSUME NEW g \in requested'
               PROVE  \E e \in Entries : is_in_use'[e] /\ g \in AllParts(e[1])
    BY DEF RequestedIsInUse
  <2>1. CASE g \in requested
    <3>1. g \notin Remaining
      BY <1>1 DEF Remaining
    <3> QED
      BY <1>0, <2>1, <3>1, ConfigureTable DEF InUseInv, RequestedIsInUse
  <2>2. CASE g \notin requested
    <3>1. SetUp(p)
      BY <1>0, <2>2, ConfigureTable
    <3>2. pc[p] \in Stages /\ Entry(p) \in Entries /\ is_in_use[Entry(p)]
      BY <1>0, <3>1 DEF SetUp, TypeOK, InUseInv, BusyInUse, Busy
    <3>3. g \in Part(pc[p], Entry(p)[1])
      BY <2>2, <3>1 DEF SetUp
    <3>4. g \in AllParts(Entry(p)[1])
      BY <3>2, <3>3, PartOfPin DEF Entries
    <3> QED
      BY <1>0, <3>2, <3>4, ConfigureTable
  <2> QED
    BY <2>1, <2>2
<1> QED
  BY <1>0, <1>2, <1>3, <1>4 DEF InUseInv

\* A call that begins touches no pin yet.
LEMMA CallKeeps ==
  ASSUME NEW p \in Programs, NEW d \in Devices, Call(p, d)
  PROVE  /\ exit.at = "no"
         /\ UNCHANGED <<table, exit, configured, touched>>
  BY DEF Call, ConfigPins, StorePin, Begin

LEMMA CallInUse ==
  ASSUME InUseInv, NEW p \in Programs, NEW d \in Devices, Call(p, d)
  PROVE  InUseInv'
<1>0. TypeOK /\ TypeOK'
  BY CallsType DEF InUseInv
<1>1. exit.at = "no" /\ UNCHANGED <<table, exit>>
  BY CallKeeps
<1>2. ExitAlone' /\ ExitTook'
  BY <1>1 DEF ExitAlone, ExitTook, Stages
<1>3. BusyInUse'
  <2> SUFFICES ASSUME NEW q \in Programs, Busy(q)' PROVE is_in_use'[Entry(q)']
    BY DEF BusyInUse
  <2>1. q /= p
    BY <1>0, OwnBusy DEF Call, ConfigPins, StorePin, Begin, ClaimPin, SetUp, Stages
  <2>2. Busy(q) /\ Entry(q)' = Entry(q)
    BY <1>0, <2>1, OthersKeep DEF Busy
  <2> QED
    BY <1>1, <2>2 DEF InUseInv, BusyInUse, table
<1>4. RequestedIsInUse'
  BY <1>1 DEF InUseInv, RequestedIsInUse, Remaining, table
<1> QED
  BY <1>0, <1>2, <1>3, <1>4 DEF InUseInv

\* The parts that exit_gpio_driver has gone through do not remain.
LEMMA RemainingShrinks ==
  ASSUME exit.at \in Stages, ExitFree, NEW g \in Remaining,
         g \notin Part(exit.at, ExitEntry[1]), exit \in ExitOK
  PROVE  g \in Remaining'
<1>1. exit.at /= "function"
  BY DEF Remaining, Part
<1>2. exit' = [exit EXCEPT !.at = After(exit.at)] /\ pin' = pin
  BY <1>1 DEF ExitFree, device
<1>3. ExitEntry' = ExitEntry /\ exit'.at = After(exit.at)
  BY <1>2 DEF ExitEntry, ExitOK
<1> QED
  BY <1>1, <1>3 DEF Remaining, Part, After, Stages, AllParts

LEMMA ExitNextAt ==
  ASSUME exit \in ExitOK, ExitNext
  PROVE  exit'.at \notin Stages
  BY DEF ExitNext, ExitOK, Stages

LEMMA ExitInUse ==
  ASSUME InUseInv, Exit
  PROVE  InUseInv'
<1>0. TypeOK /\ TypeOK' /\ exit \in ExitOK
  BY ExitType DEF InUseInv, TypeOK
<1>1. UNCHANGED programs /\ UNCHANGED pin
  BY DEF Exit, ExitBegin, ExitFind, ExitFree, device
<1>2. \A q \in Programs : pc[q] = "idle" /\ pc'[q] = "idle"
  BY <1>1 DEF Exit, ExitBegin, ExitFind, ExitFree, InUseInv, ExitAlone, programs,
              Stages
<1>3. ExitAlone' /\ BusyInUse'
  BY <1>2 DEF ExitAlone, BusyInUse, Busy, Stages
<1>4. CASE ExitBegin
  <2>1. exit.at = "no" /\ exit'.at = "find" /\ UNCHANGED table
    BY <1>0, <1>4 DEF ExitBegin, ExitOK
  <2>2. ExitTook' /\ RequestedIsInUse'
    BY <2>1 DEF ExitTook, RequestedIsInUse, InUseInv, Remaining, Stages, table
  <2> QED
    BY <1>0, <1>3, <2>2 DEF InUseInv
<1>5. CASE ExitFind
  <2>1. exit.at = "find" /\ requested' = requested
    BY <1>5 DEF ExitFind
  <2>2. \A g \in requested :
          \E e \in Entries : is_in_use[e] /\ g \in AllParts(e[1])
    BY <2>1 DEF InUseInv, RequestedIsInUse, Remaining
  <2>3. CASE ExitEntry \in Entries /\ is_in_use[ExitEntry]
    <3>1. /\ is_in_use' = [is_in_use EXCEPT ![ExitEntry] = FALSE]
          /\ exit' = [exit EXCEPT !.at = "gpio"]
      BY <1>5, <2>3 DEF ExitFind
    <3>2. ExitEntry' = ExitEntry /\ exit'.at = "gpio"
      BY <1>0, <1>1, <3>1 DEF ExitEntry, ExitOK
    <3>3. /\ ~ is_in_use'[ExitEntry]
          /\ \A e \in Entries : e /= ExitEntry => is_in_use'[e] = is_in_use[e]
      BY <1>0, <2>3, <3>1 DEF TypeOK
    <3>4. ExitTook'
      BY <2>3, <3>2, <3>3 DEF ExitTook
    <3>5. Remaining' = AllParts(ExitEntry[1])
      BY <3>2 DEF Remaining, AllParts
    <3>6. RequestedIsInUse'
      BY <2>1, <2>2, <3>3, <3>5 DEF RequestedIsInUse
    <3> QED
      BY <1>0, <1>3, <3>4, <3>6 DEF InUseInv
  <2>4. CASE ~ (ExitEntry \in Entries /\ is_in_use[ExitEntry])
    <3>1. ExitNext /\ UNCHANGED is_in_use
      BY <1>5, <2>4 DEF ExitFind
    <3>2. exit'.at \notin Stages
      BY <1>0, <3>1, ExitNextAt
    <3>3. ExitTook' /\ RequestedIsInUse'
      BY <2>1, <2>2, <3>1, <3>2 DEF ExitTook, RequestedIsInUse
    <3> QED
      BY <1>0, <1>3, <3>3 DEF InUseInv
  <2> QED
    BY <2>3, <2>4
<1>6. CASE ExitFree
  <2>1. exit.at \in Stages /\ UNCHANGED is_in_use
    BY <1>6 DEF ExitFree
  <2>2. ExitTook'
    <3>1. CASE exit.at = "function"
      <4>1. ExitNext
        BY <1>6, <3>1 DEF ExitFree
      <4>2. exit'.at \notin Stages
        BY <1>0, <4>1, ExitNextAt
      <4> QED
        BY <4>2 DEF ExitTook
    <3>2. CASE exit.at /= "function"
      <4>1. exit' = [exit EXCEPT !.at = After(exit.at)]
        BY <1>6, <3>2 DEF ExitFree
      <4>2. ExitEntry' = ExitEntry
        BY <1>0, <1>1, <4>1 DEF ExitEntry, ExitOK
      <4>3. ExitEntry \in Entries /\ ~ is_in_use[ExitEntry]
        BY <2>1 DEF ExitTook, InUseInv
      <4> QED
        BY <2>1, <4>2, <4>3 DEF ExitTook
    <3> QED
      BY <3>1, <3>2
  <2>3. RequestedIsInUse'
    <3> SUFFICES ASSUME NEW g \in requested'
                 PROVE  \/ g \in Remaining'
                        \/ \E e \in Entries : is_in_use'[e] /\ g \in AllParts(e[1])
      BY DEF RequestedIsInUse
    <3>1. g \in requested /\ g \notin Part(exit.at, ExitEntry[1])
      BY <1>6 DEF ExitFree
    <3>2. CASE g \in Remaining
      BY <1>0, <1>6, <2>1, <3>1, <3>2, RemainingShrinks
    <3>3. CASE g \notin Remaining
      BY <2>1, <3>1, <3>3 DEF InUseInv, RequestedIsInUse
    <3> QED
      BY <3>2, <3>3
  <2> QED
    BY <1>0, <1>3, <2>2, <2>3 DEF InUseInv
<1> QED
  BY <1>4, <1>5, <1>6 DEF Exit

LEMMA NextInUse == InUseInv /\ [Next]_vars => InUseInv'
<1> SUFFICES ASSUME InUseInv, [Next]_vars PROVE InUseInv'
  OBVIOUS
<1>1. CASE UNCHANGED vars
  <2>1. TypeOK'
    BY NextType DEF InUseInv
  <2>2. \A p \in Programs : Entry(p)' = Entry(p)
    BY <1>1 DEF vars, programs, Entry
  <2> QED
    BY <1>1, <2>1, <2>2
       DEF vars, table, device, programs, history, InUseInv, ExitAlone, BusyInUse,
           Busy, ExitTook, ExitEntry, RequestedIsInUse, Remaining
<1>2. CASE Next
  BY <1>2, ConfigureInUse, CallInUse, ExitInUse DEF Next
<1> QED
  BY <1>1, <1>2

\* The table knows of every gpio the driver has, for every table, any number of
\* devices and programs that configure them at the same time, and while the
\* module gives the pins back.
THEOREM RequestedInUse == Spec => []RequestedIsInUse
<1>1. Init => InUseInv
  BY InitInUse
<1>2. InUseInv /\ [Next]_vars => InUseInv'
  BY NextInUse
<1>3. InUseInv => RequestedIsInUse
  BY DEF InUseInv
<1> QED
  BY <1>1, <1>2, <1>3, PTL DEF Spec

-----------------------------------------------------------------------------
(* Who shares a gpio with whom.                                            *)

\* The entries whose gpios may be requested.
Held == {e \in Entries : is_in_use[e] \/ (exit.at \in Stages /\ e = ExitEntry)}

\* Each claim of an entry counts: a gpio of two entries, or of one entry that
\* two programs have got, is touched twice.
TouchedAtLeast(k, e) == \A g \in AllParts(e[1]) : touched[g] >= k

HeldTouched == \A e \in Held : TouchedAtLeast(1, e)

SharedTouched ==
  \A e1, e2 \in Held : e1 /= e2 =>
    \A g \in AllParts(e1[1]) \cap AllParts(e2[1]) : touched[g] >= 2

AgainTouched ==
  \A p \in Programs :
    Busy(p) /\ Entry(p) \in configured => TouchedAtLeast(2, Entry(p))

TwiceTouched ==
  \A p, q \in Programs :
    p /= q /\ Busy(p) /\ Busy(q) /\ Entry(p) = Entry(q) =>
      TouchedAtLeast(2, Entry(p))

ConfiguredInUse == \A e \in configured : is_in_use[e]

TouchedInv ==
  /\ HeldTouched /\ SharedTouched /\ AgainTouched /\ TwiceTouched
  /\ ConfiguredInUse

-----------------------------------------------------------------------------
(* What has been set up.                                                   *)

Undisturbed(e) == \A g \in AllParts(e[1]) : touched[g] = 1

Before(at) == CASE at = "direction" -> {"gpio"}
                [] at = "function"  -> {"gpio", "direction"}
                [] at = "set"       -> Stages
                [] OTHER            -> {}

SetUpIn(e, stages) ==
  \A stage \in stages : \A g \in Part(stage, e[1]) :
    g \in requested /\ line[g] = Level(stage, e[2])

ConfiguredIsSet == \A e \in configured : Undisturbed(e) => SetUpIn(e, Stages)

BusyIsSet ==
  \A p \in Programs :
    Busy(p) /\ Undisturbed(Entry(p)) => SetUpIn(Entry(p), Before(pc[p]))

SetInv == InUseInv /\ TouchedInv /\ ConfiguredIsSet /\ BusyIsSet

LEMMA InitSet == Init => SetInv
<1> SUFFICES ASSUME Init PROVE SetInv
  OBVIOUS
<1>1. InUseInv
  BY InitInUse
<1>2. configured = {} /\ \A p \in Programs : ~ Busy(p)
  BY DEF Init, Busy, Stages
<1>3. Held = {}
  BY DEF Init, Held, Stages
<1>4. TouchedInv
  BY <1>2, <1>3 DEF TouchedInv, HeldTouched, SharedTouched, AgainTouched,
                    TwiceTouched, ConfiguredInUse
<1>5. ConfiguredIsSet /\ BusyIsSet
  BY <1>2 DEF ConfiguredIsSet, BusyIsSet
<1> QED
  BY <1>1, <1>4, <1>5 DEF SetInv

LEMMA GpioOfEntry ==
  ASSUME NEW e \in Entries, NEW g \in AllParts(e[1])
  PROVE  g \in Gpios
<1>1. e[1] \in Pins
  BY DEF Entries
<1> QED
  BY <1>1 DEF AllParts, Gpios

\* A claim counts each gpio of its entry, and no other.
LEMMA ClaimCounts ==
  ASSUME TypeOK, NEW p \in Programs, ClaimPin(p), NEW g \in Gpios
  PROVE  touched'[g] = IF g \in AllParts(Entry(p)[1]) THEN touched[g] + 1
                                                      ELSE touched[g]
  BY DEF ClaimPin, TypeOK

LEMMA OnlyClaimCounts ==
  ASSUME NEW p \in Programs, Configure(p), ~ ClaimPin(p)
  PROVE  UNCHANGED touched
  BY DEF Configure, CheckEcho, CheckTrigger, ReadBack, FindPin, SetUp, PinIsSet,
         Store, history

\* So it never counts down.
LEMMA StaysTouched ==
  ASSUME TypeOK, NEW p \in Programs, Configure(p), NEW e \in Entries,
         NEW k \in Nat, TouchedAtLeast(k, e)
  PROVE  \A g \in AllParts(e[1]) : touched'[g] >= k
<1> SUFFICES ASSUME NEW g \in AllParts(e[1]) PROVE touched'[g] >= k
  OBVIOUS
<1>1. g \in Gpios /\ touched[g] \in Nat /\ touched[g] >= k
  BY GpioOfEntry DEF TypeOK, TouchedAtLeast
<1>2. CASE ClaimPin(p)
  BY <1>1, <1>2, ClaimCounts
<1>3. CASE ~ ClaimPin(p)
  BY <1>1, <1>3, OnlyClaimCounts
<1> QED
  BY <1>2, <1>3

\* A gpio of the claimed entry that was counted for another is counted again.
LEMMA ClaimAgain ==
  ASSUME TypeOK, NEW p \in Programs, ClaimPin(p), NEW e \in Entries,
         TouchedAtLeast(1, e),
         NEW g \in AllParts(e[1]) \cap AllParts(Entry(p)[1])
  PROVE  touched'[g] >= 2
<1>1. g \in Gpios /\ touched[g] \in Nat /\ touched[g] >= 1
  BY GpioOfEntry DEF TypeOK, TouchedAtLeast
<1> QED
  BY <1>1, ClaimCounts

\* While programs configure, what is held is what is in use.
LEMMA ConfigureHeld ==
  ASSUME InUseInv, NEW p \in Programs, Configure(p), NEW e \in Held'
  PROVE  e \in Entries /\ (e \in Held \/ (ClaimPin(p) /\ e = Entry(p)))
<1>1. exit.at = "no" /\ exit' = exit
  BY ConfigureAlone DEF InUseInv
<1>2. e \in Entries /\ is_in_use'[e]
  BY <1>1 DEF Held, Stages
<1>3. CASE ClaimPin(p)
  BY <1>2, <1>3 DEF ClaimPin, Held, InUseInv, TypeOK
<1>4. CASE ~ ClaimPin(p)
  BY <1>2, <1>4 DEF Configure, CheckEcho, CheckTrigger, ReadBack, FindPin, SetUp,
                    PinIsSet, Store, table, Held
<1> QED
  BY <1>2, <1>3, <1>4

LEMMA UsedTouched ==
  ASSUME TouchedInv, NEW e \in Entries, is_in_use[e]
  PROVE  e \in Held /\ TouchedAtLeast(1, e)
  BY DEF Held, TouchedInv, HeldTouched

\* A busy program's entry is an entry, in use and counted.
LEMMA BusyTouched ==
  ASSUME InUseInv, TouchedInv, NEW p \in Programs, Busy(p)
  PROVE  /\ Entry(p) \in Entries /\ is_in_use[Entry(p)] /\ Entry(p) \in Held
         /\ TouchedAtLeast(1, Entry(p))
<1>1. Entry(p) \in Entries /\ is_in_use[Entry(p)]
  BY DEF InUseInv, TypeOK, BusyInUse, Busy
<1> QED
  BY <1>1, UsedTouched

\* Only a pin that is set becomes configured.
LEMMA ConfigureConfigured ==
  ASSUME NEW p \in Programs, Configure(p), NEW e \in configured'
  PROVE  e \in configured \/ (PinIsSet(p) /\ e = Entry(p))
  BY DEF Configure, CheckEcho, CheckTrigger, ReadBack, FindPin, ClaimPin, SetUp,
         PinIsSet, Store, history

LEMMA ConfigureShared ==
  ASSUME InUseInv, TouchedInv, NEW p \in Programs, Configure(p)
  PROVE  HeldTouched' /\ SharedTouched'
<1>0. TypeOK
  BY DEF InUseInv
<1>1. HeldTouched'
  <2> SUFFICES ASSUME NEW e \in Held'
               PROVE  \A g \in AllParts(e[1]) : touched'[g] >= 1
    BY DEF HeldTouched, TouchedAtLeast
  <2>1. e \in Entries /\ (e \in Held \/ (ClaimPin(p) /\ e = Entry(p)))
    BY ConfigureHeld
  <2>2. CASE e \in Held
    <3>1. TouchedAtLeast(1, e)
      BY <2>2 DEF TouchedInv, HeldTouched
    <3> QED
      BY <1>0, <2>1, <3>1, StaysTouched
  <2>3. CASE ClaimPin(p) /\ e = Entry(p)
    <3> SUFFICES ASSUME NEW g \in AllParts(e[1]) PROVE touched'[g] >= 1
      OBVIOUS
    <3>1. g \in Gpios /\ touched[g] \in Nat
      BY <1>0, <2>1, GpioOfEntry DEF TypeOK
    <3> QED
      BY <1>0, <2>3, <3>1, ClaimCounts
  <2> QED
    BY <2>1, <2>2, <2>3
<1>2. SharedTouched'
  <2> SUFFICES ASSUME NEW e1 \in Held', NEW e2 \in Held', e1 /= e2,
                      NEW g \in AllParts(e1[1]) \cap AllParts(e2[1])
               PROVE  touched'[g] >= 2
    BY DEF SharedTouched
  <2>1. /\ e1 \in Entries /\ (e1 \in Held \/ (ClaimPin(p) /\ e1 = Entry(p)))
        /\ e2 \in Entries /\ (e2 \in Held \/ (ClaimPin(p) /\ e2 = Entry(p)))
    BY ConfigureHeld
  <2>2. CASE e1 \in Held /\ e2 \in Held
    <3>1. g \in Gpios /\ touched[g] \in Nat
      BY <1>0, <2>1, GpioOfEntry DEF TypeOK
    <3>2. touched[g] >= 2
      BY <2>2 DEF TouchedInv, SharedTouched
    <3>3. CASE ClaimPin(p)
      BY <1>0, <3>1, <3>2, <3>3, ClaimCounts
    <3>4. CASE ~ ClaimPin(p)
      BY <3>2, <3>4, OnlyClaimCounts
    <3> QED
      BY <3>3, <3>4
  <2>3. CASE e1 \in Held /\ ClaimPin(p) /\ e2 = Entry(p)
    <3>1. TouchedAtLeast(1, e1)
      BY <2>3 DEF TouchedInv, HeldTouched
    <3> QED
      BY <1>0, <2>1, <2>3, <3>1, ClaimAgain
  <2>4. CASE e2 \in Held /\ ClaimPin(p) /\ e1 = Entry(p)
    <3>1. TouchedAtLeast(1, e2)
      BY <2>4 DEF TouchedInv, HeldTouched
    <3> QED
      BY <1>0, <2>1, <2>4, <3>1, ClaimAgain
  <2> QED
    BY <2>1, <2>2, <2>3, <2>4
<1> QED
  BY <1>1, <1>2

LEMMA ConfigureAgain ==
  ASSUME InUseInv, TouchedInv, NEW p \in Programs, Configure(p)
  PROVE  AgainTouched'
<1>0. TypeOK
  BY DEF InUseInv
<1> SUFFICES ASSUME NEW q \in Programs, Busy(q)', Entry(q)' \in configured'
             PROVE  \A g \in AllParts(Entry(q)'[1]) : touched'[g] >= 2
  BY DEF AgainTouched, TouchedAtLeast
<1>1. CASE q /= p
  <2>1. Busy(q) /\ Entry(q)' = Entry(q) /\ Entry(q) \in Entries
    BY <1>0, <1>1, OthersKeep, BusyTouched DEF Busy
  <2>2. TouchedAtLeast(2, Entry(q))
    <3>1. Entry(q) \in configured \/ (PinIsSet(p) /\ Entry(q) = Entry(p))
      BY <2>1, ConfigureConfigured
    <3>2. CASE Entry(q) \in configured
      BY <2>1, <3>2 DEF TouchedInv, AgainTouched
    <3>3. CASE PinIsSet(p) /\ Entry(q) = Entry(p)
      <4>1. Busy(p)
        BY <3>3 DEF PinIsSet, Busy
      <4> QED
        BY <1>1, <2>1, <3>3, <4>1 DEF TouchedInv, TwiceTouched
    <3> QED
      BY <3>1, <3>2, <3>3
  <2> QED
    BY <1>0, <2>1, <2>2, StaysTouched
<1>2. CASE q = p
  <2>1. (ClaimPin(p) \/ SetUp(p)) /\ Entry(p)' = Entry(p)
    BY <1>0, <1>2, OwnBusy
  <2>2. Entry(p) \in Entries /\ Entry(p) \in configured
    BY <1>0, <1>2, <2>1 DEF ClaimPin, SetUp, TypeOK, history
  <2>3. CASE ClaimPin(p)
    <3>1. TouchedAtLeast(1, Entry(p))
      BY <2>2, UsedTouched DEF TouchedInv, ConfiguredInUse
    <3> QED
      BY <1>0, <1>2, <2>1, <2>2, <2>3, <3>1, ClaimAgain
  <2>4. CASE SetUp(p)
    <3>1. Busy(p)
      BY <2>4 DEF SetUp, Busy
    <3>2. TouchedAtLeast(2, Entry(p))
      BY <2>2, <3>1 DEF TouchedInv, AgainTouched
    <3> QED
      BY <1>0, <1>2, <2>1, <2>2, <3>2, StaysTouched
  <2> QED
    BY <2>1, <2>3, <2>4
<1> QED
  BY <1>1, <1>2

LEMMA ConfigureTwice ==
  ASSUME InUseInv, TouchedInv, NEW p \in Programs, Configure(p)
  PROVE  TwiceTouched'
<1>0. TypeOK
  BY DEF InUseInv
<1>1. ASSUME NEW q \in Programs, q /= p, Busy(p)', Busy(q)', Entry(p)' = Entry(q)'
      PROVE  \A g \in AllParts(Entry(q)'[1]) : touched'[g] >= 2
  <2>1. (ClaimPin(p) \/ SetUp(p)) /\ Entry(p)' = Entry(p)
    BY <1>0, <1>1, OwnBusy
  <2>2. Busy(q) /\ Entry(q)' = Entry(q) /\ Entry(p) = Entry(q)
    BY <1>0, <1>1, <2>1, OthersKeep DEF Busy
  <2>3. Entry(q) \in Entries /\ TouchedAtLeast(1, Entry(q))
    BY <2>2, BusyTouched
  <2>4. CASE ClaimPin(p)
    BY <1>0, <2>2, <2>3, <2>4, ClaimAgain
  <2>5. CASE SetUp(p)
    <3>1. Busy(p)
      BY <2>5 DEF SetUp, Busy
    <3>2. TouchedAtLeast(2, Entry(q))
      BY <1>1, <2>2, <3>1 DEF TouchedInv, TwiceTouched
    <3> QED
      BY <1>0, <2>2, <2>3, <3>2, StaysTouched
  <2> QED
    BY <2>1, <2>4, <2>5
<1>2. ASSUME NEW q \in Programs, NEW r \in Programs, q /= p, r /= p, q /= r,
             Busy(q)', Busy(r)', Entry(q)' = Entry(r)'
      PROVE  \A g \in AllParts(Entry(q)'[1]) : touched'[g] >= 2
  <2>1. /\ Busy(q) /\ Entry(q)' = Entry(q)
        /\ Busy(r) /\ Entry(r)' = Entry(r)
    BY <1>0, <1>2, OthersKeep DEF Busy
  <2>2. TouchedAtLeast(2, Entry(q)) /\ Entry(q) \in Entries
    BY <1>2, <2>1, BusyTouched DEF TouchedInv, TwiceTouched
  <2> QED
    BY <1>0, <2>1, <2>2, StaysTouched
<1> QED
  BY <1>1, <1>2 DEF TwiceTouched, TouchedAtLeast

LEMMA ConfigureTouched ==
  ASSUME InUseInv, TouchedInv, NEW p \in Programs, Configure(p)
  PROVE  TouchedInv'
<1>1. ConfiguredInUse'
  <2> SUFFICES ASSUME NEW e \in configured' PROVE is_in_use'[e]
    BY DEF ConfiguredInUse
  <2>1. e \in configured \/ (PinIsSet(p) /\ e = Entry(p))
    BY ConfigureConfigured
  <2>2. e \in Entries /\ is_in_use[e]
    <3>1. PinIsSet(p) => Busy(p)
      BY DEF PinIsSet, Busy
    <3> QED
      BY <2>1, <3>1, BusyTouched DEF InUseInv, TypeOK, TouchedInv, ConfiguredInUse
  <2> QED
    BY <2>2, ConfigureTable DEF InUseInv
<1> QED
  BY <1>1, ConfigureShared, ConfigureAgain, ConfigureTwice DEF TouchedInv

LEMMA ExitTouched ==
  ASSUME InUseInv, TouchedInv, Exit
  PROVE  TouchedInv' /\ configured' \subseteq configured /\ UNCHANGED touched
<1>0. exit \in ExitOK /\ is_in_use \in [Entries -> BOOLEAN]
  BY DEF InUseInv, TypeOK
<1>1. UNCHANGED <<touched, pin, pc>> /\ configured' \subseteq configured
  BY DEF Exit, ExitBegin, ExitFind, ExitFree, history, device, programs
<1>2. \A q \in Programs : ~ Busy(q)'
  BY <1>1 DEF Exit, ExitBegin, ExitFind, ExitFree, InUseInv, ExitAlone, Busy,
              Stages
<1>3. \A e \in Entries : is_in_use'[e] => is_in_use[e]
  BY <1>0 DEF Exit, ExitBegin, ExitFind, ExitFree, table
<1>4. exit'.at \in Stages =>
        \/ ExitFind /\ ExitEntry' = ExitEntry /\ is_in_use[ExitEntry]
        \/ exit.at \in Stages /\ ExitEntry' = ExitEntry
  <2> SUFFICES ASSUME exit'.at \in Stages
               PROVE  \/ ExitFind /\ ExitEntry' = ExitEntry /\ is_in_use[ExitEntry]
                      \/ exit.at \in Stages /\ ExitEntry' = ExitEntry
    OBVIOUS
  <2>1. ~ ExitNext
    BY <1>0, ExitNextAt
  <2>2. ~ ExitBegin
    BY <1>0 DEF ExitBegin, ExitOK, Stages
  <2>3. CASE ExitFind
    <3>1. exit' = [exit EXCEPT !.at = "gpio"] /\ is_in_use[ExitEntry]
      BY <2>1, <2>3 DEF ExitFind
    <3> QED
      BY <1>0, <1>1, <2>3, <3>1 DEF ExitEntry, ExitOK
  <2>4. CASE ExitFree
    <3>1. exit' = [exit EXCEPT !.at = After(exit.at)] /\ exit.at \in Stages
      BY <2>1, <2>4 DEF ExitFree
    <3> QED
      BY <1>0, <1>1, <3>1 DEF ExitEntry, ExitOK
  <2> QED
    BY <2>2, <2>3, <2>4 DEF Exit
<1>5. Held' \subseteq Held
  <2> SUFFICES ASSUME NEW e \in Held' PROVE e \in Held
    OBVIOUS
  <2>1. e \in Entries /\ (is_in_use'[e] \/ (exit'.at \in Stages /\ e = ExitEntry'))
    BY DEF Held
  <2> QED
    BY <1>3, <1>4, <2>1 DEF Held
<1>6. HeldTouched' /\ SharedTouched'
  BY <1>1, <1>5 DEF TouchedInv, HeldTouched, SharedTouched, TouchedAtLeast
<1>7. AgainTouched' /\ TwiceTouched'
  BY <1>2 DEF AgainTouched, TwiceTouched
<1>8. ConfiguredInUse'
  <2> SUFFICES ASSUME NEW e \in configured' PROVE is_in_use'[e]
    BY DEF ConfiguredInUse
  <2>1. e \in configured /\ e \in Entries /\ is_in_use[e]
    BY <1>1 DEF InUseInv, TypeOK, TouchedInv, ConfiguredInUse
  <2>2. CASE UNCHANGED is_in_use
    BY <2>1, <2>2
  <2>3. CASE /\ is_in_use' = [is_in_use EXCEPT ![ExitEntry] = FALSE]
             /\ configured' = configured \ {ExitEntry}
    BY <1>0, <2>1, <2>3
  <2> QED
    BY <2>2, <2>3 DEF Exit, ExitBegin, ExitFind, ExitFree, table
<1> QED
  BY <1>1, <1>6, <1>7, <1>8 DEF TouchedInv

\* What an undisturbed entry that is in use needs to stay as it is: no step of a
\* program claims one of its gpios, and none that is busy with another entry sets
\* one up.
LEMMA UndisturbedAlone ==
  ASSUME InUseInv, TouchedInv, NEW e \in Entries, is_in_use[e],
         NEW p \in Programs, Configure(p),
         \A g \in AllParts(e[1]) : touched'[g] = 1
  PROVE  /\ Undisturbed(e)
         /\ ~ (ClaimPin(p) /\ Entry(p) = e)
         /\ SetUp(p) /\ Entry(p) /= e =>
              AllParts(e[1]) \cap AllParts(Entry(p)[1]) = {}
<1>0. TypeOK
  BY DEF InUseInv
<1>1. e \in Held /\ TouchedAtLeast(1, e)
  BY UsedTouched
<1>2. ASSUME NEW g \in AllParts(e[1])
      PROVE  touched[g] = 1 /\ touched'[g] = 1
  <2>1. g \in Gpios /\ touched[g] \in Nat /\ touched[g] >= 1 /\ touched'[g] = 1
    BY <1>0, <1>1, <1>2, GpioOfEntry DEF TypeOK, TouchedAtLeast, Undisturbed
  <2>2. ~ (touched[g] >= 2)
    <3>1. CASE ClaimPin(p)
      BY <1>0, <2>1, <3>1, ClaimCounts
    <3>2. CASE ~ ClaimPin(p)
      BY <2>1, <3>2, OnlyClaimCounts
    <3> QED
      BY <3>1, <3>2
  <2> QED
    BY <2>1, <2>2
<1>3. ~ (ClaimPin(p) /\ Entry(p) = e)
  <2> SUFFICES ASSUME ClaimPin(p), Entry(p) = e PROVE FALSE
    OBVIOUS
  <2>1. GpioPin[e[1]] \in AllParts(e[1])
    BY DEF AllParts
  <2> QED
    BY <1>0, <1>1, <1>2, <2>1, ClaimAgain
<1>4. ASSUME SetUp(p), Entry(p) /= e, NEW g \in AllParts(e[1]) \cap AllParts(Entry(p)[1])
      PROVE  FALSE
  <2>1. Busy(p) /\ Entry(p) \in Held
    BY <1>4, BusyTouched DEF SetUp, Busy
  <2>2. touched[g] >= 2
    BY <1>1, <1>4, <2>1 DEF TouchedInv, SharedTouched
  <2> QED
    BY <1>2, <2>2
<1> QED
  BY <1>2, <1>3, <1>4 DEF Undisturbed

\* Setting up leaves the gpios of other entries, and the other parts of its own.
LEMMA SetUpKeeps ==
  ASSUME TypeOK, NEW p \in Programs, SetUp(p), NEW e \in Entries,
         NEW stage \in Stages, NEW g \in Part(stage, e[1]),
         g \notin Part(pc[p], Entry(p)[1]),
         g \in requested /\ line[g] = Level(stage, e[2])
  PROVE  g \in requested' /\ line'[g] = Level(stage, e[2])
<1>1. g \in Gpios
  BY PartOfPin DEF Entries
<1> QED
  BY <1>1 DEF SetUp, TypeOK

LEMMA OthersSet ==
  ASSUME TypeOK, NEW p \in Programs, Configure(p), NEW e \in Entries,
         SetUp(p) => AllParts(e[1]) \cap AllParts(Entry(p)[1]) = {},
         NEW stages \in SUBSET Stages, SetUpIn(e, stages)
  PROVE  \A stage \in stages : \A g \in Part(stage, e[1]) :
           g \in requested' /\ line'[g] = Level(stage, e[2])
<1> SUFFICES ASSUME NEW stage \in stages, NEW g \in Part(stage, e[1])
             PROVE  g \in requested' /\ line'[g] = Level(stage, e[2])
  OBVIOUS
<1>1. g \in requested /\ line[g] = Level(stage, e[2])
  BY DEF SetUpIn
<1>2. CASE SetUp(p)
  <2>1. g \in AllParts(e[1]) /\ e[1] \in Pins
    BY PartOfPin DEF Entries
  <2>2. Part(pc[p], Entry(p)[1]) \subseteq AllParts(Entry(p)[1])
    BY <1>2, PartOfPin DEF SetUp, TypeOK, Entries
  <2> QED
    BY <1>1, <1>2, <2>1, <2>2, SetUpKeeps
<1>3. CASE ~ SetUp(p)
  BY <1>1, <1>3, ConfigureTable
<1> QED
  BY <1>2, <1>3

\* A part is set up on top of those before it.
LEMMA SetUpAdds ==
  ASSUME TypeOK, NEW p \in Programs, SetUp(p), SetUpIn(Entry(p), Before(pc[p]))
  PROVE  SetUpIn(Entry(p), Before(pc[p]))'
<1> DEFINE e  == Entry(p)
           at == pc[p]
<1>1. at \in Stages /\ e \in Entries /\ e[1] \in Pins
  BY DEF SetUp, TypeOK, Entries
<1>2. Before(After(at)) = Before(at) \cup {at} /\ Before(at) \subseteq Stages
      /\ at \notin Before(at)
  BY <1>1 DEF Before, After, Stages
<1>3. ASSUME NEW stage \in Before(at), NEW g \in Part(stage, e[1])
      PROVE  g \in requested' /\ line'[g] = Level(stage, e[2])
  <2>1. g \in requested /\ line[g] = Level(stage, e[2])
    BY <1>3 DEF SetUpIn
  <2>2. stage \in Stages /\ g \notin Part(at, e[1])
    BY <1>1, <1>2, <1>3, PartsDisjoint
  <2> QED
    BY <1>1, <1>3, <2>1, <2>2, SetUpKeeps
<1>4. ASSUME NEW g \in Part(at, e[1])
      PROVE  g \in requested' /\ line'[g] = Level(at, e[2])
  <2>1. g \in Gpios
    BY <1>1, <1>4, PartOfPin
  <2> QED
    BY <1>4, <2>1 DEF SetUp
<1>5. Entry(p)' = e /\ pc'[p] = After(at)
  <2>1. pc' = [pc EXCEPT ![p] = After(at)] /\ pc \in [Programs -> Labels]
    BY DEF SetUp, Goto, TypeOK, Labels
  <2> QED
    BY <2>1 DEF SetUp, Entry
<1>6. Before(pc'[p]) = Before(at) \cup {at}
  BY <1>2, <1>5
<1> QED
  BY <1>3, <1>4, <1>5, <1>6 DEF SetUpIn

LEMMA ConfigureIsSet ==
  ASSUME SetInv, NEW p \in Programs, Configure(p)
  PROVE  ConfiguredIsSet' /\ BusyIsSet'
<1>0. TypeOK /\ InUseInv /\ TouchedInv
  BY DEF SetInv, InUseInv
<1>1. ConfiguredIsSet'
  <2> SUFFICES ASSUME NEW e \in configured', Undisturbed(e)'
               PROVE  SetUpIn(e, Stages)'
    BY DEF ConfiguredIsSet
  <2>0. \A g \in AllParts(e[1]) : touched'[g] = 1
    BY DEF Undisturbed
  <2>1. e \in configured \/ (PinIsSet(p) /\ e = Entry(p))
    BY ConfigureConfigured
  <2>2. CASE e \in configured
    <3>1. e \in Entries /\ is_in_use[e]
      BY <1>0, <2>2 DEF TypeOK, TouchedInv, ConfiguredInUse
    <3>2. Undisturbed(e) /\ SetUpIn(e, Stages)
      BY <1>0, <2>0, <2>2, <3>1, UndisturbedAlone DEF SetInv, ConfiguredIsSet
    <3>3. SetUp(p) => Entry(p) /= e
      <4> SUFFICES ASSUME SetUp(p), Entry(p) = e PROVE FALSE
        OBVIOUS
      <4>1. TouchedAtLeast(2, e)
        BY <1>0, <2>2 DEF SetUp, Busy, TouchedInv, AgainTouched
      <4>2. GpioPin[e[1]] \in AllParts(e[1])
        BY DEF AllParts
      <4> QED
        BY <3>2, <4>1, <4>2 DEF TouchedAtLeast, Undisturbed
    <3>4. SetUp(p) => AllParts(e[1]) \cap AllParts(Entry(p)[1]) = {}
      BY <1>0, <2>0, <3>1, <3>3, UndisturbedAlone
    <3> QED
      BY <1>0, <3>1, <3>2, <3>4, OthersSet DEF SetUpIn
  <2>3. CASE PinIsSet(p) /\ e = Entry(p)
    <3>1. Busy(p) /\ Before(pc[p]) = Stages
      BY <2>3 DEF PinIsSet, Busy, Before
    <3>2. e \in Entries /\ is_in_use[e]
      BY <1>0, <2>3, <3>1, BusyTouched
    <3>3. Undisturbed(e)
      BY <1>0, <2>0, <3>2, UndisturbedAlone
    <3>4. SetUpIn(e, Stages)
      BY <2>3, <3>1, <3>3 DEF SetInv, BusyIsSet
    <3>5. ~ SetUp(p)
      BY <2>3 DEF PinIsSet, SetUp, Stages
    <3> QED
      BY <1>0, <3>2, <3>4, <3>5, OthersSet DEF SetUpIn
  <2> QED
    BY <2>1, <2>2, <2>3
<1>2. BusyIsSet'
  <2> SUFFICES ASSUME NEW q \in Programs, Busy(q)', Undisturbed(Entry(q))'
               PROVE  SetUpIn(Entry(q), Before(pc[q]))'
    BY DEF BusyIsSet
  <2>1. CASE q /= p
    <3> DEFINE e == Entry(q)
    <3>1. Busy(q) /\ Entry(q)' = e /\ pc'[q] = pc[q]
      BY <1>0, <2>1, OthersKeep DEF Busy
    <3>2. e \in Entries /\ is_in_use[e]
      BY <1>0, <3>1, BusyTouched
    <3>3. \A g \in AllParts(e[1]) : touched'[g] = 1
      BY <3>1 DEF Undisturbed
    <3>4. /\ Undisturbed(e)
          /\ SetUp(p) /\ Entry(p) /= e =>
               AllParts(e[1]) \cap AllParts(Entry(p)[1]) = {}
      <4> HIDE DEF e
      <4> QED
        BY <1>0, <3>2, <3>3, UndisturbedAlone
    <3>5. SetUp(p) => Entry(p) /= e
      <4> SUFFICES ASSUME SetUp(p), Entry(p) = e PROVE FALSE
        OBVIOUS
      <4>1. TouchedAtLeast(2, e)
        BY <1>0, <2>1, <3>1 DEF SetUp, Busy, TouchedInv, TwiceTouched
      <4>2. GpioPin[e[1]] \in AllParts(e[1])
        BY DEF AllParts
      <4> QED
        BY <3>4, <4>1, <4>2 DEF TouchedAtLeast, Undisturbed
    <3>6. SetUpIn(e, Before(pc[q])) /\ Before(pc[q]) \in SUBSET Stages
      BY <3>1, <3>4 DEF SetInv, BusyIsSet, Before, Stages
    <3>7. \A stage \in Before(pc[q]) : \A g \in Part(stage, e[1]) :
            g \in requested' /\ line'[g] = Level(stage, e[2])
      <4> HIDE DEF e
      <4> QED
        BY <1>0, <3>2, <3>4, <3>5, <3>6, OthersSet
    <3> QED
      BY <3>1, <3>7 DEF SetUpIn
  <2>2. CASE q = p
    <3>1. (ClaimPin(p) \/ SetUp(p)) /\ Entry(p)' = Entry(p)
      BY <1>0, <2>2, OwnBusy
    <3>2. CASE ClaimPin(p)
      <4>1. pc'[p] = "gpio"
        BY <1>0, <3>2 DEF ClaimPin, Goto, TypeOK
      <4>2. Before(pc'[p]) = {}
        BY <4>1 DEF Before
      <4> QED
        BY <2>2, <4>2 DEF SetUpIn
    <3>3. CASE SetUp(p)
      <4> DEFINE e == Entry(p)
      <4>1. Busy(p) /\ e \in Entries /\ is_in_use[e]
        BY <1>0, <3>3, BusyTouched DEF SetUp, Busy
      <4>2. \A g \in AllParts(e[1]) : touched'[g] = 1
        BY <2>2, <3>1 DEF Undisturbed
      <4>3. Undisturbed(e)
        <5> HIDE DEF e
        <5> QED
          BY <1>0, <4>1, <4>2, UndisturbedAlone
      <4>4. SetUpIn(Entry(p), Before(pc[p]))
        BY <4>1, <4>3 DEF SetInv, BusyIsSet
      <4> QED
        BY <1>0, <2>2, <3>3, <4>4, SetUpAdds
    <3> QED
      BY <3>1, <3>2, <3>3
  <2> QED
    BY <2>1, <2>2
<1> QED
  BY <1>1, <1>2

LEMMA ExitIsSet ==
  ASSUME SetInv, Exit
  PROVE  ConfiguredIsSet' /\ BusyIsSet'
<1>0. TypeOK /\ InUseInv /\ TouchedInv
  BY DEF SetInv, InUseInv
<1>1. BusyIsSet'
  BY <1>0 DEF Exit, ExitBegin, ExitFind, ExitFree, InUseInv, ExitAlone, BusyIsSet,
              Busy, Stages, programs
<1>2. ConfiguredIsSet'
  <2> SUFFICES ASSUME NEW e \in configured', Undisturbed(e)',
                      NEW stage \in Stages, NEW g \in Part(stage, e[1])
               PROVE  g \in requested' /\ line'[g] = Level(stage, e[2])
    BY DEF ConfiguredIsSet, SetUpIn
  <2>1. e \in configured /\ e \in Entries /\ is_in_use[e] /\ UNCHANGED touched
    BY <1>0, ExitTouched DEF TypeOK, TouchedInv, ConfiguredInUse
  <2>2. Undisturbed(e)
    BY <2>1 DEF Undisturbed
  <2>3. g \in requested /\ line[g] = Level(stage, e[2])
    BY <2>1, <2>2 DEF SetInv, ConfiguredIsSet, SetUpIn
  <2>4. g \in AllParts(e[1]) /\ g \in Gpios
    BY <2>1, PartOfPin DEF Entries
  <2>5. CASE ExitFree
    <3>1. exit.at \in Stages /\ ExitEntry \in Entries /\ ~ is_in_use[ExitEntry]
      BY <1>0, <2>5 DEF ExitFree, InUseInv, ExitTook
    <3>2. ExitEntry \in Held /\ e \in Held /\ e /= ExitEntry
      BY <2>1, <3>1 DEF Held
    <3>3. g \notin AllParts(ExitEntry[1])
      <4> SUFFICES ASSUME g \in AllParts(ExitEntry[1]) PROVE FALSE
        OBVIOUS
      <4>1. touched[g] >= 2
        BY <1>0, <2>4, <3>2 DEF TouchedInv, SharedTouched
      <4> QED
        BY <2>2, <2>4, <4>1 DEF Undisturbed
    <3>4. g \notin Part(exit.at, ExitEntry[1])
      BY <3>1, <3>3, PartOfPin DEF Entries
    <3> QED
      BY <1>0, <2>3, <2>4, <2>5, <3>4 DEF ExitFree, TypeOK
  <2>6. CASE ~ ExitFree
    BY <2>3, <2>6 DEF Exit, ExitBegin, ExitFind, table
  <2> QED
    BY <2>5, <2>6
<1> QED
  BY <1>1, <1>2

LEMMA CallSet ==
  ASSUME SetInv, NEW p \in Programs, NEW d \in Devices, Call(p, d)
  PROVE  TouchedInv' /\ ConfiguredIsSet' /\ BusyIsSet'
<1>0. TypeOK /\ InUseInv /\ TouchedInv
  BY DEF SetInv, InUseInv
<1>1. exit.at = "no" /\ UNCHANGED <<table, exit, configured, touched>>
  BY CallKeeps
<1>2. ASSUME NEW q \in Programs, Busy(q)'
      PROVE  Busy(q) /\ Entry(q)' = Entry(q) /\ pc'[q] = pc[q]
  <2>1. q /= p
    BY <1>0, <1>2, OwnBusy DEF Call, ConfigPins, StorePin, Begin, ClaimPin, SetUp,
                               Stages
  <2> QED
    BY <1>0, <1>2, <2>1, OthersKeep DEF Busy
<1>3. Held' = Held
  BY <1>1 DEF Held, Stages, table
<1>4. HeldTouched' /\ SharedTouched' /\ ConfiguredInUse'
  BY <1>0, <1>1, <1>3 DEF TouchedInv, HeldTouched, SharedTouched, ConfiguredInUse,
                          TouchedAtLeast, table
<1>5. AgainTouched' /\ TwiceTouched'
  BY <1>0, <1>1, <1>2 DEF TouchedInv, AgainTouched, TwiceTouched, TouchedAtLeast
<1>6. ConfiguredIsSet'
  BY <1>1 DEF SetInv, ConfiguredIsSet, Undisturbed, SetUpIn, table
<1>7. BusyIsSet'
  BY <1>1, <1>2 DEF SetInv, BusyIsSet, Undisturbed, SetUpIn, table
<1> QED
  BY <1>4, <1>5, <1>6, <1>7 DEF TouchedInv

LEMMA NextSet == SetInv /\ [Next]_vars => SetInv'
<1> SUFFICES ASSUME SetInv, [Next]_vars PROVE SetInv'
  OBVIOUS
<1>0. InUseInv /\ InUseInv' /\ TouchedInv
  BY NextInUse DEF SetInv
<1>1. CASE UNCHANGED vars
  <2>1. UNCHANGED <<is_in_use, requested, line, pin, pc, call, exit, configured, touched>>
    BY <1>1 DEF vars, table, device, programs, history
  <2>2. \A p \in Programs : Entry(p)' = Entry(p) /\ pc'[p] = pc[p]
    BY <2>1 DEF Entry
  <2>3. Held' = Held
    BY <2>1 DEF Held, ExitEntry
  <2>4. TouchedInv'
    BY <1>0, <2>1, <2>2, <2>3 DEF TouchedInv, HeldTouched, SharedTouched,
         AgainTouched, TwiceTouched, ConfiguredInUse, TouchedAtLeast, Busy
  <2>5. ConfiguredIsSet' /\ BusyIsSet'
    BY <2>1, <2>2 DEF SetInv, ConfiguredIsSet, BusyIsSet, Busy, Undisturbed, SetUpIn
  <2> QED
    BY <1>0, <2>4, <2>5 DEF SetInv
<1>2. ASSUME NEW p \in Programs, Configure(p)
      PROVE  SetInv'
  BY <1>0, <1>2, ConfigureTouched, ConfigureIsSet DEF SetInv
<1>3. ASSUME NEW p \in Programs, NEW d \in Devices, Call(p, d)
      PROVE  SetInv'
  BY <1>0, <1>3, CallSet DEF SetInv
<1>4. CASE Exit
  BY <1>0, <1>4, ExitTouched, ExitIsSet DEF SetInv
<1> QED
  BY <1>1, <1>2, <1>3, <1>4 DEF Next

\* A pin stays as it was set up until it is given back, for every table, and for
\* any number of programs in between, as long as its gpios were claimed once.
THEOREM StaysSet == Spec => []UndisturbedStaysSet
<1>1. Init => SetInv
  BY InitSet
<1>2. SetInv /\ [Next]_vars => SetInv'
  BY NextSet
<1>3. SetInv => UndisturbedStaysSet
  <2> SUFFICES ASSUME SetInv, NEW e \in configured, Undisturbed(e)
               PROVE  /\ is_in_use[e]
                      /\ AllParts(e[1]) \subseteq requested
                      /\ \A stage \in Stages : \A g \in Part(stage, e[1]) :
                           line[g] = Level(stage, e[2])
    BY DEF UndisturbedStaysSet, Undisturbed
  <2>1. SetUpIn(e, Stages) /\ is_in_use[e]
    BY DEF SetInv, ConfiguredIsSet, TouchedInv, ConfiguredInUse
  <2>2. AllParts(e[1]) \subseteq requested
    BY <2>1, PartsOfPin DEF SetUpIn
  <2> QED
    BY <2>1, <2>2 DEF SetUpIn
<1> QED
  BY <1>1, <1>2, <1>3, PTL DEF Spec

-----------------------------------------------------------------------------
(* What exit_gpio_driver finds.                                            *)

Distinct == \A i, j \in DOMAIN calls : calls[i] = calls[j] => i = j

Called == {calls[i] : i \in DOMAIN calls}

InCall(d) == \E p \in Programs : pc[p] /= "idle" /\ call[p].device = d

\* exit_gpio_driver has still to come to the pin of that function of d.
ToCome(d, f) ==
  \/ exit.at = "no"
  \/ /\ exit.at /= "done"
     /\ \/ d > exit.device
        \/ d = exit.device /\ (exit.func = "output" \/ f = "input")

\* The walk will find e by what d has stored,
StoredIn(d, e) ==
  d \in Called /\ ~ InCall(d) /\ pin[d][e[2]] = e[1] /\ ToCome(d, e[2])

\* or by what p is about to store.
Wants(p, e) ==
  /\ pc[p] \in {"find", "claim", "set", "store"} \cup Stages
  /\ call[p].pin[e[2]] = e[1]

Known(e) == (\E d \in Devices : StoredIn(d, e)) \/ (\E p \in Programs : Wants(p, e))

AllKnown == \A e \in Entries : is_in_use[e] => Known(e)

\* The calls under way are CONFIG_PINS, of the devices called, one of each.
CallsApart ==
  /\ \A p \in Programs : pc[p] /= "idle" =>
       call[p].kind = "ioctl" /\ call[p].device \in Called /\ pc[p] /= "read_back"
  /\ \A p, q \in Programs :
       pc[p] /= "idle" /\ pc[q] /= "idle" /\ p /= q =>
         call[p].device /= call[q].device

\* Only the character driver walks, from the first device's trigger pin.
ExitStart ==
  IF exit.at = "no" THEN exit.device = 1 /\ exit.func = "output"
                    ELSE driver = "character"

FreesInv ==
  /\ InUseInv
  /\ ExitStart
  /\ driver = "character" /\ Distinct => CallsApart /\ AllKnown

LEMMA InitFrees == Init => FreesInv
<1> SUFFICES ASSUME Init PROVE FreesInv
  OBVIOUS
<1>1. InUseInv
  BY InitInUse
<1>2. ExitStart
  BY DEF Init, ExitStart
<1>3. (\A p \in Programs : pc[p] = "idle") /\ \A e \in Entries : ~ is_in_use[e]
  BY DEF Init
<1> QED
  BY <1>1, <1>2, <1>3 DEF FreesInv, CallsApart, AllKnown

\* What a configuring step leaves alone.
LEMMA ConfigureFrame ==
  ASSUME NEW p \in Programs, Configure(p)
  PROVE  /\ UNCHANGED <<driver, calls>>
         /\ pc[p] /= "idle"
         /\ Store(p) \/ UNCHANGED pin
  BY DEF Configure, CheckEcho, CheckTrigger, ReadBack, FindPin, ClaimPin, SetUp,
         PinIsSet, Store, history, device, Stages

\* CONFIG_PINS keeps its device and its pins to its end.
LEMMA OwnCall ==
  ASSUME TypeOK, NEW p \in Programs, Configure(p), pc[p] /= "read_back", ~ Store(p)
  PROVE  /\ call'[p].kind = call[p].kind
         /\ call'[p].device = call[p].device
         /\ call'[p].pin = call[p].pin
         /\ pc'[p] /= "read_back"
<1>1. pc \in [Programs -> Labels] /\ call \in [Programs -> CallOK]
      /\ call[p] \in CallOK
  BY DEF TypeOK, Labels
<1>2. ASSUME NEW label, Goto(p, label)
      PROVE  pc'[p] = label
  BY <1>1, <1>2 DEF Goto
<1>3. ASSUME NEW result, Returned(p, result)
      PROVE  /\ call'[p].kind = call[p].kind
             /\ call'[p].device = call[p].device
             /\ call'[p].pin = call[p].pin
  BY <1>1, <1>3 DEF Returned, CallOK
<1>4. UNCHANGED call \/ \E result : Returned(p, result)
  BY DEF Configure, CheckEcho, CheckTrigger, ReadBack, FindPin, ClaimPin, SetUp,
         PinIsSet
<1>5. pc'[p] /= "read_back"
  BY <1>2 DEF Configure, CheckEcho, CheckTrigger, ReadBack, FindPin, ClaimPin,
              SetUp, PinIsSet, Returned, After, Stages
<1> QED
  BY <1>3, <1>4, <1>5

\* So a program that is in a call after a step of p was in that call before it.
LEMMA StaysInCall ==
  ASSUME TypeOK, NEW p \in Programs, Configure(p), pc[p] /= "read_back",
         NEW q \in Programs, pc'[q] /= "idle"
  PROVE  /\ pc[q] /= "idle"
         /\ call'[q].kind = call[q].kind
         /\ call'[q].device = call[q].device
         /\ call'[q].pin = call[q].pin
         /\ pc'[q] = "read_back" => pc[q] = "read_back"
<1>1. CASE q /= p
  BY <1>1, OthersKeep
<1>2. CASE q = p
  <2>1. ~ Store(p)
    BY <1>2 DEF Store, Goto, TypeOK
  <2> QED
    BY <1>2, <2>1, OwnCall, ConfigureFrame
<1> QED
  BY <1>1, <1>2

\* A pin that was asked for is asked for until it is stored.
LEMMA StaysWanted ==
  ASSUME TypeOK, NEW p \in Programs, Configure(p), pc[p] /= "read_back",
         NEW q \in Programs, NEW e, Wants(q, e), ~ (q = p /\ Store(p))
  PROVE  Wants(q, e)'
<1>1. CASE q /= p
  BY <1>1, OthersKeep DEF Wants
<1>2. CASE q = p
  <2>1. pc[p] \in {"find", "claim", "set", "store"} \cup Stages
        /\ call[p].pin[e[2]] = e[1] /\ ~ Store(p)
    BY <1>2 DEF Wants
  <2>2. call'[p].pin = call[p].pin
    BY <2>1, OwnCall
  <2>3. pc \in [Programs -> Labels]
    BY DEF TypeOK, Labels
  <2>4. ASSUME NEW label, Goto(p, label)
        PROVE  pc'[p] = label
    BY <2>3, <2>4 DEF Goto
  <2>5. pc'[p] \in {"find", "claim", "set", "store"} \cup Stages
    BY <2>1, <2>4 DEF Configure, CheckEcho, CheckTrigger, ReadBack, FindPin,
         ClaimPin, SetUp, PinIsSet, Returned, After, Stages
  <2> QED
    BY <1>2, <2>1, <2>2, <2>5 DEF Wants
<1> QED
  BY <1>1, <1>2

LEMMA ConfigureApart ==
  ASSUME TypeOK, CallsApart, NEW p \in Programs, Configure(p)
  PROVE  CallsApart'
<1>1. UNCHANGED calls /\ pc[p] /= "idle" /\ pc[p] /= "read_back"
  BY ConfigureFrame DEF CallsApart
<1>2. Called' = Called
  BY <1>1 DEF Called
<1>3. ASSUME NEW q \in Programs, pc'[q] /= "idle"
      PROVE  /\ pc[q] /= "idle" /\ call'[q].device = call[q].device
             /\ call'[q].kind = "ioctl" /\ call'[q].device \in Called
             /\ pc'[q] /= "read_back"
  BY <1>1, <1>3, StaysInCall DEF CallsApart
<1> QED
  BY <1>2, <1>3 DEF CallsApart

\* Where the pins of CONFIG_PINS are stored, the walk will find them.
LEMMA StoreKnown ==
  ASSUME TypeOK, CallsApart, exit.at = "no", UNCHANGED exit,
         NEW p \in Programs, Configure(p), Store(p), NEW e \in Entries, Wants(p, e),
         NEW d \in Devices, d = call[p].device
  PROVE  StoredIn(d, e)'
<1>1. /\ pc[p] /= "idle" /\ pc[p] /= "read_back" /\ UNCHANGED calls
      /\ call[p].kind = "ioctl" /\ d \in Called
  BY ConfigureFrame DEF CallsApart
<1>2. pin' = [pin EXCEPT ![d] = call[p].pin] /\ pc'[p] = "idle"
  BY <1>1 DEF Store, Goto, TypeOK
<1>3. pin'[d][e[2]] = e[1]
  <2>1. pin'[d] = call[p].pin
    BY <1>2 DEF TypeOK
  <2> QED
    BY <2>1 DEF Wants
<1>4. ASSUME NEW q \in Programs, pc'[q] /= "idle", call'[q].device = d
      PROVE  FALSE
  <2>1. q /= p /\ pc[q] /= "idle" /\ call[q].device = d
    BY <1>1, <1>2, <1>4, StaysInCall
  <2> QED
    BY <1>1, <2>1 DEF CallsApart
<1>5. exit'.at = "no" /\ d \in Called'
  BY <1>1 DEF Called
<1> QED
  BY <1>3, <1>4, <1>5 DEF StoredIn, InCall, ToCome

LEMMA ConfigureKnown ==
  ASSUME InUseInv, CallsApart, AllKnown, NEW p \in Programs, Configure(p)
  PROVE  AllKnown'
<1>0. TypeOK /\ exit.at = "no" /\ UNCHANGED exit
  BY ConfigureAlone DEF InUseInv
<1>1. UNCHANGED calls /\ pc[p] /= "idle" /\ pc[p] /= "read_back"
  BY ConfigureFrame DEF CallsApart
<1> SUFFICES ASSUME NEW e \in Entries, is_in_use'[e] PROVE Known(e)'
  BY DEF AllKnown
<1>2. ASSUME NEW d \in Devices, StoredIn(d, e)
      PROVE  StoredIn(d, e)'
  <2>1. d \in Called' /\ ~ InCall(d) /\ pin[d][e[2]] = e[1]
    BY <1>1, <1>2 DEF StoredIn, Called
  <2>2. call[p].device /= d
    BY <1>1, <2>1 DEF InCall
  <2>3. ~ InCall(d)'
    BY <1>0, <1>1, <2>1, StaysInCall DEF InCall
  <2>4. pin'[d] = pin[d]
    <3>1. CASE Store(p)
      BY <1>0, <2>2, <3>1 DEF Store, TypeOK
    <3>2. CASE UNCHANGED pin
      BY <3>2
    <3> QED
      BY <3>1, <3>2, ConfigureFrame
  <2>5. ToCome(d, e[2])'
    BY <1>0 DEF ToCome
  <2> QED
    BY <2>1, <2>3, <2>4, <2>5 DEF StoredIn
<1>3. ASSUME NEW q \in Programs, Wants(q, e)
      PROVE  Known(e)'
  <2>1. CASE q = p /\ Store(p)
    <3>1. PICK d \in Devices : d = call[p].device
      BY <1>0 DEF TypeOK, CallOK
    <3>2. StoredIn(d, e)'
      BY <1>0, <1>3, <2>1, <3>1, StoreKnown
    <3> QED
      BY <3>2 DEF Known
  <2>2. CASE ~ (q = p /\ Store(p))
    <3>1. Wants(q, e)'
      BY <1>0, <1>1, <1>3, <2>2, StaysWanted
    <3> QED
      BY <3>1 DEF Known
  <2> QED
    BY <2>1, <2>2
<1>4. CASE is_in_use[e]
  <2>1. (\E d \in Devices : StoredIn(d, e)) \/ \E q \in Programs : Wants(q, e)
    BY <1>4 DEF AllKnown, Known
  <2> QED
    BY <1>2, <1>3, <2>1 DEF Known
<1>5. CASE ~ is_in_use[e]
  <2>1. ClaimPin(p)
    BY <1>5 DEF Configure, CheckEcho, CheckTrigger, ReadBack, FindPin, SetUp,
                PinIsSet, Store, table
  <2>2. e = Entry(p)
    BY <1>0, <1>5, <2>1 DEF ClaimPin, TypeOK
  <2>3. pc'[p] = "gpio" /\ call' = call
    BY <1>0, <2>1 DEF ClaimPin, Goto, TypeOK
  <2>4. Wants(p, e)'
    BY <2>2, <2>3 DEF Wants, Entry, Stages
  <2> QED
    BY <2>4 DEF Known
<1> QED
  BY <1>4, <1>5

LEMMA AppendCalled ==
  ASSUME NEW D, calls \in Seq(D), NEW d \in D, calls' = Append(calls, d)
  PROVE  /\ Called' = Called \cup {d}
         /\ Distinct' => Distinct /\ d \notin Called
<1> DEFINE n == Len(calls)
<1>1. /\ n \in Nat /\ DOMAIN calls = 1 .. n /\ DOMAIN calls' = 1 .. n + 1
      /\ calls'[n + 1] = d /\ \A i \in 1 .. n : calls'[i] = calls[i]
  OBVIOUS
<1>2. Called' = Called \cup {d}
  BY <1>1 DEF Called
<1>3. ASSUME Distinct' PROVE Distinct
  BY <1>1, <1>3 DEF Distinct
<1>4. ASSUME Distinct', d \in Called PROVE FALSE
  <2>1. PICK i \in 1 .. n : calls[i] = d
    BY <1>1, <1>4 DEF Called
  <2>2. i \in DOMAIN calls' /\ n + 1 \in DOMAIN calls' /\ calls'[i] = calls'[n + 1]
    BY <1>1, <2>1
  <2>3. i = n + 1
    BY <1>4, <2>2 DEF Distinct
  <2> QED
    BY <1>1, <2>1, <2>3
<1> QED
  BY <1>2, <1>3, <1>4

\* Before its first call, nothing in the table is known by a device.
LEMMA CallKnown ==
  ASSUME InUseInv, ExitStart, driver = "character", CallsApart, AllKnown,
         NEW p \in Programs, NEW d \in Devices, Call(p, d), d \notin Called
  PROVE  CallsApart' /\ AllKnown'
<1>0. TypeOK
  BY DEF InUseInv
<1>1. PICK echo \in AskedPins, trigger \in AskedPins : ConfigPins(p, d, echo, trigger)
  BY DEF Call, StorePin
<1> DEFINE new == [NoCall EXCEPT !.device = d,
             !.pin = [f \in Functions |-> IF f = "input" THEN echo ELSE trigger]]
<1>2. /\ exit.at = "no" /\ pc[p] = "idle" /\ calls' = Append(calls, d)
      /\ pc' = [pc EXCEPT ![p] = "check_echo"] /\ call' = [call EXCEPT ![p] = new]
      /\ UNCHANGED <<is_in_use, pin, exit>>
  BY <1>1 DEF ConfigPins, Begin, Goto, table, device
<1>3. new.kind = "ioctl" /\ new.device = d
  BY DEF NoCall
<1>4. call'[p].kind = "ioctl" /\ call'[p].device = d /\ pc'[p] = "check_echo"
  <2> HIDE DEF new
  <2> QED
    BY <1>0, <1>2, <1>3 DEF TypeOK
<1>5. \A q \in Programs : q /= p => pc'[q] = pc[q] /\ call'[q] = call[q]
  BY <1>0, OthersKeep
<1>6. Called' = Called \cup {d}
  BY <1>0, <1>2, AppendCalled DEF TypeOK, Called
<1>7. CallsApart'
  <2>1. ASSUME NEW q \in Programs, q /= p, pc'[q] /= "idle"
        PROVE  /\ pc[q] /= "idle" /\ call'[q].device = call[q].device
               /\ call[q].device \in Called /\ call'[q].kind = "ioctl"
               /\ pc'[q] /= "read_back"
    BY <1>5, <2>1 DEF CallsApart
  <2> QED
    BY <1>4, <1>6, <2>1 DEF CallsApart
<1>8. ASSUME NEW e \in Entries, is_in_use'[e]
      PROVE  Known(e)'
  <2>1. Known(e)
    BY <1>2, <1>8 DEF AllKnown
  <2>2. ASSUME NEW c \in Devices, StoredIn(c, e)
        PROVE  StoredIn(c, e)'
    <3>1. c \in Called' /\ c /= d
      BY <1>6, <2>2 DEF StoredIn
    <3>2. ~ InCall(c)'
      BY <1>4, <1>5, <2>2, <3>1 DEF StoredIn, InCall
    <3> QED
      BY <1>2, <2>2, <3>1, <3>2 DEF StoredIn, ToCome
  <2>3. ASSUME NEW q \in Programs, Wants(q, e)
        PROVE  Wants(q, e)'
    BY <1>2, <1>5, <2>3 DEF Wants, Stages
  <2> QED
    BY <2>1, <2>2, <2>3 DEF Known
<1> QED
  BY <1>7, <1>8 DEF AllKnown

\* The walk takes the next of the three steps for its entry,
ExitMoves ==
  /\ exit.at \in Stages \cup {"find"}
  /\ \/ exit' = [exit EXCEPT !.at = "gpio"]
     \/ exit.at \in {"gpio", "direction"} /\ exit' = [exit EXCEPT !.at = After(exit.at)]

\* or goes on to another, when its entry is not in use.
ExitPasses ==
  /\ exit.at \in Stages \cup {"find"}
  /\ ~ (ExitEntry \in Entries /\ is_in_use[ExitEntry])
  /\ ExitNext

LEMMA ExitSteps ==
  ASSUME InUseInv, Exit
  PROVE  ExitBegin \/ ExitMoves \/ ExitPasses
<1>1. CASE ExitFind
  BY <1>1 DEF ExitFind, ExitMoves, ExitPasses
<1>2. CASE ExitFree
  BY <1>2 DEF ExitFree, ExitMoves, ExitPasses, InUseInv, ExitTook, Stages
<1> QED
  BY <1>1, <1>2 DEF Exit

\* The order of the walk.
LEMMA NextToCome ==
  ASSUME exit \in ExitOK, ExitNext, NEW d \in Devices, NEW f \in Functions,
         d > exit.device \/ (d = exit.device /\ (exit.func = "output" \/ f = "input")),
         ~ (d = exit.device /\ f = exit.func)
  PROVE  ToCome(d, f)'
<1>1. /\ exit.device \in Int /\ d \in Int /\ d <= NumDevices /\ NumDevices \in Nat
      /\ exit.func \in {"input", "output"} /\ f \in {"input", "output"}
  BY MuxAssumption DEF ExitOK, Devices, Functions
<1>2. CASE exit.func = "output"
  <2>1. exit'.at = "find" /\ exit'.func = "input" /\ exit'.device = exit.device
    BY <1>2 DEF ExitNext, ExitOK
  <2>2. d > exit.device \/ (d = exit.device /\ f = "input")
    BY <1>1, <1>2
  <2> QED
    BY <2>1, <2>2 DEF ToCome
<1>3. CASE exit.func /= "output"
  <2>1. exit.func = "input"
    BY <1>1, <1>3
  <2>2. d > exit.device
    BY <2>1
  <2>3. exit.device < NumDevices
    BY <1>1, <2>2
  <2>4. /\ exit'.at = "find" /\ exit'.func = "output"
        /\ exit'.device = exit.device + 1
    BY <1>3, <2>3 DEF ExitNext
  <2>5. d > exit.device + 1 \/ d = exit.device + 1
    BY <1>1, <2>2
  <2> QED
    BY <2>4, <2>5 DEF ToCome
<1> QED
  BY <1>2, <1>3

\* The walk passes a pin only when it is not in use.
LEMMA ExitKnown ==
  ASSUME InUseInv, ExitStart, CallsApart, AllKnown, Exit
  PROVE  CallsApart' /\ AllKnown'
<1>0. TypeOK /\ exit \in ExitOK
  BY DEF InUseInv, TypeOK
<1>1. UNCHANGED <<pin, pc, call, calls>>
  BY DEF Exit, ExitBegin, ExitFind, ExitFree, device, programs, history
<1>2. CallsApart'
  BY <1>1 DEF CallsApart, Called
<1>3. \A q \in Programs : pc[q] = "idle"
  BY DEF Exit, ExitBegin, ExitFind, ExitFree, InUseInv, ExitAlone, Stages
<1>4. ASSUME NEW e \in Entries, is_in_use'[e]
      PROVE  Known(e)'
  <2>1. is_in_use[e]
    BY <1>0, <1>4 DEF Exit, ExitBegin, ExitFind, ExitFree, table, TypeOK
  <2>2. PICK d \in Devices : StoredIn(d, e)
    BY <1>3, <2>1 DEF AllKnown, Known, Wants, Stages
  <2>3. e[2] \in Functions /\ e = <<e[1], e[2]>>
    BY DEF Entries
  <2>4. ToCome(d, e[2])'
    <3>1. CASE ExitBegin
      <4>1. exit.device = 1 /\ exit.func = "output" /\ exit.at = "no"
        BY <3>1 DEF ExitBegin, ExitStart
      <4>2. exit'.device = 1 /\ exit'.func = "output" /\ exit'.at = "find"
        BY <1>0, <3>1, <4>1 DEF ExitBegin, ExitOK
      <4>3. d > 1 \/ d = 1
        BY DEF Devices
      <4> QED
        BY <4>2, <4>3 DEF ToCome
    <3>2. CASE ExitMoves
      <4>1. /\ exit'.device = exit.device /\ exit'.func = exit.func
            /\ exit'.at \in Stages /\ exit.at /= "no"
        BY <1>0, <3>2 DEF ExitMoves, ExitOK, After, Stages
      <4> QED
        BY <2>2, <4>1 DEF StoredIn, ToCome, Stages
    <3>3. CASE ExitPasses
      <4>1. /\ exit.at /= "no" /\ exit.at /= "done" /\ ExitNext
            /\ e /= ExitEntry
        BY <2>1, <3>3 DEF ExitPasses, Stages
      <4>2. \/ d > exit.device
            \/ d = exit.device /\ (exit.func = "output" \/ e[2] = "input")
        BY <2>2, <4>1 DEF StoredIn, ToCome
      <4>3. ~ (d = exit.device /\ e[2] = exit.func)
        BY <2>2, <2>3, <4>1 DEF StoredIn, ExitEntry
      <4> QED
        BY <1>0, <2>3, <4>1, <4>2, <4>3, NextToCome
    <3> QED
      BY <3>1, <3>2, <3>3, ExitSteps
  <2>5. StoredIn(d, e)'
    BY <1>1, <2>2, <2>4 DEF StoredIn, Called, InCall
  <2> QED
    BY <2>5 DEF Known
<1> QED
  BY <1>2, <1>4 DEF AllKnown

LEMMA NextFrees == FreesInv /\ [Next]_vars => FreesInv'
<1> SUFFICES ASSUME FreesInv, [Next]_vars PROVE FreesInv'
  OBVIOUS
<1>0. TypeOK /\ InUseInv /\ InUseInv' /\ ExitStart /\ exit \in ExitOK
  BY NextInUse DEF FreesInv, InUseInv, TypeOK
<1>1. CASE UNCHANGED vars
  <2>1. UNCHANGED <<driver, is_in_use, pin, pc, call, exit, calls>>
    BY <1>1 DEF vars, table, device, programs, history
  <2>2. ExitStart' /\ (Distinct' => Distinct)
    BY <1>0, <2>1 DEF ExitStart, Distinct
  <2>3. CallsApart => CallsApart'
    BY <2>1 DEF CallsApart, Called
  <2>4. AllKnown => AllKnown'
    BY <2>1 DEF AllKnown, Known, StoredIn, Wants, Called, InCall, ToCome
  <2> QED
    BY <1>0, <2>1, <2>2, <2>3, <2>4 DEF FreesInv
<1>2. ASSUME NEW p \in Programs, Configure(p)
      PROVE  FreesInv'
  <2>1. UNCHANGED <<driver, calls, exit>>
    BY <1>0, <1>2, ConfigureFrame, ConfigureAlone DEF InUseInv
  <2>2. ExitStart' /\ (Distinct' => Distinct)
    BY <1>0, <2>1 DEF ExitStart, Distinct
  <2>3. driver = "character" /\ Distinct => CallsApart' /\ AllKnown'
    BY <1>0, <1>2, ConfigureApart, ConfigureKnown DEF FreesInv
  <2> QED
    BY <1>0, <2>1, <2>2, <2>3 DEF FreesInv
<1>3. ASSUME NEW p \in Programs, NEW d \in Devices, Call(p, d)
      PROVE  FreesInv'
  <2>1. UNCHANGED <<driver, exit>> /\ calls' = Append(calls, d)
    BY <1>3 DEF Call, ConfigPins, StorePin, Begin
  <2>2. ExitStart'
    BY <1>0, <2>1 DEF ExitStart
  <2>3. Distinct' => Distinct /\ d \notin Called
    BY <1>0, <2>1, AppendCalled DEF TypeOK
  <2>4. driver = "character" /\ Distinct' => CallsApart' /\ AllKnown'
    BY <1>0, <1>3, <2>3, CallKnown DEF FreesInv
  <2> QED
    BY <1>0, <2>1, <2>2, <2>4 DEF FreesInv
<1>4. CASE Exit
  <2>1. UNCHANGED <<driver, calls>> /\ exit.at \in {"no", "find"} \cup Stages
    BY <1>4 DEF Exit, ExitBegin, ExitFind, ExitFree, history
  <2>2. ExitStart'
    <3>1. CASE ExitBegin
      BY <1>0, <3>1 DEF ExitBegin, ExitStart, ExitOK
    <3>2. CASE ExitMoves
      BY <1>0, <2>1, <3>2 DEF ExitMoves, ExitStart, ExitOK, After, Stages
    <3>3. CASE ExitPasses
      BY <1>0, <2>1, <3>3 DEF ExitPasses, ExitNext, ExitStart, ExitOK, Stages
    <3> QED
      BY <1>0, <1>4, <3>1, <3>2, <3>3, ExitSteps
  <2>3. Distinct' => Distinct
    BY <2>1 DEF Distinct
  <2>4. driver = "character" /\ Distinct => CallsApart' /\ AllKnown'
    BY <1>0, <1>4, ExitKnown DEF FreesInv
  <2> QED
    BY <1>0, <2>1, <2>2, <2>3, <2>4 DEF FreesInv
<1> QED
  BY <1>1, <1>2, <1>3, <1>4 DEF Next

\* The module gives every pin back when it is unloaded, for every table and any
\* number of devices and programs, if no device was configured twice: also the
\* pins of devices whose calls raced for them.
THEOREM FreesAll == Spec => []ExitFreesAll
<1>1. Init => FreesInv
  BY InitFrees
<1>2. FreesInv /\ [Next]_vars => FreesInv'
  BY NextFrees
<1>3. FreesInv => ExitFreesAll
  <2> SUFFICES ASSUME FreesInv, exit.at = "done", Distinct
               PROVE  requested = {} /\ \A e \in Entries : ~ is_in_use[e]
    BY DEF ExitFreesAll, Distinct
  <2>1. driver = "character" /\ AllKnown /\ \A p \in Programs : pc[p] = "idle"
    BY DEF FreesInv, ExitStart, InUseInv, ExitAlone
  <2>2. \A e \in Entries : ~ is_in_use[e]
    BY <2>1 DEF AllKnown, Known, StoredIn, ToCome, Wants, Stages
  <2>3. Remaining = {}
    BY DEF Remaining
  <2> QED
    BY <2>2, <2>3 DEF FreesInv, InUseInv, RequestedIsInUse
<1> QED
  BY <1>1, <1>2, <1>3, PTL DEF Spec

-----------------------------------------------------------------------------
(* The echo lines.                                                         *)

\* What a device and a call have as a gpio is one that request_irq knows, or
\* the errno that set_pin_conf returns.
GpioValues == Lines \cup {- EINVAL}

GpiosKnown ==
  /\ gpio \in [Devices -> [Functions -> GpioValues]]
  /\ \A p \in Programs : call[p].gpio \in [Functions -> GpioValues]

LEMMA ValueOfPin ==
  ASSUME NEW n \in Pins
  PROVE  GpioPin[n] \in Lines
  BY DEF Lines, Gpios

LEMMA ReturnedKnown ==
  ASSUME TypeOK, GpiosKnown, NEW p \in Programs, NEW result \in GpioValues,
         Returned(p, result)
  PROVE  \A q \in Programs : call'[q].gpio \in [Functions -> GpioValues]
<1> DEFINE f    == call[p].func
           more == call[p].kind = "ioctl" /\ f = "input"
           new  == [call[p] EXCEPT !.gpio[f] = result,
                                   !.func = IF more THEN "output" ELSE f]
<1>1. call \in [Programs -> CallOK] /\ f \in Functions
  BY DEF TypeOK, CallOK
<1>2. new.gpio \in [Functions -> GpioValues]
  <2>1. [call[p].gpio EXCEPT ![f] = result] \in [Functions -> GpioValues]
    BY <1>1 DEF GpiosKnown
  <2>2. new.gpio = [call[p].gpio EXCEPT ![f] = result]
    BY <1>1 DEF CallOK
  <2> QED
    BY <2>1, <2>2
<1>3. call' = [call EXCEPT ![p] = new]
  BY <1>1 DEF Returned
<1> HIDE DEF new
<1> QED
  BY <1>1, <1>2, <1>3 DEF GpiosKnown

LEMMA NoCallKnown == NoCall.gpio \in [Functions -> GpioValues]
  BY DEF NoCall, GpioValues, Lines

LEMMA ConfigureKnows ==
  ASSUME TypeOK, GpiosKnown, NEW p \in Programs, Configure(p)
  PROVE  GpiosKnown'
<1>0. call \in [Programs -> CallOK] /\ call[p].gpio \in [Functions -> GpioValues]
  BY DEF TypeOK, GpiosKnown
<1>1. CASE Store(p)
  <2> DEFINE d == call[p].device
             f == call[p].func
  <2>1. d \in Devices /\ f \in Functions
    BY <1>0 DEF CallOK
  <2>2. \/ gpio' = [gpio EXCEPT ![d] = call[p].gpio]
        \/ gpio' = [gpio EXCEPT ![d] = [gpio[d] EXCEPT ![f] = call[p].gpio[f]]]
    BY <1>1 DEF Store
  <2>3. gpio \in [Devices -> [Functions -> GpioValues]]
    BY DEF GpiosKnown
  <2>4. [gpio[d] EXCEPT ![f] = call[p].gpio[f]] \in [Functions -> GpioValues]
    BY <1>0, <2>1, <2>3
  <2>5. gpio' \in [Devices -> [Functions -> GpioValues]]
    BY <1>0, <2>1, <2>2, <2>3, <2>4
  <2>6. call' = [call EXCEPT ![p] = NoCall]
    BY <1>1 DEF Store
  <2> QED
    BY <1>0, <2>5, <2>6, NoCallKnown DEF GpiosKnown
<1>2. CASE FindPin(p)
  <2>1. CASE UNCHANGED call
    BY <1>2, <2>1 DEF FindPin, device, GpiosKnown
  <2>2. CASE Returned(p, - EINVAL)
    BY <1>2, <2>2, ReturnedKnown DEF FindPin, device, GpiosKnown, GpioValues
  <2> QED
    BY <1>2, <2>1, <2>2 DEF FindPin
<1>3. CASE PinIsSet(p)
  <2>1. Entry(p)[1] \in Pins
    BY <1>3 DEF PinIsSet, TypeOK, Entries
  <2>2. Returned(p, GpioPin[Entry(p)[1]]) /\ GpioPin[Entry(p)[1]] \in GpioValues
    BY <1>3, <2>1, ValueOfPin DEF PinIsSet, GpioValues
  <2> QED
    BY <1>3, <2>2, ReturnedKnown DEF PinIsSet, device, GpiosKnown
<1>4. CASE ReadBack(p)
  <2>1. \A q \in Programs : call'[q].gpio = call[q].gpio
    BY <1>0, <1>4 DEF ReadBack, CallOK
  <2> QED
    BY <1>4, <2>1 DEF ReadBack, device, GpiosKnown
<1>5. CASE CheckEcho(p) \/ CheckTrigger(p) \/ ClaimPin(p) \/ SetUp(p)
  BY <1>5 DEF CheckEcho, CheckTrigger, ClaimPin, SetUp, device, GpiosKnown
<1> QED
  BY <1>1, <1>2, <1>3, <1>4, <1>5 DEF Configure

LEMMA CallKnows ==
  ASSUME TypeOK, GpiosKnown, NEW p \in Programs, NEW d \in Devices, Call(p, d)
  PROVE  GpiosKnown'
<1>1. UNCHANGED gpio
  BY DEF Call, ConfigPins, StorePin, device
<1>2. PICK new : call' = [call EXCEPT ![p] = new] /\ new.gpio = NoCall.gpio
  <2>1. ASSUME NEW echo \in AskedPins, NEW trigger \in AskedPins,
               ConfigPins(p, d, echo, trigger)
        PROVE  \E new : call' = [call EXCEPT ![p] = new] /\ new.gpio = NoCall.gpio
    <3> DEFINE new == [NoCall EXCEPT !.device = d,
               !.pin = [f \in Functions |-> IF f = "input" THEN echo ELSE trigger]]
    <3>1. call' = [call EXCEPT ![p] = new] /\ new.gpio = NoCall.gpio
      BY <2>1 DEF ConfigPins, NoCall
    <3> QED
      BY <3>1
  <2>2. ASSUME NEW f \in Functions, NEW n \in AskedPins, StorePin(p, d, f, n)
        PROVE  \E new : call' = [call EXCEPT ![p] = new] /\ new.gpio = NoCall.gpio
    <3> DEFINE new == [NoCall EXCEPT !.kind = "store", !.device = d, !.func = f]
    <3>1. call' = [call EXCEPT ![p] = new] /\ new.gpio = NoCall.gpio
      BY <2>2 DEF StorePin, NoCall
    <3> QED
      BY <3>1
  <2> QED
    BY <2>1, <2>2 DEF Call
<1> QED
  BY <1>1, <1>2, NoCallKnown DEF TypeOK, GpiosKnown

LEMMA NextKnows == TypeOK /\ GpiosKnown /\ [Next]_vars => GpiosKnown'
<1> SUFFICES ASSUME TypeOK, GpiosKnown, [Next]_vars PROVE GpiosKnown'
  OBVIOUS
<1>1. CASE UNCHANGED <<gpio, call>>
  BY <1>1 DEF GpiosKnown
<1>2. CASE Exit
  BY <1>1, <1>2 DEF Exit, ExitBegin, ExitFind, ExitFree, device, programs
<1> QED
  BY <1>1, <1>2, ConfigureKnows, CallKnows DEF Next, vars, device, programs

\* While a device keeps its echo pin, its gpio is the line its thread requested.
Kept ==
  \A d \in Devices \ moved : \A t \in Threads :
    Samples(t, d) => requestedLine[t] = EchoGpio(d)

LineInv ==
  TypeOK /\ GpiosKnown /\ LineTypeOK /\ LinesMatchThreads /\ Kept

LEMMA InitLine == LineInit => LineInv
<1> SUFFICES ASSUME LineInit PROVE LineInv
  OBVIOUS
<1>1. TypeOK
  BY InitType DEF LineInit
<1>2. GpiosKnown
  <2>1. [f \in Functions |-> 0] \in [Functions -> GpioValues]
    BY DEF GpioValues, Lines
  <2> QED
    BY <2>1, NoCallKnown DEF LineInit, Init, GpiosKnown
<1>3. LineTypeOK
  BY DEF LineInit, LineTypeOK, Lines
<1>4. LinesMatchThreads /\ Kept
  BY LineAssumption DEF LineInit, LinesMatchThreads, Kept, Samples
<1> QED
  BY <1>1, <1>2, <1>3, <1>4 DEF LineInv

LEMMA LineStepIsPinStep == LineNext => [Next]_vars
  BY DEF LineNext, PinStep, Measure, StartCheck, StartMark, SetInterrupt,
         ReleaseIrq, Finish, Disable

LEMMA EchoGpioKnown ==
  ASSUME GpiosKnown, NEW d \in Devices
  PROVE  EchoGpio(d) \in Lines \/ ~ EchoGpio(d) >= 0
  BY DEF GpiosKnown, GpioValues, EchoGpio, Functions, EINVAL

LEMMA NextLineType ==
  ASSUME LineInv, LineNext
  PROVE  LineTypeOK'
<1> USE DEF LineInv, LineTypeOK
<1>1. CASE PinStep
  BY <1>1 DEF PinStep, threads
<1>2. ASSUME NEW t \in Threads, NEW d \in Devices, StartCheck(t, d)
      PROVE  LineTypeOK'
  BY <1>2 DEF StartCheck, GotoT
<1>3. ASSUME NEW t \in Threads, StartMark(t)
      PROVE  LineTypeOK'
  BY <1>3 DEF StartMark, GotoT
<1>4. ASSUME NEW t \in Threads, SetInterrupt(t)
      PROVE  LineTypeOK'
  <2>1. handle[t] \in Devices
    BY <1>4 DEF SetInterrupt
  <2> QED
    BY <1>4, <2>1, EchoGpioKnown DEF SetInterrupt, GotoT, EndT
<1>5. ASSUME NEW t \in Threads, ReleaseIrq(t)
      PROVE  LineTypeOK'
  BY <1>5 DEF ReleaseIrq, GotoT, Lines
<1>6. ASSUME NEW t \in Threads, Finish(t)
      PROVE  LineTypeOK'
  BY <1>6 DEF Finish, GotoT, EndT
<1>7. ASSUME NEW d \in Devices, Disable(d)
      PROVE  LineTypeOK'
  BY <1>7 DEF Disable, threads
<1> QED
  BY <1>1, <1>2, <1>3, <1>4, <1>5, <1>6, <1>7 DEF LineNext, Measure

\* A step that leaves the lines and who samples as they are.
LEMMA SameSamplers ==
  ASSUME LinesMatchThreads, Kept, UNCHANGED <<owner, requestedLine, moved, gpio>>,
         \A t \in Threads, d \in Devices : Samples(t, d)' = Samples(t, d)
  PROVE  LinesMatchThreads' /\ Kept'
  BY DEF LinesMatchThreads, Kept, EchoGpio

LEMMA PinStepMatch ==
  ASSUME LineInv, PinStep
  PROVE  LinesMatchThreads' /\ Kept'
<1>1. /\ UNCHANGED <<tpc, handle, requestedLine, owner>>
      /\ \A t, d : Samples(t, d)' = Samples(t, d)
  BY DEF PinStep, threads, Samples
<1>2. ASSUME NEW d \in Devices \ moved'
      PROVE  /\ d \notin moved
             /\ \A t \in Threads : Samples(t, d) => EchoGpio(d)' = EchoGpio(d)
  BY <1>2 DEF PinStep
<1>3. LinesMatchThreads'
  BY <1>1, <1>2 DEF LineInv, LinesMatchThreads
<1>4. Kept'
  BY <1>1, <1>2 DEF LineInv, Kept
<1> QED
  BY <1>3, <1>4

LEMMA SetInterruptMatch ==
  ASSUME LineInv, NEW t \in Threads, SetInterrupt(t)
  PROVE  LinesMatchThreads' /\ Kept'
<1> DEFINE d == handle[t]
           g == EchoGpio(d)
<1>0. /\ tpc[t] = "setup" /\ d \in Devices
      /\ tpc \in [Threads -> {"none", "start", "setup", "sampling", "finish"}]
      /\ handle \in [Threads -> Devices \cup {NoOne}]
      /\ owner \in [Lines -> Devices \cup {NoOne}]
      /\ requestedLine \in [Threads -> Lines]
      /\ UNCHANGED <<gpio, moved>>
  BY DEF SetInterrupt, LineInv, LineTypeOK, vars, device
<1>1. CASE g >= 0 /\ owner[g] = NoOne
  <2>1. g \in Lines
    BY <1>0, <1>1, EchoGpioKnown DEF LineInv
  <2>2. /\ owner' = [owner EXCEPT ![g] = d]
        /\ requestedLine' = [requestedLine EXCEPT ![t] = g]
        /\ tpc' = [tpc EXCEPT ![t] = "sampling"]
        /\ handle' = handle
    BY <1>1 DEF SetInterrupt, GotoT
  <2>3. \A u \in Threads, e \in Devices :
          Samples(u, e)' <=> Samples(u, e) \/ (u = t /\ e = d)
    BY <1>0, <2>2 DEF Samples
  <2>4. \A u \in Threads : u /= t => requestedLine'[u] = requestedLine[u]
    BY <1>0, <2>2
  <2>5. requestedLine'[t] = g /\ owner'[g] = d
    BY <1>0, <2>1, <2>2
  <2>6. \A h \in Lines : h /= g => owner'[h] = owner[h]
    BY <1>0, <2>2
  <2>7. \A u \in Threads : d \notin moved => ~ Samples(u, d)
    BY <1>0, <1>1, LineAssumption DEF LineInv, LinesMatchThreads, Kept
  <2>8. \A e \in Devices : ~ Samples(t, e)
    BY <1>0 DEF Samples
  <2>9. ASSUME NEW e \in Devices \ moved
        PROVE  /\ \A u \in Threads : Samples(u, e)' =>
                    /\ owner'[requestedLine'[u]] = e
                    /\ requestedLine'[u] = EchoGpio(e)
               /\ \A h \in Lines : owner'[h] = e =>
                    \E u \in Threads : Samples(u, e)' /\ requestedLine'[u] = h
               /\ \A u, v \in Threads :
                    Samples(u, e)' /\ Samples(v, e)' => u = v
    <3>1. CASE e = d
      <4>1. \A u \in Threads : Samples(u, e)' <=> u = t
        BY <1>0, <2>3, <2>7, <2>9, <3>1
      <4>2. \A h \in Lines : owner[h] /= d
        BY <2>7, <2>9, <3>1 DEF LineInv, LinesMatchThreads
      <4>3. ASSUME NEW h \in Lines, owner'[h] = e
            PROVE  h = g
        BY <2>6, <3>1, <4>2, <4>3
      <4> QED
        BY <2>5, <3>1, <4>1, <4>3
    <3>2. CASE e /= d
      <4>1. \A u \in Threads : Samples(u, e)' => Samples(u, e) /\ u /= t
        BY <1>0, <2>3, <2>8, <3>2
      <4>2. \A u \in Threads : Samples(u, e) => Samples(u, e)' /\ u /= t
        BY <1>0, <2>3, <2>8
      <4>3. ASSUME NEW u \in Threads, Samples(u, e)'
            PROVE  owner'[requestedLine'[u]] = e /\ requestedLine'[u] = EchoGpio(e)
        <5>1. /\ owner[requestedLine[u]] = e /\ requestedLine[u] = EchoGpio(e)
              /\ requestedLine[u] \in Lines
          BY <1>0, <2>9, <4>1, <4>3 DEF LineInv, LinesMatchThreads, Kept
        <5>2. requestedLine[u] /= g
          BY <1>1, <5>1, <2>9, LineAssumption
        <5> QED
          BY <2>4, <2>6, <4>1, <4>3, <5>1, <5>2
      <4>4. ASSUME NEW h \in Lines, owner'[h] = e
            PROVE  \E u \in Threads : Samples(u, e)' /\ requestedLine'[u] = h
        <5>1. owner[h] = e
          BY <2>5, <2>6, <3>2, <4>4
        <5>2. PICK u \in Threads : Samples(u, e) /\ requestedLine[u] = h
          BY <2>9, <5>1 DEF LineInv, LinesMatchThreads
        <5> QED
          BY <2>4, <4>2, <5>2
      <4>5. ASSUME NEW u \in Threads, NEW v \in Threads,
                   Samples(u, e)', Samples(v, e)'
            PROVE  u = v
        BY <2>9, <4>1, <4>5 DEF LineInv, LinesMatchThreads
      <4> QED
        BY <4>3, <4>4, <4>5
    <3> QED
      BY <3>1, <3>2
  <2>10. \A e \in Devices : EchoGpio(e)' = EchoGpio(e)
    BY <1>0 DEF EchoGpio
  <2> QED
    BY <1>0, <2>9, <2>10 DEF LinesMatchThreads, Kept
<1>2. CASE ~ (g >= 0 /\ owner[g] = NoOne)
  <2>1. /\ UNCHANGED <<owner, requestedLine>>
        /\ tpc' = [tpc EXCEPT ![t] = "none"]
        /\ handle' = [handle EXCEPT ![t] = NoOne]
    BY <1>2 DEF SetInterrupt, EndT, GotoT
  <2>2. \A u \in Threads, e \in Devices : Samples(u, e)' = Samples(u, e)
    BY <1>0, <2>1 DEF Samples
  <2> QED
    BY <1>0, <2>1, <2>2, SameSamplers DEF LineInv
<1> QED
  BY <1>1, <1>2

LEMMA ReleaseMatch ==
  ASSUME LineInv, NEW t \in Threads, ReleaseIrq(t)
  PROVE  LinesMatchThreads' /\ Kept'
<1> DEFINE d == handle[t]
           g == EchoGpio(d)
<1>0. /\ tpc[t] = "sampling" /\ d \in Devices
      /\ tpc \in [Threads -> {"none", "start", "setup", "sampling", "finish"}]
      /\ handle \in [Threads -> Devices \cup {NoOne}]
      /\ requestedLine \in [Threads -> Lines]
      /\ UNCHANGED <<gpio, moved, handle>>
  BY DEF ReleaseIrq, LineInv, LineTypeOK, vars, device
<1>1. /\ owner' = [h \in Lines |-> IF h = g /\ owner[h] = d THEN NoOne ELSE owner[h]]
      /\ tpc' = [tpc EXCEPT ![t] = "finish"]
      /\ requestedLine' = [requestedLine EXCEPT ![t] = 0]
  BY DEF ReleaseIrq, GotoT
<1>2. \A u \in Threads, e \in Devices :
        Samples(u, e)' <=> Samples(u, e) /\ u /= t
  BY <1>0, <1>1 DEF Samples
<1>3. Samples(t, d)
  BY <1>0 DEF Samples
<1>4. \A u \in Threads : u /= t => requestedLine'[u] = requestedLine[u]
  BY <1>0, <1>1
<1>5. ASSUME NEW e \in Devices \ moved
      PROVE  /\ \A u \in Threads : Samples(u, e)' =>
                  /\ owner'[requestedLine'[u]] = e
                  /\ requestedLine'[u] = EchoGpio(e)
             /\ \A h \in Lines : owner'[h] = e =>
                  \E u \in Threads : Samples(u, e)' /\ requestedLine'[u] = h
             /\ \A u, v \in Threads : Samples(u, e)' /\ Samples(v, e)' => u = v
  <2>1. CASE e = d
    <3>1. \A u \in Threads : ~ Samples(u, e)'
      BY <1>2, <1>3, <1>5, <2>1 DEF LineInv, LinesMatchThreads
    <3>2. requestedLine[t] = g
      BY <1>3, <1>5, <2>1 DEF LineInv, Kept
    <3>3. ASSUME NEW h \in Lines, owner'[h] = e
          PROVE  FALSE
      <4>1. owner[h] = d /\ h /= g
        BY <1>0, <1>1, <2>1, <3>3, LineAssumption
      <4>2. PICK u \in Threads : Samples(u, d) /\ requestedLine[u] = h
        BY <1>5, <2>1, <4>1 DEF LineInv, LinesMatchThreads
      <4>3. u = t
        BY <1>3, <1>5, <2>1, <4>2 DEF LineInv, LinesMatchThreads
      <4> QED
        BY <3>2, <4>1, <4>2, <4>3
    <3> QED
      BY <3>1, <3>3
  <2>2. CASE e /= d
    <3>1. \A u \in Threads : Samples(u, e) => u /= t
      BY <2>2 DEF Samples
    <3>2. \A h \in Lines : owner'[h] = e <=> owner[h] = e
      BY <1>1, <1>5, <2>2, LineAssumption
    <3> QED
      BY <1>0, <1>2, <1>4, <1>5, <3>1, <3>2 DEF LineInv, LinesMatchThreads, Kept
  <2> QED
    BY <2>1, <2>2
<1>6. \A e \in Devices : EchoGpio(e)' = EchoGpio(e)
  BY <1>0 DEF EchoGpio
<1> QED
  BY <1>0, <1>5, <1>6 DEF LinesMatchThreads, Kept

LEMMA NextMatch ==
  ASSUME LineInv, LineNext
  PROVE  LinesMatchThreads' /\ Kept'
<1>0. /\ tpc \in [Threads -> {"none", "start", "setup", "sampling", "finish"}]
      /\ handle \in [Threads -> Devices \cup {NoOne}]
      /\ LinesMatchThreads /\ Kept
  BY DEF LineInv, LineTypeOK
<1> USE DEF vars, device, threads
<1>1. ASSUME NEW t \in Threads, NEW d \in Devices, StartCheck(t, d)
      PROVE  LinesMatchThreads' /\ Kept'
  BY <1>0, <1>1, SameSamplers DEF StartCheck, GotoT, Samples
<1>2. ASSUME NEW t \in Threads, StartMark(t) \/ Finish(t)
      PROVE  LinesMatchThreads' /\ Kept'
  BY <1>0, <1>2, SameSamplers DEF StartMark, Finish, GotoT, EndT, Samples
<1>3. ASSUME NEW d \in Devices, Disable(d)
      PROVE  LinesMatchThreads' /\ Kept'
  BY <1>0, <1>3, SameSamplers DEF Disable, Samples
<1> QED
  BY <1>1, <1>2, <1>3, PinStepMatch, SetInterruptMatch, ReleaseMatch
     DEF LineNext, Measure

LEMMA NextLine == LineInv /\ [LineNext]_allVars => LineInv'
<1> SUFFICES ASSUME LineInv, [LineNext]_allVars PROVE LineInv'
  OBVIOUS
<1>1. CASE UNCHANGED allVars
  <2>1. UNCHANGED vars /\ UNCHANGED lineVars
    BY <1>1 DEF allVars
  <2>2. TypeOK' /\ GpiosKnown'
    BY <2>1, NextType, NextKnows DEF LineInv
  <2>3. UNCHANGED <<is_in_progress, tpc, handle, requestedLine, owner, starts, moved, gpio>>
    BY <2>1 DEF lineVars, threads, vars, device
  <2> QED
    BY <2>2, <2>3 DEF LineInv, LineTypeOK, LinesMatchThreads, Kept, Samples, EchoGpio
<1>2. CASE LineNext
  BY <1>2, LineStepIsPinStep, NextType, NextKnows, NextLineType, NextMatch
     DEF LineInv
<1> QED
  BY <1>1, <1>2

\* What is proved of Spec is also true of LineSpec.
LEMMA PinsWhileMeasuring == LineSpec => Spec
<1>1. LineInit => Init
  BY DEF LineInit
<1>2. [LineNext]_allVars => [Next]_vars
  BY LineStepIsPinStep DEF allVars, vars
<1> QED
  BY <1>1, <1>2, PTL DEF LineSpec, Spec

\* Every variable of the measurements stays in its range; request_irq is never
\* called for an errno that was stored as a gpio.
THEOREM LineTypeCorrect == LineSpec => []LineTypeOK
<1>1. LineInit => LineInv
  BY InitLine
<1>2. LineInv /\ [LineNext]_allVars => LineInv'
  BY NextLine
<1>3. LineInv => LineTypeOK
  BY DEF LineInv
<1> QED
  BY <1>1, <1>2, <1>3, PTL DEF LineSpec

\* set_interrupt and release_irq agree about the line of a device that keeps
\* its echo pin: one sampling thread at most, with its line, and no line left
\* requested, for any number of devices and of measurements at a time.
THEOREM LinesMatch == LineSpec => []LinesMatchThreads
<1>1. LineInit => LineInv
  BY InitLine
<1>2. LineInv /\ [LineNext]_allVars => LineInv'
  BY NextLine
<1>3. LineInv => LinesMatchThreads
  BY DEF LineInv
<1> QED
  BY <1>1, <1>2, <1>3, PTL DEF LineSpec

-----------------------------------------------------------------------------
(* Who may come to a line.                                                 *)

\* The lines of pins that are given out; 0 is also that of a device never
\* configured.
EchoLines == Gpios \ {0}

\* A call of p has claimed an echo pin with gpio g, or remembers having it.
CallHas(p, g) ==
  \/ call[p].gpio["input"] = g
  \/ /\ Busy(p)
     /\ call[p].func = "input"
     /\ GpioPin[call[p].pin["input"]] = g

\* d has left the line g behind, requested.
Left(d, g) == owner[g] = d /\ EchoGpio(d) /= g

\* Each of them stands for a claim of a pin with gpio g.
Claims(g) ==
  {<<"device", d>> : d \in {d \in Devices : EchoGpio(d) = g}}
    \cup {<<"call", p>> : p \in {p \in Programs : CallHas(p, g)}}
    \cup {<<"left", d>> : d \in {d \in Devices : Left(d, g)}}

\* They are claims of their own.
CountedAt(g) ==
  \A a \in Claims(g) :
    touched[g] >= 1 /\ \A b \in Claims(g) : a /= b => touched[g] >= 2

Counted == \A g \in EchoLines : CountedAt(g)

\* Whoever still has the gpio of a line that it owns is sampling.
OwnerSamples ==
  \A g \in EchoLines, d \in Devices :
    owner[g] = d /\ EchoGpio(d) = g =>
      touched[g] >= 2 \/ \E t \in Threads : Samples(t, d)

CauseInv == InUseInv /\ LineInv /\ Counted /\ OwnerSamples

LEMMA ClaimsShrink ==
  ASSUME NEW g,
         \A d \in Devices : EchoGpio(d)' = g => EchoGpio(d) = g,
         \A p \in Programs : CallHas(p, g)' => CallHas(p, g),
         \A d \in Devices : Left(d, g)' => Left(d, g)
  PROVE  Claims(g)' \subseteq Claims(g)
  BY DEF Claims

LEMMA SameClaims ==
  ASSUME NEW g \in EchoLines, CountedAt(g), TypeOK,
         Claims(g)' \subseteq Claims(g), UNCHANGED touched
  PROVE  CountedAt(g)'
  BY DEF CountedAt

\* One of the claims is known by another name.
LEMMA RenamedClaim ==
  ASSUME NEW g \in EchoLines, CountedAt(g), NEW old \in Claims(g), NEW new,
         Claims(g)' \subseteq (Claims(g) \ {old}) \cup {new},
         UNCHANGED touched
  PROVE  CountedAt(g)'
<1> SUFFICES ASSUME NEW a \in Claims(g)'
             PROVE  /\ touched[g] >= 1
                    /\ \A b \in Claims(g)' : a /= b => touched[g] >= 2
  BY DEF CountedAt
<1>1. touched[g] >= 1
  BY DEF CountedAt
<1>2. ASSUME NEW b \in Claims(g)', a /= b
      PROVE  touched[g] >= 2
  BY <1>2 DEF CountedAt
<1> QED
  BY <1>1, <1>2

\* A claim of one more is one more claim.
LEMMA OneMoreClaim ==
  ASSUME NEW g \in EchoLines, CountedAt(g), NEW new,
         touched[g] \in Nat, touched'[g] = touched[g] + 1,
         Claims(g)' \subseteq Claims(g) \cup {new}
  PROVE  CountedAt(g)'
<1> SUFFICES ASSUME NEW a \in Claims(g)'
             PROVE  /\ touched'[g] >= 1
                    /\ \A b \in Claims(g)' : a /= b => touched'[g] >= 2
  BY DEF CountedAt
<1>1. touched'[g] >= 1
  OBVIOUS
<1>2. ASSUME NEW b \in Claims(g)', a /= b
      PROVE  touched'[g] >= 2
  <2>1. touched[g] >= 1
    BY <1>2 DEF CountedAt
  <2> QED
    BY <2>1
<1> QED
  BY <1>1, <1>2

\* What a program's step leaves of the other programs.
LEMMA OthersHave ==
  ASSUME TypeOK, NEW p \in Programs, Configure(p), NEW q \in Programs, q /= p, NEW g
  PROVE  CallHas(q, g)' = CallHas(q, g)
<1>1. call'[q] = call[q] /\ pc'[q] = pc[q]
  BY OthersKeep
<1> QED
  BY <1>1 DEF CallHas, Busy

LEMMA StoreCounted ==
  ASSUME CauseInv, NEW p \in Programs, Store(p), UNCHANGED owner,
         NEW g \in EchoLines
  PROVE  /\ CountedAt(g)'
         /\ \A d \in Devices : owner[g] = d /\ EchoGpio(d)' = g =>
              EchoGpio(d) = g \/ touched[g] >= 2
<1>0. TypeOK /\ call \in [Programs -> CallOK] /\ CountedAt(g)
  BY DEF CauseInv, LineInv, TypeOK, Counted
<1>1. PICK d \in Devices : d = call[p].device
  BY <1>0 DEF CallOK
<1>2. PICK n : n = EchoGpio(d)'
  OBVIOUS
<1>3. PICK o : o = EchoGpio(d)
  OBVIOUS
<1>4. /\ \A e \in Devices : e /= d => EchoGpio(e)' = EchoGpio(e)
      /\ n = o \/ n = call[p].gpio["input"]
  <2>1. gpio \in [Devices -> [Functions -> Int]] /\ call[p].func \in Functions
        /\ call[p].gpio \in [Functions -> Int]
    BY <1>0 DEF TypeOK, CallOK
  <2>2. \/ gpio' = [gpio EXCEPT ![d] = call[p].gpio]
        \/ gpio' = [gpio EXCEPT ![d] =
             [gpio[d] EXCEPT ![call[p].func] = call[p].gpio[call[p].func]]]
    BY <1>1 DEF Store
  <2> QED
    BY <1>2, <1>3, <2>1, <2>2 DEF EchoGpio, Functions
<1>5. ~ CallHas(p, g)'
  <2>1. call'[p] = NoCall /\ pc'[p] = "idle"
    BY <1>0 DEF Store, Goto, TypeOK
  <2> QED
    BY <2>1 DEF CallHas, NoCall, Busy, Stages, EchoLines, Functions
<1>6. \A q \in Programs : CallHas(q, g)' => q /= p /\ CallHas(q, g)
  BY <1>0, <1>5, OthersHave DEF Configure
<1>7. UNCHANGED touched
  BY DEF Store, history
<1>8. CASE n = g /\ o /= g
  <2>1. <<"call", p>> \in Claims(g)
    BY <1>4, <1>8 DEF Claims, CallHas
  <2>2. Claims(g)' \subseteq (Claims(g) \ {<<"call", p>>}) \cup {<<"device", d>>}
    BY <1>2, <1>3, <1>4, <1>6, <1>8 DEF Claims, Left
  <2>3. CountedAt(g)'
    BY <1>0, <1>7, <2>1, <2>2, RenamedClaim
  <2>4. owner[g] = d => touched[g] >= 2
    <3>1. owner[g] = d => <<"left", d>> \in Claims(g)
      BY <1>3, <1>8 DEF Claims, Left
    <3> QED
      BY <1>0, <2>1, <3>1 DEF CountedAt
  <2> QED
    BY <1>2, <1>4, <2>3, <2>4
<1>9. CASE n /= g /\ o = g
  <2>1. <<"device", d>> \in Claims(g)
    BY <1>3, <1>9 DEF Claims
  <2>2. Claims(g)' \subseteq (Claims(g) \ {<<"device", d>>}) \cup {<<"left", d>>}
    BY <1>2, <1>3, <1>4, <1>6, <1>9 DEF Claims, Left
  <2> QED
    BY <1>0, <1>2, <1>3, <1>4, <1>7, <1>9, <2>1, <2>2, RenamedClaim
<1>10. CASE (n = g) = (o = g)
  <2>1. Claims(g)' \subseteq Claims(g)
    BY <1>2, <1>3, <1>4, <1>6, <1>10, ClaimsShrink DEF Left
  <2> QED
    BY <1>0, <1>2, <1>3, <1>4, <1>7, <1>10, <2>1, SameClaims
<1> QED
  BY <1>8, <1>9, <1>10

\* Of the other steps of a program only ClaimPin adds a claim.
LEMMA ConfigureHas ==
  ASSUME InUseInv, NEW p \in Programs, Configure(p), ~ Store(p),
         NEW g \in EchoLines, CallHas(p, g)'
  PROVE  \/ CallHas(p, g)
         \/ ClaimPin(p) /\ g \in AllParts(Entry(p)[1])
<1>0. TypeOK /\ call \in [Programs -> CallOK] /\ call[p] \in CallOK
  BY DEF InUseInv, TypeOK
<1>1. CASE CheckEcho(p) \/ CheckTrigger(p) \/ ReadBack(p)
  <2>1. ~ Busy(p)'
    BY <1>0, <1>1, OwnBusy DEF Configure, CheckEcho, CheckTrigger, ReadBack,
       ClaimPin, SetUp, Stages
  <2>2. call'[p].gpio = call[p].gpio
    BY <1>0, <1>1 DEF CheckEcho, CheckTrigger, ReadBack, CallOK
  <2> QED
    BY <2>1, <2>2 DEF CallHas
<1>2. CASE FindPin(p) \/ PinIsSet(p)
  <2>1. ~ Busy(p)'
    BY <1>0, <1>2, OwnBusy DEF Configure, FindPin, PinIsSet, ClaimPin, SetUp,
       Stages
  <2>2. CASE UNCHANGED call
    BY <2>1, <2>2 DEF CallHas
  <2>3. CASE FindPin(p) /\ Returned(p, - EINVAL)
    <3>1. \/ call'[p].gpio["input"] = call[p].gpio["input"]
          \/ call'[p].gpio["input"] = - EINVAL
      BY <1>0, <2>3 DEF Returned, CallOK, Functions
    <3>2. g \in Nat
      BY MuxAssumption DEF EchoLines, Gpios
    <3> QED
      BY <2>1, <3>1, <3>2 DEF CallHas, EINVAL
  <2>4. CASE PinIsSet(p)
    <3>1. Returned(p, GpioPin[Entry(p)[1]]) /\ Busy(p)
      BY <2>4 DEF PinIsSet, Busy
    <3>2. \/ call'[p].gpio["input"] = call[p].gpio["input"]
          \/ /\ call[p].func = "input"
             /\ call'[p].gpio["input"] = GpioPin[call[p].pin["input"]]
      BY <1>0, <3>1 DEF Returned, CallOK, Functions, Entry
    <3> QED
      BY <2>1, <3>1, <3>2 DEF CallHas
  <2> QED
    BY <1>2, <2>2, <2>3, <2>4 DEF FindPin
<1>3. CASE ClaimPin(p)
  <2>1. UNCHANGED call
    BY <1>3 DEF ClaimPin
  <2> QED
    BY <1>3, <2>1 DEF CallHas, AllParts, Entry
<1>4. CASE SetUp(p)
  <2>1. UNCHANGED call /\ Busy(p)
    BY <1>4 DEF SetUp, Busy
  <2> QED
    BY <2>1 DEF CallHas
<1> QED
  BY <1>1, <1>2, <1>3, <1>4 DEF Configure

LEMMA ConfigureCounted ==
  ASSUME CauseInv, NEW p \in Programs, Configure(p), UNCHANGED owner,
         NEW g \in EchoLines
  PROVE  /\ CountedAt(g)'
         /\ \A d \in Devices : owner[g] = d /\ EchoGpio(d)' = g =>
              EchoGpio(d) = g \/ touched[g] >= 2
         /\ touched[g] \in Nat /\ touched'[g] >= touched[g]
<1>0. /\ TypeOK /\ InUseInv /\ CountedAt(g) /\ g \in Gpios
      /\ touched[g] \in Nat
  BY DEF CauseInv, LineInv, TypeOK, Counted, EchoLines
<1>1. CASE Store(p)
  <2>1. UNCHANGED touched
    BY <1>1 DEF Store, history
  <2>2. touched'[g] >= touched[g]
    BY <1>0, <2>1
  <2> QED
    BY <1>0, <1>1, <2>2, StoreCounted
<1>2. CASE ~ Store(p)
  <2>1. UNCHANGED gpio
    BY <1>2 DEF Configure, CheckEcho, CheckTrigger, ReadBack, FindPin, ClaimPin,
                SetUp, PinIsSet, device
  <2>2. \A d \in Devices : EchoGpio(d)' = EchoGpio(d) /\ Left(d, g)' = Left(d, g)
    BY <2>1 DEF EchoGpio, Left
  <2>3. \A q \in Programs : q /= p => CallHas(q, g)' = CallHas(q, g)
    BY <1>0, OthersHave
  <2>4. CASE ClaimPin(p) /\ g \in AllParts(Entry(p)[1])
    <3>1. touched'[g] = touched[g] + 1
      BY <1>0, <2>4, ClaimCounts
    <3>2. Claims(g)' \subseteq Claims(g) \cup {<<"call", p>>}
      BY <2>2, <2>3 DEF Claims
    <3> QED
      BY <1>0, <2>2, <3>1, <3>2, OneMoreClaim
  <2>5. CASE ~ (ClaimPin(p) /\ g \in AllParts(Entry(p)[1]))
    <3>1. touched'[g] = touched[g]
      BY <1>0, <2>5, ClaimCounts, OnlyClaimCounts
    <3>2. Claims(g)' \subseteq Claims(g)
      BY <1>0, <1>2, <2>2, <2>3, <2>5, ConfigureHas, ClaimsShrink
    <3> QED
      BY <1>0, <2>2, <3>1, <3>2 DEF CountedAt
  <2> QED
    BY <2>4, <2>5
<1> QED
  BY <1>1, <1>2

\* A step of MuxTable that is no program's step within its call.
LEMMA CallCounted ==
  ASSUME CauseInv, \/ \E p \in Programs, d \in Devices : Call(p, d)
                   \/ Exit,
         UNCHANGED owner, NEW g \in EchoLines
  PROVE  CountedAt(g)' /\ UNCHANGED <<gpio, touched>>
<1>0. TypeOK /\ CountedAt(g)
  BY DEF CauseInv, LineInv, Counted
<1>1. UNCHANGED <<gpio, touched>>
  BY DEF Call, ConfigPins, StorePin, Begin, Exit, ExitBegin, ExitFind, ExitFree,
         device, history
<1>2. \A d \in Devices : EchoGpio(d)' = EchoGpio(d) /\ Left(d, g)' = Left(d, g)
  BY <1>1 DEF EchoGpio, Left
<1>3. \A q \in Programs : CallHas(q, g)' => CallHas(q, g)
  <2>1. ASSUME NEW p \in Programs, NEW d \in Devices, Call(p, d),
               NEW q \in Programs, CallHas(q, g)'
        PROVE  CallHas(q, g)
    <3>1. q /= p
      <4>1. ~ Busy(p)'
        BY <1>0, <2>1, OwnBusy DEF Call, ConfigPins, StorePin, Begin, ClaimPin,
           SetUp, Stages
      <4>2. call'[p].gpio = NoCall.gpio
        BY <1>0, <2>1 DEF Call, ConfigPins, StorePin, TypeOK, NoCall
      <4> QED
        BY <2>1, <4>1, <4>2 DEF CallHas, NoCall, EchoLines, Functions
    <3>2. pc'[q] = pc[q] /\ call'[q] = call[q]
      BY <1>0, <2>1, <3>1, OthersKeep
    <3> QED
      BY <2>1, <3>2 DEF CallHas, Busy
  <2>2. CASE Exit
    <3>1. UNCHANGED <<pc, call>>
      BY <2>2 DEF Exit, ExitBegin, ExitFind, ExitFree, programs
    <3> QED
      BY <3>1 DEF CallHas, Busy
  <2> QED
    BY <2>1, <2>2
<1>4. Claims(g)' \subseteq Claims(g)
  BY <1>2, <1>3, ClaimsShrink
<1> QED
  BY <1>0, <1>1, <1>4, SameClaims

LEMMA PinStepCause ==
  ASSUME CauseInv, PinStep
  PROVE  Counted' /\ OwnerSamples'
<1> SUFFICES ASSUME NEW g \in EchoLines
             PROVE  /\ CountedAt(g)'
                    /\ \A d \in Devices : owner'[g] = d /\ EchoGpio(d)' = g =>
                         touched'[g] >= 2 \/ \E t \in Threads : Samples(t, d)'
  BY DEF Counted, OwnerSamples
<1>1. /\ UNCHANGED owner /\ Next
      /\ \A t \in Threads, d \in Devices : Samples(t, d)' = Samples(t, d)
  BY DEF PinStep, threads, Samples
<1>2. ASSUME NEW d \in Devices, owner[g] = d, EchoGpio(d) = g
      PROVE  touched[g] >= 2 \/ \E t \in Threads : Samples(t, d)
  BY <1>2 DEF CauseInv, OwnerSamples
<1>3. ASSUME NEW p \in Programs, Configure(p)
      PROVE  /\ CountedAt(g)'
             /\ \A d \in Devices : owner'[g] = d /\ EchoGpio(d)' = g =>
                  touched'[g] >= 2 \/ \E t \in Threads : Samples(t, d)'
  <2>1. /\ CountedAt(g)'
        /\ \A d \in Devices : owner[g] = d /\ EchoGpio(d)' = g =>
             EchoGpio(d) = g \/ touched[g] >= 2
        /\ touched[g] \in Nat /\ touched'[g] >= touched[g]
    BY <1>1, <1>3, ConfigureCounted
  <2>2. touched[g] >= 2 => touched'[g] >= 2
    <3>1. touched'[g] \in Nat
      BY <1>3, ConfigureType DEF CauseInv, LineInv, TypeOK, EchoLines
    <3> QED
      BY <2>1, <3>1
  <2> QED
    BY <1>1, <1>2, <2>1, <2>2
<1>4. CASE \/ \E p \in Programs, d \in Devices : Call(p, d)
           \/ Exit
  <2>1. CountedAt(g)' /\ UNCHANGED <<gpio, touched>>
    BY <1>1, <1>4, CallCounted
  <2> QED
    BY <1>1, <1>2, <2>1 DEF EchoGpio
<1> QED
  BY <1>1, <1>3, <1>4 DEF Next

\* A step of a measurement leaves the pins; the lines change when one is
\* requested, by a device whose gpio it is, and when one is released.
LEMMA MeasureCause ==
  ASSUME CauseInv, UNCHANGED vars, LineTypeOK',
         \A g \in EchoLines, d \in Devices :
           owner'[g] = d => owner[g] = d \/ EchoGpio(d) = g,
         \A g \in EchoLines, d \in Devices :
           owner'[g] = d /\ EchoGpio(d) = g =>
             \/ owner[g] = d /\ \A t \in Threads : Samples(t, d) => Samples(t, d)'
             \/ \E t \in Threads : Samples(t, d)'
  PROVE  Counted' /\ OwnerSamples'
<1>1. UNCHANGED <<gpio, touched, call, pc>>
  BY DEF vars, device, history, programs
<1>2. \A d \in Devices : EchoGpio(d)' = EchoGpio(d)
  BY <1>1 DEF EchoGpio
<1>3. ASSUME NEW g \in EchoLines
      PROVE  CountedAt(g)'
  <2>1. \A d \in Devices : Left(d, g)' => Left(d, g)
    BY <1>2, <1>3 DEF Left
  <2>2. \A p \in Programs : CallHas(p, g)' => CallHas(p, g)
    BY <1>1 DEF CallHas, Busy
  <2>3. Claims(g)' \subseteq Claims(g)
    BY <1>2, <2>1, <2>2, ClaimsShrink
  <2> QED
    BY <1>1, <1>3, <2>3, SameClaims DEF CauseInv, LineInv, Counted
<1>4. OwnerSamples'
  BY <1>1, <1>2 DEF CauseInv, OwnerSamples
<1> QED
  BY <1>3, <1>4 DEF Counted

LEMMA NextCause == CauseInv /\ [LineNext]_allVars => CauseInv'
<1> SUFFICES ASSUME CauseInv, [LineNext]_allVars PROVE CauseInv'
  OBVIOUS
<1>0. /\ InUseInv' /\ LineInv'
      /\ tpc \in [Threads -> {"none", "start", "setup", "sampling", "finish"}]
      /\ handle \in [Threads -> Devices \cup {NoOne}]
      /\ owner \in [Lines -> Devices \cup {NoOne}]
  <2>1. [Next]_vars
    BY LineStepIsPinStep DEF allVars, vars
  <2> QED
    BY <2>1, NextInUse, NextLine DEF CauseInv, LineInv, LineTypeOK
<1> USE DEF threads
<1>1. CASE PinStep
  BY <1>0, <1>1, PinStepCause DEF CauseInv
<1>2. CASE UNCHANGED allVars
  <2>1. UNCHANGED vars /\ UNCHANGED <<owner, tpc, handle>>
    BY <1>2 DEF allVars, lineVars
  <2>2. Counted' /\ OwnerSamples'
    BY <1>0, <2>1, MeasureCause DEF LineInv, Samples
  <2> QED
    BY <1>0, <2>2 DEF CauseInv
<1>3. ASSUME NEW t \in Threads, NEW d \in Devices, StartCheck(t, d)
      PROVE  CauseInv'
  <2>1. \A u \in Threads, e \in Devices : Samples(u, e) => Samples(u, e)'
    BY <1>0, <1>3 DEF StartCheck, GotoT, Samples
  <2> QED
    BY <1>0, <1>3, <2>1, MeasureCause DEF CauseInv, LineInv, StartCheck
<1>4. ASSUME NEW t \in Threads, StartMark(t) \/ Finish(t)
      PROVE  CauseInv'
  <2>1. \A u \in Threads, e \in Devices : Samples(u, e) => Samples(u, e)'
    BY <1>0, <1>4 DEF StartMark, Finish, GotoT, EndT, Samples
  <2> QED
    BY <1>0, <1>4, <2>1, MeasureCause DEF CauseInv, LineInv, StartMark, Finish
<1>5. ASSUME NEW d \in Devices, Disable(d)
      PROVE  CauseInv'
  <2>1. \A u \in Threads, e \in Devices : Samples(u, e) => Samples(u, e)'
    BY <1>5 DEF Disable, Samples
  <2> QED
    BY <1>0, <1>5, <2>1, MeasureCause DEF CauseInv, LineInv, Disable
<1>6. ASSUME NEW t \in Threads, SetInterrupt(t)
      PROVE  CauseInv'
  <2>1. \A u \in Threads, e \in Devices : Samples(u, e) => Samples(u, e)'
    BY <1>0, <1>6 DEF SetInterrupt, GotoT, EndT, Samples
  <2>2. PICK e : e = handle[t]
    OBVIOUS
  <2>3. \/ UNCHANGED owner
        \/ /\ owner' = [owner EXCEPT ![EchoGpio(e)] = e]
           /\ Samples(t, e)'
    BY <1>0, <1>6, <2>2 DEF SetInterrupt, GotoT, Samples, EchoGpio
  <2>4. \A g \in EchoLines, d \in Devices :
          owner'[g] = d => owner[g] = d \/ (EchoGpio(d) = g /\ Samples(t, d)')
    BY <1>0, <2>3 DEF EchoLines, Lines, EchoGpio
  <2> QED
    BY <1>0, <1>6, <2>1, <2>4, MeasureCause DEF CauseInv, LineInv, SetInterrupt
<1>7. ASSUME NEW t \in Threads, ReleaseIrq(t)
      PROVE  CauseInv'
  <2>1. \A g \in EchoLines, d \in Devices :
          owner'[g] = d => owner[g] = d /\ ~ (EchoGpio(d) = g /\ handle[t] = d)
    BY <1>0, <1>7, LineAssumption DEF ReleaseIrq, EchoLines, Lines
  <2>2. \A u \in Threads, d \in Devices :
          Samples(u, d) /\ handle[t] /= d => Samples(u, d)'
    BY <1>0, <1>7 DEF ReleaseIrq, GotoT, Samples
  <2> QED
    BY <1>0, <1>7, <2>1, <2>2, MeasureCause DEF CauseInv, LineInv, ReleaseIrq
<1> QED
  BY <1>1, <1>2, <1>3, <1>4, <1>5, <1>6, <1>7 DEF LineNext, Measure

LEMMA InitCause == LineInit => CauseInv
<1> SUFFICES ASSUME LineInit PROVE CauseInv
  OBVIOUS
<1>1. InUseInv /\ LineInv
  BY InitInUse, InitLine DEF LineInit
<1>2. \A g \in EchoLines : Claims(g) = {}
  BY LineAssumption DEF LineInit, Init, Claims, EchoGpio, CallHas, Left, Busy,
     Stages, NoCall, EchoLines, Lines, Functions
<1>3. OwnerSamples
  BY LineAssumption DEF LineInit, OwnerSamples, EchoLines, Lines
<1> QED
  BY <1>1, <1>2, <1>3 DEF CauseInv, Counted, CountedAt

\* A refused line is one that is owned, by the device itself or by another.
LEMMA RefusalCause ==
  ASSUME CauseInv, LineNext, NEW t \in Threads,
         tpc[t] = "setup", tpc'[t] = "none"
  PROVE  LET d == handle[t]
             g == EchoGpio(d)
         IN \/ g < 0
            \/ \E u \in Threads : Samples(u, d)
            \/ g = 0
            \/ touched[g] > 1
<1>0. /\ LineTypeOK /\ TypeOK /\ GpiosKnown
      /\ tpc \in [Threads -> {"none", "start", "setup", "sampling", "finish"}]
  BY DEF CauseInv, LineInv, LineTypeOK
<1>1. SetInterrupt(t)
  BY <1>0 DEF LineNext, PinStep, threads, Measure, StartCheck, StartMark,
     SetInterrupt, ReleaseIrq, Finish, Disable, GotoT, EndT
<1>2. PICK d \in Devices : d = handle[t]
  BY <1>0 DEF LineTypeOK
<1>3. PICK g : g = EchoGpio(d)
  OBVIOUS
<1>4. ~ (g >= 0 /\ owner[g] = NoOne)
  <2> SUFFICES ASSUME g >= 0, owner[g] = NoOne PROVE FALSE
    OBVIOUS
  <2>1. EchoGpio(handle[t]) = g
    BY <1>2, <1>3 DEF EchoGpio
  <2>2. tpc' = [tpc EXCEPT ![t] = "sampling"]
    BY <1>1, <2>1 DEF SetInterrupt, GotoT
  <2> QED
    BY <1>0, <2>2
<1>5. g \in Lines \cup {- EINVAL} /\ Lines \subseteq Nat
  <2>1. Gpios \subseteq Nat
    BY MuxAssumption DEF Gpios
  <2>2. EchoGpio(d) \in GpioValues
    BY <1>0 DEF GpiosKnown, EchoGpio, Functions
  <2> QED
    BY <1>3, <2>1, <2>2 DEF GpioValues, Lines
<1>6. CASE g \in Lines /\ g /= 0
  <2>1. g \in EchoLines /\ touched[g] \in Nat
    BY <1>0, <1>6 DEF EchoLines, Lines, TypeOK
  <2>2. PICK e \in Devices : owner[g] = e
    BY <1>0, <1>4, <1>5, <1>6 DEF LineTypeOK
  <2>3. CountedAt(g) /\ <<"device", d>> \in Claims(g)
    BY <1>3, <2>1 DEF CauseInv, Counted, Claims
  <2>4. CASE e = d
    BY <1>2, <1>3, <2>1, <2>2, <2>4 DEF CauseInv, OwnerSamples
  <2>5. CASE e /= d
    <3>1. <<"device", e>> \in Claims(g) \/ <<"left", e>> \in Claims(g)
      BY <2>2 DEF Claims, Left
    <3> QED
      BY <1>2, <1>3, <2>1, <2>3, <2>5, <3>1 DEF CountedAt
  <2> QED
    BY <2>4, <2>5
<1>7. CASE g = 0 \/ g = - EINVAL
  BY <1>2, <1>3, <1>7 DEF EINVAL
<1> QED
  BY <1>5, <1>6, <1>7

\* An echo line is refused for one of the four causes only, for every table and
\* any number of devices, programs and measurements at a time.
THEOREM Refusals == LineSpec => RefusedHasCause
<1>1. LineInit => CauseInv
  BY InitCause
<1>2. CauseInv /\ [LineNext]_allVars => CauseInv'
  BY NextCause
<1> DEFINE Caused ==
      \A t \in Threads : tpc[t] = "setup" /\ tpc'[t] = "none" =>
        LET d == handle[t]
            g == EchoGpio(d)
        IN \/ g < 0
           \/ \E u \in Threads : Samples(u, d)
           \/ g = 0
           \/ touched[g] > 1
<1>3. CauseInv /\ [LineNext]_allVars => [Caused]_allVars
  BY RefusalCause
<1>4. RefusedHasCause <=> [][Caused]_allVars
  BY DEF RefusedHasCause
<1> HIDE DEF Caused
<1> QED
  BY <1>1, <1>2, <1>3, <1>4, PTL DEF LineSpec
=============================================================================
