----------------------- MODULE PlatformBusOrderProofs -----------------------
(***************************************************************************)
(* More theorems about PlatformBus, which depend on the order in which the *)
(* devices come and go: what the class has, and what is used when it is    *)
(* not there.                                                              *)
(***************************************************************************)
EXTENDS PlatformBusProofs

-----------------------------------------------------------------------------
(* The invariant: the devices are registered and bound as they are numbered, *)
(* and those that a command has still to come to follow.                     *)

Increasing(s) == \A i, j \in 1 .. Len(s) : i < j => s[i] < s[j]

Numbered(s) == \A i \in 1 .. Len(s) : s[i] = i

Between == command.at = "next"

\* The devices that a probe is done with are those up to Passed.
Done == NumDevices - Len(command.todo)

Passed == IF Between THEN Done ELSE Done - 1

BothLoaded == "device" \in loaded /\ "driver" \in loaded

TodoInOrder ==
  /\ command.op = "none" => command.todo = <<>> /\ Between
  /\ Attaching /\ "device" \in loaded =>
       /\ \A i \in 1 .. Len(command.todo) : command.todo[i] = Done + i
       /\ ~ Between => command.device = Done
  /\ command.op = "unregister" =>
       /\ Increasing(command.todo)
       /\ \A d \in Busy, e \in ToCome : d < e

DevicesInOrder ==
  /\ "device" \in loaded /\ command.op /= "unregister" =>
       /\ Numbered(registered)
       /\ Len(registered) = IF command.op = "register" THEN Done ELSE NumDevices
  /\ Increasing(bound)
  /\ Attaching => \A d \in Elements(bound) : d <= Passed
  /\ BothLoaded /\ ~ Detaching /\ failed = {} => Numbered(bound) /\ Len(bound) = Passed

OrderInv == TodoInOrder /\ DevicesInOrder

-----------------------------------------------------------------------------
(* Increasing sequences.                                                     *)

LEMMA EmptyIncreasing == Increasing(<<>>) /\ Numbered(<<>>)
  BY DEF Increasing, Numbered

LEMMA NumberedIncreasing ==
  ASSUME NEW S, NEW s \in Seq(S), Numbered(s)
  PROVE  Increasing(s)
  BY DEF Numbered, Increasing

LEMMA TailIncreasing ==
  ASSUME NEW s \in Seq(Devices), s /= <<>>, Increasing(s)
  PROVE  Increasing(Tail(s)) /\ \A e \in Elements(Tail(s)) : Head(s) < e
<1>1. /\ Head(s) = s[1] /\ Len(s) \in Nat \ {0} /\ Len(Tail(s)) = Len(s) - 1
      /\ \A i \in 1 .. Len(s) - 1 : Tail(s)[i] = s[i + 1]
  OBVIOUS
<1>2. Increasing(Tail(s))
  BY <1>1 DEF Increasing
<1>3. ASSUME NEW i \in 1 .. Len(s) - 1
      PROVE  Head(s) < Tail(s)[i]
  BY <1>1 DEF Increasing
<1> QED
  BY <1>1, <1>2, <1>3 DEF Elements

LEMMA AppendIncreasing ==
  ASSUME NEW S, NEW s \in Seq(S), NEW x \in S
  PROVE  /\ Increasing(s) /\ (\A e \in Elements(s) : e < x) => Increasing(Append(s, x))
         /\ Numbered(s) /\ x = Len(s) + 1 => Numbered(Append(s, x))
<1> DEFINE t == Append(s, x)
<1>1. /\ Len(s) \in Nat /\ Len(t) = Len(s) + 1 /\ t[Len(s) + 1] = x
      /\ \A i \in 1 .. Len(s) : t[i] = s[i]
  OBVIOUS
<1> HIDE DEF t
<1>2. ASSUME Increasing(s), \A e \in Elements(s) : e < x,
             NEW i \in 1 .. Len(s) + 1, NEW j \in 1 .. Len(s) + 1, i < j
      PROVE  t[i] < t[j]
  <2>1. i \in 1 .. Len(s) /\ s[i] \in Elements(s)
    BY <1>1, <1>2 DEF Elements
  <2>2. CASE j = Len(s) + 1
    BY <1>1, <1>2, <2>1, <2>2
  <2>3. CASE j \in 1 .. Len(s)
    BY <1>1, <1>2, <2>1, <2>3 DEF Increasing
  <2> QED
    BY <1>1, <2>2, <2>3
<1>3. Increasing(s) /\ (\A e \in Elements(s) : e < x) => Increasing(t)
  BY <1>1, <1>2 DEF Increasing
<1>4. Numbered(s) /\ x = Len(s) + 1 => Numbered(t)
  BY <1>1 DEF Numbered
<1> QED
  BY <1>3, <1>4 DEF t

LEMMA WithoutIncreasing ==
  ASSUME NEW S, NEW s \in Seq(S), Distinct(s), Increasing(s), NEW x
  PROVE  Increasing(Without(s, x))
<1>1. CASE x \notin Elements(s)
  BY <1>1 DEF Without
<1>2. CASE x \in Elements(s)
  <2>1. PICK k \in 1 .. Len(s) : s[k] = x
    BY <1>2 DEF Elements
  <2> DEFINE t == Without(s, x)
  <2>2. /\ Len(t) = Len(s) - 1 /\ Len(s) \in Nat
        /\ \A i \in 1 .. Len(s) - 1 : t[i] = IF i < k THEN s[i] ELSE s[i + 1]
    <3>1. /\ Len(Without(s, s[k])) = Len(s) - 1
          /\ \A i \in 1 .. Len(s) - 1 :
               Without(s, s[k])[i] = IF i < k THEN s[i] ELSE s[i + 1]
      BY WithoutAt
    <3> QED
      BY <2>1, <3>1
  <2> HIDE DEF t
  <2>3. ASSUME NEW i \in 1 .. Len(s) - 1, NEW j \in 1 .. Len(s) - 1, i < j
        PROVE  t[i] < t[j]
    <3> DEFINE a == IF i < k THEN i ELSE i + 1
               b == IF j < k THEN j ELSE j + 1
    <3>1. a \in 1 .. Len(s) /\ b \in 1 .. Len(s) /\ a < b
      BY <2>1, <2>2, <2>3
    <3>2. t[i] = s[a] /\ t[j] = s[b]
      BY <2>2
    <3> QED
      BY <3>1, <3>2 DEF Increasing
  <2> QED
    BY <2>2, <2>3 DEF Increasing, t
<1> QED
  BY <1>1, <1>2

-----------------------------------------------------------------------------
(* The order of the devices.                                                 *)

LEMMA InitOrder == Init => OrderInv
<1> SUFFICES ASSUME Init
             PROVE  OrderInv
  OBVIOUS
<1>1. /\ command.op = "none" /\ command.todo = <<>> /\ Between /\ "device" \notin loaded
      /\ bound = <<>>
  BY DEF Init, Idle, Between
<1> QED
  BY <1>1, EmptyIncreasing DEF OrderInv, TodoInOrder, DevicesInOrder, Attaching,
     BothLoaded

\* A step within a probe or a remove, and the end of a probe that failed.
LEMMA OrderMoves ==
  ASSUME BusInv, OrderInv, UNCHANGED <<loaded, registered, bound>>,
         command'.op = command.op, command'.todo = command.todo,
         command'.device = command.device, failed \subseteq failed',
         \/ Between' <=> Between
         \/ Between' /\ Attaching /\ failed' /= {}
  PROVE  OrderInv'
<1>1. /\ Attaching' = Attaching /\ Detaching' = Detaching /\ ToCome' = ToCome
      /\ Done' = Done /\ BothLoaded' = BothLoaded
      /\ ~ Between' => ~ Between /\ Busy' = Busy
      /\ Between' => Busy' = {}
  BY DEF Attaching, Detaching, ToCome, Done, BothLoaded, Between, Busy
<1>2. Done \in Int
  BY BusAssumption DEF Done, BusInv, BusTypes, CommandOK
<1>3. command.op = "none" => Between'
  BY DEF OrderInv, TodoInOrder, Attaching
<1>4. TodoInOrder'
  BY <1>1, <1>3 DEF OrderInv, TodoInOrder, Increasing
<1>5. /\ Passed \in Int /\ Passed' \in Int /\ Passed <= Passed'
      /\ failed' = {} => Passed' = Passed
  BY <1>1, <1>2 DEF Passed
<1>6. Attaching' => \A d \in Elements(bound)' : d <= Passed'
  <2>1. \A d \in Elements(bound) : d \in Int
    <3>1. bound \in Seq(Devices)
      BY DEF BusInv, BusTypes
    <3>2. Elements(bound) \subseteq Devices
      BY <3>1, ElementsSeq
    <3> QED
      BY <3>2 DEF Devices
  <2>2. Attaching => \A d \in Elements(bound) : d <= Passed
    BY DEF OrderInv, DevicesInOrder
  <2>3. Elements(bound)' = Elements(bound)
    OBVIOUS
  <2> HIDE DEF Passed
  <2> QED
    BY <1>1, <1>5, <2>1, <2>2, <2>3
<1>7. BothLoaded' /\ ~ Detaching' /\ failed' = {} =>
        Numbered(bound)' /\ Len(bound)' = Passed'
  BY <1>1, <1>5 DEF OrderInv, DevicesInOrder, Numbered
<1>8. DevicesInOrder'
  BY <1>1, <1>6, <1>7 DEF OrderInv, DevicesInOrder, Increasing, Numbered
<1> QED
  BY <1>4, <1>8 DEF OrderInv

LEMMA WithinOrder ==
  ASSUME BusInv, OrderInv,
         \/ MakeClass \/ NewDevice \/ AllocBuffer \/ Link \/ InitBuffer
         \/ Unlist \/ Deregister \/ Open \/ Use
  PROVE  OrderInv'
<1>1. command \in CommandOK
  BY DEF BusInv, BusTypes
<1>2. UNCHANGED <<loaded, registered, bound>> /\ failed \subseteq failed'
  BY DEF MakeClass, NewDevice, AllocBuffer, Link, InitBuffer, Unlist, Deregister, Open,
     OpenBegin, OpenWalk, OpenEnd, Use, Call, Close, Enable, ThreadEnds, objects
<1>3. CASE Open \/ Use
  <2>1. UNCHANGED command
    BY <1>3 DEF Open, OpenBegin, OpenWalk, OpenEnd, Use, Call, Close, Enable, ThreadEnds
  <2> QED
    BY <1>2, <2>1, OrderMoves DEF Between
<1>4. CASE MakeClass \/ Link \/ InitBuffer \/ Unlist \/ Deregister
  <2>1. /\ command.at \in {"class", "link", "init", "unlist", "deregister"}
        /\ \/ UNCHANGED command
           \/ \E label \in {"alloc", "init", "list", "free"} : Goto(label)
           \/ command' = [command EXCEPT !.at = "deregister", !.obj = Removed]
    BY <1>4 DEF MakeClass, Link, InitBuffer, Unlist, Deregister, At
  <2>2. /\ command'.op = command.op /\ command'.todo = command.todo
        /\ command'.device = command.device /\ ~ Between /\ ~ Between'
    BY <1>1, <2>1 DEF Goto, Between, CommandOK
  <2> QED
    BY <1>2, <2>2, OrderMoves
<1>5. CASE NewDevice \/ AllocBuffer
  <2>1. /\ command.at \in {"alloc", "buffer"}
        /\ \/ Goto("link")
           \/ command' = [command EXCEPT !.at = "buffer", !.obj = made + 1]
           \/ command' = [command EXCEPT !.at = "next", !.obj = NULL] /\ failed' /= {}
    BY <1>5 DEF NewDevice, AllocBuffer, At, Unprobed
  <2>2. Attaching
    BY <2>1 DEF BusInv, CommandWhere, AtProbe
  <2>3. /\ command'.op = command.op /\ command'.todo = command.todo
        /\ command'.device = command.device /\ ~ Between
        /\ ~ Between' \/ failed' /= {}
    BY <1>1, <2>1 DEF Goto, Between, CommandOK
  <2> QED
    BY <1>2, <2>2, <2>3, OrderMoves
<1> QED
  BY <1>3, <1>4, <1>5

LEMMA DoneInt ==
  ASSUME BusInv
  PROVE  Done \in Int /\ Passed \in Int /\ NumDevices \in Nat
         /\ bound \in Seq(Devices) /\ Elements(bound) \subseteq Devices
<1>1. bound \in Seq(Devices) /\ Len(command.todo) \in Nat
  BY DEF BusInv, BusTypes, CommandOK
<1>2. Elements(bound) \subseteq Devices
  BY <1>1, ElementsSeq
<1>3. Done \in Int /\ NumDevices \in Nat
  BY <1>1, BusAssumption DEF Done
<1>4. Passed \in Int
  BY <1>3 DEF Passed
<1> QED
  BY <1>1, <1>2, <1>3, <1>4

\* The device that is probed is the next one of those that are not passed.
LEMMA ProbedNext ==
  ASSUME BusInv, OrderInv, Attaching, ~ Between
  PROVE  "device" \in loaded /\ command.device = Done /\ Passed = Done - 1
<1>1. "device" \in loaded
  <2>1. Busy = {command.device}
    BY DEF Busy, Between
  <2>2. command.op = "attach" => command.device \in Elements(registered)
    BY <2>1 DEF BusInv, DevicesWhere
  <2>3. command.op = "attach" => registered /= <<>>
    BY <2>2, EmptySeqDistinct
  <2> QED
    BY <2>3 DEF BusInv, CommandWhere, DevicesWhere, Attaching
<1> QED
  BY <1>1 DEF OrderInv, TodoInOrder, Passed

LEMMA AddDeviceOrder ==
  ASSUME BusInv, OrderInv, AddDevice
  PROVE  OrderInv'
<1> DEFINE d == command.device
<1>1. /\ command \in CommandOK /\ command.at = "list"
      /\ UNCHANGED <<loaded, registered, failed>>
  BY DEF AddDevice, At, objects, BusInv, BusTypes
<1>2. CASE UNCHANGED <<command, bound>>
  BY <1>1, <1>2, OrderMoves DEF Between
<1>3. CASE bound' = Append(bound, d) /\ command' = [command EXCEPT !.at = "next", !.obj = NULL]
  <2>1. /\ command'.op = command.op /\ command'.todo = command.todo
        /\ Between' /\ ~ Between /\ Attaching /\ Attaching' /\ ~ Detaching
    <3>1. /\ command'.op = command.op /\ command'.todo = command.todo
          /\ command'.at = "next"
      BY <1>1, <1>3 DEF CommandOK
    <3>2. Attaching
      BY <1>1 DEF BusInv, CommandWhere, AtProbe
    <3> QED
      BY <1>1, <3>1, <3>2 DEF Between, Attaching, Detaching
  <2>2. "device" \in loaded /\ d = Done /\ Passed = Done - 1
    BY <2>1, ProbedNext
  <2>3. Done' = Done /\ Passed' = Done
    BY <2>1 DEF Done, Passed
  <2>4. /\ bound \in Seq(Devices) /\ Elements(bound) \subseteq Devices /\ Done \in Int
        /\ d \in Devices
    BY <1>1, DoneInt DEF CommandOK
  <2> HIDE DEF d
  <2>5. /\ Increasing(bound) /\ \A e \in Elements(bound) : e <= Done - 1
        /\ BothLoaded /\ failed = {} => Numbered(bound) /\ Len(bound) = Done - 1
    BY <2>1, <2>2 DEF OrderInv, DevicesInOrder
  <2>6. \A e \in Elements(bound) : e \in Int
    <3>1. \A e \in Devices : e \in Int
      BY DEF Devices
    <3> QED
      BY <2>4, <3>1, Zenon
  <2>7. \A e \in Elements(bound) : e < d
    BY <2>2, <2>4, <2>5, <2>6
  <2>8. Increasing(bound')
    BY <1>3, <2>4, <2>5, <2>7, AppendIncreasing
  <2>9. Elements(bound') = Elements(bound) \cup {d} /\ Len(bound') = Len(bound) + 1
    <3>1. /\ Elements(Append(bound, d)) = Elements(bound) \cup {d}
          /\ Len(Append(bound, d)) = Len(bound) + 1
      BY <2>4, AppendElements
    <3> QED
      BY <1>3, <3>1
  <2>10. \A e \in Elements(bound') : e <= Passed'
    BY <2>2, <2>3, <2>4, <2>6, <2>7, <2>9
  <2>11. BothLoaded /\ failed = {} => Numbered(bound') /\ Len(bound') = Passed'
    <3> SUFFICES ASSUME BothLoaded, failed = {}
                 PROVE  Numbered(bound') /\ Len(bound') = Passed'
      OBVIOUS
    <3>1. Numbered(bound) /\ Len(bound) = Done - 1
      BY <2>5
    <3>2. Len(bound') = Done /\ d = Len(bound) + 1
      BY <2>2, <2>4, <2>9, <3>1
    <3> QED
      BY <1>3, <2>3, <2>4, <3>1, <3>2, AppendIncreasing
  <2>12. TodoInOrder'
    <3>1. /\ \A i \in 1 .. Len(command.todo) : command.todo[i] = Done + i
          /\ command.op \notin {"none", "unregister"}
      BY <2>1, <2>2 DEF OrderInv, TodoInOrder, Attaching
    <3> QED
      BY <2>1, <2>3, <3>1 DEF TodoInOrder
  <2>13. DevicesInOrder'
    <3>1. /\ Numbered(registered)
          /\ Len(registered) = IF command.op = "register" THEN Done ELSE NumDevices
      BY <2>1, <2>2 DEF OrderInv, DevicesInOrder, Attaching
    <3>2. Numbered(registered)' /\ registered' = registered
      BY <1>1, <3>1 DEF Numbered
    <3>3. BothLoaded' = BothLoaded /\ failed' = failed
      BY <1>1 DEF BothLoaded
    <3> QED
      BY <2>1, <2>3, <2>8, <2>10, <2>11, <3>1, <3>2, <3>3
         DEF DevicesInOrder, Increasing, Numbered
  <2> QED
    BY <2>12, <2>13 DEF OrderInv
<1> QED
  BY <1>2, <1>3 DEF AddDevice

LEMMA FreeOrder ==
  ASSUME BusInv, OrderInv, Free
  PROVE  OrderInv'
<1>1. /\ command \in CommandOK /\ command.at = "free"
      /\ bound' = Without(bound, command.device)
      /\ UNCHANGED <<loaded, registered>>
      /\ command' = [command EXCEPT !.at = "next", !.obj = NULL]
      /\ bound \in Seq(Devices) /\ Distinct(bound) /\ Increasing(bound)
  BY DEF Free, At, BusInv, BusTypes, DevicesWhere, OrderInv, DevicesInOrder
<1>2. /\ command'.op = command.op /\ command'.todo = command.todo /\ Between'
      /\ Detaching /\ Detaching' /\ ~ Attaching'
  <2>1. /\ command'.op = command.op /\ command'.todo = command.todo
        /\ command'.at = "next"
    BY <1>1 DEF CommandOK
  <2>2. Detaching
    BY <1>1 DEF BusInv, CommandWhere, AtRemove
  <2> QED
    BY <2>1, <2>2 DEF Between, Attaching, Detaching
<1>3. Increasing(bound)'
  BY <1>1, WithoutIncreasing DEF Increasing
<1>4. Busy' = {}
  BY <1>2 DEF Busy, Between
<1>5. TodoInOrder'
  BY <1>2, <1>4 DEF OrderInv, TodoInOrder, Detaching, Increasing
<1>6. command.op = "detach" \/ command.op = "unregister"
  BY <1>2 DEF Detaching
<1>7. /\ command.op /= "unregister" =>
           ("device" \in loaded => Numbered(registered) /\ Len(registered) = NumDevices)
  BY <1>6 DEF OrderInv, DevicesInOrder
<1>8. DevicesInOrder'
  BY <1>1, <1>2, <1>3, <1>6, <1>7 DEF DevicesInOrder, Numbered
<1> QED
  BY <1>5, <1>8 DEF OrderInv

LEMMA RegisterOrder ==
  Numbered(Order("register")) /\ Len(Order("register")) = NumDevices
<1> DEFINE s == [i \in Devices |-> i]
<1>1. Len(s) = NumDevices /\ \A i \in 1 .. NumDevices : s[i] = i
  BY BusAssumption DEF Devices
<1>2. Order("register") = s
  BY DEF Order
<1> HIDE DEF s
<1> QED
  BY <1>1, <1>2 DEF Numbered

LEMMA InsmodOrder ==
  ASSUME BusInv, OrderInv, InsmodDevice \/ InsmodDriver
  PROVE  OrderInv'
<1>1. /\ registered \in Seq(Devices) /\ bound \in Seq(Devices)
      /\ UNCHANGED <<registered, bound, failed>>
  BY DEF InsmodDevice, InsmodDriver, BusInv, BusTypes, objects
<1>2. CASE InsmodDevice
  <2>1. /\ Begin("register") /\ "device" \notin loaded /\ loaded' = loaded \cup {"device"}
    BY <1>2 DEF InsmodDevice
  <2>2. /\ command.op = "none" /\ command'.op = "register" /\ command'.at = "next"
        /\ command'.todo = Order("register") /\ Busy' = {}
    BY <2>1, Begins
  <2>3. registered = <<>> /\ bound = <<>>
    <3>1. registered = <<>> /\ Elements(bound) \subseteq Elements(registered)
      BY <2>1, <2>2 DEF BusInv, DevicesWhere
    <3> QED
      BY <1>1, <3>1, ElementsSeq, EmptySeqDistinct
  <2>4. Done' = 0 /\ Between' /\ Passed' = 0
    BY <2>2, RegisterOrder, BusAssumption DEF Done, Between, Passed
  <2>5. TodoInOrder'
    <3>1. \A i \in 1 .. Len(command'.todo) : command'.todo[i] = Done' + i
      BY <2>2, <2>4, RegisterOrder, BusAssumption DEF Numbered
    <3> QED
      BY <2>2, <2>4, <3>1 DEF TodoInOrder
  <2>6. DevicesInOrder'
    BY <1>1, <2>2, <2>3, <2>4, EmptyIncreasing, EmptySeqDistinct DEF DevicesInOrder
  <2> QED
    BY <2>5, <2>6 DEF OrderInv
<1>3. CASE InsmodDriver
  <2>1. /\ Begin("attach") /\ "driver" \notin loaded /\ loaded' = loaded \cup {"driver"}
    BY <1>3 DEF InsmodDriver
  <2>2. /\ command.op = "none" /\ command'.op = "attach" /\ command'.at = "next"
        /\ command'.todo = registered /\ Busy' = {}
    <3>1. Order("attach") = registered
      BY OrderSeq
    <3> QED
      BY <2>1, <3>1, Begins
  <2>3. bound = <<>>
    BY <2>1 DEF BusInv, DevicesWhere
  <2>4. "device" \in loaded => Numbered(registered) /\ Len(registered) = NumDevices
    BY <2>2 DEF OrderInv, DevicesInOrder
  <2>5. /\ "device" \in loaded => Done' = 0 /\ Passed' = 0
        /\ Between' /\ ("device" \in loaded' <=> "device" \in loaded)
    BY <2>1, <2>2, <2>4, BusAssumption DEF Done, Between, Passed
  <2>6. TodoInOrder'
    <3>1. "device" \in loaded =>
            \A i \in 1 .. Len(command'.todo) : command'.todo[i] = Done' + i
      BY <1>1, <2>2, <2>4, <2>5, BusAssumption DEF Numbered
    <3> QED
      BY <2>2, <2>5, <3>1 DEF TodoInOrder
  <2>7. DevicesInOrder'
    <3>1. Increasing(bound)' /\ Numbered(bound)' /\ Elements(bound)' = {} /\ Len(bound)' = 0
      BY <1>1, <2>3, EmptyIncreasing, EmptySeqDistinct
    <3>2. Numbered(registered)' = Numbered(registered)
      BY <1>1 DEF Numbered
    <3> QED
      BY <1>1, <2>2, <2>4, <2>5, <3>1, <3>2 DEF DevicesInOrder, BothLoaded
  <2> QED
    BY <2>6, <2>7 DEF OrderInv
<1> QED
  BY <1>2, <1>3

LEMMA RmmodOrder ==
  ASSUME BusInv, OrderInv, Rmmod
  PROVE  OrderInv'
<1>1. /\ registered \in Seq(Devices) /\ Increasing(bound)
      /\ UNCHANGED <<loaded, registered, bound, failed>>
  BY DEF Rmmod, BusInv, BusTypes, objects, OrderInv, DevicesInOrder
<1>2. Increasing(bound)' /\ Numbered(registered)' = Numbered(registered)
  BY <1>1 DEF Increasing, Numbered
<1>3. CASE "device" \in loaded /\ Begin("unregister")
  <2>1. /\ command.op = "none" /\ command'.op = "unregister" /\ command'.todo = registered
        /\ Busy' = {}
    <3>1. Order("unregister") = registered
      BY OrderSeq
    <3> QED
      BY <1>3, <3>1, Begins
  <2>2. Increasing(registered)
    BY <1>1, <1>3, <2>1, NumberedIncreasing DEF OrderInv, DevicesInOrder
  <2>3. ~ Attaching' /\ Detaching'
    BY <2>1 DEF Attaching, Detaching
  <2> QED
    BY <1>2, <2>1, <2>2, <2>3 DEF OrderInv, TodoInOrder, DevicesInOrder, Increasing
<1>4. CASE Begin("detach")
  <2>1. command.op = "none" /\ command'.op = "detach"
    BY <1>4, Begins
  <2>2. ~ Attaching' /\ Detaching'
    BY <2>1 DEF Attaching, Detaching
  <2> QED
    BY <1>1, <1>2, <2>1, <2>2 DEF OrderInv, TodoInOrder, DevicesInOrder
<1> QED
  BY <1>3, <1>4 DEF Rmmod

LEMMA CommandEndsOrder ==
  ASSUME BusInv, OrderInv, CommandEnds
  PROVE  OrderInv'
<1>1. /\ command.op /= "none" /\ command.at = "next" /\ command.todo = <<>>
      /\ command'.op = "none" /\ command'.at = "next" /\ command'.todo = <<>>
      /\ loaded' = CASE command.op = "unregister" -> loaded \ {"device"}
                     [] command.op = "detach"     -> loaded \ {"driver"}
                     [] OTHER                     -> loaded
      /\ command \in CommandOK
      /\ UNCHANGED <<registered, bound, failed>>
  BY DEF CommandEnds, Idle, objects, BusInv, BusTypes
<1>2. /\ Done = NumDevices /\ Done' = NumDevices /\ Passed = Done /\ Passed' = Done
      /\ Between /\ Between' /\ ~ Attaching' /\ ~ Detaching'
  BY <1>1, EmptySeqDistinct, BusAssumption DEF Done, Passed, Between, Attaching, Detaching
<1>3. /\ "device" \in loaded' => "device" \in loaded /\ command.op /= "unregister"
      /\ BothLoaded' => BothLoaded /\ ~ Detaching
  BY <1>1 DEF BothLoaded, Detaching
<1>4. /\ Numbered(registered)' = Numbered(registered) /\ Numbered(bound)' = Numbered(bound)
      /\ Increasing(bound)' = Increasing(bound)
  BY <1>1 DEF Numbered, Increasing
<1>5. TodoInOrder'
  BY <1>1, <1>2 DEF TodoInOrder
<1>6. DevicesInOrder'
  BY <1>1, <1>2, <1>3, <1>4 DEF OrderInv, DevicesInOrder
<1> QED
  BY <1>5, <1>6 DEF OrderInv

LEMMA NextDeviceOrder ==
  ASSUME BusInv, OrderInv, NextDevice
  PROVE  OrderInv'
<1> DEFINE d == Head(command.todo)
<1>1. /\ command \in CommandOK /\ command.op /= "none" /\ command.at = "next" /\ Between
      /\ command.todo /= <<>> /\ command.todo \in Seq(Devices)
      /\ Distinct(command.todo) /\ registered \in Seq(Devices) /\ bound \in Seq(Devices)
      /\ UNCHANGED <<loaded, bound, failed>>
  BY DEF NextDevice, BusInv, BusTypes, CommandOK, DevicesWhere, objects, Between
<1>2. /\ d \in Devices /\ Len(Tail(command.todo)) = Len(command.todo) - 1
      /\ Len(command.todo) \in Nat \ {0} /\ d = command.todo[1]
      /\ \A i \in 1 .. Len(command.todo) - 1 : Tail(command.todo)[i] = command.todo[i + 1]
      /\ Tail(command.todo) \in Seq(Devices)
  BY <1>1
<1>3. /\ command'.op = command.op /\ command'.todo = Tail(command.todo)
      /\ command'.device = d
      /\ Attaching /\ BothLoaded => ~ Between'
      /\ Attaching' = Attaching /\ Detaching' = Detaching /\ BothLoaded' = BothLoaded
      /\ Busy' \subseteq {d} /\ ToCome' = Elements(Tail(command.todo))
  <2>1. \E label \in {"class", "unlist", "next"} :
          /\ command' = [command EXCEPT !.todo = Tail(@), !.device = d, !.at = label]
          /\ Attaching /\ BothLoaded => label = "class"
    BY DEF NextDevice, Attaching, BothLoaded
  <2>2. /\ command'.op = command.op /\ command'.todo = Tail(command.todo)
        /\ command'.device = d
        /\ Attaching /\ BothLoaded => command'.at = "class"
    BY <1>1, <2>1 DEF CommandOK
  <2> HIDE DEF d
  <2> QED
    BY <1>1, <2>2 DEF Attaching, Detaching, BothLoaded, Busy, ToCome, Between
<1>4. /\ command.op = "register" => registered' = Append(registered, d)
      /\ command.op \in {"attach", "detach"} => registered' = registered
  BY <1>1 DEF NextDevice
<1>5. Attaching /\ "device" \in loaded =>
        /\ \A i \in 1 .. Len(command.todo) : command.todo[i] = Done + i
        /\ d = Done + 1
  <2>1. Attaching /\ "device" \in loaded =>
          \A i \in 1 .. Len(command.todo) : command.todo[i] = Done + i
    BY DEF OrderInv, TodoInOrder
  <2>2. 1 \in 1 .. Len(command.todo)
    BY <1>2
  <2> QED
    BY <1>2, <2>1, <2>2
<1>6. command.op = "unregister" =>
        Increasing(Tail(command.todo)) /\ \A e \in Elements(Tail(command.todo)) : d < e
  BY <1>1, TailIncreasing DEF OrderInv, TodoInOrder
<1> HIDE DEF d
<1>7. /\ Done' = Done + 1 /\ Done \in Int /\ Passed = Done
      /\ Passed' = IF Between' THEN Done + 1 ELSE Done
  BY <1>1, <1>2, <1>3, DoneInt DEF Done, Passed
<1>8. TodoInOrder'
  <2>1. Attaching /\ "device" \in loaded =>
          /\ \A i \in 1 .. Len(Tail(command.todo)) :
               Tail(command.todo)[i] = Done + 1 + i
    <3> SUFFICES ASSUME Attaching, "device" \in loaded,
                        NEW i \in 1 .. Len(command.todo) - 1
                 PROVE  Tail(command.todo)[i] = Done + 1 + i
      BY <1>2
    <3>1. i + 1 \in 1 .. Len(command.todo)
      BY <1>2
    <3>2. command.todo[i + 1] = Done + (i + 1)
      BY <1>5, <3>1
    <3> QED
      BY <1>2, <1>7, <3>2
  <2>2. command.op = "unregister" => Increasing(command.todo)'
    BY <1>3, <1>6 DEF Increasing
  <2> QED
    BY <1>1, <1>3, <1>5, <1>6, <1>7, <2>1, <2>2 DEF TodoInOrder
<1>9. DevicesInOrder'
  <2>1. "device" \in loaded' /\ command'.op /= "unregister" =>
          /\ Numbered(registered)'
          /\ Len(registered)' = IF command'.op = "register" THEN Done' ELSE NumDevices
    <3> SUFFICES ASSUME "device" \in loaded, command.op /= "unregister"
                 PROVE  /\ Numbered(registered)'
                        /\ Len(registered)' = IF command.op = "register" THEN Done'
                                              ELSE NumDevices
      BY <1>1, <1>3
    <3>1. /\ Numbered(registered)
          /\ Len(registered) = IF command.op = "register" THEN Done ELSE NumDevices
      BY DEF OrderInv, DevicesInOrder
    <3>2. CASE command.op = "register"
      <4>1. d = Len(registered) + 1 /\ Len(registered) = Done
        BY <1>5, <3>1, <3>2 DEF Attaching
      <4>2. Numbered(Append(registered, d))
        BY <1>1, <1>2, <3>1, <4>1, AppendIncreasing
      <4>3. Len(Append(registered, d)) = Len(registered) + 1
        BY <1>1
      <4> QED
        BY <1>4, <1>7, <3>2, <4>1, <4>2, <4>3 DEF Numbered
    <3>3. CASE command.op \in {"attach", "detach"}
      BY <1>4, <3>1, <3>3 DEF Numbered
    <3> QED
      BY <1>1, <3>2, <3>3 DEF CommandOK
  <2>2. Increasing(bound)' /\ Numbered(bound)' = Numbered(bound)
    BY <1>1 DEF OrderInv, DevicesInOrder, Increasing, Numbered
  <2>3. Attaching => \A e \in Elements(bound) : e <= Passed'
    <3>1. \A e \in Devices : e \in Int
      BY DEF Devices
    <3>2. \A e \in Elements(bound) : e \in Int
      BY <3>1, DoneInt, Zenon
    <3>3. Attaching => \A e \in Elements(bound) : e <= Passed
      BY DEF OrderInv, DevicesInOrder
    <3> QED
      BY <1>7, <3>2, <3>3
  <2>4. Attaching => \A e \in Elements(bound)' : e <= Passed'
    BY <1>1, <2>3
  <2>5. BothLoaded' /\ ~ Detaching' /\ failed' = {} =>
          Numbered(bound)' /\ Len(bound)' = Passed'
    <3> SUFFICES ASSUME BothLoaded, ~ Detaching, failed = {}
                 PROVE  Numbered(bound) /\ Len(bound) = Passed'
      BY <1>1, <1>3, <2>2
    <3>1. Attaching
      BY <1>1 DEF CommandOK, Attaching, Detaching
    <3> QED
      BY <1>3, <1>7, <3>1 DEF OrderInv, DevicesInOrder
  <2> QED
    BY <1>3, <2>1, <2>2, <2>4, <2>5 DEF DevicesInOrder
<1> QED
  BY <1>8, <1>9 DEF OrderInv

LEMMA NextOrder ==
  ASSUME BusInv, OrderInv, Next
  PROVE  OrderInv'
BY InsmodOrder, RmmodOrder, NextDeviceOrder, CommandEndsOrder, WithinOrder, AddDeviceOrder,
   FreeOrder DEF Next, Administrator, Probe, Remove

-----------------------------------------------------------------------------
(* The structs: what a probe has made is registered and complete when it is  *)
(* listed, and what is freed is not registered.                              *)

Ready(o) == hcsr_dev[o].ready

StructInv ==
  /\ misc \cap freed = {} /\ failed \cap linked = {}
  /\ command.at \in {"buffer", "link", "init", "list"} => command.obj \in misc \ freed
  /\ command.at \in {"buffer", "link"} => command.obj \notin failed
  /\ command.at = "free" => command.obj \notin misc
  /\ \A o \in Listed : Ready(o)
  /\ command.at \in {"list", "deregister", "free"} => Ready(command.obj)
  /\ gko_class => made > 0 \/ command.at = "alloc"

LEMMA InitStructs == Init => StructInv
<1> SUFFICES ASSUME Init
             PROVE  StructInv
  OBVIOUS
<1>1. /\ command.at = "next" /\ misc = {} /\ failed = {} /\ gko_class = FALSE
      /\ device_list = <<>>
  BY DEF Init, Idle
<1> QED
  BY <1>1, EmptySeqDistinct DEF StructInv, Listed

\* Steps that touch no struct: the command has none in hand, or stays where it is.
LEMMA QuietStructs ==
  ASSUME StructInv, Listed' \subseteq Listed,
         UNCHANGED <<hcsr_dev, misc, freed, failed, linked, made>>,
         gko_class' => gko_class \/ command'.at = "alloc",
         \/ UNCHANGED command
         \/ NoStruct /\ NoStruct' /\ command.at /= "alloc"
  PROVE  StructInv'
<1>1. \A o : Ready(o)' = Ready(o)
  BY DEF Ready
<1>2. CASE UNCHANGED command
  BY <1>1, <1>2 DEF StructInv
<1>3. CASE NoStruct /\ NoStruct' /\ command.at /= "alloc"
  BY <1>1, <1>3 DEF StructInv, NoStruct
<1> QED
  BY <1>2, <1>3

LEMMA QuietStructSteps ==
  ASSUME Inv, StructInv, fault = "none", Administrator \/ MakeClass \/ Open \/ Use
  PROVE  StructInv'
<1>1. BusInv /\ command \in CommandOK
  BY DEF Inv, BusInv, BusTypes
<1>2. UNCHANGED <<hcsr_dev, misc, freed, failed, linked, made>>
  BY DEF Administrator, InsmodDevice, InsmodDriver, Rmmod, NextDevice, CommandEnds,
     MakeClass, Open, OpenBegin, OpenWalk, OpenEnd, Use, Call, Close, Enable, ThreadEnds,
     objects, kernel
<1>3. device_list' \in {device_list, <<>>}
  BY DEF Administrator, InsmodDevice, InsmodDriver, Rmmod, NextDevice, CommandEnds,
     MakeClass, Open, OpenBegin, OpenWalk, OpenEnd, Use, Call, Close, Enable, ThreadEnds,
     driver
<1>4. Listed' \subseteq Listed
  BY <1>3, EmptySeqDistinct DEF Listed
<1>5. CASE Open \/ Use
  <2>1. UNCHANGED <<command, gko_class>>
    BY <1>5 DEF Open, OpenBegin, OpenWalk, OpenEnd, Use, Call, Close, Enable, ThreadEnds,
       kernel
  <2> QED
    BY <1>2, <1>4, <2>1, QuietStructs
<1>6. CASE MakeClass
  <2>1. CASE first /\ gko_class
    <3>1. UNCHANGED command /\ gko_class' = TRUE
      BY <1>6, <2>1 DEF MakeClass
    <3> QED
      BY <1>2, <1>4, <2>1, <3>1, QuietStructs
  <2>2. CASE ~ (first /\ gko_class)
    <3>1. command.at = "class" /\ Goto("alloc")
      BY <1>6, <2>2 DEF MakeClass, At
    <3>2. command'.at = "alloc"
      BY <1>1, <3>1 DEF Goto, CommandOK
    <3> QED
      BY <1>2, <1>4, <3>1, <3>2, QuietStructs DEF NoStruct
  <2> QED
    BY <2>1, <2>2
<1>7. CASE Administrator
  <2>1. UNCHANGED gko_class
    BY <1>7 DEF Administrator, InsmodDevice, InsmodDriver, Rmmod, NextDevice, CommandEnds,
       kernel
  <2>2. command.at = "next"
    <3>1. CASE NextDevice \/ CommandEnds
      BY <3>1 DEF NextDevice, CommandEnds
    <3>2. CASE InsmodDevice \/ InsmodDriver \/ Rmmod
      <4>1. \E op \in {"register", "attach", "unregister", "detach"} : Begin(op)
        BY <3>2 DEF InsmodDevice, InsmodDriver, Rmmod
      <4> QED
        BY <1>1, <4>1, Begins
    <3> QED
      BY <1>7, <3>1, <3>2 DEF Administrator
  <2>3. command'.at \in {"next", "class", "unlist"}
    <3>1. CASE NextDevice
      BY <1>1, <3>1 DEF NextDevice, CommandOK
    <3>2. CASE InsmodDevice \/ InsmodDriver \/ Rmmod \/ CommandEnds
      <4>1. \A op : Begin(op) => command'.at = "next"
        BY DEF Begin, Idle
      <4>2. CommandEnds => command'.at = "next"
        BY DEF CommandEnds, Idle
      <4> QED
        BY <3>2, <4>1, <4>2 DEF InsmodDevice, InsmodDriver, Rmmod
    <3> QED
      BY <1>7, <3>1, <3>2 DEF Administrator
  <2> QED
    BY <1>2, <1>4, <2>1, <2>2, <2>3, QuietStructs DEF NoStruct
<1> QED
  BY <1>5, <1>6, <1>7

LEMMA DeviceListLinked ==
  ASSUME Inv, fault = "none"
  PROVE  device_list \in Seq(linked)
<1>1. device_list \in Seq(1 .. made) /\ Listed \subseteq linked
  BY DEF Inv, ListInv, ListTypes, OneEach
<1>2. \A i \in 1 .. Len(device_list) : device_list[i] \in linked
  BY <1>1 DEF Listed, Elements
<1> QED
  BY <1>1, <1>2

LEMMA ProbeStructs ==
  ASSUME Inv, StructInv, fault = "none",
         NewDevice \/ AllocBuffer \/ Link \/ InitBuffer \/ AddDevice
  PROVE  StructInv'
<1>1. /\ command \in CommandOK /\ BusInv /\ made \in Nat
      /\ hcsr_dev \in [Objects -> [device : Devices, next : Objects \cup {NULL},
                                   ready : BOOLEAN]]
      /\ freed \subseteq 1 .. made /\ failed \subseteq 1 .. made
      /\ linked \subseteq 1 .. made /\ Listed \subseteq linked
      /\ 1 .. made \subseteq Objects
  BY MadeObjects DEF Inv, BusInv, BusTypes, ObjectInv, ObjectTypes, ListInv, OneEach
<1> DEFINE c == command.obj
<1>2. CASE NewDevice
  <2> DEFINE n == made + 1
  <2>1. /\ made' = n /\ command.at = "alloc"
        /\ hcsr_dev' = [hcsr_dev EXCEPT ![n] =
             [device |-> command.device, next |-> NULL, ready |-> FALSE]]
        /\ \/ /\ misc' = misc \cup {n} /\ failed' = failed
              /\ command' = [command EXCEPT !.at = "buffer", !.obj = n]
           \/ /\ failed' = failed \cup {n} /\ misc' = misc
              /\ command' = [command EXCEPT !.at = "next", !.obj = NULL]
        /\ UNCHANGED <<device_list, freed, linked>>
    BY <1>2 DEF NewDevice, Unprobed, At, driver
  <2>2. \/ /\ misc' = misc \cup {n} /\ failed' = failed
           /\ command'.at = "buffer" /\ command'.obj = n
        \/ failed' = failed \cup {n} /\ misc' = misc /\ command'.at = "next"
    BY <1>1, <2>1 DEF CommandOK
  <2>3. n \notin freed /\ n \notin failed /\ n \notin linked /\ made' > 0
    BY <1>1, <2>1
  <2> HIDE DEF n
  <2>4. Listed' = Listed /\ \A o \in Listed : Ready(o)' = Ready(o)
    <3>1. \A o \in Listed : o \in Objects /\ o /= n
      BY <1>1, <2>3
    <3> QED
      BY <1>1, <2>1, <3>1 DEF Listed, Ready
  <2>5. /\ misc \cap freed = {} /\ failed \cap linked = {} /\ \A o \in Listed : Ready(o)
    BY DEF StructInv
  <2> QED
    BY <2>1, <2>2, <2>3, <2>4, <2>5 DEF StructInv
<1>3. CASE AllocBuffer
  <2>1. /\ command.at = "buffer" /\ Listed' = Listed
        /\ UNCHANGED <<hcsr_dev, freed, linked, misc, gko_class, made>>
        /\ \/ Goto("link") /\ failed' = failed
           \/ Unprobed /\ failed' = failed \cup {c}
    BY <1>3 DEF AllocBuffer, At, driver, kernel, Listed
  <2>2. \/ command'.at = "link" /\ command'.obj = c /\ failed' = failed
        \/ command'.at = "next" /\ failed' = failed \cup {c}
    BY <1>1, <2>1 DEF Goto, Unprobed, CommandOK
  <2>3. c \notin linked
    BY <2>1 DEF Inv, ObjectInv, ObjectWhere
  <2>4. \A o : Ready(o)' = Ready(o)
    BY <2>1 DEF Ready
  <2> QED
    BY <2>1, <2>2, <2>3, <2>4 DEF StructInv
<1>4. CASE Link
  <2>1. /\ command.at = "link" /\ Goto("init") /\ Listed' = Listed
        /\ hcsr_dev' = [hcsr_dev EXCEPT ![c].next = HEAD] /\ linked' = linked \cup {c}
        /\ UNCHANGED <<freed, failed, misc, gko_class, made>>
    BY <1>4 DEF Link, At, kernel, Listed
  <2>2. command'.at = "init" /\ command'.obj = c
    BY <1>1, <2>1 DEF Goto, CommandOK
  <2>3. \A o \in Listed : Ready(o)' = Ready(o)
    BY <1>1, <2>1 DEF Ready
  <2> QED
    BY <2>1, <2>2, <2>3 DEF StructInv
<1>5. CASE InitBuffer
  <2>1. /\ command.at = "init" /\ Goto("list") /\ Listed' = Listed
        /\ hcsr_dev' = [hcsr_dev EXCEPT ![c].ready = TRUE]
        /\ UNCHANGED <<freed, failed, linked, misc, gko_class, made>>
    BY <1>5 DEF InitBuffer, At, driver, kernel, Listed
  <2>2. command'.at = "list" /\ command'.obj = c
    BY <1>1, <2>1 DEF Goto, CommandOK
  <2>3. c \in Objects
    BY <1>1, <2>1 DEF Inv, ObjectInv, ObjectWhere
  <2>4. hcsr_dev[c] \in [device : Devices, next : Objects \cup {NULL}, ready : BOOLEAN]
    BY <1>1, <2>3
  <2> HIDE DEF c
  <2>5. hcsr_dev'[c].ready
    <3>1. hcsr_dev'[c] = [hcsr_dev[c] EXCEPT !.ready = TRUE]
      BY <1>1, <2>1, <2>3
    <3> QED
      BY <2>4, <3>1
  <2>6. \A o \in Listed : Ready(o)'
    <3>1. \A o \in Listed : o \in Objects /\ Ready(o)
      BY <1>1 DEF StructInv
    <3>2. ASSUME NEW o \in Listed
          PROVE  Ready(o)'
      BY <1>1, <2>1, <2>4, <3>1, <3>2 DEF Ready
    <3> QED
      BY <3>2
  <2>7. Ready(command.obj)'
    BY <2>2, <2>5 DEF Ready
  <2> QED
    BY <2>1, <2>2, <2>6, <2>7 DEF StructInv, c
<1>6. CASE AddDevice
  <2>1. /\ command.at = "list" /\ device_list' = <<c>> \o device_list
        /\ command' = [command EXCEPT !.at = "next", !.obj = NULL] \/ UNCHANGED command
        /\ gko_class' \in {gko_class, FALSE}
        /\ UNCHANGED <<hcsr_dev, freed, failed, linked, misc, made>>
    BY <1>6 DEF AddDevice, At, objects
  <2>2. command'.at = "next" \/ UNCHANGED command
    BY <1>1, <2>1 DEF CommandOK
  <2>3. Listed' = Listed \cup {c}
    <3>1. device_list \in Seq(linked) /\ c \in linked
      BY <2>1, DeviceListLinked DEF Inv, ObjectInv, ObjectWhere
    <3>2. device_list' = Cons(c, device_list)
      BY <2>1 DEF Cons
    <3>3. Elements(Cons(c, device_list)) = Elements(device_list) \cup {c}
      BY <3>1, ConsElements
    <3> QED
      BY <3>2, <3>3 DEF Listed
  <2>4. \A o : Ready(o)' = Ready(o)
    BY <2>1 DEF Ready
  <2>5. /\ misc \cap freed = {} /\ failed \cap linked = {} /\ c \in misc \ freed
        /\ (\A o \in Listed : Ready(o)) /\ Ready(c)
    BY <2>1 DEF StructInv
  <2>6. gko_class' => made > 0
    BY <2>1 DEF StructInv
  <2>7. \A o \in Listed' : Ready(o)'
    BY <2>3, <2>4, <2>5
  <2>8. CASE command'.at = "next"
    BY <2>1, <2>5, <2>6, <2>7, <2>8 DEF StructInv
  <2>9. CASE UNCHANGED command
    BY <2>1, <2>4, <2>5, <2>6, <2>7, <2>9 DEF StructInv
  <2> QED
    BY <2>2, <2>8, <2>9
<1> QED
  BY <1>2, <1>3, <1>4, <1>5, <1>6

LEMMA RemoveStructs ==
  ASSUME Inv, StructInv, fault = "none", Remove
  PROVE  StructInv'
<1>1. /\ command \in CommandOK /\ Distinct(device_list) /\ device_list \in Seq(linked)
  BY DeviceListLinked DEF Inv, BusInv, BusTypes, ListInv, OneEach
<1> DEFINE c == command.obj
<1>2. CASE Unlist
  <2>1. /\ At("unlist") /\ device_list' = Without(device_list, Removed)
        /\ \/ command' = [command EXCEPT !.at = "deregister", !.obj = Removed]
           \/ UNCHANGED command
        /\ UNCHANGED <<hcsr_dev, freed, failed, linked, misc, gko_class, made>>
    BY <1>2 DEF Unlist, objects
  <2>2. (command'.at = "deregister" /\ command'.obj = Removed) \/ UNCHANGED command
    BY <1>1, <2>1 DEF CommandOK
  <2>3. Removed \in Listed
    BY <2>1, RemovedListed
  <2>4. Listed' \subseteq Listed
    <3>1. Elements(Without(device_list, Removed)) = Elements(device_list) \ {Removed}
      BY <1>1, WithoutElements
    <3> QED
      BY <2>1, <3>1 DEF Listed
  <2>5. \A o : Ready(o)' = Ready(o)
    BY <2>1 DEF Ready
  <2>6. command.at = "unlist"
    BY <2>1 DEF At
  <2> QED
    BY <2>1, <2>2, <2>3, <2>4, <2>5, <2>6 DEF StructInv
<1>3. CASE Deregister
  <2>1. /\ command.at = "deregister" /\ Goto("free") /\ misc' = misc \ {c}
        /\ Listed' = Listed
        /\ UNCHANGED <<hcsr_dev, freed, failed, linked, gko_class, made>>
    BY <1>3 DEF Deregister, At, objects, driver, Listed
  <2>2. command'.at = "free" /\ command'.obj = c
    BY <1>1, <2>1 DEF Goto, CommandOK
  <2>3. \A o : Ready(o)' = Ready(o)
    BY <2>1 DEF Ready
  <2> QED
    BY <2>1, <2>2, <2>3 DEF StructInv
<1>4. CASE Free
  <2>1. /\ command.at = "free" /\ freed' = freed \cup {c} /\ Listed' = Listed
        /\ command' = [command EXCEPT !.at = "next", !.obj = NULL]
        /\ UNCHANGED <<hcsr_dev, misc, failed, linked, gko_class, made>>
    BY <1>4 DEF Free, At, driver, kernel, Listed
  <2>2. command'.at = "next"
    BY <1>1, <2>1 DEF CommandOK
  <2>3. \A o : Ready(o)' = Ready(o)
    BY <2>1 DEF Ready
  <2> QED
    BY <2>1, <2>2, <2>3 DEF StructInv
<1> QED
  BY <1>2, <1>3, <1>4 DEF Remove

LEMMA NextStructs ==
  ASSUME Inv, StructInv, Next
  PROVE  StructInv'
BY QuietStructSteps, ProbeStructs, RemoveStructs DEF Next, Probe

-----------------------------------------------------------------------------
(* The class: while the driver is not being unloaded its devices are those   *)
(* of the list, from the oldest, each for the device bound at its place.  A   *)
(* device that is being removed is out of the class and the list already.     *)

Shift == IF Deleted THEN 1 ELSE 0

Matched(i) ==
  /\ device_list[Len(class) + 1 - i] = class[i]
  /\ Dev(class[i]) = bound[i + Shift]
  /\ gko_device[bound[i + Shift]] = class[i]
  /\ class[i] \in misc \ freed

ClassInOrder ==
  /\ Len(device_list) = Len(class)
  /\ \A i \in 1 .. Len(class) : Matched(i)

ClassInv == fault = "none" /\ command.op /= "detach" => ClassInOrder

LEMMA ClassLengths ==
  ASSUME Inv, fault = "none"
  PROVE  /\ device_list \in Seq(linked) /\ class \in Seq(1 .. made)
         /\ bound \in Seq(Devices) /\ Distinct(bound) /\ Distinct(device_list)
         /\ Len(class) \in Nat /\ Len(bound) \in Nat
         /\ Len(class) = Len(bound) - Shift
         /\ bound = <<>> /\ ~ Deleted => Len(device_list) = 0 /\ Len(class) = 0
<1>1. /\ device_list \in Seq(linked) /\ class \in Seq(1 .. made)
      /\ bound \in Seq(Devices) /\ Distinct(bound) /\ Distinct(device_list)
      /\ Len(class) = Len(bound) - Shift
  BY DeviceListLinked DEF Inv, BusInv, BusTypes, DevicesWhere, ListInv, ListTypes, OneEach,
     Accounted, Shift
<1>2. ASSUME bound = <<>>
      PROVE  device_list = <<>>
  <2>1. Listed = {}
    BY <1>2, EmptySeqDistinct DEF Inv, ListInv, OneEach
  <2> QED
    BY <1>1, <2>1, ElementsSeq DEF Listed
<1>3. bound = <<>> /\ ~ Deleted => Len(device_list) = 0 /\ Len(class) = 0
  BY <1>1, <1>2, EmptySeqDistinct DEF Shift
<1>4. Len(class) \in Nat /\ Len(bound) \in Nat
  BY <1>1
<1> QED
  BY <1>1, <1>3, <1>4

LEMMA ClassInList ==
  ASSUME Inv, fault = "none", ClassInOrder, NEW i \in 1 .. Len(class)
  PROVE  class[i] \in Listed /\ i + Shift \in 1 .. Len(bound)
<1>1. /\ Len(device_list) = Len(class) /\ Len(class) \in Nat
      /\ Len(class) = Len(bound) - Shift /\ Len(bound) \in Nat /\ Shift \in {0, 1}
  BY ClassLengths DEF ClassInOrder, Shift
<1>2. device_list[Len(class) + 1 - i] = class[i]
  BY DEF ClassInOrder, Matched
<1>3. Len(class) + 1 - i \in 1 .. Len(device_list) /\ i + Shift \in 1 .. Len(bound)
  BY <1>1
<1> QED
  BY <1>2, <1>3 DEF Listed, Elements

\* Steps that leave the list and the class alone.
LEMMA ClassSame ==
  ASSUME Inv, fault = "none", ClassInOrder,
         UNCHANGED <<class, device_list, bound, gko_device, freed>>, Deleted' = Deleted,
         \A o \in Listed : Dev(o)' = Dev(o),
         misc \cap Listed \subseteq misc'
  PROVE  ClassInOrder'
<1>1. Shift' = Shift
  BY DEF Shift
<1>2. ASSUME NEW i \in 1 .. Len(class)
      PROVE  Matched(i)'
  <2>1. Matched(i) /\ class[i] \in Listed
    BY ClassInList DEF ClassInOrder
  <2>2. Dev(class[i])' = Dev(class[i])
    BY <2>1
  <2> QED
    BY <1>1, <2>1, <2>2 DEF Matched
<1> QED
  BY <1>2 DEF ClassInOrder

LEMMA ClassEmpty ==
  ASSUME Len(device_list) = 0, Len(class) = 0
  PROVE  ClassInOrder
  BY DEF ClassInOrder

\* unregister removes the devices in the order in which they are bound.
LEMMA FirstBound ==
  ASSUME Inv, OrderInv, command.op = "unregister", AtRemove
  PROVE  Len(bound) > 0 /\ bound[1] = command.device
<1> DEFINE d == command.device
<1>1. /\ bound \in Seq(Devices) /\ Busy = {d} /\ d \in Elements(bound)
      /\ Elements(bound) \subseteq ToCome \cup {d} /\ d \in Devices
      /\ Increasing(bound) /\ \A e \in ToCome : d < e
  <2>1. Busy = {d} /\ d \in Devices /\ Detaching
    BY DEF AtRemove, Busy, Detaching, Inv, BusInv, BusTypes, CommandOK
  <2> QED
    BY <2>1 DEF Inv, BusInv, BusTypes, DevicesWhere, OrderInv, TodoInOrder, DevicesInOrder
<1> HIDE DEF d
<1>2. PICK k \in 1 .. Len(bound) : bound[k] = d
  BY <1>1 DEF Elements
<1>3. Len(bound) \in Nat /\ 1 \in 1 .. Len(bound) /\ bound[1] \in Devices
  BY <1>1, <1>2
<1>4. bound[1] \in Elements(bound)
  BY <1>3 DEF Elements
<1>5. bound[1] = d \/ d < bound[1]
  BY <1>1, <1>4
<1>6. k /= 1 => bound[1] < d
  BY <1>1, <1>2, <1>3 DEF Increasing
<1>7. bound[1] \in Int /\ d \in Int
  BY <1>1, <1>3 DEF Devices
<1>8. bound[1] = d
  BY <1>2, <1>5, <1>6, <1>7
<1> QED
  BY <1>3, <1>8 DEF d

LEMMA AddDeviceClass ==
  ASSUME Inv, fault = "none", fault' = "none", StructInv, ClassInOrder, AddDevice
  PROVE  ClassInOrder'
<1> DEFINE c == command.obj
           d == command.device
           n == Len(class)
<1>1. /\ device_list' = <<c>> \o device_list /\ bound' = Append(bound, d)
      /\ class' = Append(class, c) /\ command.at = "list"
      /\ gko_device' = [gko_device EXCEPT ![d] = c]
      /\ command' = [command EXCEPT !.at = "next", !.obj = NULL]
      /\ UNCHANGED <<hcsr_dev, freed, misc>>
  BY DEF AddDevice, At, objects, kernel
<1>2. /\ command \in CommandOK /\ gko_device \in [Devices -> Objects \cup {NULL}]
      /\ d \in Devices /\ c \in misc \ freed /\ Dev(c) = d /\ c \in linked
      /\ c \in 1 .. made
  BY <1>1 DEF Inv, BusInv, BusTypes, CommandOK, ListInv, ListTypes, ObjectInv, ObjectTypes,
     ObjectWhere, StructInv, Dev
<1>3. d \notin Elements(bound)
  <2>1. Attaching /\ Busy = {d}
    BY <1>1 DEF Inv, BusInv, CommandWhere, AtProbe, Busy
  <2> QED
    BY <2>1 DEF Inv, BusInv, DevicesWhere
<1>4. ~ Deleted /\ ~ Deleted'
  <2>1. command'.at = "next"
    BY <1>1, <1>2 DEF CommandOK
  <2> QED
    BY <1>1, <2>1 DEF Deleted
<1>5. Shift = 0 /\ Shift' = 0
  BY <1>4 DEF Shift
<1>6. /\ device_list \in Seq(linked) /\ class \in Seq(1 .. made) /\ bound \in Seq(Devices)
      /\ n \in Nat /\ Len(device_list) = n /\ Len(bound) = n
  <2>1. Len(class) = Len(bound) - 0 /\ Len(bound) \in Nat
    BY <1>5, ClassLengths
  <2> QED
    BY <2>1, ClassLengths DEF ClassInOrder
<1> HIDE DEF c, d
<1>7. /\ Len(device_list') = n + 1 /\ device_list'[1] = c
      /\ \A i \in 1 .. n : device_list'[i + 1] = device_list[i]
  BY <1>1, <1>2, <1>6
<1>8. /\ Len(class') = n + 1 /\ class'[n + 1] = c /\ \A i \in 1 .. n : class'[i] = class[i]
  BY <1>1, <1>2, <1>6
<1>9. bound'[n + 1] = d /\ \A i \in 1 .. n : bound'[i] = bound[i]
  BY <1>1, <1>2, <1>6
<1>10. gko_device'[d] = c /\ \A e \in Devices : e /= d => gko_device'[e] = gko_device[e]
  BY <1>1, <1>2
<1>11. \A o : Dev(o)' = Dev(o)
  BY <1>1 DEF Dev
<1>12. ASSUME NEW i \in 1 .. n
       PROVE  Matched(i)'
  <2>1. /\ device_list[n + 1 - i] = class[i] /\ Dev(class[i]) = bound[i]
        /\ gko_device[bound[i]] = class[i] /\ class[i] \in misc \ freed
    <3>1. i + Shift = i
      BY <1>5
    <3> QED
      BY <3>1 DEF ClassInOrder, Matched
  <2>2. bound[i] \in Devices /\ bound[i] /= d
    BY <1>3, <1>6 DEF Elements
  <2>3. gko_device'[bound'[i]] = class'[i]
    BY <1>8, <1>9, <1>10, <2>1, <2>2
  <2>4. n + 1 - i \in 1 .. n /\ (n + 1) + 1 - i = (n + 1 - i) + 1
    BY <1>6
  <2>5. device_list'[(n + 1) + 1 - i] = class'[i]
    BY <1>7, <1>8, <2>1, <2>4
  <2>6. hcsr_dev'[class'[i]].device = bound'[i]
    BY <1>1, <1>8, <1>9, <2>1 DEF Dev
  <2>7. i + Shift' = i
    BY <1>5
  <2> HIDE DEF n
  <2> QED
    BY <1>1, <1>8, <2>1, <2>3, <2>5, <2>6, <2>7 DEF Matched, Dev
<1>13. ASSUME NEW i \in Nat, i = n + 1
       PROVE  Matched(i)'
  <2>1. /\ device_list'[1] = c /\ class'[i] = c /\ bound'[i] = d
        /\ gko_device'[d] = c /\ c \in misc' \ freed' /\ hcsr_dev'[c].device = d
    BY <1>1, <1>2, <1>7, <1>8, <1>9, <1>10, <1>13 DEF Dev
  <2>2. i + Shift' = i /\ Len(class') + 1 - i = 1
    BY <1>5, <1>6, <1>8, <1>13
  <2> HIDE DEF n
  <2> QED
    BY <2>1, <2>2 DEF Matched, Dev
<1>14. /\ \A i \in 1 .. Len(class') : i \in 1 .. n \/ (i \in Nat /\ i = n + 1)
       /\ Len(device_list') = Len(class')
  BY <1>6, <1>7, <1>8
<1> QED
  BY <1>12, <1>13, <1>14 DEF ClassInOrder

LEMMA UnlistClass ==
  ASSUME Inv, OrderInv, fault = "none", fault' = "none", ClassInOrder, Unlist,
         command.op = "unregister"
  PROVE  ClassInOrder'
<1> DEFINE n == Len(class)
<1>1. /\ device_list' = Without(device_list, Removed) /\ class' = Tail(class)
      /\ command.at = "unlist" /\ At("unlist")
      /\ command' = [command EXCEPT !.at = "deregister", !.obj = Removed]
      /\ UNCHANGED <<hcsr_dev, freed, misc, bound, gko_device>>
  BY DEF Unlist, At, objects
<1>2. ~ Deleted /\ Deleted'
  <2>1. command'.at = "deregister"
    BY <1>1 DEF Inv, BusInv, BusTypes, CommandOK
  <2> QED
    BY <1>1, <2>1 DEF Deleted
<1>3. Shift = 0 /\ Shift' = 1
  BY <1>2 DEF Shift
<1>4. Len(bound) > 0 /\ bound[1] = command.device
  BY <1>1, FirstBound DEF AtRemove
<1>5. /\ device_list \in Seq(linked) /\ class \in Seq(1 .. made) /\ Distinct(device_list)
      /\ n \in Nat /\ n > 0 /\ Len(device_list) = n /\ Len(bound) = n
  <2>1. Len(class) = Len(bound) - 0 /\ Len(bound) \in Nat
    BY <1>3, ClassLengths
  <2> QED
    BY <1>4, <2>1, ClassLengths DEF ClassInOrder
<1>6. Removed = device_list[n]
  <2>1. /\ device_list[n + 1 - 1] = class[1] /\ Dev(class[1]) = bound[1 + Shift]
        /\ class[1] \in Listed
    BY <1>5, ClassInList DEF ClassInOrder, Matched
  <2>2. device_list[n] = class[1] /\ Dev(class[1]) = command.device
    BY <1>3, <1>4, <1>5, <2>1
  <2>3. Removed \in Listed /\ Dev(Removed) = command.device
    BY <1>1, RemovedListed
  <2>4. \A o, p \in Listed : Dev(o) = Dev(p) => o = p
    BY DEF Inv, ListInv, OneEach
  <2> QED
    BY <2>1, <2>2, <2>3, <2>4
<1>7. /\ Len(device_list') = n - 1
      /\ \A i \in 1 .. n - 1 : device_list'[i] = device_list[i]
  <2>1. n \in 1 .. Len(device_list)
    BY <1>5
  <2>2. /\ Len(Without(device_list, device_list[n])) = Len(device_list) - 1
        /\ \A i \in 1 .. Len(device_list) - 1 : Without(device_list, device_list[n])[i] =
             IF i < n THEN device_list[i] ELSE device_list[i + 1]
    BY <1>5, <2>1, WithoutAt
  <2>3. \A i \in 1 .. n - 1 : i < n
    BY <1>5
  <2> HIDE DEF n
  <2> QED
    BY <1>1, <1>5, <1>6, <2>2, <2>3
<1>8. Len(class') = n - 1 /\ \A i \in 1 .. n - 1 : class'[i] = class[i + 1]
  BY <1>1, <1>5
<1>9. ASSUME NEW i \in 1 .. n - 1
      PROVE  Matched(i)'
  <2>1. /\ i + 1 \in 1 .. n /\ (i + 1) + Shift = i + 1 /\ i + Shift' = i + 1
        /\ n + 1 - (i + 1) = n - i /\ n - i \in 1 .. n - 1 /\ (n - 1) + 1 - i = n - i
    BY <1>3, <1>5
  <2>2. Matched(i + 1)
    BY <2>1 DEF ClassInOrder
  <2> HIDE DEF n
  <2>3. /\ device_list[n - i] = class[i + 1] /\ Dev(class[i + 1]) = bound[i + 1]
        /\ gko_device[bound[i + 1]] = class[i + 1] /\ class[i + 1] \in misc \ freed
    BY <2>1, <2>2 DEF Matched, n
  <2> QED
    BY <1>1, <1>7, <1>8, <2>1, <2>3 DEF Matched, Dev
<1> QED
  BY <1>7, <1>8, <1>9 DEF ClassInOrder

LEMMA FreeClass ==
  ASSUME Inv, OrderInv, fault = "none", ClassInOrder, Free, command.op = "unregister"
  PROVE  ClassInOrder'
<1> DEFINE n == Len(class)
           c == command.obj
<1>1. /\ freed' = freed \cup {c} /\ command.at = "free"
      /\ bound' = Without(bound, command.device)
      /\ command' = [command EXCEPT !.at = "next", !.obj = NULL]
      /\ UNCHANGED <<device_list, class, hcsr_dev, misc, gko_device>>
  BY DEF Free, At, driver, kernel
<1>2. Deleted /\ ~ Deleted'
  <2>1. command'.at = "next"
    BY <1>1 DEF Inv, BusInv, BusTypes, CommandOK
  <2> QED
    BY <1>1, <2>1 DEF Deleted
<1>3. Shift = 1 /\ Shift' = 0
  BY <1>2 DEF Shift
<1>4. Len(bound) > 0 /\ bound[1] = command.device
  BY <1>1, FirstBound DEF AtRemove
<1>5. c \notin Listed
  <2>1. c \in Current({"init", "list", "deregister", "free"})
    BY <1>1 DEF Current
  <2> QED
    BY <2>1 DEF Inv, ListInv, OneEach
<1> HIDE DEF c
<1>6. /\ bound \in Seq(Devices) /\ Distinct(bound) /\ n \in Nat /\ Len(bound) = n + 1
  <2>1. Len(class) = Len(bound) - 1 /\ Len(bound) \in Nat
    BY <1>3, ClassLengths
  <2> QED
    BY <2>1, ClassLengths
<1>7. \A i \in 1 .. n : bound'[i] = bound[i + 1]
  <2>1. 1 \in 1 .. Len(bound)
    BY <1>6
  <2>2. \A i \in 1 .. Len(bound) - 1 :
          Without(bound, bound[1])[i] = IF i < 1 THEN bound[i] ELSE bound[i + 1]
    BY <1>6, <2>1, WithoutAt
  <2>3. Len(bound) - 1 = n /\ \A i \in 1 .. n : ~ (i < 1)
    BY <1>6
  <2> HIDE DEF n
  <2> QED
    BY <1>1, <1>4, <2>2, <2>3
<1>8. ASSUME NEW i \in 1 .. n
      PROVE  Matched(i)'
  <2>1. i + Shift = i + 1 /\ i + Shift' = i
    BY <1>3
  <2>2. Matched(i) /\ class[i] \in Listed
    BY ClassInList DEF ClassInOrder
  <2>3. class[i] /= c
    BY <1>5, <2>2
  <2> HIDE DEF n
  <2> QED
    BY <1>1, <1>7, <2>1, <2>2, <2>3 DEF Matched, Dev
<1> QED
  BY <1>1, <1>8 DEF ClassInOrder

LEMMA StepsOutsideClass ==
  ASSUME Inv, fault = "none", fault' = "none", command.op /= "detach", ClassInOrder,
         \/ InsmodDevice \/ Rmmod \/ NextDevice \/ CommandEnds \/ MakeClass
         \/ NewDevice \/ AllocBuffer \/ Link \/ InitBuffer \/ Deregister \/ Open \/ Use
  PROVE  ClassInOrder'
<1>1. /\ command \in CommandOK /\ BusInv /\ OneEach /\ Listed \subseteq linked
      /\ linked \subseteq 1 .. made /\ 1 .. made \subseteq Objects /\ made \in Nat
      /\ hcsr_dev \in [Objects -> [device : Devices, next : Objects \cup {NULL},
                                   ready : BOOLEAN]]
  BY MadeObjects DEF Inv, BusInv, BusTypes, ListInv, OneEach, ObjectInv, ObjectTypes
<1>2. UNCHANGED <<class, device_list, bound, gko_device, freed>>
  BY DEF InsmodDevice, Rmmod, NextDevice, CommandEnds, MakeClass, NewDevice, AllocBuffer,
     Link, InitBuffer, Deregister, Open, OpenBegin, OpenWalk, OpenEnd, Use, Call, Close,
     Enable, ThreadEnds, objects, driver, kernel
<1>3. CASE Open \/ Use
  <2>1. UNCHANGED <<command, hcsr_dev, misc>>
    BY <1>3 DEF Open, OpenBegin, OpenWalk, OpenEnd, Use, Call, Close, Enable, ThreadEnds,
       objects, kernel
  <2>2. Deleted' = Deleted /\ \A o : Dev(o)' = Dev(o)
    BY <2>1 DEF Deleted, Dev
  <2> QED
    BY <1>2, <2>1, <2>2, ClassSame
<1>4. CASE InsmodDevice \/ Rmmod \/ NextDevice \/ CommandEnds
  <2>1. UNCHANGED <<hcsr_dev, misc>>
    BY <1>4 DEF InsmodDevice, Rmmod, NextDevice, CommandEnds, objects, kernel
  <2>2. command.at = "next" /\ command'.at \in {"next", "class", "unlist"}
    <3>1. CASE InsmodDevice \/ Rmmod
      <4>1. \E op \in {"register", "unregister", "detach"} : Begin(op)
        BY <3>1 DEF InsmodDevice, Rmmod
      <4> QED
        BY <1>1, <4>1, Begins
    <3>2. CASE NextDevice
      BY <1>1, <3>2 DEF NextDevice, CommandOK
    <3>3. CASE CommandEnds
      BY <3>3 DEF CommandEnds, Idle
    <3> QED
      BY <1>4, <3>1, <3>2, <3>3
  <2>3. Deleted' = Deleted /\ \A o : Dev(o)' = Dev(o)
    BY <2>1, <2>2 DEF Deleted, Dev
  <2> QED
    BY <1>2, <2>1, <2>3, ClassSame
<1>5. CASE MakeClass \/ AllocBuffer
  <2>1. /\ UNCHANGED <<hcsr_dev, misc>> /\ command.at \in {"class", "buffer"}
        /\ Goto("alloc") \/ Goto("link") \/ Unprobed \/ UNCHANGED command
    BY <1>5 DEF MakeClass, AllocBuffer, At, objects, kernel
  <2>2. command'.at \in {"alloc", "link", "next"} \/ UNCHANGED command
    BY <1>1, <2>1 DEF Goto, Unprobed, CommandOK
  <2>3. Deleted' = Deleted
    BY <2>1, <2>2 DEF Deleted
  <2>4. \A o : Dev(o)' = Dev(o)
    BY <2>1 DEF Dev
  <2> QED
    BY <1>2, <2>1, <2>3, <2>4, ClassSame
<1>6. CASE NewDevice
  <2> DEFINE n == made + 1
  <2>1. /\ command.at = "alloc" /\ misc \subseteq misc'
        /\ hcsr_dev' = [hcsr_dev EXCEPT ![n] =
             [device |-> command.device, next |-> NULL, ready |-> FALSE]]
        /\ \/ command' = [command EXCEPT !.at = "buffer", !.obj = n]
           \/ command' = [command EXCEPT !.at = "next", !.obj = NULL]
    BY <1>6 DEF NewDevice, At, Unprobed
  <2>2. Deleted' = Deleted
    <3>1. command'.at \in {"buffer", "next"}
      BY <1>1, <2>1 DEF CommandOK
    <3> QED
      BY <2>1, <3>1 DEF Deleted
  <2>3. \A o \in Listed : o \in Objects /\ o /= n
    BY <1>1
  <2> HIDE DEF n
  <2>4. \A o \in Listed : Dev(o)' = Dev(o)
    BY <1>1, <2>1, <2>3 DEF Dev
  <2> QED
    BY <1>2, <2>1, <2>2, <2>4, ClassSame
<1>7. CASE Link \/ InitBuffer
  <2>1. /\ UNCHANGED misc /\ command.at \in {"link", "init"}
        /\ Goto("init") \/ Goto("list")
        /\ \/ hcsr_dev' = [hcsr_dev EXCEPT ![command.obj].next = HEAD]
           \/ hcsr_dev' = [hcsr_dev EXCEPT ![command.obj].ready = TRUE]
    BY <1>7 DEF Link, InitBuffer, At, kernel
  <2>2. Deleted' = Deleted
    BY <1>1, <2>1 DEF Deleted, Goto, CommandOK
  <2>3. \A o \in Listed : Dev(o)' = Dev(o)
    <3>1. \A o \in Listed : o \in Objects
      BY <1>1
    <3> QED
      BY <1>1, <2>1, <3>1 DEF Dev
  <2> QED
    BY <1>2, <2>1, <2>2, <2>3, ClassSame
<1>8. CASE Deregister
  <2>1. /\ misc' = misc \ {command.obj} /\ command.at = "deregister" /\ Goto("free")
        /\ UNCHANGED hcsr_dev
    BY <1>8 DEF Deregister, At, objects
  <2>2. Deleted' = Deleted /\ \A o : Dev(o)' = Dev(o)
    BY <1>1, <2>1 DEF Deleted, Dev, Goto, CommandOK
  <2>3. command.obj \notin Listed
    <3>1. command.obj \in Current({"init", "list", "deregister", "free"})
      BY <2>1 DEF Current
    <3> QED
      BY <1>1, <3>1 DEF OneEach
  <2> QED
    BY <1>2, <2>1, <2>2, <2>3, ClassSame
<1> QED
  BY <1>3, <1>4, <1>5, <1>6, <1>7, <1>8

\* A driver that is loaded, or has been unloaded, has no device.
LEMMA NoClass ==
  ASSUME Inv, Inv', fault' = "none",
         InsmodDriver \/ (CommandEnds /\ command.op = "detach")
  PROVE  device_list' = <<>> /\ class' = <<>>
<1>1. BusInv /\ command \in CommandOK
  BY DEF Inv, BusInv, BusTypes
<1>2. bound' = <<>> /\ ~ Deleted'
  <2>1. CASE InsmodDriver
    <3>1. UNCHANGED bound /\ "driver" \notin loaded /\ command'.at = "next"
      BY <2>1 DEF InsmodDriver, Begin, Idle
    <3> QED
      BY <1>1, <3>1 DEF BusInv, DevicesWhere, Deleted
  <2>2. CASE CommandEnds /\ command.op = "detach"
    <3>1. /\ UNCHANGED bound /\ command.at = "next" /\ command.todo = <<>>
          /\ command'.at = "next"
      BY <2>2 DEF CommandEnds, Idle
    <3>2. Elements(bound) \subseteq ToCome \cup Busy /\ Busy = {} /\ ToCome = {}
      BY <1>1, <2>2, <3>1, EmptySeqDistinct
      DEF BusInv, DevicesWhere, Detaching, ToCome, Busy
    <3>3. bound = <<>>
      BY <1>1, <3>2, ElementsSeq DEF BusInv, BusTypes
    <3> QED
      BY <3>1, <3>3 DEF Deleted
  <2> QED
    BY <2>1, <2>2
<1>3. device_list' = <<>>
  <2>1. Listed' = {}
    BY <1>2, EmptySeqDistinct DEF Inv, ListInv, OneEach
  <2>2. device_list' \in Seq(1 .. made')
    BY DEF Inv, ListInv, ListTypes
  <2>3. Elements(device_list') = {}
    BY <2>1 DEF Listed
  <2> QED
    BY <2>2, <2>3, ElementsSeq
<1>4. class' = <<>>
  <2>1. Len(class') = Len(bound') - 0 /\ class' \in Seq(1 .. made')
    BY <1>2 DEF Inv, ListInv, ListTypes, Accounted
  <2> QED
    BY <1>2, <2>1, EmptySeqDistinct
<1> QED
  BY <1>3, <1>4

LEMMA StaysDetach ==
  ASSUME Inv, Next, command.op = "detach", ~ CommandEnds
  PROVE  command'.op = "detach"
<1>1. command \in CommandOK
  BY DEF Inv, BusInv, BusTypes
<1>2. Detaching /\ ~ AtProbe
  BY DEF Inv, BusInv, CommandWhere, Detaching, Attaching
<1>3. ~ InsmodDevice /\ ~ InsmodDriver /\ ~ Rmmod /\ ~ Probe
  BY <1>2 DEF InsmodDevice, InsmodDriver, Rmmod, Begin, Probe, MakeClass, NewDevice,
     AllocBuffer, Link, InitBuffer, AddDevice, At, AtProbe
<1>4. ASSUME NextDevice
      PROVE  command'.op = command.op
  BY <1>1, <1>4 DEF NextDevice, CommandOK
<1>5. ASSUME Remove
      PROVE  command'.op = command.op
  BY <1>1, <1>5 DEF Remove, Unlist, Deregister, Free, Goto, CommandOK
<1>6. ASSUME Open \/ Use
      PROVE  command'.op = command.op
  BY <1>6 DEF Open, OpenBegin, OpenWalk, OpenEnd, Use, Call, Close, Enable, ThreadEnds
<1> QED
  BY <1>3, <1>4, <1>5, <1>6 DEF Next, Administrator

LEMMA NextClass ==
  ASSUME Inv, Inv', OrderInv, StructInv, ClassInv, Next
  PROVE  ClassInv'
<1> SUFFICES ASSUME fault' = "none", command'.op /= "detach"
             PROVE  ClassInOrder'
  BY DEF ClassInv
<1>1. fault = "none" /\ command \in CommandOK
  BY DEF Next, Inv, BusInv, BusTypes
<1>2. CASE InsmodDriver \/ (CommandEnds /\ command.op = "detach")
  BY <1>2, NoClass, EmptySeqDistinct DEF ClassInOrder
<1>3. CASE command.op /= "detach" /\ ~ InsmodDriver
  <2>1. ClassInOrder
    BY <1>1, <1>3 DEF ClassInv
  <2>2. Unlist \/ Free => command.op = "unregister"
    <3>1. Unlist \/ Free => AtRemove
      BY DEF Unlist, Free, At, AtRemove
    <3> QED
      BY <1>3, <3>1 DEF Inv, BusInv, CommandWhere, Detaching
  <2> QED
    BY <1>1, <1>3, <2>1, <2>2, StepsOutsideClass, AddDeviceClass, UnlistClass, FreeClass
    DEF Next, Administrator, Probe, Remove
<1>4. CASE command.op = "detach" /\ ~ CommandEnds
  BY <1>4, StaysDetach
<1> QED
  BY <1>2, <1>3, <1>4

-----------------------------------------------------------------------------
(* The age of the structs: while the driver is not being unloaded, those in  *)
(* the list are newer than those that are freed or being removed.            *)

Leaving == freed \cup Current({"deregister", "free"})

ClassByAge ==
  /\ Increasing(class)
  /\ \A o \in Listed, p \in Leaving : p < o

AgeInv == fault = "none" /\ command.op /= "detach" => ClassByAge

\* What is in the list is in the class.
LEMMA ListInClass ==
  ASSUME Inv, fault = "none", ClassInOrder, NEW o \in Listed
  PROVE  \E i \in 1 .. Len(class) : o = class[i]
<1>1. PICK k \in 1 .. Len(device_list) : device_list[k] = o
  BY DEF Listed, Elements
<1>2. Len(device_list) = Len(class) /\ Len(class) \in Nat
  BY ClassLengths DEF ClassInOrder
<1>3. /\ Len(class) + 1 - k \in 1 .. Len(class)
      /\ Len(class) + 1 - (Len(class) + 1 - k) = k
  BY <1>2
<1>4. device_list[Len(class) + 1 - (Len(class) + 1 - k)] = class[Len(class) + 1 - k]
  BY <1>3 DEF ClassInOrder, Matched
<1> QED
  BY <1>1, <1>3, <1>4

LEMMA AgeSame ==
  ASSUME ClassByAge, UNCHANGED class, Listed' = Listed, Leaving' \subseteq Leaving
  PROVE  ClassByAge'
  BY DEF ClassByAge, Increasing

LEMMA LeavingMade ==
  ASSUME Inv
  PROVE  Leaving \subseteq 1 .. made
<1>1. Current({"deregister", "free"}) \subseteq linked
  BY DEF Current, Inv, ObjectInv, ObjectWhere
<1> QED
  BY <1>1 DEF Leaving, Inv, ObjectInv, ObjectTypes

LEMMA AddDeviceAge ==
  ASSUME Inv, fault = "none", fault' = "none", StructInv, ClassInOrder, ClassByAge, AddDevice
  PROVE  ClassByAge'
<1> DEFINE c == command.obj
<1>1. /\ device_list' = <<c>> \o device_list /\ class' = Append(class, c)
      /\ command.at = "list"
      /\ command' = [command EXCEPT !.at = "next", !.obj = NULL]
      /\ UNCHANGED freed
  BY DEF AddDevice, At, objects
<1>2. c = made /\ c \in linked /\ c \notin freed /\ made \in Nat /\ c \notin Listed
      /\ Listed \subseteq 1 .. made
  <2>1. c = made /\ c \in linked /\ c \notin freed /\ made \in Nat
    BY <1>1 DEF Inv, BusInv, BusTypes, ObjectInv, ObjectWhere, StructInv
  <2>2. c \in Current({"init", "list", "deregister", "free"})
    BY <1>1 DEF Current
  <2> QED
    BY <2>1, <2>2 DEF Inv, ListInv, OneEach, ObjectInv, ObjectTypes
<1>3. Leaving = freed /\ Leaving' = freed
  <2>1. command'.at = "next"
    BY <1>1 DEF Inv, BusInv, BusTypes, CommandOK
  <2> QED
    BY <1>1, <2>1 DEF Leaving, Current
<1> HIDE DEF c
<1>4. \A o \in Listed : o < c
  BY <1>2
<1>5. \A p \in freed : p < c
  BY <1>2, <1>3, LeavingMade
<1>6. Increasing(class')
  <2>1. class \in Seq(1 .. made)
    BY ClassLengths
  <2>2. \A e \in Elements(class) : e < c
    BY <1>4, ClassInList DEF Elements
  <2>3. c \in 1 .. made
    BY <1>2 DEF Inv, ObjectInv, ObjectTypes
  <2> DEFINE M == 1 .. made
  <2>4. class \in Seq(M) /\ c \in M
    BY <2>1, <2>3
  <2> HIDE DEF M
  <2>5. Increasing(Append(class, c))
    BY <2>2, <2>4, AppendIncreasing DEF ClassByAge
  <2> QED
    BY <1>1, <2>5
<1>7. Listed' = Listed \cup {c}
  <2>1. device_list \in Seq(linked)
    BY ClassLengths
  <2>2. Elements(Cons(c, device_list)) = Elements(device_list) \cup {c}
    BY <1>2, <2>1, ConsElements
  <2> QED
    BY <1>1, <2>2 DEF Cons, Listed
<1>8. Increasing(class)'
  BY <1>6 DEF Increasing
<1>9. \A o \in Listed', p \in Leaving' : p < o
  <2>1. \A o \in Listed, p \in freed : p < o
    BY <1>3 DEF ClassByAge
  <2> QED
    BY <1>3, <1>5, <1>7, <2>1
<1> QED
  BY <1>8, <1>9 DEF ClassByAge

LEMMA UnlistAge ==
  ASSUME Inv, OrderInv, fault = "none", fault' = "none", ClassInOrder, ClassByAge, Unlist,
         command.op = "unregister"
  PROVE  ClassByAge'
<1>1. /\ device_list' = Without(device_list, Removed) /\ class' = Tail(class)
      /\ gko_device[command.device] \in Elements(class)
      /\ command.at = "unlist" /\ At("unlist")
      /\ command' = [command EXCEPT !.at = "deregister", !.obj = Removed]
      /\ UNCHANGED freed
  BY DEF Unlist, At, objects
<1>2. /\ device_list \in Seq(linked) /\ class \in Seq(1 .. made) /\ Distinct(device_list)
      /\ class /= <<>>
  <2>1. class /= <<>>
    BY <1>1, EmptySeqDistinct
  <2> QED
    BY <2>1, ClassLengths
<1>3. Listed' = Listed \ {Removed}
  <2>1. Elements(Without(device_list, Removed)) = Elements(device_list) \ {Removed}
    BY <1>2, WithoutElements
  <2> QED
    BY <1>1, <2>1 DEF Listed
<1>4. Leaving = freed /\ Leaving' = freed \cup {Removed}
  <2>1. command'.at = "deregister" /\ command'.obj = Removed
    BY <1>1 DEF Inv, BusInv, BusTypes, CommandOK
  <2> QED
    BY <1>1, <2>1 DEF Leaving, Current
<1>5. Increasing(class)'
  <2>1. /\ Len(class) \in Nat /\ Len(Tail(class)) = Len(class) - 1
        /\ \A i \in 1 .. Len(class) - 1 : Tail(class)[i] = class[i + 1]
    BY <1>2
  <2>2. \A i, j \in 1 .. Len(class) - 1 : i < j => class[i + 1] < class[j + 1]
    BY <2>1 DEF ClassByAge, Increasing
  <2>3. Increasing(Tail(class))
    BY <2>1, <2>2 DEF Increasing
  <2> QED
    BY <1>1, <2>3 DEF Increasing
<1>6. Removed = class[1] /\ 1 \in 1 .. Len(class)
  <2>1. 1 \in 1 .. Len(class)
    BY <1>2
  <2>2. Dev(class[1]) = bound[1 + Shift] /\ class[1] \in Listed
    BY <2>1, ClassInList DEF ClassInOrder, Matched
  <2>3. Shift = 0 /\ bound[1] = command.device
    BY <1>1, FirstBound DEF AtRemove, Shift, Deleted
  <2>4. Dev(class[1]) = command.device
    BY <2>2, <2>3
  <2>5. Removed \in Listed /\ Dev(Removed) = command.device
    BY <1>1, RemovedListed
  <2> QED
    BY <2>1, <2>2, <2>4, <2>5 DEF Inv, ListInv, OneEach
<1>7. ASSUME NEW o \in Listed', NEW p \in Leaving'
      PROVE  p < o
  <2>1. CASE p = Removed
    <3>1. PICK i \in 1 .. Len(class) : o = class[i]
      BY <1>3, ListInClass
    <3>2. i /= 1
      BY <1>3, <1>6, <3>1
    <3>3. 1 < i
      BY <3>2
    <3> QED
      BY <1>6, <2>1, <3>1, <3>3 DEF ClassByAge, Increasing
  <2>2. CASE p \in freed
    BY <1>3, <1>4, <2>2 DEF ClassByAge
  <2> QED
    BY <1>4, <2>1, <2>2
<1> QED
  BY <1>5, <1>7 DEF ClassByAge

LEMMA StepsOutsideAge ==
  ASSUME Inv, fault = "none", ClassByAge,
         \/ InsmodDevice \/ Rmmod \/ NextDevice \/ CommandEnds \/ MakeClass
         \/ NewDevice \/ AllocBuffer \/ Link \/ InitBuffer \/ Deregister \/ Free
         \/ Open \/ Use
  PROVE  ClassByAge'
<1>1. command \in CommandOK /\ BusInv
  BY DEF Inv, BusInv, BusTypes
<1>2. UNCHANGED class /\ Listed' = Listed
  BY DEF InsmodDevice, Rmmod, NextDevice, CommandEnds, MakeClass, NewDevice, AllocBuffer,
     Link, InitBuffer, Deregister, Free, Open, OpenBegin, OpenWalk, OpenEnd, Use, Call,
     Close, Enable, ThreadEnds, driver, kernel, Listed
<1>3. CASE Open \/ Use
  BY <1>2, <1>3, AgeSame DEF Open, OpenBegin, OpenWalk, OpenEnd, Use, Call, Close, Enable,
     ThreadEnds, objects, Leaving, Current
<1>4. CASE Deregister \/ Free
  <2>1. /\ command.at \in {"deregister", "free"}
        /\ \/ Goto("free") /\ UNCHANGED freed
           \/ /\ command' = [command EXCEPT !.at = "next", !.obj = NULL]
              /\ freed' = freed \cup {command.obj}
    BY <1>4 DEF Deregister, Free, At, objects
  <2>2. \/ command'.at = "free" /\ command'.obj = command.obj /\ UNCHANGED freed
        \/ command'.at = "next" /\ freed' = freed \cup {command.obj}
    BY <1>1, <2>1 DEF Goto, CommandOK
  <2> QED
    BY <1>2, <2>1, <2>2, AgeSame DEF Leaving, Current
<1>5. CASE \/ InsmodDevice \/ Rmmod \/ NextDevice \/ CommandEnds \/ MakeClass
           \/ NewDevice \/ AllocBuffer \/ Link \/ InitBuffer
  <2>1. UNCHANGED freed
    BY <1>5 DEF InsmodDevice, Rmmod, NextDevice, CommandEnds, MakeClass, NewDevice,
       AllocBuffer, Link, InitBuffer, objects
  <2>2. command'.at \notin {"deregister", "free"}
    <3>1. CASE InsmodDevice \/ Rmmod \/ CommandEnds
      <4>1. \A op : Begin(op) => command'.at = "next"
        BY DEF Begin, Idle
      <4>2. CommandEnds => command'.at = "next"
        BY DEF CommandEnds, Idle
      <4> QED
        BY <3>1, <4>1, <4>2 DEF InsmodDevice, Rmmod
    <3>2. CASE NextDevice
      BY <1>1, <3>2 DEF NextDevice, CommandOK
    <3>3. CASE MakeClass \/ AllocBuffer \/ Link \/ InitBuffer
      <4>1. /\ command.at \in {"class", "buffer", "link", "init"}
            /\ \/ \E label \in {"alloc", "link", "init", "list"} : Goto(label)
               \/ Unprobed \/ UNCHANGED command
        BY <3>3 DEF MakeClass, AllocBuffer, Link, InitBuffer, At
      <4> QED
        BY <1>1, <4>1 DEF Goto, Unprobed, CommandOK
    <3>4. CASE NewDevice
      <4>1. \/ command' = [command EXCEPT !.at = "buffer", !.obj = made + 1]
            \/ command' = [command EXCEPT !.at = "next", !.obj = NULL]
        BY <3>4 DEF NewDevice, Unprobed
      <4> QED
        BY <1>1, <4>1 DEF CommandOK
    <3> QED
      BY <1>5, <3>1, <3>2, <3>3, <3>4
  <2> QED
    BY <1>2, <2>1, <2>2, AgeSame DEF Leaving, Current
<1> QED
  BY <1>3, <1>4, <1>5

LEMMA NextAge ==
  ASSUME Inv, Inv', OrderInv, StructInv, ClassInv, AgeInv, Next
  PROVE  AgeInv'
<1> SUFFICES ASSUME fault' = "none", command'.op /= "detach"
             PROVE  ClassByAge'
  BY DEF AgeInv
<1>1. fault = "none"
  BY DEF Next
<1>2. CASE InsmodDriver \/ (CommandEnds /\ command.op = "detach")
  BY <1>2, NoClass, EmptySeqDistinct DEF ClassByAge, Increasing, Listed
<1>3. CASE command.op /= "detach" /\ ~ InsmodDriver
  <2>1. ClassInOrder /\ ClassByAge
    BY <1>1, <1>3 DEF ClassInv, AgeInv
  <2>2. Unlist => command.op = "unregister"
    <3>1. Unlist => AtRemove
      BY DEF Unlist, At, AtRemove
    <3> QED
      BY <1>3, <3>1 DEF Inv, BusInv, CommandWhere, Detaching
  <2> QED
    BY <1>1, <1>3, <2>1, <2>2, StepsOutsideAge, AddDeviceAge, UnlistAge
    DEF Next, Administrator, Probe, Remove
<1>4. CASE command.op = "detach" /\ ~ CommandEnds
  BY <1>4, StaysDetach
<1> QED
  BY <1>2, <1>3, <1>4

-----------------------------------------------------------------------------
(* The invariant.                                                            *)

Ordered == Inv /\ OrderInv /\ StructInv /\ ClassInv /\ AgeInv

LEMMA InitOrdered == Init => Ordered
<1> SUFFICES ASSUME Init
             PROVE  Ordered
  OBVIOUS
<1>1. Inv
  BY InitBus, InitObjects, InitLists DEF Inv
<1>2. ClassInv
  BY EmptySeqDistinct, ClassEmpty DEF Init, ClassInv
<1>3. AgeInv
  BY EmptySeqDistinct, EmptyIncreasing DEF Init, AgeInv, ClassByAge, Listed
<1> QED
  BY <1>1, <1>2, <1>3, InitOrder, InitStructs DEF Ordered

LEMMA NextOrdered ==
  ASSUME Ordered, [Next]_vars
  PROVE  Ordered'
<1>1. CASE Next
  <2>1. Inv'
    BY <1>1, NextBus, NextObjects, NextLists DEF Ordered, Inv
  <2> QED
    BY <1>1, <2>1, NextOrder, NextStructs, NextClass, NextAge DEF Ordered, Inv
<1>2. CASE UNCHANGED vars
  <2>1. Inv'
    BY <1>2, Stutter DEF Ordered
  <2>2. /\ UNCHANGED <<loaded, command, registered, bound, hcsr_dev, freed, misc, failed>>
        /\ UNCHANGED <<linked, made, gko_class, gko_device, class, device_list, fault>>
    BY <1>2 DEF vars, objects, driver, kernel
  <2>3. OrderInv'
    BY <2>2, OrderMoves DEF Ordered, Inv, Between
  <2>4. StructInv'
    BY <2>2, QuietStructs DEF Ordered, Listed
  <2>5. ClassInv'
    <3> SUFFICES ASSUME fault = "none", command.op /= "detach"
                 PROVE  ClassInOrder'
      BY <2>2 DEF ClassInv
    <3>1. Deleted' = Deleted /\ \A o : Dev(o)' = Dev(o)
      BY <2>2 DEF Deleted, Dev
    <3> QED
      BY <2>2, <3>1, ClassSame DEF Ordered, ClassInv
  <2>6. AgeInv'
    BY <2>2, AgeSame DEF Ordered, AgeInv, Leaving, Current, Listed
  <2> QED
    BY <2>1, <2>3, <2>4, <2>5, <2>6 DEF Ordered
<1> QED
  BY <1>1, <1>2

LEMMA OrderedInvariant == Spec => []Ordered
  BY InitOrdered, NextOrdered, PTL DEF Spec

-----------------------------------------------------------------------------
(* The theorems.                                                             *)

LEMMA Idles ==
  ASSUME Ordered, command.op = "none"
  PROVE  Between /\ ~ Deleted /\ Shift = 0 /\ command.todo = <<>>
<1>1. command.at = "next" /\ command.todo = <<>>
  BY DEF Ordered, OrderInv, TodoInOrder, Between
<1> QED
  BY <1>1 DEF Between, Deleted, Shift

\* Between commands the class has the devices of the driver and no other, in order:
\* although removing a device destroys the first class device there is, that one is
\* the removed device's, because devices are bound and removed in one order.
THEOREM ClassListed == Spec => []ClassIsList
<1>1. Ordered => ClassIsList
  <2> SUFFICES ASSUME Ordered, fault = "none", command.op = "none"
               PROVE  /\ Len(class) = Len(bound) /\ Len(device_list) = Len(bound)
                      /\ \A i \in 1 .. Len(bound) : LET o == class[i] IN
                           /\ device_list[Len(bound) + 1 - i] = o
                           /\ hcsr_dev[o].device = bound[i]
                           /\ gko_device[bound[i]] = o /\ o \in misc \ freed
    BY DEF ClassIsList
  <2>1. ClassInOrder /\ Shift = 0 /\ Inv
    BY Idles DEF Ordered, ClassInv
  <2>2. Len(class) = Len(bound) /\ Len(device_list) = Len(bound) /\ Len(bound) \in Nat
    <3>1. Len(class) = Len(bound) - Shift /\ Len(bound) \in Nat
      BY <2>1, ClassLengths
    <3> QED
      BY <2>1, <3>1 DEF ClassInOrder
  <2>3. ASSUME NEW i \in 1 .. Len(bound)
        PROVE  /\ device_list[Len(bound) + 1 - i] = class[i]
               /\ hcsr_dev[class[i]].device = bound[i]
               /\ gko_device[bound[i]] = class[i] /\ class[i] \in misc \ freed
    <3>1. Matched(i) /\ i + Shift = i
      BY <2>1, <2>2 DEF ClassInOrder
    <3> QED
      BY <2>2, <3>1 DEF Matched, Dev
  <2> QED
    BY <2>2, <2>3
<1> QED
  BY <1>1, OrderedInvariant, PTL

\* The README's claim that the two modules can be loaded in either order, for any
\* number of devices: if no probe failed, each device is bound, at its place, and its
\* struct is registered, in the list at HEAD and has its buffer.
THEOREM OrderFree == Spec => []EitherOrder
<1>1. Ordered => EitherOrder
  <2> SUFFICES ASSUME Ordered, fault = "none", command.op = "none",
                      loaded = {"device", "driver"}, failed = {}
               PROVE  /\ bound = [i \in Devices |-> i]
                      /\ \A i \in Devices : LET o == gko_device[i] IN
                           o \in misc \cap linked /\ hcsr_dev[o].ready /\ hcsr_dev[o].device = i
    BY DEF EitherOrder
  <2>1. /\ Inv /\ ClassInOrder /\ Shift = 0 /\ Between /\ command.todo = <<>>
        /\ BothLoaded /\ ~ Detaching
    BY Idles DEF Ordered, ClassInv, BothLoaded, Detaching
  <2>2. Numbered(bound) /\ Len(bound) = Passed
    BY <2>1 DEF Ordered, OrderInv, DevicesInOrder
  <2>3. Len(bound) = NumDevices /\ NumDevices \in Nat /\ bound \in Seq(Devices)
    <3>1. Passed = NumDevices /\ NumDevices \in Nat
      BY <2>1, EmptySeqDistinct, BusAssumption DEF Passed, Done
    <3> QED
      BY <2>1, <2>2, <3>1, ClassLengths
  <2>4. bound = [i \in Devices |-> i]
    <3>1. bound \in [1 .. Len(bound) -> Devices]
      BY <2>3
    <3>2. \A i \in Devices : bound[i] = i
      BY <2>2, <2>3 DEF Numbered, Devices
    <3> QED
      BY <2>3, <3>1, <3>2 DEF Devices
  <2>5. ASSUME NEW i \in Devices
        PROVE  LET o == gko_device[i] IN
                 o \in misc \cap linked /\ hcsr_dev[o].ready /\ hcsr_dev[o].device = i
    <3>1. Len(class) = Len(bound) - Shift
      BY <2>1, ClassLengths
    <3>2. i \in 1 .. Len(class) /\ i + Shift = i /\ bound[i] = i
      BY <2>1, <2>2, <2>3, <3>1 DEF Devices, Numbered
    <3>3. Matched(i) /\ class[i] \in Listed
      BY <2>1, <3>2, ClassInList DEF ClassInOrder
    <3>4. class[i] \in linked /\ Ready(class[i])
      BY <3>3 DEF Ordered, StructInv, Inv, ListInv, OneEach
    <3>5. /\ gko_device[i] = class[i] /\ Dev(class[i]) = i /\ class[i] \in misc
      BY <3>2, <3>3 DEF Matched
    <3> QED
      BY <3>4, <3>5 DEF Ready, Dev
  <2> QED
    BY <2>4, <2>5
<1> QED
  BY <1>1, OrderedInvariant, PTL
-----------------------------------------------------------------------------
(* The users: what a program has open, or a thread samples, is in the list   *)
(* or about to be, unless it was taken out of it while it was used.           *)

Seen == events \cap {"open in remove", "removed in use"} /= {}

Early == "open in probe" \in events

Live == Listed \cup Current({"init", "list"})

Used == (sampling \cup {file} \cup ({open.asked} \cap linked)) \ {NULL}

Complete(o) == Ready(o) \/ Early \/ o \in failed

UseInv ==
  /\ open.asked \in misc \cup {NULL}
  /\ \A o \in Used : o \in Live \/ Seen
  /\ \A o \in {file, open.asked} \ {NULL} : Complete(o)

UsersInv == fault = "none" => UseInv

\* What is live is there, and so is the code of its driver.
LEMMA LiveThere ==
  ASSUME Ordered, fault = "none", command.op /= "detach", NEW o \in Live
  PROVE  ~ Gone(o) /\ o \notin freed
<1>1. Inv /\ StructInv /\ ClassInOrder
  BY DEF Ordered, ClassInv
<1>2. CASE o \in Listed
  <2>1. PICK i \in 1 .. Len(class) : o = class[i]
    BY <1>1, <1>2, ListInClass
  <2>2. o \in misc \ freed /\ o \in linked
    BY <1>1, <1>2, <2>1 DEF ClassInOrder, Matched, Inv, ListInv, OneEach
  <2>3. base < o /\ "driver" \in loaded
    BY <1>1, <2>2, MiscOfDriver
  <2>4. base \in Nat /\ o \in Nat
    BY <1>1, <2>2 DEF Inv, ObjectInv, ObjectTypes
  <2>5. ~ (o <= base)
    BY <2>3, <2>4
  <2> QED
    BY <2>2, <2>3, <2>5 DEF Gone
<1>3. CASE o \in Current({"init", "list"})
  <2>1. command.at \in {"init", "list"} /\ o = command.obj
    BY <1>3 DEF Current
  <2>2. o \in misc \ freed /\ o \in linked
    BY <1>1, <2>1 DEF StructInv, Inv, ObjectInv, ObjectWhere
  <2>3. base < o /\ "driver" \in loaded
    BY <1>1, <2>2, MiscOfDriver
  <2>4. base \in Nat /\ o \in Nat
    BY <1>1, <2>2 DEF Inv, ObjectInv, ObjectTypes
  <2>5. ~ (o <= base)
    BY <2>3, <2>4
  <2> QED
    BY <2>2, <2>3, <2>5 DEF Gone
<1> QED
  BY <1>2, <1>3 DEF Live

\* Nor is there anything freed before it in the list at HEAD.
LEMMA LiveFirst ==
  ASSUME Ordered, fault = "none", command.op /= "detach", NEW o \in Live,
         NEW p \in linked, o < p
  PROVE  p \notin freed
<1>1. Inv /\ ClassByAge /\ linked \subseteq 1 .. made /\ Listed \subseteq linked /\ made \in Nat
  BY DEF Ordered, AgeInv, Inv, ObjectInv, ObjectTypes, ListInv, OneEach, BusInv, BusTypes
<1>2. CASE o \in Listed
  <2>1. p \in freed => p < o
    BY <1>2, <1>1 DEF ClassByAge, Leaving
  <2>2. o \in Nat /\ p \in Nat
    BY <1>1, <1>2
  <2> QED
    BY <2>1, <2>2
<1>3. CASE o \in Current({"init", "list"})
  <2>1. o = made
    BY <1>1, <1>3 DEF Current, Inv, ObjectInv, ObjectWhere
  <2>2. p <= made /\ p \in Nat
    BY <1>1
  <2> QED
    BY <1>1, <2>1, <2>2
<1> QED
  BY <1>2, <1>3 DEF Live

LEMMA InitUsers == Init => UsersInv
  BY DEF Init, NoOpen, UsersInv, UseInv, Used

\* Steps that leave the users as they are: a struct that leaves the list while it is
\* used is seen.
LEMMA UsersSame ==
  ASSUME UseInv, UNCHANGED users, events \subseteq events', failed \subseteq failed',
         open.asked = NULL \/ misc \subseteq misc',
         \A o \in linked' : o \in linked \/ o \in Live',
         \A o \in Used : o \in Live => o \in Live' \/ Seen',
         \A o \in {file, open.asked} \ {NULL} : Ready(o) => Ready(o)'
  PROVE  UseInv'
<1>1. UNCHANGED <<open, file, sampling>>
  BY DEF users
<1>2. (Seen => Seen') /\ (Early => Early')
  BY DEF Seen, Early
<1>3. (open.asked \in misc \cup {NULL})'
  BY <1>1 DEF UseInv
<1>4. ASSUME NEW o \in Used'
      PROVE  o \in Live' \/ Seen'
  <2>1. o \in Used \/ o \in Live'
    BY <1>1, <1>4 DEF Used
  <2> QED
    BY <1>2, <2>1 DEF UseInv
<1>5. ASSUME NEW o \in {file, open.asked} \ {NULL}
      PROVE  Complete(o)'
  BY <1>2, <1>5 DEF UseInv, Complete
<1> QED
  BY <1>1, <1>3, <1>4, <1>5 DEF UseInv

\* What the users have was made.
LEMMA UsedMade ==
  ASSUME Inv, UseInv
  PROVE  \A o \in {file, open.asked} \cup Used : o \in (1 .. made) \cup {NULL}
<1>1. /\ file \in linked \cup {NULL} /\ sampling \subseteq linked
      /\ open.asked \in misc \cup {NULL}
      /\ misc \subseteq 1 .. made /\ linked \subseteq 1 .. made
  BY DEF Inv, ListInv, ListTypes, ObjectInv, ObjectTypes, UseInv
<1> QED
  BY <1>1 DEF Used

LEMMA QuietUsers ==
  ASSUME Ordered, UseInv, fault = "none",
         \/ Administrator \/ MakeClass \/ NewDevice \/ AllocBuffer \/ Link \/ InitBuffer
         \/ Deregister \/ Free
  PROVE  UseInv'
<1>1. /\ Inv /\ command \in CommandOK /\ BusInv /\ made \in Nat
      /\ 1 .. made \subseteq Objects /\ NULL \notin Objects /\ linked \subseteq 1 .. made
      /\ hcsr_dev \in [Objects -> [device : Devices, next : Objects \cup {NULL},
                                   ready : BOOLEAN]]
  BY MadeObjects DEF Ordered, Inv, BusInv, BusTypes, ObjectInv, ObjectTypes, Objects, NULL
<1>2. \A o \in {file, open.asked} \ {NULL} : o \in 1 .. made /\ o \in Objects
  BY <1>1, UsedMade
<1>3. UNCHANGED users /\ UNCHANGED events
  BY DEF Administrator, InsmodDevice, InsmodDriver, Rmmod, NextDevice, CommandEnds,
     MakeClass, NewDevice, AllocBuffer, Link, InitBuffer, Deregister, Free
<1>4. CASE Administrator \/ MakeClass
  <2>1. /\ UNCHANGED <<hcsr_dev, misc, failed, linked>>
        /\ device_list' = device_list \/ InsmodDriver
    BY <1>4 DEF Administrator, InsmodDevice, InsmodDriver, Rmmod, NextDevice, CommandEnds,
       MakeClass, objects, driver, kernel
  <2>2. command.at \in {"next", "class"}
    <3>1. CASE NextDevice \/ CommandEnds \/ MakeClass
      BY <3>1 DEF NextDevice, CommandEnds, MakeClass, At
    <3>2. CASE InsmodDevice \/ InsmodDriver \/ Rmmod
      <4>1. \E op \in {"register", "attach", "unregister", "detach"} : Begin(op)
        BY <3>2 DEF InsmodDevice, InsmodDriver, Rmmod
      <4> QED
        BY <1>1, <4>1, Begins
    <3> QED
      BY <1>4, <3>1, <3>2 DEF Administrator
  <2>3. InsmodDriver => Listed = {}
    <3>1. InsmodDriver => bound = <<>>
      BY <1>1 DEF InsmodDriver, BusInv, DevicesWhere
    <3> QED
      BY <1>1, <3>1, EmptySeqDistinct DEF Inv, ListInv, OneEach
  <2>4. \A o \in Live : o \in Live'
    BY <2>1, <2>2, <2>3 DEF Live, Current, Listed
  <2>5. \A o : Ready(o)' = Ready(o)
    BY <2>1 DEF Ready
  <2> QED
    BY <1>3, <2>1, <2>4, <2>5, UsersSame
<1>5. CASE NewDevice
  <2> DEFINE n == made + 1
  <2>1. /\ command.at = "alloc" /\ misc \subseteq misc' /\ failed \subseteq failed'
        /\ hcsr_dev' = [hcsr_dev EXCEPT ![n] =
             [device |-> command.device, next |-> NULL, ready |-> FALSE]]
        /\ UNCHANGED <<device_list, linked>>
    BY <1>5 DEF NewDevice, At, driver
  <2>2. \A o \in Live : o \in Live'
    BY <2>1 DEF Live, Current, Listed
  <2>3. \A o \in {file, open.asked} \ {NULL} : o /= n
    BY <1>1, <1>2
  <2> HIDE DEF n
  <2>4. \A o \in {file, open.asked} \ {NULL} : Ready(o) => Ready(o)'
    BY <1>1, <1>2, <2>1, <2>3 DEF Ready
  <2> QED
    BY <1>3, <2>1, <2>2, <2>4, UsersSame
<1>6. CASE AllocBuffer
  <2>1. /\ command.at = "buffer" /\ failed \subseteq failed'
        /\ UNCHANGED <<device_list, linked, hcsr_dev, misc>>
    BY <1>6 DEF AllocBuffer, At, driver, kernel
  <2>2. \A o \in Live : o \in Live'
    BY <2>1 DEF Live, Current, Listed
  <2>3. \A o : Ready(o)' = Ready(o)
    BY <2>1 DEF Ready
  <2> QED
    BY <1>3, <2>1, <2>2, <2>3, UsersSame
<1>7. CASE Link
  <2> DEFINE c == command.obj
  <2>1. /\ command.at = "link" /\ Goto("init") /\ linked' = linked \cup {c}
        /\ hcsr_dev' = [hcsr_dev EXCEPT ![c].next = HEAD]
        /\ UNCHANGED <<device_list, failed, misc>>
    BY <1>7 DEF Link, At, kernel
  <2>2. command'.at = "init" /\ command'.obj = c
    BY <1>1, <2>1 DEF Goto, CommandOK
  <2>3. (\A o \in Live : o \in Live') /\ c \in Live'
    BY <2>1, <2>2 DEF Live, Current, Listed
  <2> HIDE DEF c
  <2>4. \A o \in {file, open.asked} \ {NULL} : Ready(o) => Ready(o)'
    BY <1>1, <1>2, <2>1 DEF Ready
  <2> QED
    BY <1>3, <2>1, <2>3, <2>4, UsersSame
<1>8. CASE InitBuffer
  <2> DEFINE c == command.obj
  <2>1. /\ command.at = "init" /\ Goto("list") /\ UNCHANGED <<linked, device_list, failed, misc>>
        /\ hcsr_dev' = [hcsr_dev EXCEPT ![c].ready = TRUE]
    BY <1>8 DEF InitBuffer, At, driver, kernel
  <2>2. command'.at = "list" /\ command'.obj = c
    BY <1>1, <2>1 DEF Goto, CommandOK
  <2>3. \A o \in Live : o \in Live'
    BY <2>1, <2>2 DEF Live, Current, Listed
  <2> HIDE DEF c
  <2>4. \A o \in {file, open.asked} \ {NULL} : Ready(o) => Ready(o)'
    <3>1. ASSUME NEW o \in Objects, Ready(o)
          PROVE  Ready(o)'
      BY <1>1, <2>1, <3>1 DEF Ready
    <3> QED
      BY <1>2, <3>1
  <2> QED
    BY <1>3, <2>1, <2>3, <2>4, UsersSame
<1>9. CASE Deregister \/ Free
  <2>1. /\ command.at \in {"deregister", "free"}
        /\ open.asked = NULL \/ misc \subseteq misc'
        /\ UNCHANGED <<linked, device_list, failed, hcsr_dev>>
    BY <1>9 DEF Deregister, Free, At, objects, driver, kernel
  <2>2. \A o \in Live : o \in Live'
    BY <2>1 DEF Live, Current, Listed
  <2>3. \A o : Ready(o)' = Ready(o)
    BY <2>1 DEF Ready
  <2> QED
    BY <1>3, <2>1, <2>2, <2>3, UsersSame
<1> QED
  BY <1>4, <1>5, <1>6, <1>7, <1>8, <1>9

LEMMA ListedUsers ==
  ASSUME Ordered, UseInv, fault = "none", fault' = "none", AddDevice \/ Unlist
  PROVE  UseInv'
<1>1. /\ Inv /\ command \in CommandOK
      /\ Distinct(device_list) /\ device_list \in Seq(linked)
  BY ClassLengths DEF Ordered, Inv, BusInv, BusTypes
<1>2. /\ UNCHANGED users /\ events \subseteq events'
      /\ UNCHANGED <<linked, failed, misc, hcsr_dev>>
  BY DEF AddDevice, Unlist, objects
<1>3. \A o : Ready(o)' = Ready(o)
  BY <1>2 DEF Ready
<1>4. CASE AddDevice
  <2> DEFINE c == command.obj
  <2>1. command.at = "list" /\ device_list' = <<c>> \o device_list /\ c \in linked
    BY <1>1, <1>4 DEF AddDevice, At, Inv, ObjectInv, ObjectWhere
  <2>2. Listed' = Listed \cup {c}
    <3>1. Elements(Cons(c, device_list)) = Elements(device_list) \cup {c}
      BY <1>1, <2>1, ConsElements
    <3> QED
      BY <2>1, <3>1 DEF Cons, Listed
  <2>3. \A o \in Live : o \in Live'
    BY <2>1, <2>2 DEF Live, Current
  <2> QED
    BY <1>2, <1>3, <2>3, UsersSame
<1>5. CASE Unlist
  <2>1. /\ command.at = "unlist" /\ device_list' = Without(device_list, Removed)
        /\ events' = IF InUse(Removed) THEN events \cup {"removed in use"} ELSE events
    BY <1>5 DEF Unlist, At
  <2>2. Listed' = Listed \ {Removed}
    <3>1. Elements(Without(device_list, Removed)) = Elements(device_list) \ {Removed}
      BY <1>1, WithoutElements
    <3> QED
      BY <2>1, <3>1 DEF Listed
  <2>3. ASSUME NEW o \in Used, o \in Live
        PROVE  o \in Live' \/ Seen'
    <3>1. o \in Listed
      BY <2>1, <2>3 DEF Live, Current
    <3>2. CASE o = Removed
      <4>1. InUse(Removed)
        BY <2>3, <3>2 DEF Used, InUse
      <4> QED
        BY <2>1, <4>1 DEF Seen
    <3>3. CASE o /= Removed
      BY <2>2, <3>1, <3>3 DEF Live
    <3> QED
      BY <3>2, <3>3
  <2> QED
    BY <1>2, <1>3, <2>3, UsersSame
<1> QED
  BY <1>4, <1>5

LEMMA OpenBeginUsers ==
  ASSUME Ordered, UseInv, fault = "none", NEW o \in misc, OpenBegin(o)
  PROVE  UseInv'
<1>1. /\ open'.asked = o /\ file = NULL /\ UNCHANGED <<file, sampling, command>>
      /\ UNCHANGED <<hcsr_dev, misc, failed, linked, device_list>>
      /\ events' = CASE command.obj /= o  -> events
                     [] At("deregister") -> events \cup {"open in remove"}
                     [] OTHER            -> events \cup {"open in probe"}
  BY DEF OpenBegin, objects, driver, kernel
<1>2. events \subseteq events' /\ Live' = Live
  BY <1>1 DEF Live, Listed, Current
<1>3. command.obj = o /\ command.at = "deregister" => Seen'
  <2>1. command.at = "deregister" => At("deregister")
    BY DEF At, Ordered, Inv, BusInv, CommandWhere, AtRemove, Detaching
  <2> QED
    BY <1>1, <2>1 DEF Seen
<1>4. command.obj = o /\ command.at /= "deregister" => Early'
  BY <1>1 DEF Early, At
<1>5. o \in linked => o \in Live' \/ Seen'
  <2>1. misc \cap linked \subseteq Listed \cup Current({"init", "list", "deregister"})
    BY DEF Ordered, Inv, ListInv, Accounted
  <2> QED
    BY <1>2, <1>3, <2>1 DEF Live, Current
<1>6. Complete(o)'
  <2>1. misc \subseteq failed \cup Listed
                  \cup Current({"buffer", "link", "init", "list", "deregister"})
    BY DEF Ordered, Inv, ListInv, Accounted
  <2>2. o \in Listed => Ready(o)'
    BY <1>1 DEF Ordered, StructInv, Ready
  <2>3. command.at = "deregister" /\ command.obj = o => Ready(o)'
    BY <1>1 DEF Ordered, StructInv, Ready
  <2> QED
    BY <1>1, <1>4, <2>1, <2>2, <2>3 DEF Complete, Current
<1>7. ASSUME NEW p \in Used'
      PROVE  p \in Live' \/ Seen'
  <2>1. p \in Used \/ (p = o /\ o \in linked)
    BY <1>1, <1>7 DEF Used
  <2>2. Seen => Seen'
    BY <1>2 DEF Seen
  <2> QED
    BY <1>2, <1>5, <2>1, <2>2 DEF UseInv
<1> QED
  BY <1>1, <1>6, <1>7 DEF UseInv

LEMMA ProgramUsers ==
  ASSUME Ordered, UseInv, fault = "none", fault' = "none", OpenWalk \/ OpenEnd \/ Use
  PROVE  UseInv'
<1>1. UNCHANGED <<command, hcsr_dev, misc, failed, linked, device_list, events>>
  BY DEF OpenWalk, OpenEnd, Use, Call, Close, Enable, ThreadEnds, objects, driver, kernel
<1>2. Live' = Live /\ Seen' = Seen /\ \A o : Complete(o)' = Complete(o)
  BY <1>1 DEF Live, Listed, Current, Seen, Complete, Ready, Early
<1>3. open'.asked \in {open.asked, NULL}
  <2>1. CASE OpenWalk
    <3>1. open \in [asked : Objects \cup {NULL}, temp : linked \cup {NULL}, linked : BOOLEAN]
      BY DEF Ordered, Inv, ObjectInv, Walk
    <3> QED
      BY <2>1, <3>1 DEF OpenWalk
  <2>2. CASE OpenEnd
    BY <2>2 DEF OpenEnd, NoOpen
  <2>3. CASE Use
    BY <2>3 DEF Use, Call, Close, Enable, ThreadEnds
  <2> QED
    BY <2>1, <2>2, <2>3
<1>4. file' \in {file, open.asked, NULL} /\ (file' \in linked \/ file' = NULL)
  <2>1. file' \in {file, open.asked, NULL}
    BY DEF OpenWalk, OpenEnd, Use, Call, Close, Enable, ThreadEnds
  <2>2. ListTypes'
    BY ProgramListTypes DEF Ordered, Open
  <2> QED
    BY <1>1, <2>1, <2>2 DEF ListTypes
<1>5. sampling' \subseteq sampling \cup {file} \cup Listed
  BY DEF OpenWalk, OpenEnd, Use, Call, Close, Enable, ThreadEnds, StartSampling, Listed
<1>6. ASSUME NEW p \in Used'
      PROVE  p \in Live' \/ Seen'
  <2>1. p \in Used \/ p \in Listed
    BY <1>1, <1>3, <1>4, <1>5, <1>6 DEF Used
  <2> QED
    BY <1>2, <2>1 DEF UseInv, Live
<1>7. ASSUME NEW p \in {file', open'.asked} \ {NULL}
      PROVE  Complete(p)'
  BY <1>2, <1>3, <1>4, <1>7 DEF UseInv
<1> QED
  BY <1>1, <1>3, <1>6, <1>7 DEF UseInv

LEMMA NextUsers ==
  ASSUME Ordered, UsersInv, Next
  PROVE  UsersInv'
<1>1. fault = "none" /\ UseInv
  BY DEF Next, UsersInv
<1> QED
  BY <1>1, QuietUsers, ListedUsers, OpenBeginUsers, ProgramUsers
  DEF Next, Probe, Remove, Open, UsersInv

-----------------------------------------------------------------------------
(* The faults.                                                               *)

\* What is used while it is there: neither the struct nor its code is gone.
LEMMA UsedThere ==
  ASSUME Ordered, UseInv, fault = "none", command.op /= "detach", ~ Seen, NEW o \in Used
  PROVE  ~ Gone(o) /\ Fault(o) = "none"
<1>1. o \in Live
  BY DEF UseInv
<1>2. ~ Gone(o) /\ o \notin freed
  BY <1>1, LiveThere
<1> QED
  BY <1>2 DEF Fault

\* A step with a fault leaves the command, the open and the events as they are.
Cause ==
  \/ command.op = "detach"
  \/ open.asked /= NULL /\ ~ open.linked
  \/ Seen

LEMMA UseFaults ==
  ASSUME Ordered, UseInv, fault = "none", fault' /= "none", Use
  PROVE  /\ UNCHANGED <<command, open, events>>
         /\ fault' = "freed" => Cause
         /\ fault' = "unready" => Early
         /\ fault' = "oops" => file' /= NULL /\ all_samples' = NULL
<1>1. UNCHANGED <<command, open, events>>
  BY DEF Use, Call, Close, Enable, ThreadEnds
<1>2. ~ Cause => command.op /= "detach" /\ ~ Seen
  BY DEF Cause
<1>3. CASE \E o \in Elements(device_list) : Enable(o)
  BY <1>3 DEF Enable
<1>4. CASE \E o \in sampling : ThreadEnds(o)
  <2>1. PICK o \in sampling : fault' = Fault(o)
    BY <1>4 DEF ThreadEnds
  <2>2. o \in Used
    <3>1. sampling \subseteq linked /\ linked \subseteq 1 .. made
      BY DEF Ordered, Inv, ListInv, ListTypes, ObjectInv, ObjectTypes
    <3>2. \A n \in 1 .. made : n /= NULL
      BY DEF NULL
    <3> QED
      BY <3>1, <3>2 DEF Used
  <2>3. fault' = "freed"
    BY <2>1 DEF Fault
  <2> QED
    BY <1>1, <1>2, <2>1, <2>2, <2>3, UsedThere
<1>5. CASE Close
  <2>1. file \in Used /\ fault' = "freed" /\ Gone(file)
    BY <1>5 DEF Close, Used
  <2> QED
    BY <1>1, <1>2, <2>1, UsedThere
<1>6. CASE Call
  <2>1. file \in Used /\ file /= NULL
    BY <1>6 DEF Call, Used
  <2>2. CASE Fault(file) = "none" /\ ~ Ready(file) /\ fault' = "unready"
    <3>1. Complete(file) /\ file \in linked
      BY <2>1 DEF UseInv, Ordered, Inv, ListInv, ListTypes
    <3>2. failed \cap linked = {}
      BY DEF Ordered, StructInv
    <3> QED
      BY <1>1, <2>2, <3>1, <3>2 DEF Complete
  <2>3. CASE fault' = Fault(file)
    <3>1. fault' = "freed"
      BY <2>3 DEF Fault
    <3> QED
      BY <1>1, <1>2, <2>1, <2>3, <3>1, UsedThere
  <2>4. CASE fault' = "oops" /\ all_samples = NULL
    <3>1. UNCHANGED <<file, all_samples>>
      BY <1>6 DEF Call, driver
    <3> QED
      BY <1>1, <2>1, <2>4, <3>1
  <2> QED
    BY <1>6, <2>2, <2>3, <2>4 DEF Call, Ready
<1> QED
  BY <1>3, <1>4, <1>5, <1>6 DEF Use

LEMMA OpenFaults ==
  ASSUME Ordered, UseInv, fault = "none", fault' /= "none", Open
  PROVE  UNCHANGED <<command, open, events>> /\ fault' = "freed" /\ Cause
<1>1. OpenWalk \/ OpenEnd
  BY DEF Open, OpenBegin
<1>2. UNCHANGED <<command, open, events>> /\ open.asked /= NULL
  BY <1>1 DEF OpenWalk, OpenEnd
<1>3. fault' = "freed"
  BY <1>1 DEF OpenWalk, OpenEnd, Fault
<1>4. ASSUME open.linked, command.op /= "detach", ~ Seen
      PROVE  FALSE
  <2>1. /\ open.asked \in linked /\ open.temp \in linked /\ open.asked <= open.temp
        /\ linked \subseteq 1 .. made /\ made \in Nat
    BY <1>2, <1>4 DEF Ordered, Inv, BusInv, BusTypes, ObjectInv, ObjectTypes, Walk
  <2>2. open.asked \in Used
    BY <1>2, <2>1 DEF Used
  <2>3. Fault(open.asked) = "none" /\ open.asked \in Live
    BY <1>4, <2>2, UsedThere DEF UseInv
  <2>4. OpenWalk /\ open.temp \in freed /\ open.temp /= open.asked
    BY <1>1, <1>3, <2>3 DEF OpenWalk, OpenEnd
  <2>5. open.asked < open.temp
    <3>1. \A m, n \in 1 .. made : m <= n /\ m /= n => m < n
      OBVIOUS
    <3> QED
      BY <2>1, <2>4, <3>1
  <2> QED
    BY <1>4, <2>1, <2>3, <2>4, <2>5, LiveFirst
<1> QED
  BY <1>2, <1>3, <1>4 DEF Cause

LEMMA NextFaults ==
  ASSUME Ordered, UsersInv, Next, fault' /= "none"
  PROVE  FaultsHaveCause'
<1>1. fault = "none" /\ UseInv /\ command \in CommandOK
  BY DEF Next, UsersInv, Ordered, Inv, BusInv, BusTypes
<1>2. CASE Use
  BY <1>1, <1>2, UseFaults DEF FaultsHaveCause, Cause, Seen, Early
<1>3. CASE Open
  BY <1>1, <1>3, OpenFaults DEF FaultsHaveCause, Cause, Seen
<1>4. CASE MakeClass
  <2>1. fault' = "oops" /\ gko_class /\ UNCHANGED <<command, made>> /\ At("class")
    BY <1>1, <1>4 DEF MakeClass, objects
  <2>2. made > 0
    BY <2>1 DEF Ordered, StructInv, At
  <2> QED
    BY <2>1, <2>2 DEF FaultsHaveCause, At
<1>5. CASE AddDevice
  <2>1. fault' = "oops" /\ UNCHANGED command /\ At("list")
    BY <1>1, <1>5 DEF AddDevice
  <2> QED
    BY <2>1 DEF FaultsHaveCause, At
<1>6. CASE Unlist
  <2>1. /\ fault' = "freed" /\ UNCHANGED command /\ command.at = "unlist"
        /\ gko_device[command.device] \notin Elements(class)
    BY <1>1, <1>6 DEF Unlist, At
  <2>2. ASSUME command.op = "unregister"
        PROVE  FALSE
    <3>1. ClassInOrder /\ Shift = 0 /\ Inv
      BY <1>1, <2>1, <2>2 DEF Ordered, ClassInv, Shift, Deleted
    <3>2. Len(bound) > 0 /\ bound[1] = command.device
      BY <2>1, <2>2, FirstBound DEF AtRemove, Ordered
    <3>3. 1 \in 1 .. Len(class) /\ 1 + Shift = 1
      <4>1. Len(class) = Len(bound) - Shift /\ Len(bound) \in Nat
        BY <1>1, <3>1, ClassLengths
      <4> QED
        BY <3>1, <3>2, <4>1
    <3>4. gko_device[bound[1]] = class[1]
      BY <3>1, <3>3 DEF ClassInOrder, Matched
    <3> QED
      BY <2>1, <3>2, <3>3, <3>4 DEF Elements
  <2>3. command.op = "detach"
    BY <2>1, <2>2 DEF Ordered, Inv, BusInv, CommandWhere, AtRemove, Detaching
  <2> QED
    BY <2>1, <2>3 DEF FaultsHaveCause
<1>7. CASE \/ Administrator \/ NewDevice \/ AllocBuffer \/ Link \/ InitBuffer
           \/ Deregister \/ Free
  BY <1>1, <1>7 DEF Administrator, InsmodDevice, InsmodDriver, Rmmod, NextDevice,
     CommandEnds, NewDevice, AllocBuffer, Link, InitBuffer, Deregister, Free
<1> QED
  BY <1>2, <1>3, <1>4, <1>5, <1>6, <1>7 DEF Next, Probe, Remove

\* Whatever is used when it is not there has a cause that is named: the driver is
\* unloaded first, the open is of a device that is not in the list, or a device was
\* opened or in use when it was removed.  The walk of the list at HEAD without a lock,
\* through structs that stay in it when they are freed, is no cause for any number of
\* devices and loads, and neither is a class that destroys the first device it finds.
THEOREM FaultsCaused == Spec => []FaultsHaveCause
<1> DEFINE All == Ordered /\ UsersInv /\ FaultsHaveCause
<1>1. Init => All
  BY InitOrdered, InitUsers DEF Init, FaultsHaveCause
<1>2. ASSUME All, [Next]_vars
      PROVE  All'
  <2>1. Ordered'
    BY <1>2, NextOrdered
  <2>2. CASE Next
    <3>1. UsersInv'
      BY <1>2, <2>2, NextUsers
    <3>2. FaultsHaveCause'
      <4>1. CASE fault' = "none"
        BY <4>1 DEF FaultsHaveCause
      <4>2. CASE fault' /= "none"
        BY <1>2, <2>2, <4>2, NextFaults
      <4> QED
        BY <4>1, <4>2
    <3> QED
      BY <2>1, <3>1, <3>2
  <2>3. CASE UNCHANGED vars
    <3>1. /\ UNCHANGED <<open, file, sampling, events, command, fault, made, all_samples>>
          /\ UNCHANGED <<hcsr_dev, misc, failed, linked, device_list>>
      BY <2>3 DEF vars, objects, driver, kernel, users
    <3>2. UsersInv'
      BY <1>2, <3>1 DEF UsersInv, UseInv, Used, Live, Listed, Current, Seen, Complete, Ready,
         Early
    <3>3. FaultsHaveCause'
      BY <1>2, <3>1 DEF FaultsHaveCause, At
    <3> QED
      BY <2>1, <3>2, <3>3
  <2> QED
    BY <1>2, <2>2, <2>3
<1>3. All => FaultsHaveCause
  OBVIOUS
<1> HIDE DEF All
<1> QED
  BY <1>1, <1>2, <1>3, PTL DEF Spec
=============================================================================
